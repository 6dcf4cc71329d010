CONSTANTS
    MemberIds = {m1, m2}
    GroupIds = {g1}
    MatchKeys <- MCMatchKeys
    MemberData <- MCMemberData
    MaxSizes = {1, 2}
    CounterIdx = {c1}
    MaxCount = 1
    Absent = Absent
    FaultyOps <- MCFaultyOps

SPECIFICATION Spec

PROPERTY MemberReadbackExact
PROPERTY GroupReadbackSound
