CONSTANTS
    MemberIds <- MCMemberIds
    GroupIds = {"g1", "g2"}
    MatchKeys <- MCMatchKeys
    MemberData <- MCMemberData
    MaxSizes = {2}
    CounterIdx = {c1}
    MaxCount = 0
    Absent = Absent
    FaultyOps <- MCFaultyOps
    MemberDetails <- MCMemberDetails
    GroupDetails <- MCGroupDetails
    DelGroup <- MCDelGroup
    DelMember <- MCDelMember

SPECIFICATION Spec

\* The test process exits after tearDown.
CHECK_DEADLOCK FALSE

INVARIANT TypeOK
 
