CONSTANTS
    MemberIds = {"m1", "m2"}
    GroupIds = {"g1", "g2"}
    MatchKeys <- MCMatchKeys
    MemberData <- MCMemberData
    MaxSizes = {2}
    CounterIdx = {c1}
    MaxCount = 0
    Absent = Absent
    FaultyOps <- MCNoFaults
    Tests <- MCOtherTests
    MemberDetails <- MCMemberDetails
    GroupDetails <- MCGroupDetails
    SelectorRules <- MCSelectorRules
    ProfileRules <- MCProfileRules
    SelectorDelAction <- MCSelectorRules
    ProfileDelAction <- MCProfileRules
    DelGroup <- MCDelGroup
    DelMember <- MCDelMember

SPECIFICATION Spec

\* The test process exits after tearDown.
CHECK_DEADLOCK FALSE

INVARIANT CleanTeardown
