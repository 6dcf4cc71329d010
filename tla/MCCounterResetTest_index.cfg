CONSTANTS
    MemberIds = {}
    GroupIds = {}
    MatchKeys <- MCMatchKeys
    MemberData <- MCMemberData
    MaxSizes = {1}
    CounterIdx <- MCCounterIdxOne
    MaxCount = 2
    Absent = Absent
    FaultyOps <- MCNoFaults
    ArcType = "psa"
    CtrPackets = CtrPackets
    CtrBytes = CtrBytes
    CounterTables <- MCCounterTables
    Index <- MCIndexOne
    PacketsTable = CtrPackets
    BytesTable = CtrBytes
    Rules <- MCRules
    DelRules <- MCDelRules
    NoData = NoData

SPECIFICATION Spec

\* The test process exits after tearDown.
CHECK_DEADLOCK FALSE

INVARIANT PassImpliesResetObserved
