CONSTANTS
    MemberIds = {}
    GroupIds = {}
    MatchKeys <- MCMatchKeys
    MemberData <- MCMemberData
    MaxSizes = {1}
    CounterIdx <- MCCounterIdx
    MaxCount = 2
    Absent = Absent
    FaultyOps <- MCFaultyOps
    ArcType = "psa"
    CtrPackets = CtrPackets
    CtrBytes = CtrBytes
    CounterTables <- MCCounterTables
    Index <- MCIndex
    PacketsTable = CtrPackets
    BytesTable = CtrBytes
    Rules <- MCRules
    DelRules <- MCDelRules
    NoData = NoData

SPECIFICATION Spec

\* The test process exits after tearDown.
CHECK_DEADLOCK FALSE

INVARIANT TypeOK
