\* Every utility, over SSH and locally, three calls per behaviour.
CONSTANTS
    Objects <- MCObjects
    Needs <- MCNeeds
    Calls <- MCCalls
    InitHosts <- MCInitHosts
    Remotes = {TRUE, FALSE}
    ConnectOutcomes = {"ok", "denied"}
    MaxCalls = 3
    Window = 1
    NoCall = NoCall
    NoResult = NoResult
SPECIFICATION Spec
INVARIANTS PingTrueMeansReplies TrueMeansCommandsSucceeded
CHECK_DEADLOCK FALSE
