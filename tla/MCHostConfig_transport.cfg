\* The namespace calls and the ping test, checked against the Execute contract.
CONSTANTS
    Objects <- MCObjects
    Needs <- MCNeeds
    Calls <- PingCalls
    InitHosts <- MCInitHosts
    Remotes = {TRUE, FALSE}
    ConnectOutcomes = {"ok", "denied"}
    MaxCalls = 3
    Window = 1
    NoCall = NoCall
    NoResult = NoResult
SPECIFICATION Spec
PROPERTY ImplementsTransport
CHECK_DEADLOCK FALSE
