CONSTANTS
    Count <- MCCount
    Losses <- MCLosses
    Faults <- MCReadFaults
    NoResult = NoResult
    MaxCalls = 1
    Running = Running
SPECIFICATION Spec
\* One helper call; the test goes on without the console afterwards.
CHECK_DEADLOCK FALSE
INVARIANT DropVerdictSound
