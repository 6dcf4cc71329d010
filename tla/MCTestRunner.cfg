CONSTANTS
    Orig <- MCOrig
    ArgChoices <- MCArgChoices
    Outputs <- MCOutputs
    Undecodable = Undecodable
    NoFile = NoFile
    NoArg = NoArg
    MaxRuns = 2
SPECIFICATION Spec
INVARIANT ParamsAsGiven
CHECK_DEADLOCK FALSE
