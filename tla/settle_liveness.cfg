CONSTANTS
    Keys = {k1, k2}
    Handlers = {h1}
    Builds = {b1}
    FinalityDepth = 2
    MaxRollback = 1
    CapDepth = 2
    RailReportsRejection = FALSE
    Faults = {"timeout", "fork"}
    MaxFaults = 1
    NoKey = NoKey
    NoTx = NoTx
SPECIFICATION FairSpec
PROPERTIES SettlingEnds SubmittedResolved
