CONSTANTS
    Keys = {k1}
    Handlers = {h1}
    Builds = {b1}
    FinalityDepth = 2
    MaxRollback = 1
    CapDepth = 2
    RailReportsRejection = FALSE
    Faults = {"crash"}
    MaxFaults = 1
    NoKey = NoKey
    NoTx = NoTx
SPECIFICATION FairSpec
PROPERTIES SubmittedResolved
