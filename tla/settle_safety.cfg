CONSTANTS
    Keys = {k1}
    Handlers = {h1}
    Builds = {b1, b2}
    FinalityDepth = 3
    MaxRollback = 2
    CapDepth = 4
    RailReportsRejection = TRUE
    Faults <- AllFaults
    MaxFaults = 5
    NoKey = NoKey
    NoTx = NoTx
SPECIFICATION Spec
INVARIANTS AtMostOncePayment FinalIsBuried ToldIsTrue
PROPERTIES ImplementsPayOnce
