CONSTANTS
    Txs = {t1}
    Cap = 3
    MaxRollback = 2
    MaxHeight = 6
    Faults <- AllFaults
    MaxFaults = 3
SPECIFICATION FairSpec
INVARIANTS BuriedIsTrue InclusionSeen StrandedIsYoung
PROPERTIES CatchesUp ImplementsConfirmations
CHECK_DEADLOCK FALSE
