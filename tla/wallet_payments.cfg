CONSTANTS
    Writers = {w1, w2}
    Debts <- SomeDebts
    Wallets <- SmallWallets
    LovelacePerAda = 1000000
    MinUtxoLovelace = 1000000
    FeeSizeMargin = 4
    FirstEstimate = 250
    MaxFeeIters = 8
    FeeCoefficient = 44
    FeeConstant = 155381
    MaxTxSize = 480
    BaseSize = 300
    InputSize = 36
    OutputSize = 32
    LedgerMin = 969750
    MaxU64 = 1900000000
    MaxU128 = 2000000000
    MaxTxs = 2
    Faults <- AllFaults
    MaxFaults = 1
    None = None
SPECIFICATION FairSpec
INVARIANTS TypeOK BuiltIsValid PaysTheDebt RefusedOnlyBehindAnother
PROPERTIES AttemptEnds
CHECK_DEADLOCK FALSE
