CONSTANTS
    Messages = {m1}
    Amounts <- MCAmounts
    BackoffMax = 3
    ConsumerFaults <- AllConsumerFaults
    MaxConsumerFaults = 3
    None = None
    CryptoLegs <- MCCryptoLegs
    FiatLegs <- MCFiatLegs
    Timed <- MCTimed
    Unfiltered <- MCUnfiltered
    PricesOf <- MCPricesOf
    Unit = 10
    MaxMinor = 2
    MaxStale = 0
    MaxU128 = 200
    MaxPublished = 1
    Never = Never
SPECIFICATION FairSpec
INVARIANTS TypeOK BackoffFits DebtIsAmount
PROPERTIES QuoteIsBacked EveryoneAnswered
CHECK_DEADLOCK FALSE
