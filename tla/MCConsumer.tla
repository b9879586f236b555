------------------------------ MODULE MCConsumer ------------------------------
EXTENDS Consumer, TLC

AllConsumerFaults == ConsumerFaultKinds

\* Pyth before CoinGecko, Pyth before er-api: prices that round up, tie, round
\* to nothing, overflow, and are no price.
MCCryptoLegs == <<"pyth ADA", "coingecko">>
MCFiatLegs == <<"pyth FX", "er-api">>
MCTimed == {"pyth ADA", "pyth FX"}
MCUnfiltered == {"coingecko"}
MCPricesOf == ("pyth ADA" :> {1}) @@ ("coingecko" :> {0, 4}) @@ ("pyth FX" :> {5}) @@ ("er-api" :> {0, 4})

MCAmounts ==
    { [whole |-> 1, frac |-> <<5>>], [whole |-> Blank, frac |-> <<0, 7, 9>>],
      [whole |-> 1, frac |-> <<Plus, 5>>], [whole |-> 1, frac |-> <<Wide>>],
      [whole |-> 1, frac |-> <<Wider>>], [whole |-> 1, frac |-> <<Other, 1, Wider>>],
      [whole |-> 1, frac |-> <<5, Wide>>] }

=============================================================================
