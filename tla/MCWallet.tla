------------------------------ MODULE MCWallet ------------------------------
(* Wallet with the network's fee parameters and small wallets.             *)
EXTENDS Wallet

AllFaults == FaultKinds

\* Debts that are paid, too small for the ledger, and rejected: zero rate,
\* overflow of the product, rounding to nothing, beyond the lovelace domain.
SomeDebts == {<<7, 3>>, <<50, 100>>, <<1, 0>>, <<2100, 100>>, <<1, 2000000>>, <<2000, 1>>}

CoinValues == {1000000, 1170000, 2600000}

GenesisCoin(n, value) == [id |-> <<0, n>>, lovelace |-> value, adaOnly |-> TRUE]

TokenCoin == [id |-> <<0, 0>>, lovelace |-> 9000000, adaOnly |-> FALSE]

\* Up to three coins, and one with tokens.
SmallWallets ==
    {{TokenCoin} \cup {GenesisCoin(n, f[n]) : n \in {m \in 1..3 : f[m] # 0}} :
        f \in {g \in [1..3 -> CoinValues \cup {0}] : g[1] >= g[2] /\ g[2] >= g[3]}}

=============================================================================
