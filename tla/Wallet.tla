------------------------------- MODULE Wallet -------------------------------
(***************************************************************************)
(* The node's one Cardano wallet and the tasks that pay from it: the       *)
(* dispatcher's notary writes (cardano/mod.rs, write_notary) and the ADA   *)
(* settlements (cardano/settlement.rs, settle and submit_ada_transfer).    *)
(* Both size a payment, take the submit lock, read the wallet's UTxOs,     *)
(* build a balanced transaction (cardano/tx.rs, build_signed_payment: coin *)
(* selection, fee loop and change) and submit it.  The Cardano node is     *)
(* external: its mempool is not part of the UTxO query's answer.           *)
(*                                                                         *)
(* Amounts are in lovelace.  A transaction is the record BuildDone makes;  *)
(* its CBOR is abstracted to its length.                                   *)
(***************************************************************************)
EXTENDS Integers, FiniteSets, FiniteSetsExt

CONSTANTS
    Writers,        \* tasks that pay from the wallet
    Debts,          \* <<net_amount_minor, minor_per_whole_asset>> to settle
    Wallets,        \* contents the wallet may start with: sets of coins
    LovelacePerAda, MinUtxoLovelace, FeeSizeMargin, FirstEstimate, MaxFeeIters,
    FeeCoefficient, FeeConstant, MaxTxSize,  \* protocol parameters
    BaseSize, InputSize, OutputSize,         \* bytes of an encoded transaction
    LedgerMin,      \* the ledger's own minimum for an output
    MaxU64, MaxU128,\* the integer widths
    MaxTxs,         \* payments attempted in all
    Faults,         \* fault kinds that may occur
    MaxFaults,      \* how many faults may occur in all
    None

FaultKinds == {"transport", "internal", "lost", "expire", "crash"}

ASSUME WalletAssumption ==
    /\ {LovelacePerAda, MinUtxoLovelace, FeeCoefficient, MaxFeeIters} \subseteq Nat \ {0}
    /\ {FeeSizeMargin, FirstEstimate, FeeConstant, MaxTxSize, MaxTxs, MaxFaults} \subseteq Nat
    /\ {BaseSize, InputSize, OutputSize, LedgerMin, MaxU64, MaxU128} \subseteq Nat
    /\ LedgerMin <= MinUtxoLovelace
    /\ Debts \subseteq Nat \X Nat
    /\ \A coins \in Wallets : IsFiniteSet(coins) /\ \A c \in coins : c.lovelace \in Nat \ {0}
    /\ Faults \subseteq FaultKinds
    /\ None \notin Writers

\* What the network and MAX_FEE_ITERS contribute to the fee loop's convergence:
\* the fees of two transactions differ by less than the smallest coin the ledger
\* lets exist, and an output carries an address.
ASSUME FeeLoopAssumption ==
    /\ 7 <= MaxFeeIters
    /\ 8 <= OutputSize
    /\ FeeCoefficient * (MaxTxSize + FeeSizeMargin) <= LedgerMin
    /\ \A coins \in Wallets : \A c \in coins : c.lovelace >= LedgerMin

VARIABLES
    ledger,   \* node: the wallet's unspent coins
    mempool,  \* node: transactions it has taken and not yet included
    inflight, \* submissions given up on that may still reach the node
    refused,  \* transactions the node refused while their writer waited
    lock,     \* submit_lock: its holder
    pc,       \* writer: where it is
    job,      \* writer: the payment in hand
    view,     \* writer: the spendable UTxOs it read
    behind,   \* writer: whether a payment was under way when it read them
    fee,      \* writer: build_signed_payment's fee
    pass,     \* writer: passes of the fee loop
    tx,       \* writer: the signed transaction
    result,   \* writer: how its last payment ended
    built,    \* transactions built so far
    started,  \* payments attempted so far
    faults    \* faults so far

nodeVars  == <<ledger, mempool, inflight>>
buildVars == <<view, behind, fee, pass>>
taskVars  == <<lock, pc, job, buildVars, tx, result>>
vars == <<nodeVars, refused, taskVars, built, started, faults>>

-----------------------------------------------------------------------------
(* Sizing a settlement.                                                    *)

\* The division comes first.
MutantDivideFirst(net, rate) == (net \div rate) * LovelacePerAda

Lovelace(net, rate) == (net * LovelacePerAda) \div rate

\* fiat_minor_to_lovelace: zero rate, overflow of the product, an amount that
\* rounds to nothing and one beyond u64 are rejected.
Sizable(net, rate) ==
    /\ rate # 0
    /\ net * LovelacePerAda <= MaxU128
    /\ Lovelace(net, rate) \in 1..MaxU64

-----------------------------------------------------------------------------
(* The transaction builder.                                                *)

Total(coins) == MapThenSumSet(LAMBDA c : c.lovelace, coins)

\* parse_utxos: coins that carry tokens are skipped.
ParseUtxos(coins) == {c \in coins : c.adaOnly}

MinFee(size) == FeeConstant + FeeCoefficient * size

\* select_largest_first: coins in descending order until the target is reached.
\* Among equal coins the transaction hash decides, which here is any of them.
LargestFirst(coins, target) ==
    {chosen \in SUBSET coins :
        /\ \A c \in chosen, d \in coins \ chosen : c.lovelace >= d.lovelace
        /\ Total(chosen) >= target
        /\ \E c \in chosen :
              /\ \A d \in chosen : c.lovelace <= d.lovelace
              /\ Total(chosen \ {c}) < target}

\* Bytes of an unsigned integer in CBOR.
Width(n) == CASE n < 24 -> 1
              [] 24 <= n /\ n < 256 -> 2
              [] 256 <= n /\ n < 65536 -> 3
              [] 65536 <= n /\ n \div 65536 < 65536 -> 5
              [] OTHER -> 9

SizeOf(t) ==
    BaseSize + InputSize * Cardinality(t.inputs) + Width(t.fee)
      + OutputSize + Width(t.pay)
      + (IF t.change = 0 THEN 0 ELSE OutputSize + Width(t.change))

\* All that is left over is change.
MutantDust(remainder) == remainder

\* Change below the minimum output is folded into the fee.
Change(remainder) == IF remainder >= MinUtxoLovelace THEN remainder ELSE 0

\* The transaction one pass of the fee loop assembles from the chosen coins.
Assembled(w, chosen) ==
    LET remainder == Total(chosen) - job[w].pay - fee[w] IN
    [id |-> Cardinality(built) + 1, by |-> w, inputs |-> chosen, pay |-> job[w].pay, self |-> job[w].self,
     debt |-> job[w].debt, change |-> Change(remainder),
     fee |-> fee[w] + (remainder - Change(remainder)), behind |-> behind[w]]

Required(size) == MinFee(size + FeeSizeMargin)

-----------------------------------------------------------------------------
Init ==
    /\ ledger \in Wallets
    /\ mempool = {} /\ inflight = {} /\ refused = {} /\ built = {}
    /\ lock = None
    /\ pc = [w \in Writers |-> "idle"]
    /\ job = [w \in Writers |-> None]
    /\ view = [w \in Writers |-> {}]
    /\ behind = [w \in Writers |-> FALSE]
    /\ fee = [w \in Writers |-> 0]
    /\ pass = [w \in Writers |-> 0]
    /\ tx = [w \in Writers |-> None]
    /\ result = [w \in Writers |-> "none"]
    /\ started = 0 /\ faults = 0

Fault(kind) ==
    /\ kind \in Faults
    /\ faults < MaxFaults
    /\ faults' = faults + 1

Goto(w, place) == pc' = [pc EXCEPT ![w] = place]

\* The writer returns; what it computed is gone.
Return(w, how) ==
    /\ Goto(w, "idle")
    /\ job' = [job EXCEPT ![w] = None]
    /\ view' = [view EXCEPT ![w] = {}]
    /\ behind' = [behind EXCEPT ![w] = FALSE]
    /\ fee' = [fee EXCEPT ![w] = 0]
    /\ pass' = [pass EXCEPT ![w] = 0]
    /\ tx' = [tx EXCEPT ![w] = None]
    /\ result' = [result EXCEPT ![w] = how]

\* An early return keeps the lock.
MutantLockKept(w, how) == Return(w, how) /\ UNCHANGED lock

\* Leaving the function drops the guard.
ReturnUnlocking(w, how) == Return(w, how) /\ lock' = None

-----------------------------------------------------------------------------
(* A payment.                                                              *)

\* write_notary pays the minimum to the wallet itself.
BeginNotary(w) ==
    /\ pc[w] = "idle" /\ started < MaxTxs
    /\ started' = started + 1
    /\ job' = [job EXCEPT ![w] = [pay |-> MinUtxoLovelace, self |-> TRUE, debt |-> None]]
    /\ Goto(w, "query")
    /\ UNCHANGED <<nodeVars, refused, lock, buildVars, tx, result, built, faults>>

\* settle() sizes the debt at the rate of the moment, or rejects it.
BeginSettle(w, net, rate) ==
    /\ pc[w] = "idle" /\ started < MaxTxs
    /\ started' = started + 1
    /\ \/ /\ Sizable(net, rate)
          /\ job' = [job EXCEPT ![w] =
                        [pay |-> Lovelace(net, rate), self |-> FALSE, debt |-> <<net, rate>>]]
          /\ Goto(w, "query")
          /\ UNCHANGED <<buildVars, tx, result>>
       \/ ~Sizable(net, rate) /\ Return(w, "sizing")
    /\ UNCHANGED <<nodeVars, refused, lock, built, faults>>

\* Protocol parameters and tip, before the lock is asked for.
Query(w) ==
    /\ pc[w] = "query"
    /\ Goto(w, "lock")
    /\ UNCHANGED <<nodeVars, refused, lock, job, buildVars, tx, result, built, started, faults>>

QueryFails(w) ==
    /\ pc[w] = "query"
    /\ Fault("transport")
    /\ Return(w, "transport")
    /\ UNCHANGED <<nodeVars, refused, lock, built, started>>

\* The writers do not wait for each other.
MutantNoLock(w) ==
    /\ pc[w] = "lock"
    /\ lock' = w
    /\ Goto(w, "read")
    /\ UNCHANGED <<nodeVars, refused, job, buildVars, tx, result, built, started, faults>>

Lock(w) ==
    /\ pc[w] = "lock" /\ lock = None
    /\ lock' = w
    /\ Goto(w, "read")
    /\ UNCHANGED <<nodeVars, refused, job, buildVars, tx, result, built, started, faults>>

\* utxos_at and parse_utxos; the fee loop starts from an estimate.
ReadUtxos(w) ==
    /\ pc[w] = "read"
    /\ view' = [view EXCEPT ![w] = ParseUtxos(ledger)]
    /\ behind' = [behind EXCEPT ![w] = mempool \cup inflight # {}]
    /\ fee' = [fee EXCEPT ![w] = MinFee(FirstEstimate)]
    /\ Goto(w, "build")
    /\ UNCHANGED <<nodeVars, refused, lock, job, pass, tx, result, built, started, faults>>

ReadFails(w) ==
    /\ pc[w] = "read"
    /\ Fault("transport")
    /\ ReturnUnlocking(w, "transport")
    /\ UNCHANGED <<nodeVars, refused, built, started>>

\* An address, a hash or the metadata cannot be encoded.
BuildFails(w) ==
    /\ pc[w] = "build" /\ pass[w] = 0
    /\ Fault("internal")
    /\ ReturnUnlocking(w, "internal")
    /\ UNCHANGED <<nodeVars, refused, built, started>>

BuildInsufficient(w) ==
    /\ pc[w] = "build"
    /\ Total(view[w]) < job[w].pay + fee[w]
    /\ ReturnUnlocking(w, "insufficient")
    /\ UNCHANGED <<nodeVars, refused, built, started, faults>>

BuildTooLarge(w, t) ==
    /\ SizeOf(t) > MaxTxSize
    /\ ReturnUnlocking(w, "too large")
    /\ UNCHANGED built

BuildDone(w, t) ==
    /\ SizeOf(t) <= MaxTxSize
    /\ t.fee >= Required(SizeOf(t))
    /\ tx' = [tx EXCEPT ![w] = t]
    /\ built' = built \cup {t}
    /\ Goto(w, "submit")
    /\ UNCHANGED <<lock, job, buildVars, result>>

NextFee(w, t) == Required(SizeOf(t))

\* An underpaid transaction is built again with the fee its size requires, at
\* most MAX_FEE_ITERS times.
BuildUnderpaid(w, t) ==
    /\ SizeOf(t) <= MaxTxSize
    /\ t.fee < Required(SizeOf(t))
    /\ IF pass[w] + 1 = MaxFeeIters
       THEN ReturnUnlocking(w, "did not converge")
       ELSE /\ fee' = [fee EXCEPT ![w] = NextFee(w, t)]
            /\ pass' = [pass EXCEPT ![w] = @ + 1]
            /\ UNCHANGED <<lock, pc, job, view, behind, tx, result>>
    /\ UNCHANGED built

BuildPass(w) ==
    /\ pc[w] = "build"
    /\ \E chosen \in LargestFirst(view[w], job[w].pay + fee[w]) :
          LET t == Assembled(w, chosen) IN
          BuildTooLarge(w, t) \/ BuildDone(w, t) \/ BuildUnderpaid(w, t)
    /\ UNCHANGED <<nodeVars, refused, started, faults>>

-----------------------------------------------------------------------------
(* The node.                                                               *)

Balanced(t) == Total(t.inputs) = t.pay + t.change + t.fee

Outputs(t) == {t.pay} \cup (IF t.change = 0 THEN {} ELSE {t.change})

\* The ledger rules the builder has to meet, and the ones it cannot see.
WellFormed(t) == Balanced(t) /\ t.fee >= MinFee(SizeOf(t))

Acceptable(t) ==
    /\ WellFormed(t)
    /\ \A out \in Outputs(t) : out >= LedgerMin
    /\ t.inputs \subseteq ledger
    /\ \A u \in mempool : t.inputs \cap u.inputs = {}

SubmitAccepted(w) ==
    /\ pc[w] = "submit" /\ Acceptable(tx[w])
    /\ mempool' = mempool \cup {tx[w]}
    /\ ReturnUnlocking(w, "submitted")
    /\ UNCHANGED <<ledger, inflight, refused, built, started, faults>>

SubmitRefused(w) ==
    /\ pc[w] = "submit" /\ ~Acceptable(tx[w])
    /\ refused' = refused \cup {tx[w]}
    /\ ReturnUnlocking(w, "refused")
    /\ UNCHANGED <<nodeVars, built, started, faults>>

\* The node takes it and answers with another id than the one computed.
SubmitMismatched(w) ==
    /\ pc[w] = "submit" /\ Acceptable(tx[w])
    /\ Fault("internal")
    /\ mempool' = mempool \cup {tx[w]}
    /\ ReturnUnlocking(w, "internal")
    /\ UNCHANGED <<ledger, inflight, refused, built, started>>

\* The answer does not come; the lock is free while the submission is not done.
SubmitUnanswered(w) ==
    /\ pc[w] = "submit"
    /\ Fault("lost")
    /\ inflight' = inflight \cup {tx[w]}
    /\ ReturnUnlocking(w, "transport")
    /\ UNCHANGED <<ledger, mempool, refused, built, started>>

\* A submission given up on reaches the node, which takes it or not.
LateSubmit(t) ==
    /\ t \in inflight
    /\ inflight' = inflight \ {t}
    /\ mempool' = IF Acceptable(t) THEN mempool \cup {t} ELSE mempool
    /\ UNCHANGED <<ledger, refused, taskVars, built, started, faults>>

Coin(t, n, value) == [id |-> <<t.id, n>>, lovelace |-> value, adaOnly |-> TRUE]

\* A block spends the inputs and creates the outputs that are the wallet's.
Include(t) ==
    /\ t \in mempool
    /\ mempool' = mempool \ {t}
    /\ ledger' = (ledger \ t.inputs)
                   \cup (IF t.self THEN {Coin(t, 1, t.pay)} ELSE {})
                   \cup (IF t.change = 0 THEN {} ELSE {Coin(t, 2, t.change)})
    /\ UNCHANGED <<inflight, refused, taskVars, built, started, faults>>

\* The TTL passes before a block took it.
Expire(t) ==
    /\ t \in mempool
    /\ Fault("expire")
    /\ mempool' = mempool \ {t}
    /\ UNCHANGED <<ledger, inflight, refused, taskVars, built, started>>

\* The process dies and comes back; a submission may be on its way.
Crash ==
    /\ Fault("crash")
    /\ lock' = None
    /\ pc' = [w \in Writers |-> "idle"]
    /\ job' = [w \in Writers |-> None]
    /\ view' = [w \in Writers |-> {}]
    /\ behind' = [w \in Writers |-> FALSE]
    /\ fee' = [w \in Writers |-> 0]
    /\ pass' = [w \in Writers |-> 0]
    /\ tx' = [w \in Writers |-> None]
    /\ result' = [w \in Writers |-> "none"]
    /\ \E sent \in SUBSET {tx[w] : w \in {v \in Writers : pc[v] = "submit"}} :
          inflight' = inflight \cup sent
    /\ UNCHANGED <<ledger, mempool, refused, built, started>>

WriterStep(w) ==
    \/ Query(w) \/ QueryFails(w)
    \/ Lock(w)
    \/ ReadUtxos(w) \/ ReadFails(w)
    \/ BuildFails(w) \/ BuildInsufficient(w) \/ BuildPass(w)
    \/ SubmitAccepted(w) \/ SubmitRefused(w) \/ SubmitMismatched(w) \/ SubmitUnanswered(w)

NodeStep ==
    \/ \E t \in inflight : LateSubmit(t)
    \/ \E t \in mempool : Include(t) \/ Expire(t)

Next ==
    \/ \E w \in Writers : BeginNotary(w)
    \/ \E w \in Writers, d \in Debts : BeginSettle(w, d[1], d[2])
    \/ \E w \in Writers : WriterStep(w)
    \/ NodeStep
    \/ Crash

Spec == Init /\ [][Next]_vars

\* Every task goes on, and the lock is handed to whoever waits for it.
FairSpec ==
    /\ Spec
    /\ \A w \in Writers : WF_vars(WriterStep(w))

-----------------------------------------------------------------------------
(* Properties.                                                             *)

Places  == {"idle", "query", "lock", "read", "build", "submit"}
Results == {"none", "sizing", "transport", "internal", "insufficient", "too large",
            "did not converge", "refused", "submitted"}

\* The types of the variables; the lock is held exactly from the UTxO read to
\* the end of the submission.
TypeOK ==
    /\ mempool \cup inflight \cup refused \subseteq built
    /\ \A c \in ledger : c.lovelace \in Nat \ {0}
    /\ pc \in [Writers -> Places]
    /\ \A w \in Writers : lock = w <=> pc[w] \in {"read", "build", "submit"}
    /\ fee \in [Writers -> Nat]
    /\ pass \in [Writers -> 0..(MaxFeeIters - 1)]
    /\ \A w \in Writers : pc[w] = "submit" => tx[w] \in built
    /\ result \in [Writers -> Results]
    /\ started \in 0..MaxTxs /\ faults \in 0..MaxFaults

Valid(t) == WellFormed(t) /\ (t.change = 0 \/ t.change >= MinUtxoLovelace)

\* Whatever the wallet holds, the fee loop of build_signed_payment never runs out
\* of passes, and what it builds balances, pays the fee its final size calls
\* for and leaves no change below the minimum.
BuiltIsValid ==
    /\ \A t \in built : Valid(t)
    /\ \A w \in Writers : result[w] # "did not converge"

Pays(t) ==
    t.debt # None =>
        LET net == t.debt[1] rate == t.debt[2] IN
        /\ t.pay * rate <= net * LovelacePerAda
        /\ net * LovelacePerAda < (t.pay + 1) * rate

\* A settlement pays its debt at the quoted rate, to the last whole lovelace.
PaysTheDebt == \A t \in built : Pays(t)

\* What the submit lock is for: the node refuses a transaction only when an
\* earlier payment of the wallet was still on its way at the time the coins
\* were read, or when the payment is too small for the ledger.
RefusedOnlyBehindAnother ==
    \A t \in refused : t.behind \/ t.pay < LedgerMin

\* No payment is stuck: every attempt ends, paid or not, whatever fails on the
\* way, and the lock it held is free again.
AttemptEnds == \A w \in Writers : (pc[w] # "idle") ~> (pc[w] = "idle")

=============================================================================
