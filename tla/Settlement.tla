----------------------------- MODULE Settlement -----------------------------
(***************************************************************************)
(* The value leg of the node: the settlement_instruction handler of        *)
(* interface_c/router.rs, the durable SettlementStore it claims rows in,   *)
(* CardanoAdaSettlement::settle, and the FinalityWatcher that promotes     *)
(* rows.  The Cardano node, its mempool and its chain are external.  Of    *)
(* the chain and the chain-sync follower it has what module Confirmations  *)
(* promises, which module ChainFollower implements.                        *)
(*                                                                         *)
(* OBP-API redelivers an instruction as often as it likes, so there is no  *)
(* queue: any instruction may be delivered to an idle handler at any time. *)
(***************************************************************************)
EXTENDS Naturals, FiniteSets

CONSTANTS
    Keys,          \* idempotency keys of the instructions OBP-API may send
    Handlers,      \* concurrent handlers; the shipped consumer is one task
    Builds,        \* distinct transaction bodies one instruction may produce
    FinalityDepth, \* settlement.finality_depth of the configuration
    MaxRollback,   \* deepest fork the chain ever switches away from
    CapDepth,      \* depths are counted up to this bound
    RailReportsRejection, \* confirm() of the rail can answer Rejected
    Faults,        \* fault kinds that may occur
    MaxFaults,     \* how many faults may occur in all
    NoKey, NoTx

FaultKinds == {"crash", "store", "timeout", "fork", "expire", "follower"}

ASSUME SettlementAssumption ==
    /\ FinalityDepth \in Nat /\ MaxRollback \in Nat
    /\ CapDepth \in Nat /\ MaxFaults \in Nat
    /\ FinalityDepth > MaxRollback /\ CapDepth >= FinalityDepth
    /\ RailReportsRejection \in BOOLEAN /\ Faults \subseteq FaultKinds
    /\ NoKey \notin Keys /\ NoTx \notin Keys \X Builds

\* The idempotency key is folded into the metadata of the transaction, so the
\* transactions of two instructions differ; those of one instruction differ
\* when inputs, rate or validity interval do.
Txs == Keys \X Builds
KeyOf(t) == t[1]

VARIABLES
    status,    \* SettlementStore: status column, "NONE" when there is no row
    retryable, \* SettlementStore: keys whose row has retryable = 1
    txid,      \* SettlementStore: tx_id column
    lastDepth, \* SettlementStore: last_depth column
    pc,        \* per handler: where in settlement_instruction it is
    job,       \* per handler: the instruction in hand
    signed,    \* per handler: the transaction it built
    told,      \* per key: the last reply OBP-API received
    net,       \* per transaction: what the Cardano node did with it
    depth,     \* per transaction: confirmations on the node's chain, 0 = none
    watched,   \* ChainFollower: registered transactions (in memory)
    seen,      \* ChainFollower: depth of each as of the block last processed, 0 = Pending
    work,      \* FinalityWatcher: <<key, tx>> rows left in this tick
    verdict,   \* FinalityWatcher: answer of confirm() for the row in hand
    faults     \* faults so far

storeVars   == <<status, retryable, txid, lastDepth>>
handlerVars == <<pc, job, signed, told>>
chainVars   == <<net, depth>>
followVars  == <<watched, seen>>
watcherVars == <<work, verdict>>
vars == <<storeVars, handlerVars, chainVars, followVars, watcherVars, faults>>

Statuses == {"NONE", "SETTLING", "SUBMITTED", "FINAL", "ERROR"}
Replies  == {"none", "SETTLING", "SUBMITTED", "FINAL", "FAILED", "PLATFORM"}
Places   == {"idle", "claim", "reclaim", "settle", "submit", "await",
             "record", "rejected", "ambiguous"}
Answers  == {"none", "confirmed", "pending", "rejected"}
NoVerdict == [key |-> NoKey, answer |-> "none", depth |-> 0]

TypeOK ==
    /\ status \in [Keys -> Statuses]
    /\ retryable \subseteq Keys
    /\ txid \in [Keys -> Txs \cup {NoTx}]
    /\ lastDepth \in [Keys -> 0..CapDepth]
    /\ pc \in [Handlers -> Places]
    /\ job \in [Handlers -> Keys \cup {NoKey}]
    /\ signed \in [Handlers -> Txs \cup {NoTx}]
    /\ told \in [Keys -> Replies]
    /\ net \in [Txs -> {"none", "wire", "accepted", "refused", "expired"}]
    /\ depth \in [Txs -> 0..CapDepth]
    /\ watched \subseteq Txs
    /\ seen \in [Txs -> 0..CapDepth]
    /\ work \subseteq Keys \X Txs
    /\ verdict \in [key : Keys \cup {NoKey}, answer : Answers, depth : 0..CapDepth]
    /\ faults \in 0..MaxFaults

Init ==
    /\ status = [k \in Keys |-> "NONE"]
    /\ retryable = {}
    /\ txid = [k \in Keys |-> NoTx]
    /\ lastDepth = [k \in Keys |-> 0]
    /\ pc = [h \in Handlers |-> "idle"]
    /\ job = [h \in Handlers |-> NoKey]
    /\ signed = [h \in Handlers |-> NoTx]
    /\ told = [k \in Keys |-> "none"]
    /\ net = [t \in Txs |-> "none"]
    /\ depth = [t \in Txs |-> 0]
    /\ watched = {}
    /\ seen = [t \in Txs |-> 0]
    /\ work = {}
    /\ verdict = NoVerdict
    /\ faults = 0

Fault(kind) ==
    /\ kind \in Faults
    /\ faults < MaxFaults
    /\ faults' = faults + 1

\* A reply is published after the handler is done and its loss is only logged:
\* OBP-API hears it or does not.
Answer(k, r) == told' = told \/ told' = [told EXCEPT ![k] = r]

\* What reply_for_existing tells about a recorded row.
Recorded(s) == IF s = "ERROR" THEN "FAILED" ELSE s

Finish(h) ==
    /\ pc' = [pc EXCEPT ![h] = "idle"]
    /\ job' = [job EXCEPT ![h] = NoKey]
    /\ signed' = [signed EXCEPT ![h] = NoTx]

Goto(h, place) ==
    /\ pc' = [pc EXCEPT ![h] = place]
    /\ UNCHANGED <<job, signed, told>>

-----------------------------------------------------------------------------
(* The handler.                                                            *)

\* A well-formed instruction arrives.  Malformed ones are answered with
\* BAD_MESSAGE and leave no trace.
Deliver(h, k) ==
    /\ pc[h] = "idle"
    /\ pc' = [pc EXCEPT ![h] = "claim"]
    /\ job' = [job EXCEPT ![h] = k]
    /\ UNCHANGED <<signed, told, storeVars, chainVars, followVars, watcherVars, faults>>

\* Any recorded error is paid again.
MutantAnyErrorRetried(k) == status[k] = "ERROR"

\* A recorded failure that provably never reached the chain.
MayRetry(k) == status[k] = "ERROR" /\ k \in retryable

\* SettlementStore::claim inserts the row, or reads the one that is there.
Existing(k) == status[k] # "NONE"

Claim(h) ==
    LET k == job[h] IN
    /\ pc[h] = "claim"
    /\ \/ /\ ~Existing(k)
          /\ status' = [status EXCEPT ![k] = "SETTLING"]
          /\ Goto(h, "settle")
       \/ /\ MayRetry(k)
          /\ Goto(h, "reclaim")
          /\ UNCHANGED status
       \/ /\ Existing(k) /\ ~MayRetry(k)
          /\ Finish(h)
          /\ Answer(k, Recorded(status[k]))
          /\ UNCHANGED status
    /\ UNCHANGED <<retryable, txid, lastDepth, chainVars, followVars, watcherVars, faults>>

\* SettlementStore::reclaim_for_retry: a guarded UPDATE ...
ReclaimForRetry(k) ==
    IF MayRetry(k)
    THEN /\ status' = [status EXCEPT ![k] = "SETTLING"]
         /\ retryable' = retryable \ {k}
    ELSE UNCHANGED <<status, retryable>>

\* ... whose row count the handler does not look at.
Reclaim(h) ==
    /\ pc[h] = "reclaim"
    /\ ReclaimForRetry(job[h])
    /\ Goto(h, "settle")
    /\ UNCHANGED <<txid, lastDepth, chainVars, followVars, watcherVars, faults>>

\* The store fails in claim or in reclaim_for_retry: PLATFORM.
StoreUnavailable(h) ==
    /\ pc[h] \in {"claim", "reclaim"}
    /\ Fault("store")
    /\ Finish(h)
    /\ Answer(job[h], "PLATFORM")
    /\ UNCHANGED <<storeVars, chainVars, followVars, watcherVars>>

\* settle() fails before anything is sent: not the debtor, no rate, amount out
\* of range, no funds, an Ogmios RPC error (all Rejected) ...
SettleRejected(h) ==
    /\ pc[h] = "settle"
    /\ Goto(h, "rejected")
    /\ UNCHANGED <<storeVars, chainVars, followVars, watcherVars, faults>>

\* ... or a query to Ogmios breaks off (Transport) or the build fails
\* (Internal): the handler cannot tell it from a lost submission.
SettleBreaksOff(h) ==
    /\ pc[h] = "settle"
    /\ Fault("timeout")
    /\ Goto(h, "ambiguous")
    /\ UNCHANGED <<storeVars, chainVars, followVars, watcherVars>>

\* The transaction is submitted without being registered.
MutantNotRegistered(t) == watched

\* ChainFollower::watch.
Register(t) == watched \cup {t}

\* The transaction is built and signed, and registered with the follower
\* before it is submitted.
BuildAndWatch(h, b) ==
    LET t == <<job[h], b>> IN
    /\ pc[h] = "settle"
    /\ pc' = [pc EXCEPT ![h] = "submit"]
    /\ signed' = [signed EXCEPT ![h] = t]
    /\ watched' = Register(t)
    /\ UNCHANGED seen
    /\ UNCHANGED <<job, told, storeVars, chainVars, watcherVars, faults>>

\* submitTransaction leaves the node ...
Send(h) ==
    LET t == signed[h] IN
    /\ pc[h] = "submit"
    /\ net' = [net EXCEPT ![t] = IF @ \in {"none", "refused"} THEN "wire" ELSE @]
    /\ Goto(h, "await")
    /\ UNCHANGED <<depth, storeVars, followVars, watcherVars, faults>>

\* ... and is answered, or is not answered in time; a failed submission is
\* taken off the follower's list.
Unwatch(t) ==
    /\ watched' = watched \ {t}
    /\ seen' = [seen EXCEPT ![t] = 0]

\* A transaction that was sent counts as submitted.
MutantSentIsSubmitted(t) == net[t] \in {"wire", "accepted", "expired"}

\* The node has answered with the transaction's id.
NodeTook(t) == net[t] \in {"accepted", "expired"}

SubmitOk(h) ==
    /\ pc[h] = "await" /\ NodeTook(signed[h])
    /\ Goto(h, "record")
    /\ UNCHANGED <<storeVars, chainVars, followVars, watcherVars, faults>>

SubmitRefused(h) ==
    /\ pc[h] = "await" /\ net[signed[h]] = "refused"
    /\ Unwatch(signed[h])
    /\ Goto(h, "rejected")
    /\ UNCHANGED <<storeVars, chainVars, watcherVars, faults>>

SubmitTimeout(h) ==
    /\ pc[h] = "await"
    /\ Fault("timeout")
    /\ Unwatch(signed[h])
    /\ Goto(h, "ambiguous")
    /\ UNCHANGED <<storeVars, chainVars, watcherVars>>

\* The node answers with an id that is not the one computed (Internal): the
\* transaction stays on the follower's list.
SubmitMismatched(h) ==
    /\ pc[h] = "await" /\ net[signed[h]] \in {"accepted", "expired"}
    /\ Fault("timeout")
    /\ Goto(h, "ambiguous")
    /\ UNCHANGED <<storeVars, chainVars, followVars, watcherVars>>

\* SettlementStore::mark_submitted.
RecordSubmitted(k, t) ==
    /\ status' = [status EXCEPT ![k] = "SUBMITTED"]
    /\ txid' = [txid EXCEPT ![k] = t]

\* When the store write fails the row stays as it is, and OBP-API is told
\* SUBMITTED all the same.
MarkSubmitted(h) ==
    LET k == job[h] IN
    /\ pc[h] = "record"
    /\ \/ RecordSubmitted(k, signed[h]) /\ UNCHANGED faults
       \/ Fault("store") /\ UNCHANGED <<status, txid>>
    /\ Finish(h)
    /\ Answer(k, "SUBMITTED")
    /\ UNCHANGED <<retryable, lastDepth, chainVars, followVars, watcherVars>>

\* retryable exactly for BlockchainError::Rejected.
NeverOnChain(place) == place = "rejected"

\* SettlementStore::mark_error.
RecordError(k, again) ==
    /\ status' = [status EXCEPT ![k] = "ERROR"]
    /\ retryable' = IF again THEN retryable \cup {k} ELSE retryable \ {k}

\* A failed attempt is answered but not recorded.
MutantFailureNotRecorded(h) ==
    /\ pc[h] \in {"rejected", "ambiguous"}
    /\ Finish(h)
    /\ Answer(job[h], "FAILED")
    /\ UNCHANGED <<storeVars, chainVars, followVars, watcherVars, faults>>

\* The failure is recorded, unless the store fails too, and answered.
MarkError(h) ==
    /\ pc[h] \in {"rejected", "ambiguous"}
    /\ \/ RecordError(job[h], NeverOnChain(pc[h])) /\ UNCHANGED faults
       \/ Fault("store") /\ UNCHANGED <<status, retryable>>
    /\ Finish(h)
    /\ Answer(job[h], "FAILED")
    /\ UNCHANGED <<txid, lastDepth, chainVars, followVars, watcherVars>>

-----------------------------------------------------------------------------
(* The finality watcher.                                                   *)

\* One tick starts: list_submitted, rows with a transaction reference.
\* WORKLIST_LIMIT is taken to be above the number of such rows.
Tick ==
    /\ work = {} /\ verdict = NoVerdict
    /\ work' = {<<k, txid[k]>> : k \in {k \in Keys : status[k] = "SUBMITTED" /\ txid[k] # NoTx}}
    /\ UNCHANGED <<verdict, storeVars, handlerVars, chainVars, followVars, faults>>

\* SettlementBackend::confirm: the follower's depth for a transaction it
\* knows; otherwise whether the wallet still holds an output of it, as depth 1.
\* Only a rail other than Cardano's ever answers Rejected.
ConfirmAnswers(t) ==
    IF RailReportsRejection /\ net[t] = "expired" THEN {<<"rejected", 0>>}
    ELSE IF t \in watched
    THEN {<<IF seen[t] > 0 THEN "confirmed" ELSE "pending", seen[t]>>}
    ELSE {<<"pending", 0>>} \cup (IF depth[t] > 0 THEN {<<"confirmed", 1>>} ELSE {})

Confirm(row) ==
    /\ verdict = NoVerdict
    /\ row \in work
    /\ work' = work \ {row}
    /\ \E a \in ConfirmAnswers(row[2]) :
          verdict' = [key |-> row[1], answer |-> a[1], depth |-> a[2]]
    /\ UNCHANGED <<storeVars, handlerVars, chainVars, followVars, faults>>

\* confirm() fails: the row is skipped until the next tick.
ConfirmFails(row) ==
    /\ verdict = NoVerdict
    /\ row \in work
    /\ Fault("timeout")
    /\ work' = work \ {row}
    /\ UNCHANGED <<verdict, storeVars, handlerVars, chainVars, followVars>>

\* What the tick writes for the answer in hand: mark_final, guarded by
\* SUBMITTED; record_depth; or mark_error, not retryable.
MarkFinal(k, d) ==
    /\ IF status[k] = "SUBMITTED"
       THEN /\ status' = [status EXCEPT ![k] = "FINAL"]
            /\ lastDepth' = [lastDepth EXCEPT ![k] = d]
       ELSE UNCHANGED <<status, lastDepth>>
    /\ UNCHANGED retryable

RecordDepth(k, d) ==
    /\ lastDepth' = [lastDepth EXCEPT ![k] = d]
    /\ UNCHANGED <<status, retryable>>

MarkRejected(k) == RecordError(k, FALSE) /\ UNCHANGED lastDepth

\* Final one confirmation too early.
MutantFinalTooEarly(d) == d + 1 >= FinalityDepth

DeepEnough(d) == d >= FinalityDepth

ApplyVerdict ==
    /\ verdict # NoVerdict
    /\ verdict' = NoVerdict
    /\ \/ /\ verdict.answer = "confirmed" /\ DeepEnough(verdict.depth)
          /\ MarkFinal(verdict.key, verdict.depth)
       \/ /\ verdict.answer = "confirmed" /\ ~DeepEnough(verdict.depth)
          /\ RecordDepth(verdict.key, verdict.depth)
       \/ verdict.answer = "pending" /\ RecordDepth(verdict.key, 0)
       \/ verdict.answer = "rejected" /\ MarkRejected(verdict.key)
    /\ UNCHANGED <<work, txid, handlerVars, chainVars, followVars, faults>>

\* A store error ends the tick.
TickAborted ==
    /\ verdict # NoVerdict
    /\ Fault("store")
    /\ verdict' = NoVerdict
    /\ work' = {}
    /\ UNCHANGED <<storeVars, handlerVars, chainVars, followVars>>

-----------------------------------------------------------------------------
(* The Cardano node and the follower.                                      *)

\* The node takes the transaction into its mempool, or refuses it.  A request
\* whose client has given up is decided all the same.
NodeDecides(t) ==
    /\ net[t] = "wire"
    /\ net' = [net EXCEPT ![t] = "accepted"] \/ net' = [net EXCEPT ![t] = "refused"]
    /\ UNCHANGED <<depth, storeVars, handlerVars, followVars, watcherVars, faults>>

\* A transaction whose validity interval passes before inclusion is dropped.
Expire(t) ==
    /\ net[t] = "accepted" /\ depth[t] = 0
    /\ Fault("expire")
    /\ net' = [net EXCEPT ![t] = "expired"]
    /\ UNCHANGED <<depth, storeVars, handlerVars, followVars, watcherVars>>

C == INSTANCE Confirmations WITH Deepest <- CapDepth

\* The chain moves; only what the node accepted is (again) included.
ChainMoves(n) ==
    /\ C!ChainMoves(n)
    /\ \A t \in Txs : depth[t] <= n /\ depth'[t] > 0 => net[t] = "accepted"
    /\ UNCHANGED <<net, watched, storeVars, handlerVars, watcherVars>>

Extend == ChainMoves(0) /\ UNCHANGED faults
Include(t) == net[t] = "accepted" /\ depth[t] = 0 /\ Extend /\ depth'[t] = 1
Fork == \E n \in 1..MaxRollback : Fault("fork") /\ ChainMoves(n)

\* The follower processes the blocks up to the node's tip ...
Follow ==
    /\ C!Report(watched)
    /\ UNCHANGED <<net, watched, storeVars, handlerVars, watcherVars, faults>>

\* ... or has not read some inclusions, has rolled them back and not read them
\* again, or could not parse their blocks.
FollowMisses ==
    /\ \E known \in SUBSET watched : C!Report(known)
    /\ Fault("follower")
    /\ UNCHANGED <<net, watched, storeVars, handlerVars, watcherVars>>

\* The process dies and comes back: the store survives, the rest does not.
Crash ==
    /\ Fault("crash")
    /\ pc' = [h \in Handlers |-> "idle"]
    /\ job' = [h \in Handlers |-> NoKey]
    /\ signed' = [h \in Handlers |-> NoTx]
    /\ watched' = {}
    /\ seen' = [t \in Txs |-> 0]
    /\ work' = {}
    /\ verdict' = NoVerdict
    /\ UNCHANGED <<told, storeVars, chainVars>>

-----------------------------------------------------------------------------
HandlerStep(h) ==
    \/ Claim(h) \/ Reclaim(h) \/ StoreUnavailable(h)
    \/ SettleRejected(h) \/ SettleBreaksOff(h)
    \/ \E b \in Builds : BuildAndWatch(h, b)
    \/ Send(h) \/ SubmitOk(h) \/ SubmitRefused(h) \/ SubmitTimeout(h)
    \/ SubmitMismatched(h) \/ MarkSubmitted(h) \/ MarkError(h)

WatcherStep ==
    \/ Tick
    \/ \E row \in work : Confirm(row) \/ ConfirmFails(row)
    \/ ApplyVerdict \/ TickAborted

Environment ==
    \/ \E t \in Txs : NodeDecides(t) \/ Expire(t)
    \/ Extend \/ Fork \/ Follow \/ FollowMisses

Next ==
    \/ \E h \in Handlers, k \in Keys : Deliver(h, k)
    \/ \E h \in Handlers : HandlerStep(h)
    \/ WatcherStep
    \/ Environment
    \/ Crash

Spec == Init /\ [][Next]_vars

\* The handler runs to its end once it has a delivery, the watcher ticks for
\* ever, the Cardano node answers, includes what it accepted and grows, the
\* follower keeps reading.  Deliveries and faults are owed by nobody.
FairSpec ==
    /\ Spec
    /\ \A h \in Handlers : WF_vars(HandlerStep(h))
    /\ WF_vars(WatcherStep)
    /\ \A t \in Txs : WF_vars(NodeDecides(t))
    /\ \A t \in Txs : WF_vars(Include(t))
    /\ WF_vars(Extend)
    /\ WF_vars(Follow)

-----------------------------------------------------------------------------
(* Properties.                                                             *)

\* Transactions the node ever took into its mempool, and those it still may.
Taken == {t \in Txs : net[t] \in {"accepted", "expired"}}
OnTheWay == {t \in Txs : net[t] = "wire"}

\* One idempotency key is paid at most once: however often the instruction is
\* redelivered, wherever the process dies, whichever store write is lost and
\* however late the node answers, claim before pay never lets two different
\* transactions of one key reach the node.
AtMostOncePayment ==
    \A t, u \in Taken \cup OnTheWay : KeyOf(t) = KeyOf(u) => t = u

\* A row the handler would pay again (ERROR with retryable = 1) has nothing in
\* the node and nothing on its way there: "provably never on chain".
RetryableNeverOnChain ==
    \A k \in retryable : status[k] = "ERROR" =>
        \A t \in Taken \cup OnTheWay : KeyOf(t) # k

\* A SUBMITTED or FINAL row names a transaction of its own key that the node
\* really took.
RowNamesItsPayment ==
    \A k \in Keys : status[k] \in {"SUBMITTED", "FINAL"} =>
        txid[k] \in Taken /\ KeyOf(txid[k]) = k

\* FINAL is never premature: the transaction of a FINAL row is deeper than any
\* fork the chain will ever make, though the watcher works from a follower
\* that lags and from an answer that may be outdated when it is written.
FinalIsBuried ==
    \A k \in Keys : status[k] = "FINAL" =>
        depth[txid[k]] > MaxRollback /\ lastDepth[k] >= FinalityDepth

\* What OBP-API was told of a payment is true and stays true: SUBMITTED or
\* FINAL means the node took a transaction of that key, FINAL that it is buried.
ToldIsTrue ==
    \A k \in Keys :
        /\ told[k] \in {"SUBMITTED", "FINAL"} => \E t \in Taken : KeyOf(t) = k
        /\ told[k] = "FINAL" => status[k] = "FINAL" /\ depth[txid[k]] > MaxRollback

\* Once FINAL a row never changes again, neither by a redelivery nor by the
\* watcher; and a row that was SUBMITTED never goes back to being payable.
RowsKept ==
    \A k \in Keys :
        /\ status[k] = "FINAL" =>
              status'[k] = "FINAL" /\ txid'[k] = txid[k] /\ lastDepth'[k] = lastDepth[k]
        /\ status[k] = "SUBMITTED" =>
              \/ status'[k] \in {"SUBMITTED", "FINAL"}
              \/ status'[k] = "ERROR" /\ k \notin retryable'

NoWayBack == [][RowsKept]_vars

\* A claimed row does not stay SETTLING: the attempt ends in SUBMITTED or in
\* ERROR when neither the process nor the store fails.
SettlingEnds == \A k \in Keys : status[k] = "SETTLING" ~> status[k] # "SETTLING"

\* A SUBMITTED settlement is promoted to FINAL, or flagged, as the chain
\* advances (main.rs: "previously SUBMITTED settlements must still be promoted
\* to FINAL (or flagged) as the chain advances").
SubmittedResolved ==
    \A k \in Keys : status[k] = "SUBMITTED" ~> status[k] \in {"FINAL", "ERROR"}

\* The settlement path implements PayOnce: a transfer is made when the node
\* takes its transaction and declared final when its row becomes FINAL.
Declared == {txid[k] : k \in {k \in Keys : status[k] = "FINAL"}}

P == INSTANCE PayOnce WITH
        Transfers <- Txs, Obligation <- KeyOf, made <- Taken, final <- Declared
ImplementsPayOnce == P!Spec

\* What the watcher and the handlers do to the follower's list is within what
\* Confirmations allows.
KeepsConfirmations == C!Spec

=============================================================================
