-------------------------- MODULE SettlementProofs --------------------------
(***************************************************************************)
(* Proofs about Settlement, for any number of keys, transaction bodies,    *)
(* faults and confirmations.  They hold for the shipped consumer, which    *)
(* runs one handler at a time.                                             *)
(***************************************************************************)
EXTENDS Settlement, TLAPS

SingleConsumer == \A g, h \in Handlers : g = h

Live == Taken \cup OnTheWay
NothingLive(k) == \A t \in Live : KeyOf(t) # k

\* Where the handler is tells what may be in the node for its key.
HandlerInv ==
    \A h \in Handlers :
        /\ pc[h] # "idle" => job[h] \in Keys
        /\ pc[h] \in {"submit", "await", "record"} =>
              signed[h] \in Txs /\ KeyOf(signed[h]) = job[h]
        /\ pc[h] \in {"reclaim", "settle", "submit", "rejected"} => NothingLive(job[h])
        /\ pc[h] \in {"await", "record"} =>
              \A t \in Live : KeyOf(t) = job[h] => t = signed[h]
        /\ pc[h] = "record" => signed[h] \in Taken
        /\ pc[h] = "reclaim" => status[job[h]] = "ERROR" /\ job[h] \in retryable
        /\ pc[h] \in {"settle", "submit", "await", "record", "rejected", "ambiguous"} =>
              status[job[h]] = "SETTLING"

\* What a row's status says about the node.
RowInv ==
    /\ \A k \in Keys :
        /\ status[k] = "NONE" => NothingLive(k)
        /\ status[k] = "ERROR" /\ k \in retryable => NothingLive(k)
    /\ RowNamesItsPayment

\* The watcher only has SUBMITTED rows in hand, each once.
WatcherInv ==
    /\ \A row \in work : status[row[1]] = "SUBMITTED" /\ txid[row[1]] = row[2]
    /\ verdict # NoVerdict =>
          /\ verdict.key \in Keys
          /\ status[verdict.key] = "SUBMITTED"
          /\ \A row \in work : row[1] # verdict.key

\* Depths beyond the deepest fork are never lost, so an outdated depth of that
\* size is still good.
DepthInv ==
    /\ C!Trustworthy
    /\ verdict # NoVerdict /\ verdict.answer = "confirmed" /\ verdict.depth > MaxRollback =>
          depth[txid[verdict.key]] > MaxRollback
    /\ FinalIsBuried

IInv ==
    /\ TypeOK
    /\ AtMostOncePayment
    /\ HandlerInv
    /\ RowInv
    /\ WatcherInv
    /\ DepthInv
    /\ ToldIsTrue

-----------------------------------------------------------------------------
(* Types.                                                                  *)

\* A busy handler has an instruction, and a transaction once it built one.
Busy ==
    \A h \in Handlers :
        /\ pc[h] # "idle" => job[h] \in Keys
        /\ pc[h] \in {"submit", "await", "record"} => signed[h] \in Txs

TInv == TypeOK /\ Busy

\* The parts of the state an action leaves alone.
LEMMA TInvStutter == ASSUME TInv, UNCHANGED vars PROVE TInv'
  BY DEF TInv, TypeOK, Busy, vars, storeVars, handlerVars, chainVars,
         followVars, watcherVars

\* Every handler step of settlement_instruction keeps the types.
LEMMA HandlerTypes ==
    ASSUME TInv, NEW h \in Handlers,
           HandlerStep(h) \/ \E k \in Keys : Deliver(h, k)
    PROVE  TInv'
  <1> USE SettlementAssumption DEF TInv, TypeOK, Busy, storeVars, handlerVars,
          chainVars, followVars, watcherVars, Goto, Finish, Answer, Places,
          Statuses, Replies, Fault
  <1>1. CASE \E k \in Keys : Deliver(h, k)
    BY <1>1 DEF Deliver
  <1>2. CASE Claim(h)
    BY <1>2 DEF Claim, Existing, Recorded
  <1>3. CASE Reclaim(h)
    BY <1>3 DEF Reclaim, ReclaimForRetry
  <1>4. CASE StoreUnavailable(h)
    BY <1>4 DEF StoreUnavailable
  <1>5. CASE SettleRejected(h)
    BY <1>5 DEF SettleRejected
  <1>6. CASE SettleBreaksOff(h)
    BY <1>6 DEF SettleBreaksOff
  <1>7. CASE \E b \in Builds : BuildAndWatch(h, b)
    BY <1>7 DEF BuildAndWatch, Register, Txs
  <1>8. CASE Send(h)
    BY <1>8 DEF Send
  <1>9. CASE SubmitOk(h)
    BY <1>9 DEF SubmitOk
  <1>10. CASE SubmitRefused(h)
    BY <1>10 DEF SubmitRefused, Unwatch
  <1>11. CASE SubmitTimeout(h)
    BY <1>11 DEF SubmitTimeout, Unwatch
  <1>12. CASE MarkSubmitted(h)
    BY <1>12 DEF MarkSubmitted, RecordSubmitted
  <1>13. CASE MarkError(h)
    BY <1>13 DEF MarkError, RecordError
  <1>14. CASE SubmitMismatched(h)
    BY <1>14 DEF SubmitMismatched
  <1> QED BY <1>1, <1>2, <1>3, <1>4, <1>5, <1>6, <1>7, <1>8, <1>9, <1>10,
             <1>11, <1>12, <1>13, <1>14 DEF HandlerStep

\* A chain that moves keeps its depths within their bound.
LEMMA ChainTypes ==
    ASSUME TypeOK, NEW n \in 0..MaxRollback, C!ChainMoves(n)
    PROVE  depth' \in [Txs -> 0..CapDepth] /\ seen' = seen
  <1>1. PICK new \in [Txs -> 0..(n + 1)] :
          depth' = [t \in Txs |-> IF depth[t] > n THEN C!Deeper(depth[t]) ELSE new[t]]
    BY DEF C!ChainMoves
  <1>2. \A t \in Txs : depth'[t] \in 0..CapDepth
    BY <1>1, SettlementAssumption DEF C!Deeper, TypeOK
  <1> QED BY <1>1, <1>2 DEF C!ChainMoves

\* So do the watcher, the chain, the follower and a restart.
LEMMA OtherTypes ==
    ASSUME TInv, WatcherStep \/ Environment \/ Crash
    PROVE  TInv'
  <1> USE SettlementAssumption DEF TInv, TypeOK, Busy, storeVars, handlerVars,
          chainVars, followVars, watcherVars, Fault, NoVerdict, Answers
  <1>1. CASE Tick
    BY <1>1 DEF Tick
  <1>2. CASE \E row \in work : Confirm(row)
    <2> PICK row \in work : Confirm(row)
      BY <1>2
    <2>1. \A a \in ConfirmAnswers(row[2]) : a[1] \in Answers /\ a[2] \in 0..CapDepth
      BY DEF ConfirmAnswers, Txs
    <2> QED BY <2>1 DEF Confirm
  <1>3. CASE \E row \in work : ConfirmFails(row)
    BY <1>3 DEF ConfirmFails
  <1>4. CASE ApplyVerdict
    BY <1>4 DEF ApplyVerdict, MarkFinal, RecordDepth, MarkRejected, RecordError, Statuses
  <1>5. CASE TickAborted
    BY <1>5 DEF TickAborted
  <1>6. CASE \E t \in Txs : NodeDecides(t)
    BY <1>6 DEF NodeDecides
  <1>7. CASE \E t \in Txs : Expire(t)
    BY <1>7 DEF Expire
  <1>8. CASE Extend \/ Fork
    <2>1. PICK n \in 0..MaxRollback : ChainMoves(n) /\ faults' \in 0..MaxFaults
      BY <1>8 DEF Extend, Fork
    <2>2. depth' \in [Txs -> 0..CapDepth] /\ seen' = seen
      BY <2>1, ChainTypes DEF ChainMoves
    <2> QED BY <2>1, <2>2 DEF ChainMoves
  <1>9. CASE Follow \/ FollowMisses
    <2>1. PICK known \in SUBSET Txs : C!Report(known)
      BY <1>9 DEF Follow, FollowMisses
    <2>2. seen' \in [Txs -> 0..CapDepth] /\ depth' = depth
      BY <2>1 DEF C!Report
    <2> QED BY <1>9, <2>2 DEF Follow, FollowMisses
  <1>10. CASE Crash
    BY <1>10 DEF Crash, Places
  <1> QED BY <1>1, <1>2, <1>3, <1>4, <1>5, <1>6, <1>7, <1>8, <1>9, <1>10
          DEF WatcherStep, Environment

\* Types are kept by every step, for any number of concurrent handlers.
LEMMA TypeStep == TInv /\ [Next]_vars => TInv'
  BY TInvStutter, HandlerTypes, OtherTypes DEF Next

\* The initial state is well typed.
LEMMA TypeInit == Init => TInv
  BY SettlementAssumption
     DEF Init, TInv, TypeOK, Busy, Statuses, Replies, Places, Answers, NoVerdict

\* Every reachable state of the settlement path is well typed: the handler
\* never works without an instruction, the store, the follower's registry and
\* the watcher's list only hold keys and transactions that exist.
THEOREM TypeCorrect == Spec => []TypeOK
  <1>1. TInv => TypeOK
    BY DEF TInv
  <1> QED BY <1>1, TypeInit, TypeStep, PTL DEF Spec

-----------------------------------------------------------------------------
(* At most one payment, and truthful rows and replies.                     *)

\* What the handler can disturb: the rows, the replies and its own place.  The
\* watcher's rows are SUBMITTED, hence never the row the handler works on.
LEMMA HandlerSafe ==
    ASSUME SingleConsumer, IInv, TypeOK', NEW h \in Handlers,
           HandlerStep(h) \/ \E k \in Keys : Deliver(h, k)
    PROVE  IInv'
  <1> USE SettlementAssumption DEF SingleConsumer, IInv, TypeOK, storeVars,
          handlerVars, chainVars, followVars, watcherVars, Goto, Finish, Answer,
          Fault, Live, Taken, OnTheWay, NothingLive, KeyOf
  <1> USE DEF AtMostOncePayment, HandlerInv, RowInv, RowNamesItsPayment, WatcherInv,
          NoVerdict, DepthInv, C!Trustworthy, FinalIsBuried, ToldIsTrue
  <1>1. CASE \E k \in Keys : Deliver(h, k)
    BY <1>1 DEF Deliver
  <1>2. CASE Claim(h)
    <2> USE <1>2 DEF Claim, Existing, MayRetry, Recorded
    <2>1. HandlerInv' /\ RowInv'
      OBVIOUS
    <2>2. WatcherInv' /\ DepthInv' /\ ToldIsTrue'
      OBVIOUS
    <2> QED BY <2>1, <2>2
  <1>3. CASE Reclaim(h)
    <2> USE <1>3 DEF Reclaim, ReclaimForRetry, MayRetry
    <2>1. HandlerInv' /\ RowInv'
      OBVIOUS
    <2>2. WatcherInv' /\ DepthInv' /\ ToldIsTrue'
      OBVIOUS
    <2> QED BY <2>1, <2>2
  <1>4. CASE StoreUnavailable(h)
    BY <1>4 DEF StoreUnavailable
  <1>5. CASE SettleRejected(h) \/ SettleBreaksOff(h)
    BY <1>5 DEF SettleRejected, SettleBreaksOff
  <1>6. CASE \E b \in Builds : BuildAndWatch(h, b)
    BY <1>6 DEF BuildAndWatch, Register, Txs
  <1>7. CASE Send(h)
    <2> USE <1>7 DEF Send
    <2>1. Taken' = Taken /\ OnTheWay' \subseteq OnTheWay \cup {signed[h]}
      OBVIOUS
    <2>2. AtMostOncePayment' /\ HandlerInv'
      BY <2>1
    <2>3. RowInv' /\ WatcherInv' /\ DepthInv' /\ ToldIsTrue'
      BY <2>1
    <2> QED BY <2>2, <2>3
  <1>8. CASE SubmitOk(h)
    BY <1>8 DEF SubmitOk, NodeTook
  <1>9. CASE SubmitRefused(h)
    BY <1>9 DEF SubmitRefused, Unwatch
  <1>10. CASE SubmitTimeout(h)
    BY <1>10 DEF SubmitTimeout, Unwatch
  <1>11. CASE MarkSubmitted(h)
    <2> USE <1>11 DEF MarkSubmitted, RecordSubmitted
    <2>1. HandlerInv' /\ RowInv'
      OBVIOUS
    <2>2. WatcherInv' /\ DepthInv' /\ ToldIsTrue'
      OBVIOUS
    <2> QED BY <2>1, <2>2
  <1>12. CASE MarkError(h)
    <2> USE <1>12 DEF MarkError, RecordError, NeverOnChain
    <2>1. HandlerInv' /\ RowInv'
      OBVIOUS
    <2>2. WatcherInv' /\ DepthInv' /\ ToldIsTrue'
      OBVIOUS
    <2> QED BY <2>1, <2>2
  <1>13. CASE SubmitMismatched(h)
    BY <1>13 DEF SubmitMismatched
  <1> QED BY <1>1, <1>2, <1>3, <1>4, <1>5, <1>6, <1>7, <1>8, <1>9, <1>10, <1>11,
             <1>12, <1>13 DEF HandlerStep

\* What the watcher can disturb: the one row it has an answer for.
LEMMA WatcherSafe ==
    ASSUME IInv, TypeOK', WatcherStep
    PROVE  IInv'
  <1> USE SettlementAssumption DEF IInv, TypeOK, storeVars, handlerVars, chainVars,
          followVars, watcherVars, Fault, Live, Taken, OnTheWay, NothingLive, KeyOf
  <1>0. ASSUME UNCHANGED <<storeVars, handlerVars, chainVars, followVars>>
        PROVE  AtMostOncePayment' /\ HandlerInv' /\ RowInv' /\ ToldIsTrue' /\ FinalIsBuried'
    BY <1>0 DEF AtMostOncePayment, HandlerInv, RowInv, RowNamesItsPayment, ToldIsTrue,
                DepthInv, C!Trustworthy, FinalIsBuried
  <1>1. CASE Tick
    <2>1. WatcherInv' /\ DepthInv'
      BY <1>0, <1>1 DEF Tick, WatcherInv, DepthInv, C!Trustworthy, NoVerdict
    <2> QED BY <1>0, <1>1, <2>1 DEF Tick
  <1>2. CASE \E row \in work : Confirm(row)
    <2> PICK row \in work : Confirm(row)
      BY <1>2
    <2>1. row[1] \in Keys /\ row[2] \in Txs
      OBVIOUS
    <2>2. PICK a \in ConfirmAnswers(row[2]) :
             verdict' = [key |-> row[1], answer |-> a[1], depth |-> a[2]]
      BY DEF Confirm
    <2>3. a[1] = "confirmed" /\ a[2] > MaxRollback => depth[row[2]] > MaxRollback
      BY <2>1 DEF ConfirmAnswers, DepthInv, C!Trustworthy
    <2>4. WatcherInv'
      BY <2>1, <2>2 DEF Confirm, WatcherInv, NoVerdict
    <2>5. DepthInv'
      BY <1>0, <2>1, <2>2, <2>3 DEF Confirm, DepthInv, C!Trustworthy, WatcherInv
    <2> QED BY <1>0, <2>4, <2>5 DEF Confirm
  <1>3. CASE \E row \in work : ConfirmFails(row)
    <2>1. WatcherInv' /\ DepthInv'
      BY <1>0, <1>3 DEF ConfirmFails, WatcherInv, DepthInv, C!Trustworthy, NoVerdict
    <2> QED BY <1>0, <1>3, <2>1 DEF ConfirmFails
  <1>4. CASE ApplyVerdict
    <2> DEFINE k == verdict.key
    <2>1. k \in Keys /\ status[k] = "SUBMITTED" /\ verdict' = NoVerdict
      BY <1>4 DEF ApplyVerdict, WatcherInv
    <2>2. \A j \in Keys : j # k =>
             /\ status'[j] = status[j] /\ lastDepth'[j] = lastDepth[j]
             /\ j \in retryable' <=> j \in retryable
      BY <1>4 DEF ApplyVerdict, MarkFinal, RecordDepth, MarkRejected, RecordError
    <2>3. /\ status'[k] \in {"SUBMITTED", "FINAL", "ERROR"}
          /\ status'[k] = "ERROR" => k \notin retryable'
          /\ status'[k] = "FINAL" => /\ depth[txid[k]] > MaxRollback
                                     /\ lastDepth'[k] >= FinalityDepth
      BY <1>4, <2>1 DEF ApplyVerdict, MarkFinal, RecordDepth, MarkRejected, RecordError,
         DeepEnough, DepthInv, C!Trustworthy, Answers
    <2>4. AtMostOncePayment' /\ HandlerInv'
      BY <1>4, <2>1, <2>2 DEF ApplyVerdict, AtMostOncePayment, HandlerInv
    <2>5. RowInv'
      BY <1>4, <2>1, <2>2, <2>3 DEF ApplyVerdict, RowInv, RowNamesItsPayment
    <2>6. WatcherInv' /\ DepthInv'
      BY <1>4, <2>1, <2>2, <2>3 DEF ApplyVerdict, WatcherInv, DepthInv, C!Trustworthy, FinalIsBuried
    <2>7. ToldIsTrue'
      BY <1>4, <2>1, <2>2 DEF ApplyVerdict, ToldIsTrue
    <2> QED BY <2>4, <2>5, <2>6, <2>7
  <1>5. CASE TickAborted
    <2>1. WatcherInv' /\ DepthInv'
      BY <1>0, <1>5 DEF TickAborted, WatcherInv, DepthInv, C!Trustworthy
    <2> QED BY <1>0, <1>5, <2>1 DEF TickAborted
  <1> QED BY <1>1, <1>2, <1>3, <1>4, <1>5 DEF WatcherStep

\* A chain that moves never takes back what is deeper than its deepest fork.
LEMMA BuriedStays ==
    ASSUME TypeOK, NEW n \in 0..MaxRollback, C!ChainMoves(n),
           NEW t \in Txs, depth[t] > MaxRollback
    PROVE  depth'[t] > MaxRollback
  BY SettlementAssumption DEF C!ChainMoves, C!Deeper, TypeOK

\* What the node and the follower can disturb: a transaction on the wire
\* becomes taken or refused, depths change.
LEMMA EnvironmentSafe ==
    ASSUME IInv, TypeOK', Environment
    PROVE  IInv'
  <1> USE SettlementAssumption DEF IInv, TypeOK, storeVars, handlerVars, chainVars,
          followVars, watcherVars, Fault, Live, Taken, OnTheWay, NothingLive, KeyOf
  <1>1. CASE \E t \in Txs : NodeDecides(t) \/ Expire(t)
    <2>1. Live' \subseteq Live /\ Taken \subseteq Taken'
      BY <1>1 DEF NodeDecides, Expire
    <2>2. UNCHANGED <<depth, storeVars, handlerVars, followVars, watcherVars>>
      BY <1>1 DEF NodeDecides, Expire
    <2>3. AtMostOncePayment' /\ HandlerInv' /\ RowInv'
      BY <2>1, <2>2 DEF AtMostOncePayment, HandlerInv, RowInv, RowNamesItsPayment
    <2>4. WatcherInv' /\ DepthInv' /\ ToldIsTrue'
      BY <2>1, <2>2 DEF WatcherInv, DepthInv, C!Trustworthy, FinalIsBuried,
       ToldIsTrue, NoVerdict
    <2> QED BY <2>3, <2>4
  <1>2. CASE Extend \/ Fork
    <2>1. PICK n \in 0..MaxRollback : ChainMoves(n)
      BY <1>2 DEF Extend, Fork
    <2>2. \A t \in Txs : depth[t] > MaxRollback => depth'[t] > MaxRollback
      BY <2>1, BuriedStays DEF ChainMoves
    <2>3. UNCHANGED <<net, storeVars, handlerVars, followVars, watcherVars>>
      BY <2>1, ChainTypes DEF ChainMoves
    <2>4. AtMostOncePayment' /\ HandlerInv' /\ RowInv' /\ WatcherInv'
      BY <2>3 DEF AtMostOncePayment, HandlerInv, RowInv, RowNamesItsPayment, WatcherInv,
                  NoVerdict
    <2>5. DepthInv' /\ ToldIsTrue'
      BY <2>2, <2>3 DEF DepthInv, C!Trustworthy, FinalIsBuried, ToldIsTrue, RowInv,
                        RowNamesItsPayment, WatcherInv, NoVerdict
    <2> QED BY <2>4, <2>5
  <1>3. CASE Follow \/ FollowMisses
    <2>1. PICK known \in SUBSET Txs : C!Report(known)
      BY <1>3 DEF Follow, FollowMisses
    <2>2. UNCHANGED <<net, watched, storeVars, handlerVars, watcherVars>>
      BY <1>3 DEF Follow, FollowMisses
    <2> QED
      BY <2>1, <2>2 DEF C!Report, AtMostOncePayment, HandlerInv, RowInv, RowNamesItsPayment,
                WatcherInv, DepthInv, C!Trustworthy, FinalIsBuried,
       ToldIsTrue, NoVerdict
  <1> QED BY <1>1, <1>2, <1>3 DEF Environment

\* A restart forgets the handler, the watcher and the follower's registry; the
\* rows and the chain, which the rest of the invariant is about, stay.
LEMMA CrashSafe == ASSUME IInv, TypeOK', Crash PROVE IInv'
  BY SettlementAssumption
     DEF Crash, IInv, TypeOK, storeVars, chainVars, Fault, Live, Taken, OnTheWay,
         NothingLive, KeyOf, AtMostOncePayment, HandlerInv, RowInv, RowNamesItsPayment,
         WatcherInv, DepthInv, C!Trustworthy, FinalIsBuried, ToldIsTrue

\* The invariant holds of an empty store and an empty node.
LEMMA SafeInit == Init => IInv
  BY TypeInit, SettlementAssumption
     DEF Init, TInv, IInv, Live, Taken, OnTheWay, NothingLive, AtMostOncePayment, HandlerInv,
         RowInv, RowNamesItsPayment, WatcherInv, DepthInv, C!Trustworthy, FinalIsBuried, ToldIsTrue

\* With one consumer, every step keeps the invariant.
LEMMA SafeStep == ASSUME SingleConsumer PROVE IInv /\ [Next]_vars => IInv'
  <1> SUFFICES ASSUME IInv, [Next]_vars PROVE IInv'
    OBVIOUS
  <1>1. TypeOK'
    BY TypeStep DEF IInv, TInv, Busy, HandlerInv
  <1>2. CASE UNCHANGED vars
    BY <1>2 DEF vars, storeVars, handlerVars, chainVars, followVars, watcherVars,
       IInv, TypeOK, Live, Taken, OnTheWay, NothingLive, AtMostOncePayment, HandlerInv,
       RowInv, RowNamesItsPayment, WatcherInv, DepthInv, C!Trustworthy, FinalIsBuried,
       ToldIsTrue, NoVerdict
  <1>3. CASE Next
    BY <1>1, <1>3, HandlerSafe, WatcherSafe, EnvironmentSafe, CrashSafe DEF Next
  <1> QED BY <1>2, <1>3

\* With one consumer, the invariant holds of every reachable state.
LEMMA Safe == ASSUME SingleConsumer PROVE Spec => []IInv
  BY SafeInit, SafeStep, PTL DEF Spec

\* With one consumer, an idempotency key is paid at most once, for any number of
\* keys, redeliveries, restarts, lost store writes and late node answers.
THEOREM PaidAtMostOnce == ASSUME SingleConsumer PROVE Spec => []AtMostOncePayment
  <1>1. IInv => AtMostOncePayment
    BY DEF IInv
  <1> QED BY <1>1, Safe, PTL

\* With one consumer, FINAL is never premature: for every finality depth above
\* the deepest fork, the transaction of a FINAL row stays on the chain.
THEOREM FinalStaysBuried == ASSUME SingleConsumer PROVE Spec => []FinalIsBuried
  <1>1. IInv => FinalIsBuried
    BY DEF IInv, DepthInv, C!Trustworthy
  <1> QED BY <1>1, Safe, PTL

\* With one consumer, a row that would be paid again has nothing in the node.
THEOREM RetryIsSafe == ASSUME SingleConsumer PROVE Spec => []RetryableNeverOnChain
  <1>1. IInv => RetryableNeverOnChain
    BY DEF IInv, TypeOK, RowInv, RetryableNeverOnChain, NothingLive, Live
  <1> QED BY <1>1, Safe, PTL

\* A row that says SUBMITTED or FINAL names the transaction that pays its key.
THEOREM RowsNameTheirPayment == ASSUME SingleConsumer PROVE Spec => []RowNamesItsPayment
  <1>1. IInv => RowNamesItsPayment
    BY DEF IInv, RowInv
  <1> QED BY <1>1, Safe, PTL

\* With one consumer, what OBP-API was told of a payment is true.
THEOREM RepliesAreTrue == ASSUME SingleConsumer PROVE Spec => []ToldIsTrue
  <1>1. IInv => ToldIsTrue
    BY DEF IInv
  <1> QED BY <1>1, Safe, PTL

-----------------------------------------------------------------------------
(* What a step may never do, and the abstract specification.               *)

\* How a step may change a row: FINAL rows are left alone, only SUBMITTED rows
\* become FINAL, and a SUBMITTED row is never reopened for payment.
RowMove(k) ==
    /\ status[k] = "FINAL" =>
          status'[k] = "FINAL" /\ txid'[k] = txid[k] /\ lastDepth'[k] = lastDepth[k]
    /\ status[k] = "SUBMITTED" =>
          /\ \/ status'[k] \in {"SUBMITTED", "FINAL"}
             \/ status'[k] = "ERROR" /\ k \notin retryable'
          /\ txid'[k] = txid[k]
    /\ status'[k] = "FINAL" => status[k] \in {"SUBMITTED", "FINAL"}

\* The steps that write to the settlement store.
LEMMA StoreSteps ==
    ASSUME [Next]_vars
    PROVE  \/ UNCHANGED storeVars
           \/ \E h \in Handlers : Claim(h) \/ Reclaim(h) \/ MarkSubmitted(h) \/ MarkError(h)
           \/ ApplyVerdict
  BY DEF Next, vars, HandlerStep, WatcherStep, Environment, Deliver, StoreUnavailable,
         SettleRejected, SettleBreaksOff, BuildAndWatch, Send, SubmitOk, SubmitRefused,
         SubmitTimeout, SubmitMismatched, Tick, Confirm, ConfirmFails, TickAborted, NodeDecides, Expire,
         Extend, Fork, ChainMoves, Follow, FollowMisses, Crash

\* Every step moves every row as RowMove allows.
LEMMA RowMoves ==
    ASSUME SingleConsumer, IInv, [Next]_vars, NEW k \in Keys
    PROVE  RowMove(k)
  <1> USE SettlementAssumption DEF IInv, TypeOK, storeVars, RowMove
  <1>1. CASE UNCHANGED storeVars
    BY <1>1
  <1>2. CASE \E h \in Handlers : Claim(h) \/ Reclaim(h)
    BY <1>2 DEF Claim, Existing, Reclaim, ReclaimForRetry, MayRetry, HandlerInv
  <1>3. CASE \E h \in Handlers : MarkSubmitted(h) \/ MarkError(h)
    BY <1>3 DEF MarkSubmitted, RecordSubmitted, MarkError, RecordError, HandlerInv
  <1>4. CASE ApplyVerdict
    BY <1>4 DEF ApplyVerdict, MarkFinal, RecordDepth, MarkRejected, RecordError, WatcherInv
  <1> QED BY <1>1, <1>2, <1>3, <1>4, StoreSteps

\* Any step but the watcher's verdict leaves the set of FINAL rows as it is.
LEMMA OnlyTheWatcherFinalises ==
    ASSUME IInv, [Next]_vars, ~ApplyVerdict, NEW k \in Keys, status'[k] = "FINAL"
    PROVE  status[k] = "FINAL"
  <1> USE DEF IInv, TypeOK, storeVars
  <1>1. CASE UNCHANGED storeVars
    BY <1>1
  <1>2. CASE \E h \in Handlers : Claim(h) \/ Reclaim(h) \/ MarkSubmitted(h) \/ MarkError(h)
    BY <1>2 DEF Claim, Reclaim, ReclaimForRetry, MarkSubmitted, RecordSubmitted, MarkError, RecordError
  <1> QED BY <1>1, <1>2, StoreSteps

\* With one consumer, FINAL is for ever and a submitted payment is never put up
\* for payment again.
THEOREM RowsNeverGoBack == ASSUME SingleConsumer PROVE Spec => NoWayBack
  <1>1. IInv /\ [Next]_vars => RowsKept
    BY RowMoves DEF RowMove, RowsKept
  <1> QED BY <1>1, Safe, PTL DEF Spec, NoWayBack

\* The node takes at most one transaction in a step, one that was on the wire.
LEMMA TakenMoves ==
    ASSUME IInv, [Next]_vars
    PROVE  Taken' = Taken \/ \E t \in OnTheWay \ Taken : Taken' = Taken \cup {t}
  <1> USE DEF IInv, TypeOK, chainVars, Taken, OnTheWay
  <1>1. CASE UNCHANGED net
    BY <1>1
  <1>2. CASE \E h \in Handlers : Send(h)
    BY <1>2 DEF Send, HandlerInv
  <1>3. CASE \E t \in Txs : NodeDecides(t) \/ Expire(t)
    BY <1>3 DEF NodeDecides, Expire
  <1>4. \/ UNCHANGED net
        \/ \E h \in Handlers : Send(h)
        \/ \E t \in Txs : NodeDecides(t) \/ Expire(t)
    BY DEF Next, vars, HandlerStep, WatcherStep, Environment, Deliver, Claim, Reclaim,
           StoreUnavailable, SettleRejected, SettleBreaksOff, BuildAndWatch, SubmitOk,
           SubmitRefused, SubmitTimeout, SubmitMismatched, MarkSubmitted, MarkError, Tick, Confirm,
           ConfirmFails, ApplyVerdict, TickAborted, Extend, Fork, ChainMoves, Follow,
           FollowMisses, Crash
  <1> QED BY <1>1, <1>2, <1>3, <1>4

\* A step that declares a payment final is the watcher's; it declares one that
\* was made and pays nothing.
LEMMA DeclaredMoves ==
    ASSUME SingleConsumer, IInv, [Next]_vars
    PROVE  \/ Declared' = Declared
           \/ Taken' = Taken /\ \E t \in Taken : Declared' = Declared \cup {t}
  <1> USE DEF IInv, TypeOK, Declared
  <1>1. CASE ApplyVerdict
    <2> DEFINE k == verdict.key
    <2>1. k \in Keys /\ status[k] = "SUBMITTED" /\ txid[k] \in Taken
      BY <1>1 DEF ApplyVerdict, WatcherInv, RowInv, RowNamesItsPayment
    <2>2. UNCHANGED <<txid, net>>
      BY <1>1 DEF ApplyVerdict, chainVars
    <2>3. \A j \in Keys : j # k => status'[j] = status[j]
      BY <1>1 DEF ApplyVerdict, MarkFinal, RecordDepth, MarkRejected, RecordError
    <2>4. CASE status'[k] = "FINAL"
      BY <2>1, <2>2, <2>3, <2>4 DEF Taken
    <2>5. CASE status'[k] # "FINAL"
      BY <2>1, <2>2, <2>3, <2>5
    <2> QED BY <2>4, <2>5
  <1>2. CASE ~ApplyVerdict
    <2>1. \A k \in Keys : status'[k] = "FINAL" => status[k] = "FINAL"
      BY <1>2, OnlyTheWatcherFinalises
    <2>2. \A k \in Keys : status[k] = "FINAL" => status'[k] = "FINAL" /\ txid'[k] = txid[k]
      BY RowMoves DEF RowMove
    <2> QED BY <2>1, <2>2
  <1> QED BY <1>1, <1>2

\* Every step is a first payment, a declaration of finality for a payment that
\* was made, or neither.
LEMMA StepRefines ==
    ASSUME SingleConsumer, IInv, IInv', [Next]_vars
    PROVE  [P!Next]_<<Taken, Declared>>
  <1>1. CASE Declared' = Declared
    <2>1. CASE Taken' = Taken
      BY <1>1, <2>1
    <2>2. ASSUME NEW t \in OnTheWay \ Taken, Taken' = Taken \cup {t}
          PROVE  t \in Txs /\ P!Pay(t)
      BY <1>1, <2>2 DEF P!Pay, IInv, AtMostOncePayment, OnTheWay
    <2> QED BY <2>1, <2>2, TakenMoves DEF P!Next
  <1>2. ASSUME Taken' = Taken, NEW t \in Taken, Declared' = Declared \cup {t}
        PROVE  t \in Txs /\ P!Declare(t)
    BY <1>2 DEF P!Declare, Taken
  <1> QED BY <1>1, <1>2, DeclaredMoves DEF P!Next

\* With one consumer, the handler, the store, the watcher, the node, restarts
\* and all, implement PayOnce.
THEOREM SettlementImplementsPayOnce == ASSUME SingleConsumer PROVE Spec => ImplementsPayOnce
  <1>1. Init => P!Init
    BY DEF Init, P!Init, Taken, Declared
  <1>2. IInv /\ IInv' /\ [Next]_vars => [P!Next]_<<Taken, Declared>>
    BY StepRefines
  <1> QED BY <1>1, <1>2, Safe, PTL DEF Spec, ImplementsPayOnce, P!Spec

-----------------------------------------------------------------------------
(* The composition with the follower.                                      *)

\* The steps that touch the chain or the follower's answers.
LEMMA ChainSteps ==
    ASSUME [Next]_vars
    PROVE  \/ UNCHANGED <<depth, seen>>
           \/ Extend \/ Fork \/ Follow \/ FollowMisses \/ Crash
           \/ \E h \in Handlers : SubmitRefused(h) \/ SubmitTimeout(h)
  BY DEF Next, vars, HandlerStep, WatcherStep, Environment, Deliver, Claim, Reclaim,
         StoreUnavailable, SettleRejected, SettleBreaksOff, BuildAndWatch, Send, SubmitOk,
         SubmitMismatched, MarkSubmitted, MarkError, Tick, Confirm, ConfirmFails,
         ApplyVerdict, TickAborted, NodeDecides, Expire, chainVars, followVars

\* Each of them is a move of the chain, a report, or the withdrawal of one
\* transaction; a restart reports nothing.
LEMMA ChainStepsAllowed ==
    ASSUME TInv, [Next]_vars
    PROVE  [C!Next]_<<depth, seen>>
  <1>1. CASE Extend \/ Fork
    BY <1>1, SettlementAssumption DEF Extend, Fork, ChainMoves, C!Next
  <1>2. CASE Follow \/ FollowMisses
    BY <1>2 DEF Follow, FollowMisses, TInv, TypeOK, C!Next
  <1>3. CASE Crash
    <2>1. C!Report({})
      BY <1>3 DEF Crash, chainVars, C!Report
    <2> QED BY <2>1 DEF C!Next
  <1>4. ASSUME NEW h \in Handlers, SubmitRefused(h) \/ SubmitTimeout(h)
        PROVE  C!Next
    <2>1. signed[h] \in Txs
      BY <1>4 DEF TInv, Busy, SubmitRefused, SubmitTimeout
    <2>2. C!Forget(signed[h])
      BY <1>4 DEF SubmitRefused, SubmitTimeout, Unwatch, chainVars, C!Forget
    <2> QED BY <2>1, <2>2 DEF C!Next
  <1> QED BY <1>1, <1>2, <1>3, <1>4, ChainSteps

\* Whatever the handlers, the watcher and restarts do, for any number of
\* concurrent handlers, the follower's answers stay what Confirmations
\* promises: registering and withdrawing transactions reports nothing untrue.
THEOREM SettlementKeepsConfirmations == Spec => KeepsConfirmations
  <1>1. Init => C!Init
    BY DEF Init, C!Init
  <1>2. TInv /\ [Next]_vars => [C!Next]_<<depth, seen>>
    BY ChainStepsAllowed
  <1> QED BY <1>1, <1>2, TypeInit, TypeStep, PTL DEF Spec, KeepsConfirmations, C!Spec

=============================================================================
