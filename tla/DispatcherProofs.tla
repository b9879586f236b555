-------------------------- MODULE DispatcherProofs --------------------------
(***************************************************************************)
(* Proofs about Dispatcher, for any number of payments, attempts,          *)
(* settlements and faults.                                                 *)
(***************************************************************************)
EXTENDS Dispatcher, TLAPS

\* OBP-API knows the payment.
Known(p) == \E t \in trs : PaymentOf(t) = p

\* A row is in hand.
Busy == pc \notin {"idle", "dead"}

\* Rows read into the batch are still what the outbox holds, and none of them
\* is the one in hand: the dispatcher is the only writer of these columns.
BatchInv ==
    /\ \A r \in batch : /\ r.id \in Payments /\ r = Row(r.id)
                        /\ status[r.id] \in Pending
                        /\ Busy => r.id # cur.id
    /\ Busy => cur.id \in Payments

\* process_row's locals against the row in hand.
CurInv ==
    /\ pc = "submit" => status[cur.id] = "INITIATED"
    /\ pc = "mark_submitted" =>
          /\ status[cur.id] = "INITIATED"
          /\ Known(cur.id)
          /\ cur.obpId # None => cur.obpId \in trs /\ PaymentOf(cur.obpId) = cur.id
    /\ pc \in {"write", "mark_promise_written"} => status[cur.id] = "SUBMITTED"
    /\ pc = "mark_promise_written" =>
          cur.promiseTx \in written /\ PaymentOf(cur.promiseTx) = cur.id
    /\ pc \in {"report", "mark_reported"} =>
          status[cur.id] = "PROMISE_WRITTEN" /\ cur.promiseTx = promiseTx[cur.id]
    /\ pc \in {"write", "mark_promise_written", "report", "mark_reported"} =>
          cur.obpId = obpId[cur.id]
    /\ pc = "mark_reported" =>
          cur.obpId # None /\ cur.promiseTx # None /\ evidence[cur.obpId] = cur.promiseTx
    /\ pc = "mark_exception" => status[cur.id] \in Pending

\* What a row's status says about its columns and about OBP-API and the chain.
RowInv ==
    \A p \in Payments :
        /\ status[p] \in {"NONE", "INITIATED"} => obpId[p] = None
        /\ status[p] \in {"NONE", "INITIATED", "SUBMITTED"} => promiseTx[p] = None
        /\ status[p] \in {"SUBMITTED", "PROMISE_WRITTEN"} => Known(p)
        /\ obpId[p] # None => obpId[p] \in trs /\ PaymentOf(obpId[p]) = p
        /\ promiseTx[p] # None => promiseTx[p] \in written /\ PaymentOf(promiseTx[p]) = p

IInv ==
    /\ TypeOK
    /\ BatchInv
    /\ CurInv
    /\ RowInv
    /\ PromiseBacked
    /\ EvidenceAgrees
    /\ ReportedIsTrue
    /\ StampedIsCovered

-----------------------------------------------------------------------------
(* The steps of the dispatcher.                                            *)

\* The scan and the choice of the next row.
LEMMA ScanSafe ==
    ASSUME IInv, ClaimDue \/ StoreFails \/ Crash \/ \E r \in batch : TakeRow(r)
    PROVE  IInv'
  <1> USE DispatcherAssumption DEF IInv, TypeOK, BatchInv, Busy, CurInv, RowInv, PromiseBacked,
          EvidenceAgrees, ReportedIsTrue, StampedIsCovered, Known, Row, Pending,
          rowVars, taskVars, obpVars, Fault
  <1>1. CASE ClaimDue
    BY <1>1 DEF ClaimDue, Due, Rows
  <1>2. CASE StoreFails
    BY <1>2 DEF StoreFails, NoRow, Rows, Statuses, Places
  <1>3. CASE Crash
    BY <1>3 DEF Crash, NoRow, Rows, Statuses, Places
  <1>4. CASE \E r \in batch : TakeRow(r)
    BY <1>4 DEF TakeRow, Attempted, Entry, Rows, Places
  <1> QED BY <1>1, <1>2, <1>3, <1>4

\* Step 1 leaves a TR behind before the row says SUBMITTED.
LEMMA SubmitSafe ==
    ASSUME IInv,
           \/ \E t \in TRs : SubmitAccepted(t) \/ SubmitUnanswered(t)
           \/ SubmitRejected \/ SubmitUnavailable \/ MarkSubmitted
    PROVE  IInv'
  <1> USE DispatcherAssumption DEF IInv, TypeOK, BatchInv, Busy, CurInv, RowInv, PromiseBacked,
          EvidenceAgrees, ReportedIsTrue, StampedIsCovered, Known, Row, Pending,
          rowVars, taskVars, obpVars, Fault, RowDone, NoRow, Rows, Statuses, Places
  <1>1. CASE \E t \in TRs : SubmitAccepted(t)
    BY <1>1 DEF SubmitAccepted
  <1>2. CASE \E t \in TRs : SubmitUnanswered(t)
    BY <1>2 DEF SubmitUnanswered
  <1>3. CASE SubmitRejected
    BY <1>3 DEF SubmitRejected
  <1>4. CASE SubmitUnavailable
    BY <1>4 DEF SubmitUnavailable
  <1>5. CASE MarkSubmitted
    BY <1>5 DEF MarkSubmitted, StoredId
  <1> QED BY <1>1, <1>2, <1>3, <1>4, <1>5

\* Step 2 leaves a Promise behind before the row says PROMISE_WRITTEN.
LEMMA WriteSafe ==
    ASSUME IInv,
           \/ \E x \in Promises : WriteAccepted(x) \/ WriteUnanswered(x)
           \/ WriteUnavailable \/ MarkPromiseWritten
    PROVE  IInv'
  <1> USE DispatcherAssumption DEF IInv, TypeOK, BatchInv, Busy, CurInv, RowInv, PromiseBacked,
          EvidenceAgrees, ReportedIsTrue, StampedIsCovered, Known, Row, Pending,
          rowVars, taskVars, obpVars, Fault, RowDone, NoRow, Rows, Statuses, Places
  <1>1. CASE \E x \in Promises : WriteAccepted(x)
    BY <1>1 DEF WriteAccepted
  <1>2. CASE \E x \in Promises : WriteUnanswered(x)
    BY <1>2 DEF WriteUnanswered
  <1>3. CASE WriteUnavailable
    BY <1>3 DEF WriteUnavailable
  <1>4. CASE MarkPromiseWritten
    BY <1>4 DEF MarkPromiseWritten
  <1> QED BY <1>1, <1>2, <1>3, <1>4

\* Step 3 reports only what the row records.
LEMMA ReportSafe ==
    ASSUME IInv,
           \/ Unreportable \/ ReportAccepted \/ ReportRejected \/ ReportUnavailable
           \/ ReportUnanswered \/ Panic \/ MarkReported \/ MarkException
    PROVE  IInv'
  <1> USE DispatcherAssumption DEF IInv, TypeOK, BatchInv, Busy, CurInv, RowInv, PromiseBacked,
          EvidenceAgrees, ReportedIsTrue, StampedIsCovered, Known, Row, Pending, Reportable,
          rowVars, taskVars, obpVars, Fault, RowDone, NoRow, Rows, Statuses, Places
  <1>1. CASE Unreportable
    BY <1>1 DEF Unreportable
  <1>2. CASE ReportAccepted
    BY <1>2 DEF ReportAccepted, Attachable
  <1>3. CASE ReportRejected
    BY <1>3 DEF ReportRejected
  <1>4. CASE ReportUnavailable
    BY <1>4 DEF ReportUnavailable
  <1>5. CASE ReportUnanswered
    BY <1>5 DEF ReportUnanswered
  <1>6. CASE MarkReported
    BY <1>6 DEF MarkReported
  <1>7. CASE MarkException
    BY <1>7 DEF MarkException
  <1>8. CASE Panic
    BY <1>8 DEF Panic
  <1> QED BY <1>1, <1>2, <1>3, <1>4, <1>5, <1>6, <1>7, <1>8

-----------------------------------------------------------------------------
(* The steps beside it.                                                    *)

\* New rows, settlements, stamps and requests carried out late.
LEMMA OutsideSafe == ASSUME IInv, OutsideStep PROVE IInv'
  <1> USE DispatcherAssumption DEF IInv, TypeOK, BatchInv, Busy, CurInv, RowInv, PromiseBacked,
          EvidenceAgrees, ReportedIsTrue, StampedIsCovered, Known, Row, Pending,
          rowVars, taskVars, obpVars, Rows, Statuses, Places
  <1>1. CASE \E p \in Payments : Initiate(p)
    BY <1>1 DEF Initiate
  <1>2. CASE \E p \in Payments : Elapse(p)
    BY <1>2 DEF Elapse
  <1>3. CASE \E s \in Settlements : Settle(s)
    BY <1>3 DEF Settle
  <1>4. CASE \E s \in Settlements : Stamp(s)
    BY <1>4 DEF Stamp, Stamped
  <1>5. CASE \E t \in TRs : LateTR(t)
    BY <1>5 DEF LateTR
  <1>6. CASE \E x \in Promises : LatePromise(x)
    BY <1>6 DEF LatePromise
  <1>7. CASE \E r \in late.report : LateReport(r)
    BY <1>7 DEF LateReport, Attachable
  <1> QED BY <1>1, <1>2, <1>3, <1>4, <1>5, <1>6, <1>7 DEF OutsideStep

\* The invariant holds of an empty outbox.
LEMMA SafeInit == Init => IInv
  BY DispatcherAssumption
     DEF Init, IInv, TypeOK, BatchInv, Busy, CurInv, RowInv, PromiseBacked, EvidenceAgrees,
         ReportedIsTrue, StampedIsCovered, NoRow, NothingLate, Rows, Statuses, Places, Promises

\* Every step keeps the invariant.
LEMMA SafeStep == IInv /\ [Next]_vars => IInv'
  <1> SUFFICES ASSUME IInv, [Next]_vars PROVE IInv'
    OBVIOUS
  <1>1. CASE UNCHANGED vars
    BY <1>1 DEF IInv, TypeOK, BatchInv, Busy, CurInv, RowInv, PromiseBacked, EvidenceAgrees,
         ReportedIsTrue, StampedIsCovered, Known, Row, vars, rowVars, taskVars, obpVars
  <1>2. CASE Next
    BY <1>2, ScanSafe, SubmitSafe, WriteSafe, ReportSafe, OutsideSafe DEF Next, DispatcherStep
  <1> QED BY <1>1, <1>2

\* The invariant holds of every reachable state.
LEMMA Safe == Spec => []IInv
  BY SafeInit, SafeStep, PTL DEF Spec

\* Every reachable state of the outbox, the dispatcher and OBP-API's records is
\* well typed.
THEOREM TypeCorrect == Spec => []TypeOK
  <1>1. IInv => TypeOK
    BY DEF IInv
  <1> QED BY <1>1, Safe, PTL

\* No Promise is ever put on chain for a payment OBP-API does not know.
THEOREM PromisesAreBacked == Spec => []PromiseBacked
  <1>1. IInv => PromiseBacked
    BY DEF IInv
  <1> QED BY <1>1, Safe, PTL

\* OBP-API only ever holds, or is sent, the evidence the outbox records.
THEOREM EvidenceAlwaysAgrees == Spec => []EvidenceAgrees
  <1>1. IInv => EvidenceAgrees
    BY DEF IInv
  <1> QED BY <1>1, Safe, PTL

\* A REPORTED row has its evidence at OBP-API.
THEOREM ReportsAreTrue == Spec => []ReportedIsTrue
  <1>1. IInv => ReportedIsTrue
    BY DEF IInv
  <1> QED BY <1>1, Safe, PTL

\* A stamped row is covered by the settlement it names.
THEOREM StampsAreTrue == Spec => []StampedIsCovered
  <1>1. IInv => StampedIsCovered
    BY DEF IInv
  <1> QED BY <1>1, Safe, PTL

-----------------------------------------------------------------------------
(* The lifecycle of a row.                                                 *)

\* A step either writes one of the row columns in one of five ways, or none.
LEMMA RowSteps ==
    ASSUME Next
    PROVE  \/ UNCHANGED <<rowVars, settledBy>>
           \/ \E p \in Payments : Initiate(p)
           \/ \E s \in Settlements : Stamp(s)
           \/ MarkSubmitted \/ MarkPromiseWritten \/ MarkReported \/ MarkException
  BY DEF Next, DispatcherStep, OutsideStep, rowVars, ClaimDue, StoreFails, TakeRow,
         SubmitAccepted, SubmitUnanswered, SubmitRejected, SubmitUnavailable,
         WriteAccepted, WriteUnanswered, WriteUnavailable, Unreportable, ReportAccepted,
         ReportRejected, ReportUnavailable, ReportUnanswered, Panic, Elapse, Settle, LateTR,
         LatePromise, LateReport, Crash

\* No step takes a row back or replaces what it records.
LEMMA RowsStep == IInv /\ [Next]_vars => RowsKept
  <1> SUFFICES ASSUME IInv, [Next]_vars PROVE RowsKept
    OBVIOUS
  <1> USE DEF IInv, TypeOK, RowsKept, Terminal, Statuses, rowVars
  <1>1. \A s \in Statuses : Rank(s) \in 0..4
    BY DEF Rank
  <1>2. CASE UNCHANGED <<rowVars, settledBy>>
    BY <1>1, <1>2
  <1>3. CASE \E p \in Payments : Initiate(p)
    BY <1>1, <1>3 DEF Initiate, Rank
  <1>4. CASE \E s \in Settlements : Stamp(s)
    BY <1>1, <1>4 DEF Stamp, Stamped
  <1>5. CASE MarkSubmitted
    BY <1>1, <1>5 DEF MarkSubmitted, StoredId, CurInv, BatchInv, Busy, RowInv, Rank
  <1>6. CASE MarkPromiseWritten
    BY <1>1, <1>6 DEF MarkPromiseWritten, CurInv, BatchInv, Busy, RowInv, Rank
  <1>7. CASE MarkReported
    BY <1>1, <1>7 DEF MarkReported, CurInv, BatchInv, Busy, Rank
  <1>8. CASE MarkException
    BY <1>1, <1>8 DEF MarkException, CurInv, BatchInv, Busy, Rank, Pending
  <1>9. UNCHANGED vars => UNCHANGED <<rowVars, settledBy>>
    BY DEF vars
  <1> QED BY <1>2, <1>3, <1>4, <1>5, <1>6, <1>7, <1>8, <1>9, RowSteps

\* A row only moves along its lifecycle, and what it records is never replaced.
THEOREM RowsNeverGoBack == Spec => NoWayBack
  BY RowsStep, Safe, PTL DEF Spec, NoWayBack

=============================================================================
