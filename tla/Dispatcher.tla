----------------------------- MODULE Dispatcher -----------------------------
(***************************************************************************)
(* The promise leg of the node: the outbox a payment is written to before  *)
(* its 202, and the dispatcher that takes each row through the submission  *)
(* of a Transaction Request (TR) to OBP-API, the Promise on Cardano and    *)
(* the report of the evidence back to OBP-API; and the stamping of rows a  *)
(* settlement covers, which runs beside the dispatcher in other tasks.     *)
(* OBP-API and the Cardano node are external.                              *)
(*                                                                         *)
(* A call that is answered is one step at the remote end; a call that is   *)
(* not answered in time leaves its request in flight, to be carried out at *)
(* any later time or never.  The write of the answer to the outbox is a    *)
(* step of its own.                                                        *)
(***************************************************************************)
EXTENDS Naturals, FiniteSets

CONSTANTS
    Payments,    \* payments the bank may initiate
    Tries,       \* distinct TRs, and distinct Promises, one payment may leave
    Settlements, \* settlements OBP-API may make
    Poison,      \* payments OBP-API never answers with a verdict
    BatchSize,   \* DispatcherConfig::batch_size
    Faults,      \* fault kinds that may occur
    MaxFaults,   \* how many faults may occur in all
    None

FaultKinds == {"crash", "store", "lost", "unavailable", "cut"}

ASSUME DispatcherAssumption ==
    /\ IsFiniteSet(Payments) /\ Poison \subseteq Payments
    /\ BatchSize \in Nat \ {0} /\ MaxFaults \in Nat
    /\ Faults \subseteq FaultKinds
    /\ None \notin (Payments \X Tries) \cup Settlements \cup Payments

\* TR ids and Promise transaction ids, each with the payment it is for: the
\* payload and the commitment are functions of the row.
TRs == Payments \X Tries
Promises == Payments \X Tries
PaymentOf(x) == x[1]

VARIABLES
    status,    \* outbox: status column, "NONE" when there is no row
    obpId,     \* outbox: obp_transaction_request_id
    promiseTx, \* outbox: promise_tx_id
    settledBy, \* outbox: settlement_id
    created,   \* outbox: created_at, 0 when there is no row
    resting,   \* outbox: rows last attempted less than retry_interval ago
    pc,        \* dispatcher: where in process_row it is
    batch,     \* dispatcher: rows of claim_due not processed yet, as read
    cur,       \* dispatcher: the row in hand, with process_row's locals
    trs,       \* OBP-API: TRs it created
    evidence,  \* OBP-API: Promise attached to each TR
    coveredBy, \* OBP-API: settlement each TR was netted in
    written,   \* Cardano: Promises the node took
    late,      \* unanswered requests still in flight
    faults     \* faults so far

rowVars  == <<status, obpId, promiseTx>>
taskVars == <<pc, batch, cur>>
obpVars  == <<trs, evidence, coveredBy>>
vars == <<rowVars, settledBy, created, resting, taskVars, obpVars, written, late, faults>>

Statuses == {"NONE", "INITIATED", "SUBMITTED", "PROMISE_WRITTEN", "REPORTED", "EXCEPTION"}
Terminal == {"REPORTED", "EXCEPTION"}
Places   == {"idle", "submit", "mark_submitted", "write", "mark_promise_written",
             "report", "mark_reported", "mark_exception", "dead"}
Rows == [id : Payments \cup {None}, status : Statuses,
         obpId : TRs \cup {None}, promiseTx : Promises \cup {None}]
NoRow == [id |-> None, status |-> "NONE", obpId |-> None, promiseTx |-> None]
NothingLate == [tr |-> {}, promise |-> {}, report |-> {}]

TypeOK ==
    /\ status \in [Payments -> Statuses]
    /\ obpId \in [Payments -> TRs \cup {None}]
    /\ promiseTx \in [Payments -> Promises \cup {None}]
    /\ settledBy \in [Payments -> Settlements \cup {None}]
    /\ created \in [Payments -> Nat]
    /\ resting \subseteq Payments
    /\ pc \in Places
    /\ batch \subseteq Rows
    /\ cur \in Rows
    /\ trs \subseteq TRs
    /\ evidence \in [TRs -> Promises \cup {None}]
    /\ coveredBy \in [TRs -> Settlements \cup {None}]
    /\ written \subseteq Promises
    /\ late \in [tr : SUBSET TRs, promise : SUBSET Promises, report : SUBSET (TRs \X Promises)]
    /\ faults \in 0..MaxFaults

Init ==
    /\ status = [p \in Payments |-> "NONE"]
    /\ obpId = [p \in Payments |-> None]
    /\ promiseTx = [p \in Payments |-> None]
    /\ settledBy = [p \in Payments |-> None]
    /\ created = [p \in Payments |-> 0]
    /\ resting = {}
    /\ pc = "idle" /\ batch = {} /\ cur = NoRow
    /\ trs = {}
    /\ evidence = [t \in TRs |-> None]
    /\ coveredBy = [t \in TRs |-> None]
    /\ written = {}
    /\ late = NothingLate
    /\ faults = 0

Fault(kind) ==
    /\ kind \in Faults
    /\ faults < MaxFaults
    /\ faults' = faults + 1

-----------------------------------------------------------------------------
(* The south side and the scan.                                            *)

\* initiate_payment (and initiate_return): the row is in the outbox before the
\* 202.  When the insert fails the answer is a 500 and there is no row.
\* created_at counts seconds, so two rows may share one.
Initiate(p) ==
    LET now == {n \in 1..Cardinality(Payments) : \A q \in Payments : created[q] <= n}
    IN
    /\ status[p] = "NONE"
    /\ status' = [status EXCEPT ![p] = "INITIATED"]
    /\ \E n \in now : created' = [created EXCEPT ![p] = n]
    /\ UNCHANGED <<obpId, promiseTx, settledBy, resting, taskVars, obpVars, written, late, faults>>

\* retry_interval has passed since the row's last attempt.
Elapse(p) ==
    /\ p \in resting
    /\ resting' = resting \ {p}
    /\ UNCHANGED <<rowVars, settledBy, created, taskVars, obpVars, written, late, faults>>

\* A written Promise counts as done.
MutantWrittenIsDone == {"INITIATED", "SUBMITTED"}

\* The statuses claim_due selects.
Pending == {"INITIATED", "SUBMITTED", "PROMISE_WRITTEN"}

Due == {p \in Payments : status[p] \in Pending /\ p \notin resting}

\* ORDER BY created_at ASC LIMIT batch_size.
OldestFirst(S) ==
    /\ Cardinality(S) <= BatchSize
    /\ S # Due => Cardinality(S) = BatchSize
    /\ \A p \in S, q \in Due \ S : created[p] <= created[q]

Row(p) == [id |-> p, status |-> status[p], obpId |-> obpId[p], promiseTx |-> promiseTx[p]]

\* process_due_once reads a batch of due rows ...
ClaimDue ==
    /\ pc = "idle" /\ batch = {}
    /\ \E S \in SUBSET Due : OldestFirst(S) /\ batch' = {Row(p) : p \in S}
    /\ UNCHANGED <<pc, cur, rowVars, settledBy, created, resting, obpVars, written, late, faults>>

\* record_attempt: last_attempted_at = now.
Attempted(p) == resting \cup {p}

\* Where process_row enters for a row as read.
Entry(s) == CASE s = "INITIATED" -> "submit"
              [] s = "SUBMITTED" -> "write"
              [] s = "PROMISE_WRITTEN" -> "report"

\* ... and goes through it in order: record_attempt, then process_row.
TakeRow(r) ==
    /\ pc = "idle"
    /\ r \in batch /\ \A s \in batch : created[r.id] <= created[s.id]
    /\ batch' = batch \ {r}
    /\ resting' = Attempted(r.id)
    /\ cur' = r
    /\ pc' = Entry(r.status)
    /\ UNCHANGED <<rowVars, settledBy, created, obpVars, written, late, faults>>

\* process_row returns; the batch goes on.
RowDone == pc' = "idle" /\ cur' = NoRow /\ UNCHANGED batch

\* A store error in any write ends the whole batch.
StoreFails ==
    /\ \/ pc = "idle" /\ batch # {}
       \/ pc \in {"mark_submitted", "mark_promise_written", "mark_reported", "mark_exception"}
    /\ Fault("store")
    /\ pc' = "idle" /\ batch' = {} /\ cur' = NoRow
    /\ UNCHANGED <<rowVars, settledBy, created, resting, obpVars, written, late>>

-----------------------------------------------------------------------------
(* Step 1: submit_open_corridor.                                           *)

\* OBP-API creates the TR and answers 2xx; a body without an id is None.
SubmitAccepted(t) ==
    /\ pc = "submit" /\ cur.id \notin Poison
    /\ PaymentOf(t) = cur.id /\ t \notin trs \cup late.tr
    /\ trs' = trs \cup {t}
    /\ \E id \in {t, None} : cur' = [cur EXCEPT !.obpId = id]
    /\ pc' = "mark_submitted"
    /\ UNCHANGED <<batch, evidence, coveredBy, rowVars, settledBy, created, resting, written, late, faults>>

\* A 400 or 422 with an OBP code: terminal.
SubmitRejected ==
    /\ pc = "submit" /\ cur.id \notin Poison
    /\ pc' = "mark_exception"
    /\ UNCHANGED <<batch, cur, obpVars, rowVars, settledBy, created, resting, written, late, faults>>

\* Everything else is retryable, whether nothing came of the request ...
SubmitUnavailable ==
    /\ pc = "submit"
    /\ \/ Fault("unavailable")
       \/ cur.id \in Poison /\ UNCHANGED faults
    /\ RowDone
    /\ UNCHANGED <<obpVars, rowVars, settledBy, created, resting, written, late>>

\* ... or it is only the answer that did not arrive.
SubmitUnanswered(t) ==
    /\ pc = "submit" /\ cur.id \notin Poison
    /\ PaymentOf(t) = cur.id /\ t \notin trs \cup late.tr
    /\ Fault("lost")
    /\ late' = [late EXCEPT !.tr = @ \cup {t}]
    /\ RowDone
    /\ UNCHANGED <<obpVars, rowVars, settledBy, created, resting, written>>

\* The obp_transaction_request_id column after mark_submitted.
StoredId(p) == [obpId EXCEPT ![p] = cur.obpId]

MarkSubmitted ==
    /\ pc = "mark_submitted"
    /\ status' = [status EXCEPT ![cur.id] = "SUBMITTED"]
    /\ obpId' = StoredId(cur.id)
    /\ pc' = "write"
    /\ UNCHANGED <<promiseTx, batch, cur, settledBy, created, resting, obpVars, written, late, faults>>

-----------------------------------------------------------------------------
(* Step 2: write_promise.                                                  *)

WriteAccepted(x) ==
    /\ pc = "write"
    /\ PaymentOf(x) = cur.id /\ x \notin written \cup late.promise
    /\ written' = written \cup {x}
    /\ cur' = [cur EXCEPT !.promiseTx = x]
    /\ pc' = "mark_promise_written"
    /\ UNCHANGED <<batch, obpVars, rowVars, settledBy, created, resting, late, faults>>

\* Any failure leaves the row SUBMITTED.
WriteUnavailable ==
    /\ pc = "write"
    /\ Fault("unavailable")
    /\ RowDone
    /\ UNCHANGED <<obpVars, rowVars, settledBy, created, resting, written, late>>

WriteUnanswered(x) ==
    /\ pc = "write"
    /\ PaymentOf(x) = cur.id /\ x \notin written \cup late.promise
    /\ Fault("lost")
    /\ late' = [late EXCEPT !.promise = @ \cup {x}]
    /\ RowDone
    /\ UNCHANGED <<obpVars, rowVars, settledBy, created, resting, written>>

\* The evidence is reported before the Promise is recorded.
MutantReportFirst ==
    /\ pc = "mark_promise_written"
    /\ pc' = "report"
    /\ UNCHANGED <<batch, cur, rowVars, settledBy, created, resting, obpVars, written, late, faults>>

MarkPromiseWritten ==
    /\ pc = "mark_promise_written"
    /\ status' = [status EXCEPT ![cur.id] = "PROMISE_WRITTEN"]
    /\ promiseTx' = [promiseTx EXCEPT ![cur.id] = cur.promiseTx]
    /\ pc' = "report"
    /\ UNCHANGED <<obpId, batch, cur, settledBy, created, resting, obpVars, written, late, faults>>

-----------------------------------------------------------------------------
(* Step 3: report_promise.                                                 *)

\* OBP-API attaches evidence once, to a TR that no settlement has covered;
\* the same evidence again is answered like the first time.
Attachable(t, x) == evidence[t] = x \/ (evidence[t] = None /\ coveredBy[t] = None)

\* Without the TR id there is nothing to address the report to.
Unreportable ==
    /\ pc = "report" /\ (cur.obpId = None \/ cur.promiseTx = None)
    /\ pc' = "mark_exception"
    /\ UNCHANGED <<batch, cur, obpVars, rowVars, settledBy, created, resting, written, late, faults>>

Reportable == pc = "report" /\ cur.obpId # None /\ cur.promiseTx # None

ReportAccepted ==
    /\ Reportable /\ Attachable(cur.obpId, cur.promiseTx)
    /\ evidence' = [evidence EXCEPT ![cur.obpId] = cur.promiseTx]
    /\ pc' = "mark_reported"
    /\ UNCHANGED <<batch, cur, trs, coveredBy, rowVars, settledBy, created, resting, written, late, faults>>

\* Terminal: OBP-40052 for a covered TR, OBP-40053 for other evidence, or any
\* other business code.
ReportRejected ==
    /\ Reportable
    /\ pc' = "mark_exception"
    /\ UNCHANGED <<batch, cur, obpVars, rowVars, settledBy, created, resting, written, late, faults>>

ReportUnavailable ==
    /\ Reportable
    /\ Fault("unavailable")
    /\ RowDone
    /\ UNCHANGED <<obpVars, rowVars, settledBy, created, resting, written, late>>

ReportUnanswered ==
    /\ Reportable
    /\ Fault("lost")
    /\ late' = [late EXCEPT !.report = @ \cup {<<cur.obpId, cur.promiseTx>>}]
    /\ RowDone
    /\ UNCHANGED <<obpVars, rowVars, settledBy, created, resting, written>>

\* A failure text cut inside a character panics, which ends the task: no row
\* is processed again until the process is restarted.
Panic ==
    /\ pc = "submit" \/ Reportable
    /\ Fault("cut")
    /\ pc' = "dead" /\ batch' = {} /\ cur' = NoRow
    /\ UNCHANGED <<obpVars, rowVars, settledBy, created, resting, written, late>>

MarkReported ==
    /\ pc = "mark_reported"
    /\ status' = [status EXCEPT ![cur.id] = "REPORTED"]
    /\ RowDone
    /\ UNCHANGED <<obpId, promiseTx, settledBy, created, resting, obpVars, written, late, faults>>

MarkException ==
    /\ pc = "mark_exception"
    /\ status' = [status EXCEPT ![cur.id] = "EXCEPTION"]
    /\ RowDone
    /\ UNCHANGED <<obpId, promiseTx, settledBy, created, resting, obpVars, written, late, faults>>

-----------------------------------------------------------------------------
(* Settlements: made by OBP-API on its own or for request_settlement.      *)

\* OBP-API nets TRs that no settlement has covered.
Settle(s) ==
    /\ \A t \in TRs : coveredBy[t] # s
    /\ \E C \in SUBSET {t \in trs : coveredBy[t] = None} \ {{}} :
          coveredBy' = [t \in TRs |-> IF t \in C THEN s ELSE coveredBy[t]]
    /\ UNCHANGED <<trs, evidence, rowVars, settledBy, created, resting, taskVars, written, late, faults>>

\* A later settlement overwrites the linkage of rows it does not cover.
MutantStampAll(s) ==
    [p \in Payments |-> IF obpId[p] # None THEN s ELSE settledBy[p]]

\* OutboxStore::mark_settled: unstamped rows whose TR is covered.
Stamped(s) ==
    [p \in Payments |->
        IF settledBy[p] = None /\ obpId[p] # None /\ coveredBy[obpId[p]] = s
        THEN s ELSE settledBy[p]]

\* The covered list of an existing settlement reaches mark_settled: by the
\* reply to request_settlement, by settlement_advice (redelivered at will) or
\* by get_corridor_settlement.  A store failure there changes nothing.
Stamp(s) ==
    /\ \E t \in TRs : coveredBy[t] = s
    /\ settledBy' = Stamped(s)
    /\ UNCHANGED <<rowVars, created, resting, taskVars, obpVars, written, late, faults>>

-----------------------------------------------------------------------------
(* Requests given up on that the remote end carries out after all.         *)

LateTR(t) ==
    /\ t \in late.tr
    /\ late' = [late EXCEPT !.tr = @ \ {t}]
    /\ trs' = trs \cup {t}
    /\ UNCHANGED <<evidence, coveredBy, rowVars, settledBy, created, resting, taskVars, written, faults>>

LatePromise(x) ==
    /\ x \in late.promise
    /\ late' = [late EXCEPT !.promise = @ \ {x}]
    /\ written' = written \cup {x}
    /\ UNCHANGED <<rowVars, settledBy, created, resting, taskVars, obpVars, faults>>

LateReport(r) ==
    /\ r \in late.report
    /\ late' = [late EXCEPT !.report = @ \ {r}]
    /\ evidence' = IF Attachable(r[1], r[2]) THEN [evidence EXCEPT ![r[1]] = r[2]] ELSE evidence
    /\ UNCHANGED <<trs, coveredBy, rowVars, settledBy, created, resting, taskVars, written, faults>>

\* The process dies, or is stopped with its dispatcher dead, and comes back:
\* the outbox survives.
Crash ==
    /\ IF pc = "dead" THEN UNCHANGED faults ELSE Fault("crash")
    /\ pc' = "idle" /\ batch' = {} /\ cur' = NoRow
    /\ UNCHANGED <<rowVars, settledBy, created, resting, obpVars, written, late>>

-----------------------------------------------------------------------------
DispatcherStep ==
    \/ ClaimDue \/ StoreFails
    \/ \E r \in batch : TakeRow(r)
    \/ \E t \in TRs : SubmitAccepted(t) \/ SubmitUnanswered(t)
    \/ SubmitRejected \/ SubmitUnavailable \/ MarkSubmitted
    \/ \E x \in Promises : WriteAccepted(x) \/ WriteUnanswered(x)
    \/ WriteUnavailable \/ MarkPromiseWritten
    \/ Unreportable \/ ReportAccepted \/ ReportRejected \/ ReportUnavailable
    \/ ReportUnanswered \/ Panic \/ MarkReported \/ MarkException

OutsideStep ==
    \/ \E p \in Payments : Initiate(p) \/ Elapse(p)
    \/ \E s \in Settlements : Settle(s) \/ Stamp(s)
    \/ \E t \in TRs : LateTR(t)
    \/ \E x \in Promises : LatePromise(x)
    \/ \E r \in late.report : LateReport(r)

Next == DispatcherStep \/ OutsideStep \/ Crash

Spec == Init /\ [][Next]_vars

\* The dispatcher task loops for as long as it lives and its calls have
\* timeouts; clocks run.
FairSpec ==
    /\ Spec
    /\ WF_vars(DispatcherStep)
    /\ \A p \in Payments : WF_vars(Elapse(p))

-----------------------------------------------------------------------------
(* Properties.                                                             *)

\* No Promise goes on chain for a payment OBP-API does not know: the TR comes
\* first, whatever is lost, retried or restarted in between.
PromiseBacked ==
    \A x \in written \cup late.promise : \E t \in trs : PaymentOf(t) = PaymentOf(x)

\* What OBP-API holds, or is still being sent, as evidence for a TR is exactly
\* what the payment's row records: so a repeated report is never refused as
\* conflicting (OBP-40053), and the salt relay never points at a Promise the
\* node has forgotten.
EvidenceAgrees ==
    \A t \in TRs, x \in Promises :
        evidence[t] = x \/ <<t, x>> \in late.report =>
            LET p == PaymentOf(t) IN
            /\ obpId[p] = t /\ promiseTx[p] = x /\ x \in written
            /\ status[p] \in {"PROMISE_WRITTEN", "REPORTED", "EXCEPTION"}

\* REPORTED is true: OBP-API has the TR with the evidence of this row.
ReportedIsTrue ==
    \A p \in Payments : status[p] = "REPORTED" =>
        /\ obpId[p] \in trs /\ PaymentOf(obpId[p]) = p
        /\ promiseTx[p] \in written
        /\ evidence[obpId[p]] = promiseTx[p]

\* A settlement stamp is true: the settlement covers the TR of the row.
StampedIsCovered ==
    \A p \in Payments : settledBy[p] # None =>
        obpId[p] # None /\ coveredBy[obpId[p]] = settledBy[p]

\* Rows are written by unconditional UPDATEs from a batch read earlier; still
\* a row only moves along its lifecycle, a terminal one never moves, and a TR
\* id, a Promise or a stamp once recorded is never replaced.
Rank(s) == CASE s = "NONE" -> 0 [] s = "INITIATED" -> 1 [] s = "SUBMITTED" -> 2
             [] s = "PROMISE_WRITTEN" -> 3 [] OTHER -> 4

RowsKept ==
    \A p \in Payments :
        /\ Rank(status[p]) <= Rank(status'[p])
        /\ status[p] \in Terminal => status'[p] = status[p]
        /\ obpId[p] # None => obpId'[p] = obpId[p]
        /\ promiseTx[p] # None => promiseTx'[p] = promiseTx[p]
        /\ settledBy[p] # None => settledBy'[p] = settledBy[p]

NoWayBack == [][RowsKept]_vars

\* Every payment in the outbox ends REPORTED or EXCEPTION once faults cease,
\* even beside rows OBP-API never gives a verdict on, if they fit one batch.
\* The exception is a dispatcher that a failure text cut inside a character
\* has ended.
PaymentEnds ==
    \A p \in Payments \ Poison :
        status[p] = "INITIATED" ~> (status[p] \in Terminal \/ pc = "dead")

\* One payment makes at most one TR (dispatcher.rs: "a crash after OBP submit
\* but before the Promise write. The TR must NOT be re-submitted").
SubmittedOnce == \A t, u \in trs : PaymentOf(t) = PaymentOf(u) => t = u

=============================================================================
