------------------------- MODULE CreditNotification -------------------------
(***************************************************************************)
(* The beneficiary side of the node: the credit_notification handler of    *)
(* interface_c/router.rs, the EvidenceStore it keeps what it received in,  *)
(* the delivery to the bank's core banking system (CBS), and the RETURN    *)
(* promise a refused credit is answered with.  Beside it settlement_advice *)
(* stamps the evidence a settlement covers.  The CBS and OBP-API, which    *)
(* redelivers what it has no good answer to, are external.                 *)
(*                                                                         *)
(* The n-th delivery of credit c is <<c, n>>; so is what it leads to, the  *)
(* credit posted by the CBS or the return put into the outbox.             *)
(***************************************************************************)
EXTENDS Naturals, FiniteSets

CONSTANTS
    Credits,       \* transaction_request_ids of the credits
    Returns,       \* those that are themselves returns (return_of is set)
    Settlements,   \* settlements OBP-API may make
    MaxDeliveries, \* deliveries of one credit
    Faults,        \* fault kinds that may occur
    MaxFaults,     \* how many faults may occur in all
    None

FaultKinds == {"crash", "store", "unavailable", "lost"}

ASSUME CreditAssumption ==
    /\ Returns \subseteq Credits
    /\ MaxDeliveries \in Nat /\ MaxFaults \in Nat
    /\ Faults \subseteq FaultKinds
    /\ None \notin Settlements \cup (Credits \X (1..MaxDeliveries)) \cup Credits

Deliveries == Credits \X (1..MaxDeliveries)
CreditOf(d) == d[1]

VARIABLES
    evidence,   \* EvidenceStore: "none", or whether the row is verified
    cbsStatus,  \* EvidenceStore: cbs_status
    attempt,    \* EvidenceStore: cbs_recorded_at, as the delivery it tells of
    returnedBy, \* EvidenceStore: returned_by_transaction_request_id
    settledBy,  \* EvidenceStore: settlement_id
    pc,         \* handler: where in credit_notification it is
    cur,        \* handler: the delivery in hand
    content,    \* handler: what the message carries
    sent,       \* OBP-API: deliveries of each credit so far
    told,       \* OBP-API: the last answer it received for each credit
    coveredBy,  \* OBP-API: settlement that covers the credit
    credited,   \* CBS: deliveries it posted to the customer
    refused,    \* CBS: deliveries it answered with a 4xx
    inflight,   \* CBS: unanswered requests it may still carry out
    returned,   \* outbox: returns inserted
    faults      \* faults so far

rowVars  == <<evidence, cbsStatus, attempt, returnedBy>>
taskVars == <<pc, cur, content>>
obpVars  == <<sent, coveredBy>>
cbsVars  == <<credited, refused, inflight>>
vars == <<rowVars, settledBy, taskVars, obpVars, told, cbsVars, returned, faults>>

Places   == {"idle", "upsert", "deliver", "delivered", "rejected", "failed", "return", "link"}
Contents == {"matching", "mismatch", "incomplete"}
Answers  == {"none", "PLATFORM", "COMMITMENT_MISMATCH", "CREDITED", "RETURNED",
             "CBS_REJECTED", "CBS_DELIVERY_FAILED"}

TypeOK ==
    /\ evidence \in [Credits -> {"none", "verified", "unverified"}]
    /\ cbsStatus \in [Credits -> {"none", "DELIVERED", "REJECTED", "FAILED"}]
    /\ attempt \in [Credits -> 0..MaxDeliveries]
    /\ returnedBy \in [Credits -> Deliveries \cup {None}]
    /\ settledBy \in [Credits -> Settlements \cup {None}]
    /\ pc \in Places
    /\ cur \in Deliveries \cup {None} /\ (pc # "idle" => cur \in Deliveries)
    /\ content \in Contents
    /\ sent \in [Credits -> 0..MaxDeliveries]
    /\ told \in [Credits -> Answers]
    /\ coveredBy \in [Credits -> Settlements \cup {None}]
    /\ credited \subseteq Deliveries /\ refused \subseteq Deliveries
    /\ inflight \subseteq Deliveries /\ returned \subseteq Deliveries
    /\ faults \in 0..MaxFaults

Init ==
    /\ evidence = [c \in Credits |-> "none"]
    /\ cbsStatus = [c \in Credits |-> "none"]
    /\ attempt = [c \in Credits |-> 0]
    /\ returnedBy = [c \in Credits |-> None]
    /\ settledBy = [c \in Credits |-> None]
    /\ pc = "idle" /\ cur = None /\ content = "incomplete"
    /\ sent = [c \in Credits |-> 0]
    /\ told = [c \in Credits |-> "none"]
    /\ coveredBy = [c \in Credits |-> None]
    /\ credited = {} /\ refused = {} /\ inflight = {} /\ returned = {}
    /\ faults = 0

Fault(kind) ==
    /\ kind \in Faults
    /\ faults < MaxFaults
    /\ faults' = faults + 1

\* The handler ends; its reply reaches OBP-API or is lost.
Reply(answer) ==
    /\ pc' = "idle" /\ cur' = None /\ content' = "incomplete"
    /\ told' = told \/ told' = [told EXCEPT ![CreditOf(cur)] = answer]

Goto(place) == pc' = place /\ UNCHANGED <<cur, content, told>>

-----------------------------------------------------------------------------
\* A well-formed notification arrives, for the first time or again.
Deliver(c, m) ==
    /\ pc = "idle" /\ sent[c] < MaxDeliveries
    /\ sent' = [sent EXCEPT ![c] = @ + 1]
    /\ pc' = "upsert" /\ cur' = <<c, sent[c] + 1>> /\ content' = m
    /\ UNCHANGED <<rowVars, settledBy, told, coveredBy, cbsVars, returned, faults>>

Verdict == IF content = "matching" THEN "verified" ELSE "unverified"

\* The row is replaced as a whole.
MutantReplaceRow(c) ==
    /\ evidence' = [evidence EXCEPT ![c] = Verdict]
    /\ cbsStatus' = [cbsStatus EXCEPT ![c] = "none"]
    /\ attempt' = [attempt EXCEPT ![c] = 0]
    /\ returnedBy' = [returnedBy EXCEPT ![c] = None]

\* EvidenceStore::upsert replaces the evidence and keeps what became of it.
UpsertRow(c) ==
    /\ evidence' = [evidence EXCEPT ![c] = Verdict]
    /\ UNCHANGED <<cbsStatus, attempt, returnedBy>>

\* A mismatch is recorded, and that is all.
Upsert ==
    /\ pc = "upsert"
    /\ UpsertRow(CreditOf(cur))
    /\ \/ content = "mismatch" /\ Reply("COMMITMENT_MISMATCH")
       \/ content # "mismatch" /\ Goto("deliver")
    /\ UNCHANGED <<settledBy, obpVars, cbsVars, returned, faults>>

\* The credit is delivered although the evidence could not be stored.
MutantDeliverAnyway ==
    /\ pc = "upsert"
    /\ Fault("store")
    /\ Goto("deliver")
    /\ UNCHANGED <<rowVars, settledBy, obpVars, cbsVars, returned>>

UpsertFails ==
    /\ pc = "upsert"
    /\ Fault("store")
    /\ Reply("PLATFORM")
    /\ UNCHANGED <<rowVars, settledBy, obpVars, cbsVars, returned>>

-----------------------------------------------------------------------------
(* The delivery to the CBS, and what is recorded of it.  A failure to      *)
(* record is logged and nothing else.                                      *)

CbsAccepts ==
    /\ pc = "deliver"
    /\ credited' = credited \cup {cur}
    /\ Goto("delivered")
    /\ UNCHANGED <<rowVars, settledBy, obpVars, refused, inflight, returned, faults>>

CbsRefuses ==
    /\ pc = "deliver"
    /\ refused' = refused \cup {cur}
    /\ Goto("rejected")
    /\ UNCHANGED <<rowVars, settledBy, obpVars, credited, inflight, returned, faults>>

\* A 5xx, or no connection.
CbsUnavailable ==
    /\ pc = "deliver"
    /\ Fault("unavailable")
    /\ Goto("failed")
    /\ UNCHANGED <<rowVars, settledBy, obpVars, cbsVars, returned>>

\* An unanswered delivery counts as refused.
MutantTimeoutIsRefusal ==
    /\ pc = "deliver"
    /\ Fault("lost")
    /\ inflight' = inflight \cup {cur}
    /\ Goto("rejected")
    /\ UNCHANGED <<rowVars, settledBy, obpVars, credited, refused, returned>>

\* The answer does not arrive in time.
CbsUnanswered ==
    /\ pc = "deliver"
    /\ Fault("lost")
    /\ inflight' = inflight \cup {cur}
    /\ Goto("failed")
    /\ UNCHANGED <<rowVars, settledBy, obpVars, credited, refused, returned>>

\* The first result is kept, as the settlement stamp is, under the new time.
MutantFirstResultKept(c, s) ==
    /\ cbsStatus' = [cbsStatus EXCEPT ![c] = IF @ = "none" THEN s ELSE @]
    /\ attempt' = [attempt EXCEPT ![c] = cur[2]]
    /\ UNCHANGED faults

\* The latest attempt wins, also over a delivery that was good.
RecordCbsResult(c, s) ==
    \/ /\ cbsStatus' = [cbsStatus EXCEPT ![c] = s]
       /\ attempt' = [attempt EXCEPT ![c] = cur[2]]
       /\ UNCHANGED faults
    \/ Fault("store") /\ UNCHANGED <<cbsStatus, attempt>>

Delivered ==
    /\ pc = "delivered"
    /\ RecordCbsResult(CreditOf(cur), "DELIVERED")
    /\ Reply("CREDITED")
    /\ UNCHANGED <<evidence, returnedBy, settledBy, obpVars, cbsVars, returned>>

Failed ==
    /\ pc = "failed"
    /\ RecordCbsResult(CreditOf(cur), "FAILED")
    /\ Reply("CBS_DELIVERY_FAILED")
    /\ UNCHANGED <<evidence, returnedBy, settledBy, obpVars, cbsVars, returned>>

\* One hop only: a refused return is not returned.
Rejected ==
    /\ pc = "rejected"
    /\ RecordCbsResult(CreditOf(cur), "REJECTED")
    /\ \/ CreditOf(cur) \in Returns /\ Reply("CBS_REJECTED")
       \/ CreditOf(cur) \notin Returns /\ Goto("return")
    /\ UNCHANGED <<evidence, returnedBy, settledBy, obpVars, cbsVars, returned>>

-----------------------------------------------------------------------------
(* The return.                                                             *)

\* initiate_return: a fresh outbox row, which the dispatcher takes over ...
InitiateReturn ==
    /\ pc = "return"
    /\ returned' = returned \cup {cur}
    /\ Goto("link")
    /\ UNCHANGED <<rowVars, settledBy, obpVars, cbsVars, faults>>

\* ... unless the preimage names no originator to return to (a message without
\* preimage never does), or the insert fails.
NoReturn ==
    /\ pc = "return"
    /\ Reply("CBS_REJECTED")
    /\ UNCHANGED <<rowVars, settledBy, obpVars, cbsVars, returned, faults>>

\* record_return, whose failure is only logged.
RecordReturn(c) == [returnedBy EXCEPT ![c] = cur]

LinkReturn ==
    /\ pc = "link"
    /\ \/ returnedBy' = RecordReturn(CreditOf(cur)) /\ UNCHANGED faults
       \/ Fault("store") /\ UNCHANGED returnedBy
    /\ Reply("RETURNED")
    /\ UNCHANGED <<evidence, cbsStatus, attempt, settledBy, obpVars, cbsVars, returned>>

-----------------------------------------------------------------------------
\* A settlement covers the credit.
Cover(c, s) ==
    /\ coveredBy[c] = None
    /\ coveredBy' = [coveredBy EXCEPT ![c] = s]
    /\ UNCHANGED <<sent, rowVars, settledBy, taskVars, told, cbsVars, returned, faults>>

\* settlement_advice stamps row by row: a store failure leaves the rest.  The
\* consumer is one task, so not while a credit is in hand.
Stamp(c) ==
    /\ pc = "idle"
    /\ coveredBy[c] # None /\ evidence[c] # "none" /\ settledBy[c] = None
    /\ settledBy' = [settledBy EXCEPT ![c] = coveredBy[c]]
    /\ UNCHANGED <<rowVars, taskVars, obpVars, told, cbsVars, returned, faults>>

\* The CBS carries out a request after its answer was given up on.
LateCredit(d) ==
    /\ d \in inflight
    /\ inflight' = inflight \ {d}
    /\ credited' = credited \cup {d}
    /\ UNCHANGED <<refused, rowVars, settledBy, taskVars, obpVars, told, returned, faults>>

\* The process dies and comes back: the stores survive.
Crash ==
    /\ Fault("crash")
    /\ pc' = "idle" /\ cur' = None /\ content' = "incomplete"
    /\ UNCHANGED <<rowVars, settledBy, obpVars, told, cbsVars, returned>>

HandlerStep ==
    \/ Upsert \/ UpsertFails
    \/ CbsAccepts \/ CbsRefuses \/ CbsUnavailable \/ CbsUnanswered
    \/ Delivered \/ Rejected \/ Failed
    \/ InitiateReturn \/ NoReturn \/ LinkReturn

Next ==
    \/ \E c \in Credits, m \in Contents : Deliver(c, m)
    \/ HandlerStep
    \/ \E c \in Credits, s \in Settlements : Cover(c, s)
    \/ \E c \in Credits : Stamp(c)
    \/ \E d \in inflight : LateCredit(d)
    \/ Crash

Spec == Init /\ [][Next]_vars

-----------------------------------------------------------------------------
(* Properties.                                                             *)

\* The bank never credits, refuses or returns a payment it holds no evidence
\* of: the durable row comes before anything the CBS is asked to do.
EvidenceFirst ==
    \A d \in credited \cup refused \cup inflight \cup returned :
        evidence[CreditOf(d)] # "none"

\* What OBP-API was told and what the row says became of a credit is true: a
\* credit it counts as paid out was posted, a returned one was refused by the
\* CBS and has its return in the outbox, and the recorded status is the answer
\* to the very delivery it was recorded for, whatever came of the others.
OutcomeIsTrue ==
    \A c \in Credits :
        /\ told[c] = "CREDITED" => \E d \in credited : CreditOf(d) = c
        /\ told[c] = "RETURNED" => \E d \in returned \cap refused : CreditOf(d) = c
        /\ cbsStatus[c] = "DELIVERED" => <<c, attempt[c]>> \in credited
        /\ cbsStatus[c] = "REJECTED" => <<c, attempt[c]>> \in refused
        /\ cbsStatus[c] = "FAILED" => <<c, attempt[c]>> \notin refused \cup returned
        /\ returnedBy[c] # None =>
              returnedBy[c] \in returned \cap refused /\ CreditOf(returnedBy[c]) = c

\* A return goes out only for a delivery the CBS refused, and only for an
\* original payment: money is never returned that may yet be credited by the
\* same delivery, and a return never bounces.
ReturnsAreDue ==
    \A d \in returned :
        /\ d \in refused /\ d \notin credited \cup inflight
        /\ CreditOf(d) \notin Returns

\* A redelivery can only add to what the row says became of a credit.  The
\* result of an attempt gives way to that of a later attempt, recorded when the
\* handler has it in hand, and to nothing else: not to the redelivered message,
\* not to a restart, not to an attempt whose result could not be stored.  The
\* link to a return gives way to a later return alone, and a settlement stamp
\* to nothing.
AttemptsAdvance ==
    \A c \in Credits :
        /\ attempt'[c] >= attempt[c]
        /\ <<cbsStatus'[c], attempt'[c]>> # <<cbsStatus[c], attempt[c]>> =>
              cur = <<c, attempt'[c]>> /\ attempt'[c] > attempt[c]
        /\ returnedBy[c] # None /\ returnedBy'[c] # returnedBy[c] =>
              returnedBy'[c] # None /\ returnedBy'[c][2] > returnedBy[c][2]
        /\ settledBy[c] # None => settledBy'[c] = settledBy[c]

LatestAttemptWins == [][AttemptsAdvance]_vars

\* One credit is paid out or returned, once (evidence.rs: "a duplicate delivery
\* replaces the row rather than erroring, so an at-least-once broker redelivery
\* is safe").
PaidOutOnce ==
    /\ \A d, e \in credited \cup returned : CreditOf(d) = CreditOf(e) => d = e
    /\ credited \cap returned = {}

=============================================================================
