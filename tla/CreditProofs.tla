---------------------------- MODULE CreditProofs ----------------------------
(***************************************************************************)
(* Proofs about CreditNotification, for any number of credits, deliveries, *)
(* settlements and faults.                                                 *)
(***************************************************************************)
EXTENDS CreditNotification, TLAPS

\* Deliveries that came to something at the CBS or in the outbox.
Acted == credited \cup refused \cup inflight \cup returned

\* Deliveries are numbered as they come, so the one in hand has left no trace
\* at the CBS before it answers, nor in the row before its result is recorded.
NumberInv ==
    /\ \A d \in Acted : d[2] <= sent[CreditOf(d)]
    /\ pc # "idle" => cur[2] = sent[CreditOf(cur)]
    /\ pc \in {"upsert", "deliver"} => cur \notin Acted
    /\ \A c \in Credits : attempt[c] <= sent[c]
    /\ pc \in {"upsert", "deliver", "delivered", "rejected", "failed"} =>
          attempt[CreditOf(cur)] < sent[CreditOf(cur)]
    /\ \A c \in Credits : returnedBy[c] # None => returnedBy[c][2] <= sent[c]
    /\ pc # "idle" => \/ returnedBy[CreditOf(cur)] = None
                             \/ returnedBy[CreditOf(cur)][2] < sent[CreditOf(cur)]

\* Where the handler is tells what the CBS and the outbox have done.
HandlerInv ==
    /\ pc \notin {"idle", "upsert"} => evidence[CreditOf(cur)] # "none"
    /\ pc = "delivered" => cur \in credited
    /\ pc = "failed" => cur \notin refused \cup returned
    /\ pc \in {"rejected", "return", "link"} => cur \in refused
    /\ pc \in {"return", "link"} => CreditOf(cur) \notin Returns
    /\ pc = "link" => cur \in returned

\* A delivery the CBS refused is not one it will post.
RefusedInv == refused \cap (credited \cup inflight) = {}

IInv ==
    /\ TypeOK
    /\ NumberInv
    /\ HandlerInv
    /\ RefusedInv
    /\ EvidenceFirst
    /\ OutcomeIsTrue
    /\ ReturnsAreDue

-----------------------------------------------------------------------------
\* The steps of the handler up to the CBS's answer.
LEMMA DeliverySafe ==
    ASSUME IInv,
           \/ \E c \in Credits, m \in Contents : Deliver(c, m)
           \/ Upsert \/ UpsertFails
           \/ CbsAccepts \/ CbsRefuses \/ CbsUnavailable \/ CbsUnanswered
    PROVE  IInv'
  <1> USE CreditAssumption DEF IInv, TypeOK, NumberInv, HandlerInv, RefusedInv, EvidenceFirst,
          OutcomeIsTrue, ReturnsAreDue, Acted, CreditOf, Deliveries, Places, Contents,
          Answers, rowVars, taskVars, obpVars, cbsVars, Fault, Goto, Reply
  <1>1. CASE \E c \in Credits, m \in Contents : Deliver(c, m)
    BY <1>1 DEF Deliver
  <1>2. CASE Upsert
    BY <1>2 DEF Upsert, UpsertRow, Verdict
  <1>3. CASE UpsertFails
    BY <1>3 DEF UpsertFails
  <1>4. CASE CbsAccepts
    BY <1>4 DEF CbsAccepts
  <1>5. CASE CbsRefuses
    BY <1>5 DEF CbsRefuses
  <1>6. CASE CbsUnavailable
    BY <1>6 DEF CbsUnavailable
  <1>7. CASE CbsUnanswered
    BY <1>7 DEF CbsUnanswered
  <1> QED BY <1>1, <1>2, <1>3, <1>4, <1>5, <1>6, <1>7

\* The steps that record the outcome and return a refused credit.
LEMMA OutcomeSafe ==
    ASSUME IInv, Delivered \/ Rejected \/ Failed \/ InitiateReturn \/ NoReturn \/ LinkReturn
    PROVE  IInv'
  <1> USE CreditAssumption DEF IInv, TypeOK, NumberInv, HandlerInv, RefusedInv, EvidenceFirst,
          OutcomeIsTrue, ReturnsAreDue, Acted, CreditOf, Deliveries, Places, Contents,
          Answers, rowVars, taskVars, obpVars, cbsVars, Fault, Goto, Reply, RecordCbsResult
  <1>1. CASE Delivered
    <2> USE <1>1 DEF Delivered
    <2>1. TypeOK'
      OBVIOUS
    <2>2. NumberInv'
      OBVIOUS
    <2>3. HandlerInv' /\ RefusedInv' /\ EvidenceFirst' /\ ReturnsAreDue'
      OBVIOUS
    <2>4. OutcomeIsTrue'
      <3>1. ASSUME NEW c \in Credits
            PROVE  /\ cbsStatus'[c] = "DELIVERED" => <<c, attempt'[c]>> \in credited
                   /\ cbsStatus'[c] = "REJECTED" => <<c, attempt'[c]>> \in refused
                   /\ cbsStatus'[c] = "FAILED" => <<c, attempt'[c]>> \notin refused \cup returned
        <4>1. CASE c # cur[1]
          BY <4>1, <3>1
        <4>2. CASE c = cur[1]
          <5>1. cur = <<c, cur[2]>>
            BY <4>2
          <5> QED BY <4>2, <5>1, <3>1
        <4> QED BY <4>1, <4>2
      <3>2. ASSUME NEW c \in Credits
            PROVE  /\ told'[c] = "CREDITED" => \E d \in credited : CreditOf(d) = c
                   /\ told'[c] = "RETURNED" => \E d \in returned \cap refused : CreditOf(d) = c
        <4>1. told'[c] = told[c] \/ (c = cur[1] /\ told'[c] = "CREDITED")
          OBVIOUS
        <4>2. CASE told'[c] = told[c]
          BY <4>2, <3>2
        <4>3. CASE c = cur[1] /\ told'[c] = "CREDITED"
          BY <4>3
        <4> QED BY <4>1, <4>2, <4>3
      <3> QED BY <3>1, <3>2
    <2> QED BY <2>1, <2>2, <2>3, <2>4
  <1>2. CASE Rejected
    <2> USE <1>2 DEF Rejected
    <2>1. TypeOK'
      OBVIOUS
    <2>2. NumberInv'
      OBVIOUS
    <2>3. HandlerInv' /\ RefusedInv' /\ EvidenceFirst' /\ ReturnsAreDue'
      OBVIOUS
    <2>4. OutcomeIsTrue'
      <3>1. ASSUME NEW c \in Credits
            PROVE  /\ cbsStatus'[c] = "DELIVERED" => <<c, attempt'[c]>> \in credited
                   /\ cbsStatus'[c] = "REJECTED" => <<c, attempt'[c]>> \in refused
                   /\ cbsStatus'[c] = "FAILED" => <<c, attempt'[c]>> \notin refused \cup returned
        <4>1. CASE c # cur[1]
          BY <4>1, <3>1
        <4>2. CASE c = cur[1]
          <5>1. cur = <<c, cur[2]>>
            BY <4>2
          <5> QED BY <4>2, <5>1, <3>1
        <4> QED BY <4>1, <4>2
      <3>2. ASSUME NEW c \in Credits
            PROVE  /\ told'[c] = "CREDITED" => \E d \in credited : CreditOf(d) = c
                   /\ told'[c] = "RETURNED" => \E d \in returned \cap refused : CreditOf(d) = c
        <4>1. told'[c] = told[c] \/ (c = cur[1] /\ told'[c] = "CBS_REJECTED")
          OBVIOUS
        <4>2. CASE told'[c] = told[c]
          BY <4>2, <3>2
        <4>3. CASE c = cur[1] /\ told'[c] = "CBS_REJECTED"
          BY <4>3
        <4> QED BY <4>1, <4>2, <4>3
      <3> QED BY <3>1, <3>2
    <2> QED BY <2>1, <2>2, <2>3, <2>4
  <1>3. CASE Failed
    <2> USE <1>3 DEF Failed
    <2>1. TypeOK'
      OBVIOUS
    <2>2. NumberInv'
      OBVIOUS
    <2>3. HandlerInv' /\ RefusedInv' /\ EvidenceFirst' /\ ReturnsAreDue'
      OBVIOUS
    <2>4. OutcomeIsTrue'
      <3>1. ASSUME NEW c \in Credits
            PROVE  /\ cbsStatus'[c] = "DELIVERED" => <<c, attempt'[c]>> \in credited
                   /\ cbsStatus'[c] = "REJECTED" => <<c, attempt'[c]>> \in refused
                   /\ cbsStatus'[c] = "FAILED" => <<c, attempt'[c]>> \notin refused \cup returned
        <4>1. CASE c # cur[1]
          BY <4>1, <3>1
        <4>2. CASE c = cur[1]
          <5>1. cur = <<c, cur[2]>>
            BY <4>2
          <5> QED BY <4>2, <5>1, <3>1
        <4> QED BY <4>1, <4>2
      <3>2. ASSUME NEW c \in Credits
            PROVE  /\ told'[c] = "CREDITED" => \E d \in credited : CreditOf(d) = c
                   /\ told'[c] = "RETURNED" => \E d \in returned \cap refused : CreditOf(d) = c
        <4>1. told'[c] = told[c] \/ (c = cur[1] /\ told'[c] = "CBS_DELIVERY_FAILED")
          OBVIOUS
        <4>2. CASE told'[c] = told[c]
          BY <4>2, <3>2
        <4>3. CASE c = cur[1] /\ told'[c] = "CBS_DELIVERY_FAILED"
          BY <4>3
        <4> QED BY <4>1, <4>2, <4>3
      <3> QED BY <3>1, <3>2
    <2> QED BY <2>1, <2>2, <2>3, <2>4
  <1>4. CASE InitiateReturn
    BY <1>4 DEF InitiateReturn
  <1>5. CASE NoReturn
    BY <1>5 DEF NoReturn
  <1>6. CASE LinkReturn
    BY <1>6 DEF LinkReturn, RecordReturn
  <1> QED BY <1>1, <1>2, <1>3, <1>4, <1>5, <1>6

\* Settlements, late credits and restarts.
LEMMA OutsideSafe ==
    ASSUME IInv,
           \/ \E c \in Credits, s \in Settlements : Cover(c, s)
           \/ \E c \in Credits : Stamp(c)
           \/ \E d \in inflight : LateCredit(d)
           \/ Crash
    PROVE  IInv'
  <1> USE CreditAssumption DEF IInv, TypeOK, NumberInv, HandlerInv, RefusedInv, EvidenceFirst,
          OutcomeIsTrue, ReturnsAreDue, Acted, CreditOf, Deliveries, Places, Contents,
          rowVars, taskVars, obpVars, cbsVars, Fault
  <1>1. CASE \E c \in Credits, s \in Settlements : Cover(c, s)
    BY <1>1 DEF Cover
  <1>2. CASE \E c \in Credits : Stamp(c)
    BY <1>2 DEF Stamp
  <1>3. CASE \E d \in inflight : LateCredit(d)
    BY <1>3 DEF LateCredit
  <1>4. CASE Crash
    BY <1>4 DEF Crash
  <1> QED BY <1>1, <1>2, <1>3, <1>4

\* The invariant holds before the first delivery.
LEMMA SafeInit == Init => IInv
  BY CreditAssumption
     DEF Init, IInv, TypeOK, NumberInv, HandlerInv, RefusedInv, EvidenceFirst, OutcomeIsTrue,
         ReturnsAreDue, Acted, Places, Contents, Answers

\* Every step keeps the invariant.
LEMMA SafeStep == IInv /\ [Next]_vars => IInv'
  <1> SUFFICES ASSUME IInv, [Next]_vars PROVE IInv'
    OBVIOUS
  <1>1. CASE UNCHANGED vars
    BY <1>1 DEF IInv, TypeOK, NumberInv, HandlerInv, RefusedInv, EvidenceFirst, OutcomeIsTrue,
         ReturnsAreDue, Acted, vars, rowVars, taskVars, obpVars, cbsVars
  <1>2. CASE Next
    BY <1>2, DeliverySafe, OutcomeSafe, OutsideSafe DEF Next, HandlerStep
  <1> QED BY <1>1, <1>2

\* The invariant holds of every reachable state.
LEMMA Safe == Spec => []IInv
  BY SafeInit, SafeStep, PTL DEF Spec

\* Every reachable state of the evidence store, the handler, the CBS and
\* OBP-API's records is well typed.
THEOREM TypeCorrect == Spec => []TypeOK
  <1>1. IInv => TypeOK
    BY DEF IInv
  <1> QED BY <1>1, Safe, PTL

\* The bank holds durable evidence of every credit it acts on.
THEOREM EvidenceComesFirst == Spec => []EvidenceFirst
  <1>1. IInv => EvidenceFirst
    BY DEF IInv
  <1> QED BY <1>1, Safe, PTL

\* What OBP-API was told and the row records of a credit is true.
THEOREM OutcomesAreTrue == Spec => []OutcomeIsTrue
  <1>1. IInv => OutcomeIsTrue
    BY DEF IInv
  <1> QED BY <1>1, Safe, PTL

\* A return answers a refusal of the CBS and never another return.
THEOREM ReturnsAreAlwaysDue == Spec => []ReturnsAreDue
  <1>1. IInv => ReturnsAreDue
    BY DEF IInv
  <1> QED BY <1>1, Safe, PTL

-----------------------------------------------------------------------------
\* A step changes what the row says only by the result of the delivery in hand.
LEMMA AdvanceStep == IInv /\ [Next]_vars => AttemptsAdvance
  <1> SUFFICES ASSUME IInv, [Next]_vars PROVE AttemptsAdvance
    OBVIOUS
  <1> USE CreditAssumption DEF IInv, TypeOK, NumberInv, AttemptsAdvance, rowVars, Deliveries, CreditOf
  <1>1. CASE UNCHANGED <<cbsStatus, attempt, returnedBy, settledBy>>
    BY <1>1
  <1>2. CASE Delivered \/ Rejected \/ Failed
    BY <1>2 DEF Delivered, Rejected, Failed, RecordCbsResult
  <1>3. CASE LinkReturn
    BY <1>3 DEF LinkReturn, RecordReturn
  <1>4. CASE \E c \in Credits : Stamp(c)
    BY <1>4 DEF Stamp
  <1>5. ASSUME Next PROVE \/ UNCHANGED <<cbsStatus, attempt, returnedBy, settledBy>>
                          \/ Delivered \/ Rejected \/ Failed \/ LinkReturn
                          \/ \E c \in Credits : Stamp(c)
    BY <1>5 DEF Next, HandlerStep, Deliver, Upsert, UpsertRow, UpsertFails, CbsAccepts, CbsRefuses,
         CbsUnavailable, CbsUnanswered, InitiateReturn, NoReturn, Cover, LateCredit, Crash
  <1>6. UNCHANGED vars => UNCHANGED <<cbsStatus, attempt, returnedBy, settledBy>>
    BY DEF vars
  <1> QED BY <1>1, <1>2, <1>3, <1>4, <1>5, <1>6

\* What the row says became of a credit changes only by the result of a later
\* attempt or by a later return, and a settlement stamp never: no redelivered
\* message, restart or store failure takes the row back.
THEOREM LaterAttemptsOnly == Spec => LatestAttemptWins
  BY AdvanceStep, Safe, PTL DEF Spec, LatestAttemptWins

=============================================================================
