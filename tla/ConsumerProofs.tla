---------------------------- MODULE ConsumerProofs ----------------------------
(***************************************************************************)
(* What the Interface C consumer and the quote promise, for any messages,  *)
(* amounts, price sources, prices and number of faults.                    *)
(***************************************************************************)
EXTENDS Consumer, FiniteSetTheorems, WellFoundedInduction, TLAPS

-----------------------------------------------------------------------------
(* Powers of two: the recursive function is what its equation says.        *)

\* A set of numbers has a least one.
LEMMA NatLeast ==
    ASSUME NEW T \in SUBSET Nat, T # {}
    PROVE  \E m \in T : \A k \in T : m <= k
  <1>1. PICK m \in T : \A k \in T : ~(<<k, m>> \in OpToRel(<, Nat))
    BY NatLessThanWellFounded, WFMin
  <1>2. \A k \in Nat, n \in Nat : k < n => <<k, n>> \in OpToRel(<, Nat)
    BY DEF OpToRel
  <1>3. \A k \in T : ~(k < m)
    BY <1>1, <1>2
  <1> QED
    BY <1>3

Doubling(g, i) == IF i = 0 THEN 1 ELSE 2 * g[i - 1]

Upto(g, n) == g = [i \in 0..n |-> Doubling(g, i)]

\* The powers of two exist up to every number ...
LEMMA UptoExists == \A n \in Nat : \E g : Upto(g, n)
  <1> DEFINE bad == {n \in Nat : ~\E g : Upto(g, n)}
  <1>1. ASSUME NEW m \in bad, \A k \in bad : m <= k
        PROVE  FALSE
    <2>1. CASE m = 0
      <3>1. Upto([i \in 0..0 |-> 1], 0)
        BY DEF Upto, Doubling
      <3> QED
        BY <2>1, <3>1
    <2>2. CASE m # 0
      <3>1. m - 1 \in Nat /\ m - 1 \notin bad
        BY <1>1, <2>2
      <3>2. PICK g : Upto(g, m - 1)
        BY <3>1
      <3> DEFINE h == [i \in 0..m |-> Doubling(g, i)]
      <3>3. \A i \in 0..(m - 1) : i \in 0..m /\ g[i] = Doubling(g, i)
        BY <3>1, <3>2 DEF Upto
      <3>4. \A i \in 0..(m - 1) : h[i] = g[i]
        BY <3>3
      <3>5. \A i \in 0..m : Doubling(h, i) = Doubling(g, i)
        <4> HIDE DEF h
        <4> QED
          BY <3>4 DEF Doubling
      <3>6. Upto(h, m)
        <4>1. h = [i \in 0..m |-> Doubling(h, i)]
          BY <3>5
        <4> QED
          BY <4>1 DEF Upto
      <3> QED
        BY <3>6
    <2> QED
      BY <2>1, <2>2
  <1> QED
    BY <1>1, NatLeast

\* ... and are the same however far they are taken.
LEMMA UptoAgrees ==
    ASSUME NEW n \in Nat, NEW m \in Nat, n <= m, NEW g, NEW h, Upto(g, n), Upto(h, m)
    PROVE  \A i \in 0..n : g[i] = h[i]
  <1> DEFINE bad == {i \in Nat : i <= n /\ g[i] # h[i]}
  <1>1. ASSUME NEW k \in bad, \A i \in bad : k <= i
        PROVE  FALSE
    <2>1. k \in 0..n /\ k \in 0..m /\ g[k] = Doubling(g, k) /\ h[k] = Doubling(h, k)
      <3>1. k \in 0..n /\ k \in 0..m
        OBVIOUS
      <3>2. g[k] = Doubling(g, k)
        BY <3>1 DEF Upto
      <3>3. h[k] = Doubling(h, k)
        BY <3>1 DEF Upto
      <3> QED
        BY <3>1, <3>2, <3>3
    <2>2. k # 0
      BY <2>1 DEF Doubling
    <2>3. k - 1 \in 0..n /\ k - 1 \notin bad
      BY <1>1, <2>1, <2>2
    <2>4. g[k - 1] = h[k - 1]
      BY <2>3
    <2> QED
      BY <2>1, <2>2, <2>4 DEF Doubling
  <1>2. bad = {}
    BY <1>1, NatLeast
  <1> QED
    BY <1>2

\* PowerOfTwo is what its recursion says.
LEMMA PowersOfTwo ==
    PowerOfTwo[0] = 1 /\ \A n \in Nat : PowerOfTwo[n] \in Nat \ {0} /\ PowerOfTwo[n + 1] = 2 * PowerOfTwo[n]
  <1> DEFINE G(n) == CHOOSE g : Upto(g, n)
             f == [n \in Nat |-> G(n)[n]]
             Is(p) == p = [n \in Nat |-> IF n = 0 THEN 1 ELSE 2 * p[n - 1]]
  <1>1. \A n \in Nat : Upto(G(n), n)
    BY UptoExists
  <1>2. \A n \in Nat : f[n] = (IF n = 0 THEN 1 ELSE 2 * f[n - 1])
    <2> SUFFICES ASSUME NEW n \in Nat PROVE f[n] = (IF n = 0 THEN 1 ELSE 2 * f[n - 1])
      OBVIOUS
    <2> HIDE DEF G
    <2>1. G(n)[n] = Doubling(G(n), n)
      BY <1>1 DEF Upto
    <2>2. CASE n = 0
      BY <2>1, <2>2 DEF Doubling
    <2>3. CASE n # 0
      <3>1. n - 1 \in Nat /\ n - 1 <= n
        BY <2>3
      <3>2. G(n - 1)[n - 1] = G(n)[n - 1]
        BY <1>1, <3>1, UptoAgrees
      <3> QED
        BY <2>1, <2>3, <3>1, <3>2 DEF Doubling
    <2> QED
      BY <2>2, <2>3
  <1>3. Is(f)
    <2> HIDE DEF f
    <2>1. f = [n \in Nat |-> f[n]]
      BY DEF f
    <2> QED
      BY <1>2, <2>1
  <1>4. Is(PowerOfTwo)
    <2> HIDE DEF f
    <2>1. PowerOfTwo = CHOOSE p : Is(p)
      BY DEF PowerOfTwo
    <2> QED
      BY <1>3, <2>1
  <1>5. \A n \in Nat : PowerOfTwo[n] = (IF n = 0 THEN 1 ELSE 2 * PowerOfTwo[n - 1])
    BY <1>4
  <1>6. \A n \in Nat : PowerOfTwo[n] \in Nat \ {0}
    <2> DEFINE bad == {n \in Nat : PowerOfTwo[n] \notin Nat \ {0}}
    <2>1. ASSUME NEW m \in bad, \A k \in bad : m <= k
          PROVE  FALSE
      <3>1. m # 0
        BY <1>5
      <3>2. m - 1 \in Nat /\ m - 1 \notin bad
        BY <2>1, <3>1
      <3> QED
        BY <1>5, <3>1, <3>2
    <2> QED
      BY <2>1, NatLeast
  <1>7. \A n \in Nat : PowerOfTwo[n + 1] = 2 * PowerOfTwo[n]
    BY <1>5
  <1> QED
    BY <1>5, <1>6, <1>7

-----------------------------------------------------------------------------
(* The supervisor's backoff.                                               *)

\* A session that is to connect sleeps for the next power if it fails; the
\* status says whether one got to consuming.
BackoffInv ==
    /\ naps \in Nat
    /\ session \in {"connect", "consume", "sleep", "dead"}
    /\ session = "connect" => backoff = Doubled(naps) /\ status # "connected"
    /\ session = "consume" => status = "connected"
    /\ session = "sleep" => naps > 0 /\ backoff = Doubled(naps - 1) /\ status # "connected"

\* One more failure: the supervisor's next sleep is the base doubled once more.
LEMMA DoubledNext ==
    ASSUME NEW n \in Nat
    PROVE  NextBackoff(Doubled(n)) = Doubled(n + 1)
  <1>1. PowerOfTwo[n] \in Nat \ {0} /\ PowerOfTwo[n + 1] = 2 * PowerOfTwo[n] /\ BackoffMax \in Nat \ {0}
    BY PowersOfTwo, ConsumerAssumption
  <1> QED
    BY <1>1 DEF NextBackoff, Doubled

\* Before any failure it is the base.
LEMMA DoubledFirst == Doubled(0) = 1
  <1>1. PowerOfTwo[0] = 1 /\ BackoffMax \in Nat \ {0}
    BY PowersOfTwo, ConsumerAssumption
  <1> QED
    BY <1>1 DEF Doubled

\* Most steps are not the supervisor's.
LEMMA SupervisorSteps ==
    ASSUME Next
    PROVE  \/ UNCHANGED <<session, status, backoff, naps>>
           \/ Connect \/ ConnectFails \/ StreamEnds \/ Wake \/ HandlerPanics \/ Restart
  <1>1. CASE Take \/ HandleOther \/ HandleSettlement \/ Reply \/ Ack
    BY <1>1 DEF Take, HandleOther, HandleSettlement, Reply, Ack, Return
  <1>2. CASE QuoteStep
    BY <1>2 DEF QuoteStep, Return, loopVars
  <1>3. CASE MarketMoves \/ Break
    BY <1>3 DEF MarketMoves, Break, consumerVars, loopVars
  <1>4. ASSUME NEW m \in Messages, Relay(m) \/ Expire(m) \/ Push(m)
        PROVE  UNCHANGED <<session, status, backoff, naps>>
    BY <1>4 DEF Relay, Expire, Push, loopVars
  <1> QED
    BY <1>1, <1>2, <1>3, <1>4 DEF Next, Loop

\* Every step keeps backoff, status and the number of sleeps together.
LEMMA BackoffStep ==
    ASSUME BackoffInv, [Next]_vars
    PROVE  BackoffInv'
  <1>1. CASE UNCHANGED <<session, status, backoff, naps>>
    BY <1>1 DEF BackoffInv
  <1>2. CASE Connect
    BY <1>2 DEF Connect, BackoffInv
  <1>3. CASE ConnectFails
    BY <1>3 DEF ConnectFails, Sleep, BackoffInv
  <1>4. CASE StreamEnds
    <2>1. session' = "sleep" /\ status' = "reconnecting" /\ backoff' = 1 /\ naps' = 1
      BY <1>4 DEF StreamEnds, Sleep, BackoffInv
    <2>2. naps' > 0 /\ naps' \in Nat /\ naps' - 1 = 0
      BY <2>1
    <2> QED
      BY <2>1, <2>2, DoubledFirst DEF BackoffInv
  <1>5. CASE Wake
    <2>1. /\ session' = "connect" /\ status' = status /\ naps' = naps
          /\ backoff' = NextBackoff(Doubled(naps - 1)) /\ naps \in Nat /\ naps > 0
          /\ status # "connected"
      BY <1>5 DEF Wake, BackoffInv
    <2>2. backoff' = Doubled(naps)
      <3>1. naps - 1 \in Nat /\ (naps - 1) + 1 = naps
        BY <2>1
      <3>2. NextBackoff(Doubled(naps - 1)) = Doubled((naps - 1) + 1)
        BY <3>1, DoubledNext
      <3> QED
        BY <2>1, <3>1, <3>2
    <2> QED
      BY <2>1, <2>2 DEF BackoffInv
  <1>6. CASE HandlerPanics
    BY <1>6 DEF HandlerPanics, BackoffInv
  <1>7. CASE Restart
    <2>1. session' = "connect" /\ status' = "connecting" /\ backoff' = 1 /\ naps' = 0
      BY <1>7 DEF Restart
    <2> QED
      BY <2>1, DoubledFirst DEF BackoffInv
  <1> QED
    BY <1>1, <1>2, <1>3, <1>4, <1>5, <1>6, <1>7, SupervisorSteps DEF vars, consumerVars, loopVars

-----------------------------------------------------------------------------
(* The loop's body.                                                        *)

LoopTypes ==
    /\ status \in {"connecting", "connected", "reconnecting"}
    /\ backoff \in 1..BackoffMax
    /\ buffer \in Seq(Messages)
    /\ stage \in {"none", "handle", "quote", "reply", "ack"}
    /\ doing \in Messages \cup {None}
    /\ stage # "none" => doing \in Messages

QueueTypes == ready \in [Messages -> Nat] /\ answered \subseteq Messages

FaultCount == consumerFaults \in 0..MaxConsumerFaults

\* Faults are counted within their bound.
LEMMA FaultStep ==
    ASSUME FaultCount, [Next]_vars
    PROVE  FaultCount'
  <1>1. \/ consumerFaults' = consumerFaults
        \/ consumerFaults < MaxConsumerFaults /\ consumerFaults' = consumerFaults + 1
    <2>1. CASE UNCHANGED vars
      BY <2>1 DEF vars, consumerVars
    <2>2. CASE Loop
      BY <2>2 DEF Loop, Connect, ConnectFails, StreamEnds, Wake, Take, HandleOther, HandleSettlement,
         HandlerPanics, QuoteStep, Reply, Ack, ConsumerFault, NoFault
    <2>3. CASE MarketMoves \/ Break \/ Restart
      BY <2>3 DEF MarketMoves, Break, Restart, ConsumerFault, consumerVars
    <2>4. ASSUME NEW m \in Messages, Relay(m) \/ Expire(m) \/ Push(m)
          PROVE  consumerFaults' = consumerFaults
      BY <2>4 DEF Relay, Expire, Push
    <2> QED
      BY <2>1, <2>2, <2>3, <2>4 DEF Next
  <1>2. MaxConsumerFaults \in Nat
    BY ConsumerAssumption
  <1> QED
    BY <1>1, <1>2 DEF FaultCount

\* Every step keeps the types of supervisor and loop.
LEMMA LoopStep ==
    ASSUME LoopTypes, [Next]_vars
    PROVE  LoopTypes'
  <1> USE DEF LoopTypes
  <1>0. BackoffMax \in Nat \ {0}
    BY ConsumerAssumption
  <1>1. CASE UNCHANGED <<status, backoff, buffer, stage, doing>>
    BY <1>1
  <1>2. CASE Connect
    BY <1>2 DEF Connect
  <1>3. CASE ConnectFails \/ StreamEnds
    <2>1. UNCHANGED <<buffer, stage, doing>> /\ status' = "reconnecting" /\ backoff' \in {1, backoff}
      BY <1>3 DEF ConnectFails, StreamEnds, Sleep
    <2> QED
      BY <1>0, <2>1
  <1>4. CASE Wake
    <2>1. UNCHANGED <<status, buffer, stage, doing>> /\ backoff' = NextBackoff(backoff)
      BY <1>4 DEF Wake
    <2>2. NextBackoff(backoff) \in 1..BackoffMax
      BY <1>0 DEF NextBackoff
    <2> QED
      BY <2>1, <2>2
  <1>5. CASE Take
    <2>1. Head(buffer) \in Messages /\ Tail(buffer) \in Seq(Messages)
      BY <1>5 DEF Take
    <2> QED
      BY <1>5, <2>1 DEF Take
  <1>6. CASE HandleOther
    BY <1>6 DEF HandleOther, Return
  <1>7. CASE HandleSettlement
    <2>1. stage = "handle" /\ stage' = "quote" /\ UNCHANGED <<status, backoff, buffer, doing>>
      BY <1>7 DEF HandleSettlement
    <2> QED
      BY <2>1
  <1>8. CASE HandlerPanics
    <2>1. buffer' = <<>> /\ doing' = None /\ stage' = "none" /\ UNCHANGED <<status, backoff>>
      BY <1>8 DEF HandlerPanics
    <2> QED
      BY <2>1
  <1>9. CASE QuoteStep
    <2>1. stage = "quote" /\ stage' \in {stage, "reply"} /\ UNCHANGED <<status, backoff, buffer, doing>>
      BY <1>9 DEF QuoteStep, Return, loopVars
    <2> QED
      BY <2>1
  <1>10. CASE Reply
    <2>1. stage = "reply" /\ stage' = "ack" /\ UNCHANGED <<status, backoff, buffer, doing>>
      BY <1>10 DEF Reply
    <2> QED
      BY <2>1
  <1>11. CASE Ack
    <2>1. doing' = None /\ stage' = "none" /\ UNCHANGED <<status, backoff, buffer>>
      BY <1>11 DEF Ack
    <2> QED
      BY <2>1
  <1>12. CASE Restart
    <2>1. /\ status' = "connecting" /\ backoff' = 1 /\ buffer' = <<>> /\ doing' = None
          /\ stage' = "none"
      BY <1>12 DEF Restart
    <2> QED
      BY <1>0, <2>1
  <1>13. CASE MarketMoves \/ Break
    BY <1>1, <1>13 DEF MarketMoves, Break, consumerVars, loopVars
  <1>14. ASSUME NEW m \in Messages, Relay(m) \/ Expire(m) \/ Push(m)
         PROVE  LoopTypes'
    <2>1. CASE Relay(m) \/ Expire(m)
      BY <1>1, <2>1 DEF Relay, Expire, loopVars
    <2>2. CASE Push(m)
      <3>1. buffer' = Append(buffer, m) /\ UNCHANGED <<status, backoff, stage, doing>>
        BY <2>2 DEF Push
      <3> QED
        BY <3>1
    <2> QED
      BY <1>14, <2>1, <2>2
  <1>15. CASE UNCHANGED vars
    BY <1>1, <1>15 DEF vars, consumerVars, loopVars
  <1> QED
    BY <1>2, <1>3, <1>4, <1>5, <1>6, <1>7, <1>8, <1>9, <1>10, <1>11, <1>12, <1>13, <1>14, <1>15
       DEF Next, Loop

\* What the client has not acknowledged is counted by a number.
LEMMA UnackedType ==
    ASSUME NEW m, buffer \in Seq(Messages)
    PROVE  Unacked(m) \in Nat
  <1> DEFINE copies == {i \in DOMAIN buffer : buffer[i] = m}
  <1>1. copies \in SUBSET (1..Len(buffer)) /\ Len(buffer) \in Nat
    OBVIOUS
  <1>2. IsFiniteSet(1..Len(buffer))
    BY <1>1, FS_Interval
  <1>3. Cardinality(copies) \in Nat
    BY <1>1, <1>2, FS_Subset, FS_CardinalityType
  <1> QED
    BY <1>3 DEF Unacked

\* Every step keeps the types of the broker's queue.
LEMMA QueueStep ==
    ASSUME LoopTypes, QueueTypes, [Next]_vars
    PROVE  QueueTypes'
  <1>1. \A m \in Messages : ready[m] \in Nat
    BY DEF QueueTypes
  <1>2. \A m \in Messages : (ready[m] + (IF link THEN Unacked(m) ELSE 0)) \in Nat
    <2>1. \A m \in Messages : Unacked(m) \in Nat
      BY UnackedType DEF LoopTypes
    <2> QED
      BY <1>1, <2>1
  <1>3. Requeue => ready' \in [Messages -> Nat]
    <2> SUFFICES ASSUME Requeue PROVE ready' \in [Messages -> Nat]
      OBVIOUS
    <2>1. ready' = [m \in Messages |-> ready[m] + (IF link THEN Unacked(m) ELSE 0)]
      BY DEF Requeue
    <2> QED
      BY <1>2, <2>1
  <1>4. ready' \in [Messages -> Nat]
    <2>1. CASE UNCHANGED ready
      BY <2>1 DEF QueueTypes
    <2>2. CASE HandlerPanics \/ Break \/ Restart
      BY <1>3, <2>2 DEF HandlerPanics, Break, Restart
    <2>3. ASSUME NEW m \in Messages, Relay(m) \/ Expire(m) \/ Push(m)
          PROVE  ready' \in [Messages -> Nat]
      <3>1. \/ ready' = [ready EXCEPT ![m] = 1]
            \/ ready[m] > 0 /\ ready' = [ready EXCEPT ![m] = ready[m] - 1]
        BY <2>3 DEF Relay, Expire, Push
      <3> QED
        BY <3>1 DEF QueueTypes
    <2>4. CASE UNCHANGED vars \/ MarketMoves
      BY <2>1, <2>4 DEF vars, MarketMoves, consumerVars, worldVars
    <2>5. CASE Loop /\ ~HandlerPanics
      <3>1. UNCHANGED ready
        BY <2>5 DEF Loop, Connect, ConnectFails, StreamEnds, Wake, Take, HandleOther, HandleSettlement,
           QuoteStep, Reply, Ack, Return, worldVars
      <3> QED
        BY <2>1, <3>1
    <2> QED
      BY <2>2, <2>3, <2>4, <2>5 DEF Next
  <1>5. answered' \subseteq Messages
    <2>1. CASE Reply
      BY <2>1 DEF Reply, LoopTypes, QueueTypes
    <2>2. CASE UNCHANGED answered
      BY <2>2 DEF QueueTypes
    <2>3. CASE Loop /\ ~Reply
      <3>1. UNCHANGED answered
        BY <2>3 DEF Loop, Connect, ConnectFails, StreamEnds, Wake, Take, HandleOther, HandleSettlement,
           HandlerPanics, QuoteStep, Ack, Return, worldVars
      <3> QED
        BY <2>2, <3>1
    <2>4. CASE UNCHANGED vars \/ MarketMoves \/ Break \/ Restart
      BY <2>2, <2>4 DEF vars, MarketMoves, Break, Restart, consumerVars, worldVars
    <2>5. ASSUME NEW m \in Messages, Relay(m) \/ Expire(m) \/ Push(m)
          PROVE  answered' \subseteq Messages
      BY <2>2, <2>5 DEF Relay, Expire, Push
    <2> QED
      BY <2>1, <2>3, <2>4, <2>5 DEF Next
  <1> QED
    BY <1>4, <1>5 DEF QueueTypes

-----------------------------------------------------------------------------
(* The amount a settlement instruction carries.                            *)

\* While a quote is asked for, the instruction it is for has an amount that
\* was read, and what is owed is that amount.
DebtInv ==
    /\ debt \in 0..MaxU128
    /\ amount \in [Messages -> Amounts \cup {None}]
    /\ stage = "quote" =>
          /\ amount[doing] \in Amounts
          /\ ParseMinorUnits(amount[doing]) = "read"
          /\ debt = MinorUnits(amount[doing])

\* The two characters that are parsed are the ones the amount has, or zeros.
LEMMA CentsAre ==
    ASSUME NEW frac \in Seq(0..13)
    PROVE  \A i \in {1, 2} :
              /\ Cents(frac)[i] = IF i \in DOMAIN frac THEN frac[i] ELSE 0
              /\ Cents(frac)[i] \in 0..13
  BY DEF Cents

\* The two characters parse_minor_units takes for cents, when it reads them.
LEMMA CentsAreRead ==
    ASSUME NEW frac \in Seq(0..13), CentsValue(frac) >= 0
    PROVE  /\ Cents(frac)[1] \in Digit \cup {Plus} /\ Cents(frac)[2] \in Digit
           /\ CentsValue(frac) \in Nat
           /\ Cents(frac)[1] \in Digit => CentsValue(frac) = 10 * Cents(frac)[1] + Cents(frac)[2]
  <1> DEFINE c == Cents(frac)
  <1>1. c[1] \in 0..13 /\ c[2] \in 0..13
    BY CentsAre
  <1>2. CentsValue(frac) = IF {c[1], c[2]} \subseteq Digit THEN 10 * c[1] + c[2]
                           ELSE IF c[1] = Plus /\ c[2] \in Digit THEN c[2] ELSE -1
    BY DEF CentsValue
  <1> HIDE DEF c
  <1>3. c[1] \in Digit \cup {Plus} /\ c[2] \in Digit
    BY <1>2 DEF Digit, Plus
  <1>4. CentsValue(frac) \in Nat
    <2>1. c[1] \in Nat /\ c[2] \in Nat
      BY <1>1
    <2>2. 10 * c[1] + c[2] \in Nat
      BY <2>1
    <2>3. CentsValue(frac) \in {10 * c[1] + c[2], c[2]}
      BY <1>2, <1>3
    <2> QED
      BY <2>1, <2>2, <2>3
  <1>5. c[1] \in Digit => CentsValue(frac) = 10 * c[1] + c[2]
    BY <1>2, <1>3
  <1> QED
    BY <1>3, <1>4, <1>5 DEF c

\* An amount that is read has the parts it is computed from.
LEMMA ReadAmount ==
    ASSUME NEW a \in Amounts, ParseMinorUnits(a) = "read"
    PROVE  /\ a.frac \in Seq(0..13) /\ CentsValue(a.frac) >= 0
           /\ a.whole \in Nat \cup {Blank}
           /\ MinorUnits(a) \in 0..MaxU128
  <1>1. a.frac \in Seq(0..13) /\ a.whole \in Nat \cup {Blank, Junk}
    BY ConsumerAssumption
  <1>2. a.whole # Junk /\ ~(CentsValue(a.frac) < 0 \/ MinorUnits(a) > MaxU128)
    BY DEF ParseMinorUnits
  <1>3. CentsValue(a.frac) \in Int
    <2>1. Cents(a.frac)[1] \in 0..13 /\ Cents(a.frac)[2] \in 0..13
      BY <1>1, CentsAre
    <2> QED
      BY <2>1 DEF CentsValue, Digit
  <1>4. CentsValue(a.frac) >= 0
    BY <1>2, <1>3
  <1>5. MaxU128 \in Nat
    BY RatesAssumption
  <1> QED
    BY <1>1, <1>2, <1>3, <1>4, <1>5 DEF MinorUnits, Blank, Junk

\* Most steps neither begin nor end a handler's work on an amount.
LEMMA DebtStep ==
    ASSUME DebtInv, LoopTypes, [Next]_vars
    PROVE  DebtInv'
  <1>0. 0 \in 0..MaxU128
    BY RatesAssumption
  <1>1. CASE UNCHANGED <<debt, amount, doing, stage>>
    BY <1>1 DEF DebtInv
  <1>2. CASE UNCHANGED amount /\ debt' \in {debt, 0} /\ stage' # "quote"
    BY <1>0, <1>2 DEF DebtInv
  <1>3. CASE HandleSettlement
    <2>1. /\ stage = "handle" /\ amount[doing] # None /\ ParseMinorUnits(amount[doing]) = "read"
          /\ debt' = MinorUnits(amount[doing]) /\ UNCHANGED <<amount, doing>>
      BY <1>3 DEF HandleSettlement, Parsed, worldVars
    <2>2. amount[doing] \in Amounts
      BY <2>1 DEF DebtInv, LoopTypes
    <2>3. MinorUnits(amount[doing]) \in 0..MaxU128
      BY <2>1, <2>2, ReadAmount
    <2> QED
      BY <2>1, <2>2, <2>3 DEF DebtInv
  <1>4. CASE Connect \/ ConnectFails \/ StreamEnds \/ Wake
    BY <1>1, <1>4 DEF Connect, ConnectFails, StreamEnds, Wake, worldVars
  <1>5. CASE Take \/ HandleOther \/ HandlerPanics \/ Reply \/ Ack \/ Restart
    BY <1>2, <1>5 DEF Take, HandleOther, HandlerPanics, Reply, Ack, Restart, Return, worldVars
  <1>6. CASE QuoteStep
    BY <1>1, <1>2, <1>6 DEF QuoteStep, Return, loopVars, worldVars
  <1>7. CASE MarketMoves \/ Break \/ UNCHANGED vars
    BY <1>1, <1>7 DEF MarketMoves, Break, vars, consumerVars, loopVars, worldVars
  <1>8. ASSUME NEW m \in Messages, Relay(m) \/ Expire(m) \/ Push(m)
        PROVE  DebtInv'
    BY <1>1, <1>8 DEF Relay, Expire, Push, loopVars
  <1> QED
    BY <1>3, <1>4, <1>5, <1>6, <1>7, <1>8 DEF Next, Loop

\* What is settled is the amount of the message.
LEMMA DebtIsRight ==
    ASSUME DebtInv
    PROVE  DebtIsAmount
  <1> SUFFICES ASSUME stage = "quote" PROVE DebtIsAmount
    BY DEF DebtIsAmount
  <1> DEFINE a == amount[doing]
             c == [i \in {1, 2} |-> IF i \in DOMAIN a.frac THEN a.frac[i] ELSE 0]
  <1>1. a \in Amounts /\ ParseMinorUnits(a) = "read" /\ debt = MinorUnits(a)
    BY DEF DebtInv
  <1> HIDE DEF a
  <1>2. a.frac \in Seq(0..13) /\ CentsValue(a.frac) >= 0 /\ a.whole \in Nat \cup {Blank}
    BY <1>1, ReadAmount
  <1>3. c[1] = Cents(a.frac)[1] /\ c[2] = Cents(a.frac)[2]
    BY <1>2, CentsAre
  <1>4. /\ c[1] \in Digit \cup {Plus} /\ c[2] \in Digit /\ CentsValue(a.frac) \in Nat
        /\ c[1] \in Digit => CentsValue(a.frac) = 10 * c[1] + c[2]
    BY <1>2, <1>3, CentsAreRead
  <1>5. Plain(a) => c[1] \in Digit
    BY DEF Plain, Digit
  <1> HIDE DEF c
  <1>6. Plain(a) => debt = 100 * (IF a.whole = Blank THEN 0 ELSE a.whole) + 10 * c[1] + c[2]
    <2> DEFINE w == IF a.whole = Blank THEN 0 ELSE a.whole
    <2>1. w \in Nat
      BY <1>2
    <2>2. debt = w * 100 + CentsValue(a.frac)
      BY <1>1 DEF MinorUnits
    <2> HIDE DEF w
    <2>3. ASSUME c[1] \in Digit, c[2] \in Digit, CentsValue(a.frac) = 10 * c[1] + c[2]
          PROVE  debt = 100 * w + 10 * c[1] + c[2]
      BY <2>1, <2>2, <2>3 DEF Digit
    <2> QED
      BY <1>4, <1>5, <2>3 DEF w
  <1>7. {c[1], c[2]} \subseteq Digit \cup {Plus}
    BY <1>4
  <1> QED
    BY <1>6, <1>7 DEF DebtIsAmount, a, c

-----------------------------------------------------------------------------
(* The quote.                                                              *)

\* Division, and what rounding half up makes of it.
LEMMA DivBounds ==
    ASSUME NEW a \in Nat, NEW r \in Nat, r > 0
    PROVE  a \div r \in Nat /\ (a \div r) * r <= a /\ a < (a \div r + 1) * r
  OBVIOUS

\* A price is rounded to the nearest minor unit, ties up.
LEMMA Rounded ==
    ASSUME NEW price \in Nat
    PROVE  /\ PriceToMinor(price) \in Nat
           /\ 2 * Unit * PriceToMinor(price) - 2 * price <= Unit
           /\ -Unit < 2 * Unit * PriceToMinor(price) - 2 * price
  <1> DEFINE n == 2 * price + Unit
             d == 2 * Unit
             q == PriceToMinor(price)
  <1>1. Unit \in Nat /\ Unit > 0
    BY RatesAssumption
  <1>2. n \in Nat /\ d \in Nat /\ d > 0
    BY <1>1
  <1>3. q = n \div d
    BY DEF PriceToMinor
  <1> HIDE DEF n, d, q
  <1>4. q \in Nat /\ q * d <= n /\ n < (q + 1) * d
    BY <1>2, <1>3, DivBounds
  <1>5. (q + 1) * d = q * d + d /\ q * d = 2 * Unit * q
    BY <1>1, <1>4 DEF d
  <1>6. 2 * Unit * q \in Int
    BY <1>1, <1>4
  <1> QED
    BY <1>1, <1>4, <1>5, <1>6 DEF n, d, q

\* A price that is settled at has at least one minor unit and fits its type.
LEMMA SettleableFits ==
    ASSUME NEW price \in Nat, Settleable(price)
    PROVE  PriceToMinor(price) \in 1..MaxMinor
  <1> DEFINE q == PriceToMinor(price)
  <1>1. Unit \in Nat /\ Unit > 0 /\ MaxMinor \in Nat
    BY RatesAssumption
  <1>2. q \in Nat /\ q > 0 /\ price < MaxMinor * Unit
    BY Rounded DEF Settleable
  <1>3. 2 * Unit * q - 2 * price <= Unit
    BY Rounded
  <1> HIDE DEF q
  <1>4. ASSUME q >= MaxMinor + 1 PROVE FALSE
    <2>1. Unit * q >= Unit * (MaxMinor + 1)
      BY <1>1, <1>2, <1>4
    <2>2. Unit * (MaxMinor + 1) = MaxMinor * Unit + Unit
      BY <1>1
    <2>3. 2 * Unit * q = 2 * (Unit * q) /\ Unit * q \in Nat /\ MaxMinor * Unit \in Nat
      BY <1>1, <1>2
    <2> QED
      BY <1>1, <1>2, <1>3, <2>1, <2>2, <2>3
  <1>5. q <= MaxMinor
    BY <1>1, <1>2, <1>4
  <1> QED
    BY <1>1, <1>2, <1>5 DEF q

\* Where the steps touch the quote.
LEMMA RatesSteps ==
    ASSUME [Next]_vars
    PROVE  \/ UNCHANGED ratesVars
           \/ StartQuote \/ Read \/ RequestFails \/ Market \/ Ack \/ EndQuote(NoQuote)
  <1>1. CASE UNCHANGED vars
    BY <1>1 DEF vars
  <1>2. CASE Loop
    BY <1>2 DEF Loop, Connect, ConnectFails, StreamEnds, Wake, Take, HandleOther, HandleSettlement,
       HandlerPanics, QuoteStep, Reply
  <1>3. CASE MarketMoves \/ Break \/ Restart
    BY <1>3 DEF MarketMoves, Break, Restart
  <1>4. ASSUME NEW m \in Messages, Relay(m) \/ Expire(m) \/ Push(m)
        PROVE  UNCHANGED ratesVars
    BY <1>4 DEF Relay, Expire, Push
  <1> QED
    BY <1>1, <1>2, <1>3, <1>4 DEF Next

\* What the sources hold is a price and an age.
FeedType == feed \in [Sources -> [price : Nat, age : Ages]]

LegType == leg \in {"none", "crypto", "fiat"} /\ at \in Nat /\ (Quoting => at \in DOMAIN Legs)

CryptoType == crypto.source \in Sources \cup {"none"} /\ crypto.price \in Nat

\* Both legs of a quote have a first source.
LEMMA LegsAre ==
    /\ CryptoLegs \in Seq(Sources) /\ FiatLegs \in Seq(Sources)
    /\ 1 \in DOMAIN CryptoLegs /\ 1 \in DOMAIN FiatLegs
  BY RatesAssumption

\* A leg that is being asked for has a source in hand.
LEMMA SourceType ==
    ASSUME LegType, Quoting
    PROVE  Source \in Sources
  BY LegsAre DEF LegType, Quoting, Legs, Source

\* What a source publishes is a price and an age.
LEMMA FeedsType ==
    ASSUME NEW s \in Sources
    PROVE  Feeds(s) \subseteq [price : Nat, age : Ages]
  <1>1. PricesOf[s] \subseteq Nat /\ MaxStale \in Nat
    BY RatesAssumption
  <1>2. {0, MaxStale + 1} \subseteq Ages /\ Never \in Ages
    BY <1>1 DEF Ages
  <1> QED
    BY <1>1, <1>2 DEF Feeds

\* A source that has published nothing yet has a well-typed price too.
LEMMA NoFeedType == NoFeed \in [Sources -> [price : Nat, age : Ages]]
  <1>1. 0 \in Ages
    BY RatesAssumption DEF Ages
  <1> QED
    BY <1>1 DEF NoFeed

\* Every step keeps the types of what sources publish ...
LEMMA FeedStep ==
    ASSUME FeedType, [Next]_vars
    PROVE  FeedType'
  <1>1. CASE UNCHANGED feed
    BY <1>1 DEF FeedType
  <1>2. CASE feed' = NoFeed
    BY <1>2, NoFeedType DEF FeedType
  <1>3. CASE StartQuote
    <2>1. feed' \in [Sources -> UNION {Feeds(s) : s \in Sources}]
      BY <1>3 DEF StartQuote
    <2>2. \A s \in Sources : feed'[s] \in Feeds(s)
      BY <1>3 DEF StartQuote
    <2>3. \A s \in Sources : feed'[s] \in [price : Nat, age : Ages]
      BY <2>2, FeedsType
    <2> QED
      BY <2>1, <2>3 DEF FeedType
  <1>4. CASE PublishPrice
    <2>1. PICK s \in Sources : \E p \in PricesOf[s] : feed' = [feed EXCEPT ![s] = [price |-> p, age |-> 0]]
      BY <1>4 DEF PublishPrice
    <2>2. PICK p \in PricesOf[s] : feed' = [feed EXCEPT ![s] = [price |-> p, age |-> 0]]
      BY <2>1
    <2>3. p \in Nat /\ 0 \in Ages
      BY RatesAssumption DEF Ages
    <2> QED
      BY <2>2, <2>3 DEF FeedType
  <1>5. CASE GrowOld
    <2>1. feed' = [s \in Sources |-> IF s \in Timed THEN [feed[s] EXCEPT !.age = Older(@)] ELSE feed[s]]
      BY <1>5 DEF GrowOld
    <2>2. \A a \in Ages : Older(a) \in Ages
      BY RatesAssumption DEF Older, Ages
    <2>3. ASSUME NEW s \in Sources
          PROVE  [feed[s] EXCEPT !.age = Older(@)] \in [price : Nat, age : Ages]
      <3>1. feed[s] \in [price : Nat, age : Ages]
        BY DEF FeedType
      <3> QED
        BY <2>2, <3>1
    <2> QED
      BY <2>1, <2>3 DEF FeedType
  <1>6. CASE TakeCrypto \/ TakeFiat \/ RefuseAnswer \/ RequestFails
    BY <1>1, <1>2, <1>6 DEF TakeCrypto, TakeFiat, RefuseAnswer, RequestFails, TryNext, EndQuote
  <1>7. CASE UNCHANGED ratesVars \/ Ack \/ EndQuote(NoQuote)
    BY <1>1, <1>2, <1>7 DEF ratesVars, Ack, EndQuote
  <1> QED
    BY <1>3, <1>4, <1>5, <1>6, <1>7, RatesSteps DEF Read, Market

\* ... of the leg being asked for ...
LEMMA LegStep ==
    ASSUME LegType, [Next]_vars
    PROVE  LegType'
  <1> USE DEF LegType, Quoting, Legs
  <1>1. CASE UNCHANGED <<leg, at>>
    BY <1>1
  <1>2. CASE leg' = "none" /\ at' = 1
    BY <1>2
  <1>3. CASE leg' \in {"crypto", "fiat"} /\ at' = 1
    BY <1>3, LegsAre
  <1>4. CASE Quoting /\ UNCHANGED leg /\ at < Len(Legs) /\ at' = at + 1
    <2>1. Legs \in Seq(Sources) /\ Legs' = Legs
      BY <1>4, LegsAre
    <2>2. at \in 1..Len(Legs) /\ Len(Legs) \in Nat
      BY <1>4, <2>1
    <2>3. at + 1 \in DOMAIN Legs
      BY <1>4, <2>1, <2>2
    <2> QED
      BY <1>4, <2>1, <2>3
  <1>5. CASE StartQuote \/ TakeCrypto
    BY <1>3, <1>5 DEF StartQuote, TakeCrypto
  <1>6. CASE RefuseAnswer \/ RequestFails
    BY <1>2, <1>4, <1>6 DEF RefuseAnswer, RequestFails, TryNext, EndQuote
  <1>7. CASE TakeFiat \/ EndQuote(NoQuote)
    BY <1>2, <1>7 DEF TakeFiat, EndQuote
  <1>8. CASE UNCHANGED ratesVars \/ Ack \/ Market
    BY <1>1, <1>8 DEF ratesVars, Ack, Market, PublishPrice, GrowOld
  <1> QED
    BY <1>5, <1>6, <1>7, <1>8, RatesSteps DEF Read

\* ... of the first leg's price ...
LEMMA CryptoStep ==
    ASSUME CryptoType, LegType, FeedType, [Next]_vars
    PROVE  CryptoType'
  <1>1. CASE UNCHANGED crypto
    BY <1>1 DEF CryptoType
  <1>2. CASE crypto' = NoAnswerYet
    BY <1>2 DEF CryptoType, NoAnswerYet
  <1>3. CASE TakeCrypto
    <2>1. Source \in Sources
      BY <1>3, SourceType DEF TakeCrypto, Quoting
    <2>2. crypto' = [source |-> Source, price |-> feed[Source].price]
      BY <1>3 DEF TakeCrypto
    <2>3. feed[Source].price \in Nat
      BY <2>1 DEF FeedType
    <2> QED
      BY <2>1, <2>2, <2>3 DEF CryptoType
  <1>4. CASE StartQuote \/ TakeFiat \/ RefuseAnswer \/ RequestFails
    BY <1>1, <1>2, <1>4 DEF StartQuote, TakeFiat, RefuseAnswer, RequestFails, TryNext, EndQuote
  <1>5. CASE UNCHANGED ratesVars \/ Ack \/ EndQuote(NoQuote) \/ Market
    BY <1>1, <1>2, <1>5 DEF ratesVars, Ack, EndQuote, Market, PublishPrice, GrowOld
  <1> QED
    BY <1>3, <1>4, <1>5, RatesSteps DEF Read

QuoteType == published \in 0..MaxPublished /\ quoted.rate \in 0..MaxMinor

\* ... and of the quote.
LEMMA QuoteTypeStep ==
    ASSUME QuoteType, LegType, FeedType, CryptoType, [Next]_vars
    PROVE  QuoteType'
  <1>1. MaxPublished \in Nat /\ MaxMinor \in Nat
    BY RatesAssumption
  <1>2. CASE published' \in {0, published} /\ quoted' \in {quoted, NoQuote}
    BY <1>1, <1>2 DEF QuoteType, NoQuote
  <1>3. CASE PublishPrice
    <2>1. published < MaxPublished /\ published' = published + 1 /\ quoted' = quoted
      BY <1>3 DEF PublishPrice
    <2> QED
      BY <1>1, <2>1 DEF QuoteType
  <1>4. CASE TakeFiat
    <2> DEFINE price == crypto.price * feed[Source].price
    <2>1. Source \in Sources
      BY <1>4, SourceType DEF TakeFiat, Quoting
    <2>2. feed[Source].price \in Nat /\ crypto.price \in Nat
      BY <2>1 DEF FeedType, CryptoType
    <2>3. price \in Nat
      BY <2>2
    <2>4. /\ published' = 0
          /\ quoted' = IF Settleable(price)
                       THEN [rate |-> PriceToMinor(price), sources |-> <<crypto.source, Source>>]
                       ELSE NoQuote
      BY <1>4 DEF TakeFiat, EndQuote
    <2> HIDE DEF price
    <2>5. Settleable(price) => PriceToMinor(price) \in 1..MaxMinor
      BY <2>3, SettleableFits
    <2>6. quoted'.rate \in 0..MaxMinor
      BY <1>1, <2>4, <2>5 DEF NoQuote
    <2> QED
      BY <1>1, <2>4, <2>6 DEF QuoteType
  <1>5. CASE StartQuote \/ TakeCrypto \/ RefuseAnswer \/ RequestFails
    BY <1>2, <1>5 DEF StartQuote, TakeCrypto, RefuseAnswer, RequestFails, TryNext, EndQuote
  <1>6. CASE UNCHANGED ratesVars \/ Ack \/ EndQuote(NoQuote) \/ GrowOld
    BY <1>2, <1>6 DEF ratesVars, Ack, EndQuote, GrowOld
  <1> QED
    BY <1>3, <1>4, <1>5, <1>6, RatesSteps DEF Read, Market

\* While a quote is under way: there is no result yet, everything the sources
\* hold is remembered, the sources passed over are excused; and once the
\* first leg has its answer, the source it names held that price when it was
\* no older than allowed, and was the first of its list not excused.
Standing(s, legs) == \E j \in DOMAIN legs : legs[j] = s /\ \A i \in 1..(j - 1) : Excused(legs[i])

Backed == \E h \in during : h.source = crypto.source /\ h.price = crypto.price /\ Fresh(h)

QuoteInv ==
    /\ Quoting =>
          /\ quoted = NoQuote
          /\ Heard(feed) \subseteq during
          /\ \A i \in 1..(at - 1) : Excused(Legs[i])
    /\ leg = "fiat" => Backed /\ Standing(crypto.source, CryptoLegs)

\* What a source holds is among what was heard of it.
LEMMA SourceHeard ==
    ASSUME NEW s \in Sources, Heard(feed) \subseteq during
    PROVE  \E h \in during : h = [source |-> s, price |-> feed[s].price, age |-> feed[s].age]
  BY DEF Heard

\* A price that is used was held, and fresh, while the quote was made.
LEMMA UsableIsFresh ==
    ASSUME NEW s \in Sources, Heard(feed) \subseteq during, Usable(s, feed[s])
    PROVE  \E h \in during : h.source = s /\ h.price = feed[s].price /\ Fresh(h)
  <1>1. PICK h \in during : h = [source |-> s, price |-> feed[s].price, age |-> feed[s].age]
    BY SourceHeard
  <1>2. h.source = s /\ h.price = feed[s].price /\ h.age = feed[s].age
    BY <1>1
  <1>3. Fresh(h)
    BY <1>2 DEF Usable, Recent, Fresh
  <1> QED
    BY <1>2, <1>3

\* A source that is passed over had no usable price.
LEMMA RefusedIsExcused ==
    ASSUME NEW s \in Sources, FeedType, Heard(feed) \subseteq during, ~Usable(s, feed[s])
    PROVE  Excused(s)
  <1>1. PICK h \in during : h = [source |-> s, price |-> feed[s].price, age |-> feed[s].age]
    BY SourceHeard
  <1>2. h.source = s /\ h.price = feed[s].price /\ h.age = feed[s].age
    BY <1>1
  <1>3. feed[s].price \in Nat
    BY DEF FeedType
  <1>4. ~Recent(s, feed[s]) => ~Fresh(h)
    BY <1>2 DEF Recent, Fresh
  <1>5. feed[s].price > 0 \/ h.price = 0
    BY <1>2, <1>3
  <1> QED
    BY <1>2, <1>4, <1>5 DEF Excused, Usable

\* Every step keeps what is known of the sources passed over and of the first leg.
LEMMA QuoteStepKeeps ==
    ASSUME QuoteInv, LegType, FeedType, [Next]_vars
    PROVE  QuoteInv'
  <1> USE DEF Quoting
  <1>1. CASE leg' = "none"
    BY <1>1 DEF QuoteInv
  <1>2. CASE UNCHANGED <<leg, at, crypto, feed, during, unheard>> /\ quoted' \in {quoted, NoQuote}
    BY <1>2 DEF QuoteInv, Heard, Legs, Excused, Fresh, Backed, Standing
  <1>3. CASE StartQuote
    <2>1. leg' = "crypto" /\ at' = 1 /\ quoted' = NoQuote /\ during' = Heard(feed')
      BY <1>3 DEF StartQuote
    <2>2. Heard(feed)' = Heard(feed')
      BY DEF Heard
    <2>3. \A i \in 1..(at' - 1) : FALSE
      BY <2>1
    <2> QED
      BY <2>1, <2>2, <2>3 DEF QuoteInv
  <1>4. CASE TakeCrypto
    <2>1. /\ leg = "crypto" /\ Usable(Source, feed[Source])
          /\ crypto' = [source |-> Source, price |-> feed[Source].price] /\ leg' = "fiat" /\ at' = 1
          /\ UNCHANGED <<feed, published, quoted, during, unheard>>
      BY <1>4 DEF TakeCrypto
    <2>2. Source \in Sources /\ at \in DOMAIN CryptoLegs /\ Source = CryptoLegs[at] /\ Legs = CryptoLegs
      BY <2>1, SourceType DEF LegType, Legs, Source
    <2>3. quoted = NoQuote /\ Heard(feed) \subseteq during /\ \A i \in 1..(at - 1) : Excused(CryptoLegs[i])
      BY <2>1, <2>2 DEF QuoteInv
    <2>4. crypto'.source = Source /\ crypto'.price = feed[Source].price
      BY <2>1
    <2>5. Backed'
      <3>1. PICK h \in during : h.source = Source /\ h.price = feed[Source].price /\ Fresh(h)
        BY <2>1, <2>2, <2>3, UsableIsFresh
      <3> QED
        BY <2>1, <2>4, <3>1 DEF Backed, Fresh
    <2>6. Standing(Source, CryptoLegs)
      BY <2>2, <2>3 DEF Standing
    <2>7. Standing(crypto.source, CryptoLegs)'
      BY <2>1, <2>4, <2>6 DEF Standing, Excused, Fresh
    <2>8. Heard(feed)' \subseteq during'
      BY <2>1, <2>3 DEF Heard
    <2>9. \A i \in 1..(at' - 1) : FALSE
      BY <2>1
    <2> QED
      BY <2>1, <2>3, <2>5, <2>7, <2>8, <2>9 DEF QuoteInv
  <1>5. ASSUME NEW failed \in SUBSET {Source}, Quoting, TryNext(failed), leg' # "none",
               Source \in failed \/ ~Usable(Source, feed[Source])
        PROVE  QuoteInv'
    <2>1. /\ at' = at + 1 /\ unheard' = unheard \cup failed
          /\ UNCHANGED <<leg, crypto, feed, published, quoted, during>>
      BY <1>5 DEF TryNext, EndQuote
    <2>2. Source \in Sources /\ at \in Nat
      BY <1>5, SourceType DEF LegType
    <2>3. quoted = NoQuote /\ Heard(feed) \subseteq during /\ \A i \in 1..(at - 1) : Excused(Legs[i])
      BY <1>5 DEF QuoteInv
    <2>4. ASSUME NEW i \in 1..at
          PROVE  \/ Legs[i] \in unheard'
                 \/ \E h \in during' : h.source = Legs[i] /\ (~Fresh(h) \/ h.price = 0)
      <3>1. CASE i = at /\ Source \in failed
        BY <2>1, <3>1 DEF Source
      <3>2. CASE i = at /\ ~Usable(Source, feed[Source])
        <4>1. Excused(Source)
          BY <2>2, <2>3, <3>2, RefusedIsExcused
        <4> QED
          BY <2>1, <3>2, <4>1 DEF Excused, Source
      <3>3. CASE i # at
        <4>1. i \in 1..(at - 1)
          BY <2>2, <3>3
        <4>2. Excused(Legs[i])
          BY <2>3, <4>1
        <4> QED
          BY <2>1, <4>2 DEF Excused
      <3> QED
        BY <1>5, <3>1, <3>2, <3>3
    <2>5. (\A i \in 1..(at - 1) : Excused(Legs[i]))'
      <3>1. Legs' = Legs
        BY <2>1 DEF Legs
      <3>2. at' - 1 = at
        BY <2>1, <2>2
      <3> QED
        BY <2>4, <3>1, <3>2 DEF Excused, Fresh
    <2>6. leg = "fiat" => (Backed /\ Standing(crypto.source, CryptoLegs))'
      <3> SUFFICES ASSUME leg = "fiat" PROVE (Backed /\ Standing(crypto.source, CryptoLegs))'
        OBVIOUS
      <3>1. Backed /\ Standing(crypto.source, CryptoLegs)
        BY DEF QuoteInv
      <3>2. Backed'
        BY <2>1, <3>1 DEF Backed, Fresh
      <3>3. Standing(crypto.source, CryptoLegs)'
        BY <2>1, <3>1 DEF Standing, Excused, Fresh
      <3> QED
        BY <3>2, <3>3
    <2>7. (Heard(feed) \subseteq during)'
      BY <2>1, <2>3 DEF Heard
    <2> QED
      BY <2>1, <2>3, <2>5, <2>6, <2>7 DEF QuoteInv
  <1>6. CASE Market
    <2>1. /\ UNCHANGED <<leg, at, crypto, quoted, unheard>> /\ Quoting
          /\ during' = during \cup Heard(feed')
      BY <1>6 DEF Market, PublishPrice, GrowOld
    <2>2. quoted = NoQuote /\ \A i \in 1..(at - 1) : Excused(Legs[i])
      BY <2>1 DEF QuoteInv
    <2>3. during \subseteq during' /\ Legs' = Legs
      BY <2>1 DEF Legs
    <2>4. (\A i \in 1..(at - 1) : Excused(Legs[i]))'
      BY <2>1, <2>2, <2>3 DEF Excused, Fresh
    <2>5. leg = "fiat" => (Backed /\ Standing(crypto.source, CryptoLegs))'
      <3> SUFFICES ASSUME leg = "fiat" PROVE (Backed /\ Standing(crypto.source, CryptoLegs))'
        OBVIOUS
      <3>1. Backed /\ Standing(crypto.source, CryptoLegs)
        BY DEF QuoteInv
      <3>2. Backed'
        BY <2>1, <2>3, <3>1 DEF Backed, Fresh
      <3>3. Standing(crypto.source, CryptoLegs)'
        BY <2>1, <2>3, <3>1 DEF Standing, Excused, Fresh
      <3> QED
        BY <3>2, <3>3
    <2>6. (Heard(feed) \subseteq during)'
      BY <2>1 DEF Heard
    <2> QED
      BY <2>1, <2>2, <2>4, <2>5, <2>6 DEF QuoteInv
  <1>7. CASE RefuseAnswer \/ RequestFails
    BY <1>1, <1>5, <1>7 DEF RefuseAnswer, RequestFails
  <1>8. CASE TakeFiat \/ EndQuote(NoQuote)
    BY <1>1, <1>8 DEF TakeFiat, EndQuote
  <1>9. CASE UNCHANGED ratesVars \/ Ack
    BY <1>2, <1>9 DEF ratesVars, Ack
  <1> QED
    BY <1>3, <1>4, <1>6, <1>7, <1>8, <1>9, RatesSteps DEF Read

\* The step that ends a quote well.
LEMMA QuoteStepBacked ==
    ASSUME QuoteInv, LegType, FeedType, CryptoType, [Next]_vars, quoted' # NoQuote, Quoting
    PROVE  /\ PreferredFirst(quoted'.sources)
           /\ quoted'.rate > 0
           /\ \E u, f \in {h \in during : Fresh(h)} :
                 /\ quoted'.sources = <<u.source, f.source>>
                 /\ LET off == 2 * Unit * quoted'.rate - 2 * u.price * f.price
                    IN  -Unit < off /\ off <= Unit
  <1>1. TakeFiat
    <2>1. quoted = NoQuote
      BY DEF QuoteInv
    <2> QED
      BY <2>1, RatesSteps DEF StartQuote, Read, TakeCrypto, RefuseAnswer, RequestFails, TryNext, EndQuote,
         Market, PublishPrice, GrowOld, Ack, ratesVars
  <1> DEFINE price == crypto.price * feed[Source].price
  <1>2. leg = "fiat" /\ Usable(Source, feed[Source])
    BY <1>1 DEF TakeFiat
  <1>3. Source \in Sources /\ Legs = FiatLegs /\ at \in DOMAIN FiatLegs /\ Source = FiatLegs[at]
    BY <1>2, SourceType DEF LegType, Quoting, Legs, Source
  <1>4. feed[Source].price \in Nat /\ crypto.price \in Nat
    BY <1>3 DEF FeedType, CryptoType
  <1>5. Settleable(price) /\ quoted' = [rate |-> PriceToMinor(price), sources |-> <<crypto.source, Source>>]
    BY <1>1 DEF TakeFiat, EndQuote
  <1>6. quoted'.rate = PriceToMinor(price) /\ quoted'.sources = <<crypto.source, Source>>
    BY <1>5
  <1>7. /\ Heard(feed) \subseteq during /\ \A i \in 1..(at - 1) : Excused(FiatLegs[i])
        /\ Backed /\ Standing(crypto.source, CryptoLegs)
    BY <1>2, <1>3 DEF QuoteInv
  <1>8. PreferredFirst(quoted'.sources)
    <2>1. quoted'.sources[1] = crypto.source /\ quoted'.sources[2] = Source
      BY <1>6
    <2>2. Standing(Source, FiatLegs)
      BY <1>3, <1>7 DEF Standing
    <2>3. \A n \in 1..2 : n = 1 \/ n = 2
      OBVIOUS
    <2> QED
      BY <1>7, <2>1, <2>2, <2>3 DEF PreferredFirst, Standing
  <1>9. PICK u \in during : u.source = crypto.source /\ u.price = crypto.price /\ Fresh(u)
    BY <1>7 DEF Backed
  <1>10. PICK f \in during : f.source = Source /\ f.price = feed[Source].price /\ Fresh(f)
    BY <1>2, <1>3, <1>7, UsableIsFresh
  <1>11. 2 * u.price * f.price = 2 * price
    BY <1>4, <1>9, <1>10
  <1>12. price \in Nat
    BY <1>4
  <1> HIDE DEF price
  <1>13. quoted'.rate > 0
    BY <1>5, <1>6 DEF Settleable
  <1>14. /\ -Unit < 2 * Unit * quoted'.rate - 2 * u.price * f.price
         /\ 2 * Unit * quoted'.rate - 2 * u.price * f.price <= Unit
    BY <1>6, <1>11, <1>12, Rounded
  <1> QED
    BY <1>6, <1>8, <1>9, <1>10, <1>13, <1>14

-----------------------------------------------------------------------------
(* The theorems.                                                           *)

LinkType == link \in BOOLEAN

\* The connection is up or down.
LEMMA LinkStep ==
    ASSUME LinkType, [Next]_vars
    PROVE  LinkType'
  <1>1. UNCHANGED link \/ link' = TRUE \/ link' = FALSE
    <2>1. CASE UNCHANGED vars \/ MarketMoves
      BY <2>1 DEF vars, MarketMoves, consumerVars, loopVars
    <2>2. CASE Loop
      BY <2>2 DEF Loop, Connect, ConnectFails, StreamEnds, Wake, Take, HandleOther, HandleSettlement,
         HandlerPanics, QuoteStep, Reply, Ack, Return, loopVars
    <2>3. CASE Break \/ Restart
      BY <2>3 DEF Break, Restart
    <2>4. ASSUME NEW m \in Messages, Relay(m) \/ Expire(m) \/ Push(m)
          PROVE  UNCHANGED link
      BY <2>4 DEF Relay, Expire, Push, loopVars
    <2> QED
      BY <2>1, <2>2, <2>3, <2>4 DEF Next
  <1> QED
    BY <1>1, Zenon DEF LinkType

QuoteTypes == FeedType /\ LegType /\ CryptoType /\ QuoteType

ConsumerInv ==
    /\ BackoffInv /\ LoopTypes /\ LinkType
    /\ QueueTypes /\ FaultCount
    /\ DebtInv
    /\ QuoteTypes /\ QuoteInv

\* The invariant holds as the node starts ...
LEMMA InvInit ==
    ASSUME Init
    PROVE  ConsumerInv
  <1>1. BackoffInv
    BY DoubledFirst DEF Init, BackoffInv
  <1>2. LoopTypes
    <2>1. BackoffMax \in Nat \ {0}
      BY ConsumerAssumption
    <2> QED
      BY <2>1 DEF Init, LoopTypes
  <1>3. LinkType
    BY DEF Init, LinkType
  <1>4. QueueTypes
    BY DEF Init, QueueTypes
  <1>5. FaultCount
    BY ConsumerAssumption DEF Init, FaultCount
  <1>6. DebtInv
    BY RatesAssumption DEF Init, DebtInv
  <1>7. QuoteTypes
    <2>1. FeedType
      BY NoFeedType DEF Init, RatesInit, FeedType
    <2>2. LegType /\ CryptoType
      BY DEF Init, RatesInit, LegType, Quoting, CryptoType, NoAnswerYet
    <2>3. QuoteType
      BY RatesAssumption DEF Init, RatesInit, QuoteType, NoQuote
    <2> QED
      BY <2>1, <2>2, <2>3 DEF QuoteTypes
  <1>8. QuoteInv
    BY DEF Init, RatesInit, QuoteInv, Quoting
  <1> QED
    BY <1>1, <1>2, <1>3, <1>4, <1>5, <1>6, <1>7, <1>8 DEF ConsumerInv

\* ... is kept by every step ...
LEMMA InvStep ==
    ASSUME ConsumerInv, [Next]_vars
    PROVE  ConsumerInv'
  <1>1. FeedType' /\ LegType' /\ CryptoType' /\ QuoteType'
    BY FeedStep, LegStep, CryptoStep, QuoteTypeStep DEF ConsumerInv, QuoteTypes
  <1>2. QuoteInv'
    BY QuoteStepKeeps DEF ConsumerInv, QuoteTypes
  <1>3. DebtInv' /\ QueueTypes' /\ LoopTypes'
    BY DebtStep, QueueStep, LoopStep DEF ConsumerInv
  <1>4. BackoffInv' /\ LinkType' /\ FaultCount'
    BY BackoffStep, LinkStep, FaultStep DEF ConsumerInv
  <1> QED
    BY <1>1, <1>2, <1>3, <1>4 DEF ConsumerInv, QuoteTypes

\* ... and so holds always.
LEMMA ConsumerInvariant == Spec => []ConsumerInv
  <1>1. Init => ConsumerInv
    BY InvInit
  <1>2. ConsumerInv /\ [Next]_vars => ConsumerInv'
    BY InvStep
  <1> QED
    BY <1>1, <1>2, PTL DEF Spec

\* Queue, client, loop and quote keep their types, whatever the broker, the
\* sources and the faults do: the backoff stays within BACKOFF_MAX, what is
\* owed within an u128, and a quote within the minor-unit domain.
THEOREM TypeCorrect == Spec => []TypeOK
  <1>1. ConsumerInv => TypeOK
    <2> SUFFICES ASSUME ConsumerInv PROVE TypeOK
      OBVIOUS
    <2>1. RatesTypeOK
      BY DEF ConsumerInv, QuoteTypes, FeedType, LegType, CryptoType, QuoteType, RatesTypeOK
    <2>2. link \in BOOLEAN
      BY DEF ConsumerInv, LinkType
    <2> QED
      BY <2>1, <2>2 DEF ConsumerInv, BackoffInv, LoopTypes, QueueTypes, FaultCount, DebtInv, TypeOK
  <1> QED
    BY <1>1, ConsumerInvariant, PTL

\* run_supervised sleeps BACKOFF_BASE after a session that consumed, twice as
\* long after each failure to connect that follows, and never above
\* BACKOFF_MAX.
THEOREM BackoffIsDoubled == Spec => []BackoffFits
  <1>1. ConsumerInv => BackoffFits
    BY DEF ConsumerInv, BackoffInv, BackoffFits
  <1> QED
    BY <1>1, ConsumerInvariant, PTL

\* What parse_minor_units reads of an amount of digits and a point is that
\* amount, to the cent, and it reads nothing else than digits after a sign:
\* for every amount, of any length.
THEOREM DebtIsRead == Spec => []DebtIsAmount
  <1>1. ConsumerInv => DebtIsAmount
    BY DebtIsRight DEF ConsumerInv
  <1> QED
    BY <1>1, ConsumerInvariant, PTL

\* A quote is the product, rounded to the nearest minor unit, of prices that
\* the two sources it names held while it was made, Pyth's no older than
\* allowed, and the sources listed before them had failed: for any two lists
\* of sources, any prices, and any order of reads, failures, publications and
\* restarts.
THEOREM QuotesAreBacked == Spec => QuoteIsBacked
  <1> DEFINE A == quoted' # NoQuote /\ Quoting =>
         /\ PreferredFirst(quoted'.sources)
         /\ quoted'.rate > 0
         /\ \E u, f \in {h \in during : Fresh(h)} :
               /\ quoted'.sources = <<u.source, f.source>>
               /\ LET off == 2 * Unit * quoted'.rate - 2 * u.price * f.price
                  IN  -Unit < off /\ off <= Unit
  <1>1. ConsumerInv /\ [Next]_vars => [A]_ratesVars
    BY QuoteStepBacked DEF ConsumerInv, QuoteTypes
  <1> QED
    BY <1>1, ConsumerInvariant, PTL DEF Spec, QuoteIsBacked

=============================================================================
