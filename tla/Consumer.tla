------------------------------- MODULE Consumer -------------------------------
(***************************************************************************)
(* The Interface C consumer: a supervisor that connects to RabbitMQ, takes *)
(* one delivery after the other through its handler, its reply and its     *)
(* acknowledgement, and starts over after a backoff when the stream ends.  *)
(* The broker, and OBP-API's relay that sends an instruction again until   *)
(* it is answered, are external.  Of the handlers, the settlement's amount *)
(* and quote are followed here; what it pays is in Settlement.             *)
(***************************************************************************)
EXTENDS Rates, FiniteSets

CONSTANTS
    Messages,    \* messages OBP-API wants answered: all have a replyTo
    Amounts,     \* amounts a settlement instruction may carry
    BackoffMax,  \* BACKOFF_MAX; BACKOFF_BASE is 1
    ConsumerFaults, MaxConsumerFaults,
    None         \* no amount: a message that is no settlement instruction

ConsumerFaultKinds == {"connect", "break", "reply", "restart"}

ASSUME ConsumerAssumption ==
    /\ IsFiniteSet(Messages) /\ None \notin Messages
    /\ Amounts \subseteq [whole : Nat \cup {Blank, Junk}, frac : Seq(0..13)]
    /\ BackoffMax \in Nat \ {0}
    /\ ConsumerFaults \subseteq ConsumerFaultKinds /\ MaxConsumerFaults \in Nat

VARIABLES
    amount,    \* message -> the amount it carries, None when it has none
    session,   \* run_supervised: "connect", "consume", "sleep"; "dead" after a panic
    status,    \* ConsumerStatus, what /health shows
    backoff,
    link,      \* whether the connection stands
    buffer,    \* deliveries pushed to the client and not yet taken
    doing,     \* the delivery in the loop's body, and where it is
    stage,
    debt,      \* settlement handler: the minor units it read
    ready,     \* broker: message -> copies waiting in the queue
    answered,  \* OBP-API: messages it has a reply to
    naps,      \* history: sleeps since the start or the end of the last session that consumed
    consumerFaults

loopVars == <<session, status, backoff, link, buffer, doing, stage, debt>>
worldVars == <<amount, ready, answered>>
consumerVars == <<loopVars, worldVars, naps, consumerFaults>>
vars == <<ratesVars, consumerVars>>

\* Queue, client and quote keep their types.
TypeOK ==
    /\ RatesTypeOK
    /\ session \in {"connect", "consume", "sleep", "dead"}
    /\ status \in {"connecting", "connected", "reconnecting"}
    /\ backoff \in 1..BackoffMax
    /\ link \in BOOLEAN
    /\ buffer \in Seq(Messages)
    /\ doing \in Messages \cup {None}
    /\ stage \in {"none", "handle", "quote", "reply", "ack"}
    /\ debt \in 0..MaxU128
    /\ ready \in [Messages -> Nat]
    /\ answered \subseteq Messages
    /\ naps \in Nat
    /\ consumerFaults \in 0..MaxConsumerFaults

Init ==
    /\ RatesInit
    /\ amount \in [Messages -> Amounts \cup {None}]
    /\ session = "connect" /\ status = "connecting" /\ backoff = 1
    /\ link = FALSE /\ buffer = <<>> /\ doing = None /\ stage = "none" /\ debt = 0
    /\ ready = [m \in Messages |-> 0]
    /\ answered = {} /\ naps = 0
    /\ consumerFaults = 0

ConsumerFault(kind) ==
    /\ kind \in ConsumerFaults /\ consumerFaults < MaxConsumerFaults
    /\ consumerFaults' = consumerFaults + 1

NoFault == UNCHANGED consumerFaults

-----------------------------------------------------------------------------
(* The broker and the relay.                                               *)

\* OBP-API sends again what has not been answered and is no longer queued.
Relay(m) ==
    /\ m \notin answered /\ ready[m] = 0
    /\ \A i \in DOMAIN buffer : buffer[i] # m
    /\ doing # m
    /\ ready' = [ready EXCEPT ![m] = 1]
    /\ UNCHANGED <<ratesVars, loopVars, amount, answered, naps, consumerFaults>>

\* x-message-ttl: what nobody takes for a minute is dropped.
Expire(m) ==
    /\ ready[m] > 0 /\ ~link
    /\ ready' = [ready EXCEPT ![m] = @ - 1]
    /\ UNCHANGED <<ratesVars, loopVars, amount, answered, naps, consumerFaults>>

\* No prefetch limit is set: the broker pushes whatever there is.
Push(m) ==
    /\ link /\ ready[m] > 0
    /\ ready' = [ready EXCEPT ![m] = @ - 1]
    /\ buffer' = Append(buffer, m)
    /\ UNCHANGED <<ratesVars, session, status, backoff, link, doing, stage, debt,
                   amount, answered, naps, consumerFaults>>

\* A connection that ends puts back what was not acknowledged.
Unacked(m) ==
    Cardinality({i \in DOMAIN buffer : buffer[i] = m}) + (IF doing = m THEN 1 ELSE 0)

Requeue == ready' = [m \in Messages |-> ready[m] + (IF link THEN Unacked(m) ELSE 0)]

Break ==
    /\ link /\ ConsumerFault("break")
    /\ link' = FALSE /\ Requeue
    /\ UNCHANGED <<ratesVars, session, status, backoff, buffer, doing, stage, debt,
                   amount, answered, naps>>

-----------------------------------------------------------------------------
(* run_supervised and run.                                                 *)

MutantNextBackoff(current) == current * 2

NextBackoff(current) == IF current * 2 < BackoffMax THEN current * 2 ELSE BackoffMax

\* Connected, channel, queue declared, consuming.
Connect ==
    /\ session = "connect"
    /\ session' = "consume" /\ status' = "connected" /\ link' = TRUE
    /\ UNCHANGED <<ratesVars, backoff, buffer, doing, stage, debt, worldVars, naps, consumerFaults>>

MutantGiveUp(connected) ==
    /\ session' = "dead"
    /\ status' = "reconnecting"
    /\ UNCHANGED backoff

\* The end of a session, for whatever reason: the backoff starts over if it
\* got to consuming.
Sleep(connected) ==
    /\ session' = "sleep"
    /\ backoff' = (IF connected THEN 1 ELSE backoff)
    /\ status' = "reconnecting"

ConnectFails ==
    /\ session = "connect" /\ ConsumerFault("connect")
    /\ Sleep(status = "connected")
    /\ naps' = naps + 1
    /\ UNCHANGED <<ratesVars, link, buffer, doing, stage, debt, worldVars>>

\* The client hands out what it has buffered before the stream ends; errors
\* the stream yields in between are skipped.
StreamEnds ==
    /\ session = "consume" /\ ~link /\ buffer = <<>> /\ doing = None
    /\ Sleep(status = "connected")
    /\ naps' = 1
    /\ UNCHANGED <<ratesVars, link, buffer, doing, stage, debt, worldVars, consumerFaults>>

Wake ==
    /\ session = "sleep"
    /\ session' = "connect" /\ backoff' = NextBackoff(backoff)
    /\ UNCHANGED <<ratesVars, status, link, buffer, doing, stage, debt, worldVars, naps, consumerFaults>>

Take ==
    /\ session = "consume" /\ doing = None /\ buffer # <<>>
    /\ doing' = Head(buffer) /\ buffer' = Tail(buffer) /\ stage' = "handle"
    /\ UNCHANGED <<ratesVars, session, status, backoff, link, debt, worldVars, naps, consumerFaults>>

\* The handler comes back: what the message asked for is on record.
Return ==
    /\ stage' = "reply"
    /\ UNCHANGED <<session, status, backoff, link, buffer, doing, worldVars, naps>>

Parsed(m) == IF amount[m] = None THEN "other" ELSE ParseMinorUnits(amount[m])

\* A message that gets as far as no quote: another process, an amount that is
\* refused, a field that is missing, a row that is there already, a store
\* that does not answer.
HandleOther ==
    /\ stage = "handle" /\ Parsed(doing) # "panic"
    /\ Return /\ NoFault
    /\ UNCHANGED <<ratesVars, debt>>

HandleSettlement ==
    /\ stage = "handle" /\ Parsed(doing) = "read"
    /\ debt' = MinorUnits(amount[doing])
    /\ stage' = "quote"
    /\ StartQuote
    /\ UNCHANGED <<session, status, backoff, link, buffer, doing, worldVars, naps, consumerFaults>>

\* A panic ends the supervisor's task, and with it the connection.
HandlerPanics ==
    /\ stage = "handle" /\ Parsed(doing) = "panic"
    /\ session' = "dead" /\ link' = FALSE /\ Requeue
    /\ buffer' = <<>> /\ doing' = None /\ stage' = "none"
    /\ UNCHANGED <<ratesVars, status, backoff, debt, amount, answered, naps, consumerFaults>>

\* A quote step; the one that ends it, well or not, ends the handler's part
\* that is followed here.
QuoteStep ==
    /\ stage = "quote"
    /\ Read \/ RequestFails
    /\ NoFault
    /\ IF leg' = "none" THEN Return /\ debt' = debt
       ELSE UNCHANGED <<loopVars, worldVars, naps>>

MarketMoves == stage = "quote" /\ Market /\ UNCHANGED consumerVars

\* A reply that cannot be published is logged, and so is a message without
\* replyTo, which nobody waits for: it is only acknowledged.
Reply ==
    /\ stage = "reply"
    /\ \/ link /\ NoFault /\ answered' = answered \cup {doing}
       \/ link /\ ConsumerFault("reply") /\ UNCHANGED answered
       \/ ~link /\ NoFault /\ UNCHANGED answered
    /\ stage' = "ack"
    /\ UNCHANGED <<ratesVars, session, status, backoff, link, buffer, doing, debt,
                   amount, ready, naps>>

\* So is an acknowledgement on a connection that is gone.
Ack ==
    /\ stage = "ack"
    /\ doing' = None /\ stage' = "none" /\ debt' = 0 /\ quoted' = NoQuote
    /\ UNCHANGED <<leg, at, crypto, feed, published, during, unheard, session, status,
                   backoff, link, buffer, worldVars, naps, consumerFaults>>

\* The node stops, or is killed, and is started again.
Restart ==
    /\ ConsumerFault("restart")
    /\ session' = "connect" /\ status' = "connecting" /\ backoff' = 1
    /\ link' = FALSE /\ Requeue
    /\ buffer' = <<>> /\ doing' = None /\ stage' = "none" /\ debt' = 0
    /\ EndQuote(NoQuote)
    /\ naps' = 0
    /\ UNCHANGED <<amount, answered>>

-----------------------------------------------------------------------------
Loop ==
    \/ Connect \/ ConnectFails \/ StreamEnds \/ Wake \/ Take
    \/ HandleOther \/ HandleSettlement \/ HandlerPanics \/ QuoteStep \/ Reply \/ Ack

Next ==
    \/ Loop \/ MarketMoves \/ Break \/ Restart
    \/ \E m \in Messages : Relay(m) \/ Expire(m) \/ Push(m)

Spec == Init /\ [][Next]_vars

\* The supervisor's task does its next step, OBP-API's relay sends again and
\* the broker delivers.  Nothing has to break, expire or move.
Fairness ==
    /\ WF_vars(Loop)
    /\ \A m \in Messages : WF_vars(Relay(m)) /\ WF_vars(Push(m))

FairSpec == Spec /\ Fairness

-----------------------------------------------------------------------------
(* Properties.                                                             *)

PowerOfTwo[n \in Nat] == IF n = 0 THEN 1 ELSE 2 * PowerOfTwo[n - 1]

Doubled(n) == IF PowerOfTwo[n] < BackoffMax THEN PowerOfTwo[n] ELSE BackoffMax

\* Every sleep is BACKOFF_BASE doubled once for each sleep before it since the
\* node last consumed, and never above BACKOFF_MAX: a broker that bounced
\* after any length of service is tried again after a second, and one that
\* stays away is neither hammered nor given up.
BackoffFits == session = "sleep" => backoff = Doubled(naps - 1)

\* An amount of digits and a point.
Plain(a) == a.whole # Junk /\ a # [whole |-> Blank, frac |-> <<>>] /\ \A i \in DOMAIN a.frac : a.frac[i] \in Digit

\* Amounts made of digits and a point are owed to the cent, whatever follows
\* the cents, and what has another character than a sign among the cents is
\* never owed at all.
DebtIsAmount ==
    stage = "quote" =>
        LET a == amount[doing]
            c == [i \in {1, 2} |-> IF i \in DOMAIN a.frac THEN a.frac[i] ELSE 0]
        IN  /\ {c[1], c[2]} \subseteq Digit \cup {Plus}
            /\ Plain(a) => debt = 100 * (IF a.whole = Blank THEN 0 ELSE a.whole) + 10 * c[1] + c[2]

\* Every message OBP-API sends is answered in the end, whatever number of
\* connections broke, replies were lost, deliveries expired and restarts
\* happened on the way, unless one of the amounts makes the handler panic.
EveryoneAnswered ==
    <>[](answered = Messages \/ \E m \in Messages : Parsed(m) = "panic")

=============================================================================
