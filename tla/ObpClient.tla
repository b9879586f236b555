------------------------------ MODULE ObpClient ------------------------------
(***************************************************************************)
(* The HTTP client every task of the node shares to reach OBP-API: one     *)
(* cached client-credentials token behind a mutex that stays held while a  *)
(* new one is fetched, and the classes a failed call is put into.  Time is *)
(* what is left of it: a token carries the seconds until it expires and    *)
(* the seconds until it is to be replaced, and Tick takes one off each.    *)
(***************************************************************************)
EXTENDS Integers, Sequences

CONSTANTS
    Workers,     \* tasks that act on payments: the dispatcher and the refresher
    Operators,   \* requests of the interactive settlement endpoints
    Lifetimes,   \* expires_in values the token endpoint grants, the default one too
    Lead,        \* 30: how long before its expiry a token is replaced
    HttpTimeout, \* 30: the client's timeout
    ClientFaults,    \* fault kinds that may occur
    MaxClientFaults, \* how many in all
    None

Callers == Workers \cup Operators

ClientFaultKinds == {"endpoint", "revoke", "transport", "refusal", "cut"}

ASSUME ClientAssumption ==
    /\ Lifetimes \subseteq Nat \ {0}
    /\ Lead \in Nat /\ HttpTimeout \in Nat /\ MaxClientFaults \in Nat
    /\ HttpTimeout <= Lead
    /\ None \notin Callers
    /\ ClientFaults \subseteq ClientFaultKinds

VARIABLES
    holder,   \* who holds the token mutex
    queue,    \* who waits for it: tokio's mutex is granted in turn
    cache,    \* the cached token: left, refresh (until refresh_at), good
    issued,   \* the token the endpoint has made and the client has not read yet
    waited,   \* caller -> how long its request has been under way
    phase,    \* caller -> where its call is
    held,     \* caller -> the token its request carries: left, good
    verdict,  \* caller -> what the last call came to
    clientFaults

tokenVars == <<holder, queue, cache, issued>>
callVars == <<phase, held, verdict, waited>>
clientVars == <<tokenVars, callVars, clientFaults>>

Token == [left : Nat, good : BOOLEAN]
NoToken == [left |-> 0, good |-> FALSE]
NoIssue == [left |-> 0, good |-> FALSE, life |-> 0]
NoCache == [left |-> 0, good |-> FALSE, refresh |-> 0]

Phases == {"idle", "lock", "token", "fetch", "send", "dead"}
Verdicts == {"none", "ok", "rejected", "transport"}

ClientTypeOK ==
    /\ holder \in Callers \cup {None}
    /\ cache \in [left : Nat, good : BOOLEAN, refresh : Nat]
    /\ issued \in [left : Nat, good : BOOLEAN, life : Nat]
    /\ queue \in Seq(Callers)
    /\ waited \in [Callers -> 0..HttpTimeout]
    /\ phase \in [Callers -> Phases]
    /\ held \in [Callers -> Token]
    /\ verdict \in [Callers -> Verdicts]
    /\ clientFaults \in 0..MaxClientFaults

ClientInit ==
    /\ holder = None /\ queue = <<>> /\ cache = NoCache /\ issued = NoIssue
    /\ waited = [c \in Callers |-> 0]
    /\ phase = [c \in Callers |-> "idle"]
    /\ held = [c \in Callers |-> NoToken]
    /\ verdict = [c \in Callers |-> "none"]
    /\ clientFaults = 0

ClientFault(kind) ==
    /\ kind \in ClientFaults
    /\ clientFaults < MaxClientFaults
    /\ clientFaults' = clientFaults + 1

-----------------------------------------------------------------------------
(* authorize and bearer_token.                                             *)

\* authorize is the first thing every call does, and a page of a list is a
\* call of its own.
Queue(c) ==
    /\ queue' = Append(queue, c)
    /\ phase' = [phase EXCEPT ![c] = "lock"]

Call(c) ==
    /\ phase[c] = "idle"
    /\ Queue(c)
    /\ verdict' = [verdict EXCEPT ![c] = "none"]
    /\ UNCHANGED <<holder, cache, issued, held, waited, clientFaults>>

LockToken(c) ==
    /\ phase[c] = "lock" /\ holder = None
    /\ queue # <<>> /\ c = Head(queue)
    /\ holder' = c /\ queue' = Tail(queue)
    /\ phase' = [phase EXCEPT ![c] = "token"]
    /\ UNCHANGED <<cache, issued, waited, held, verdict, clientFaults>>

\* The mutex is released when bearer_token returns.
SendWith(c, token) ==
    /\ held' = [held EXCEPT ![c] = token]
    /\ phase' = [phase EXCEPT ![c] = "send"]
    /\ waited' = [waited EXCEPT ![c] = 0]
    /\ holder' = None

FreshEnough == cache.refresh > 0

UseCached(c) ==
    /\ phase[c] = "token" /\ FreshEnough
    /\ SendWith(c, [left |-> cache.left, good |-> cache.good])
    /\ UNCHANGED <<queue, cache, issued, verdict, clientFaults>>

AskToken(c) ==
    /\ phase[c] = "token" /\ ~FreshEnough
    /\ phase' = [phase EXCEPT ![c] = "fetch"]
    /\ issued' = NoIssue /\ waited' = [waited EXCEPT ![c] = 0]
    /\ UNCHANGED <<holder, queue, cache, held, verdict, clientFaults>>

\* The token endpoint: the lifetime runs from here, not from the reading.
IssueToken(c) ==
    /\ phase[c] = "fetch" /\ issued = NoIssue
    /\ \E life \in Lifetimes : issued' = [left |-> life, good |-> TRUE, life |-> life]
    /\ UNCHANGED <<holder, queue, cache, callVars, clientFaults>>

MutantRefreshIn(life) == life

RefreshIn(life) == life - (IF life < Lead THEN life ELSE Lead)

Cache(token) ==
    cache' = [left |-> token.left, good |-> token.good, refresh |-> RefreshIn(token.life)]

MutantStoreToken(c) ==
    /\ phase[c] = "fetch" /\ issued # NoIssue
    /\ Cache(issued)
    /\ held' = [held EXCEPT ![c] = [left |-> issued.left, good |-> issued.good]]
    /\ phase' = [phase EXCEPT ![c] = "send"] /\ waited' = [waited EXCEPT ![c] = 0]
    /\ UNCHANGED <<holder, queue, issued, verdict, clientFaults>>

StoreToken(c) ==
    /\ phase[c] = "fetch" /\ issued # NoIssue
    /\ Cache(issued)
    /\ SendWith(c, [left |-> issued.left, good |-> issued.good])
    /\ issued' = NoIssue
    /\ UNCHANGED <<queue, verdict, clientFaults>>

\* Whatever the token endpoint does wrong, and not answering in time too, is
\* a Transport error of the call; the cache keeps what it had.
TokenFails(c) ==
    /\ phase[c] = "fetch" /\ ClientFault("endpoint")
    /\ holder' = None
    /\ issued' = NoIssue
    /\ phase' = [phase EXCEPT ![c] = "idle"]
    /\ verdict' = [verdict EXCEPT ![c] = "transport"]
    /\ waited' = [waited EXCEPT ![c] = 0]
    /\ UNCHANGED <<queue, cache, held>>

\* truncate cuts a failure text of more than 500 bytes at byte 500, and panics
\* when that is inside a character.  The panic ends the task: an operator's
\* serves the one request, a worker's is spawned once and watched by nobody.
Panic(c) ==
    /\ ClientFault("cut")
    /\ phase' = [phase EXCEPT ![c] = IF c \in Workers THEN "dead" ELSE "idle"]
    /\ held' = [held EXCEPT ![c] = NoToken]
    /\ waited' = [waited EXCEPT ![c] = 0]
    /\ UNCHANGED verdict

\* Unwinding drops the guard of the mutex.
TokenPanics(c) ==
    /\ phase[c] = "fetch" /\ Panic(c)
    /\ holder' = None
    /\ issued' = NoIssue
    /\ UNCHANGED <<queue, cache>>

-----------------------------------------------------------------------------
(* The answer of OBP-API and its class.                                    *)

\* A failed answer: its HTTP status, and whether its body has an OBP code.
Failures == [status : {400, 401, 403, 404, 422, 429, 500}, code : BOOLEAN]

MutantClassifyFailure(a) == IF a.status < 500 /\ a.code THEN "rejected" ELSE "transport"

ClassifyFailure(a) == IF a.status \in {400, 422} /\ a.code THEN "rejected" ELSE "transport"

ClassifyInteractiveFailure(a) == IF a.status < 500 /\ a.code THEN "rejected" ELSE "transport"

Classify(c, a) == IF c \in Workers THEN ClassifyFailure(a) ELSE ClassifyInteractiveFailure(a)

Accepted(c) == held[c].left > 0 /\ held[c].good

EndCall(c, v) ==
    /\ phase' = [phase EXCEPT ![c] = "idle"]
    /\ verdict' = [verdict EXCEPT ![c] = v]
    /\ held' = [held EXCEPT ![c] = NoToken]
    /\ waited' = [waited EXCEPT ![c] = 0]

AnswerOk(c) ==
    /\ phase[c] = "send" /\ Accepted(c)
    /\ EndCall(c, "ok")
    /\ UNCHANGED <<tokenVars, clientFaults>>

\* OBP-API turns a dead or revoked token away with a code of its own; it may
\* refuse or fail to serve a call with a live one as well.
FailedAnswers(c) ==
    IF Accepted(c) THEN {f \in Failures : f.status # 401} ELSE {[status |-> 401, code |-> TRUE]}

AnswerFailure(c) ==
    /\ phase[c] = "send"
    /\ \E a \in FailedAnswers(c) : EndCall(c, Classify(c, a))
    /\ IF Accepted(c) THEN ClientFault("refusal") ELSE UNCHANGED clientFaults
    /\ UNCHANGED tokenVars

\* Only the text of an answer that is no rejection is cut.
AnswerPanics(c) ==
    /\ phase[c] = "send" /\ Panic(c)
    /\ \E a \in FailedAnswers(c) : Classify(c, a) = "transport"
    /\ UNCHANGED tokenVars

\* No answer, or none within the timeout.
NoAnswer(c) ==
    /\ phase[c] = "send" /\ ClientFault("transport")
    /\ EndCall(c, "transport")
    /\ UNCHANGED tokenVars

-----------------------------------------------------------------------------
Less(n) == IF n > 0 THEN n - 1 ELSE 0

UnderWay(c) == phase[c] \in {"fetch", "send"}

GrowOlder ==
    /\ cache' = [left |-> Less(cache.left), good |-> cache.good, refresh |-> Less(cache.refresh)]
    /\ issued' = [left |-> Less(issued.left), good |-> issued.good, life |-> issued.life]
    /\ held' = [c \in Callers |-> [left |-> Less(held[c].left), good |-> held[c].good]]

\* No request is under way for longer than the client's timeout.
Tick ==
    /\ \A c \in Callers : UnderWay(c) => waited[c] < HttpTimeout
    /\ GrowOlder
    /\ waited' = [c \in Callers |-> IF UnderWay(c) THEN waited[c] + 1 ELSE waited[c]]
    /\ UNCHANGED <<holder, queue, phase, verdict, clientFaults>>

\* The provider withdraws every token it has made.
Revoke ==
    /\ ClientFault("revoke")
    /\ cache' = [left |-> cache.left, good |-> FALSE, refresh |-> cache.refresh]
    /\ issued' = [left |-> issued.left, good |-> FALSE, life |-> issued.life]
    /\ held' = [c \in Callers |-> [left |-> held[c].left, good |-> FALSE]]
    /\ UNCHANGED <<holder, queue, waited, phase, verdict>>

Authorize(c) ==
    \/ LockToken(c) \/ UseCached(c) \/ AskToken(c)
    \/ IssueToken(c) \/ StoreToken(c)
    \/ TokenFails(c) \/ TokenPanics(c)

Answer(c) == AnswerOk(c) \/ AnswerFailure(c) \/ NoAnswer(c) \/ AnswerPanics(c)

-----------------------------------------------------------------------------
(* Properties.                                                             *)

\* bearer_token never hands out a cached token that has expired, even when
\* the response that brought the token took as long as the HTTP client
\* waits: the lead taken off the lifetime covers the time it was under way.
CachedIsAlive == FreshEnough => cache.left > 0

\* A payment is never given its terminal verdict because of the node's own
\* credentials: a call of the dispatcher or the refresher that OBP-API turned
\* away for its token ends as a Transport error, which is tried again.
CredentialsNeverTerminal ==
    [][\A c \in Workers :
         (phase[c] = "send" /\ phase'[c] = "idle" /\ verdict'[c] = "rejected") => Accepted(c)]_clientVars

\* No call waits for ever behind the token mutex, whose holder may be waiting
\* for the token endpoint or panic as it reads the answer: every call ends, if
\* only with the task that makes it.
CallsEnd == \A c \in Callers : phase[c] \notin {"idle", "dead"} ~> phase[c] \in {"idle", "dead"}

\* The mutex is held exactly by the caller that reads or fetches the token:
\* no early return of bearer_token keeps it, and no two callers fetch.
OneFetch ==
    \A c \in Callers : phase[c] \in {"token", "fetch"} <=> holder = c

=============================================================================
