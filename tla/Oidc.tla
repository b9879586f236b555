--------------------------------- MODULE Oidc ---------------------------------
(***************************************************************************)
(* The operator app's sign-in: logins that are under way, sessions in      *)
(* memory behind an opaque cookie, and the refresh of an expired token,    *)
(* which two requests of one browser may do at the same time.  A login is  *)
(* known by its random state value and its session, whose id is random     *)
(* too, by the login.  The provider and the browser are external.          *)
(***************************************************************************)
EXTENDS Naturals

CONSTANTS
    Logins,      \* logins that may be started
    Tabs,        \* requests that may be under way at once
    Events, MaxEvents, \* what may happen besides, and how often in all
    None

\* Tokens that run out, failing requests to the provider and logouts; and for
\* the setup page, calls of OBP-API that fail or whose answer is lost, other
\* administrators' changes, and test accounts.
EventKinds == {"expiry", "provider", "logout", "api", "lost", "elsewhere", "test account"}

ASSUME OidcAssumption ==
    /\ None \notin Logins /\ None \notin [live : BOOLEAN, refresh : Nat]
    /\ Events \subseteq EventKinds /\ MaxEvents \in Nat

VARIABLES
    endpoints, \* whether the provider's endpoints have been discovered
    started,   \* logins the browser has been sent to the provider for
    pending,   \* logins waiting for their callback
    old,       \* those of them older than PENDING_TTL
    sessions,  \* login -> its session: live, and the refresh token it keeps
    cookie,    \* the browser's
    pc,        \* tab -> where its request is
    holds,     \* tab -> the login or session it works on
    carries,   \* tab -> the refresh token it presents
    current,   \* provider: login -> the refresh token it takes
    presented, \* provider: logins whose code was presented
    ended,     \* history: logins whose session had a reason to end
    events

signVars == <<endpoints, started, pending, old, sessions, cookie, pc, holds, carries,
              current, presented, ended, events>>

NoSession == [live |-> FALSE, refresh |-> 0]

Steps == {"idle", "exchange", "refresh", "me", "resolve", "call", "update"}

SignTypeOK ==
    /\ endpoints \in BOOLEAN
    /\ started \subseteq Logins /\ pending \subseteq started /\ old \subseteq pending
    /\ sessions \in [Logins -> [live : BOOLEAN, refresh : Nat] \cup {None}]
    /\ cookie \in Logins \cup {None}
    /\ pc \in [Tabs -> Steps]
    /\ holds \in [Tabs -> Logins \cup {None}]
    /\ carries \in [Tabs -> Nat]
    /\ current \in [Logins -> Nat] /\ presented \subseteq Logins
    /\ ended \subseteq Logins /\ events \in 0..MaxEvents

SignInit ==
    /\ endpoints = FALSE /\ started = {} /\ pending = {} /\ old = {}
    /\ sessions = [l \in Logins |-> None] /\ cookie = None
    /\ pc = [t \in Tabs |-> "idle"] /\ holds = [t \in Tabs |-> None]
    /\ carries = [t \in Tabs |-> 0]
    /\ current = [l \in Logins |-> 0] /\ presented = {}
    /\ ended = {} /\ events = 0

Event(kind) ==
    /\ kind \in Events /\ events < MaxEvents
    /\ events' = events + 1

Idle(t) ==
    /\ pc' = [pc EXCEPT ![t] = "idle"] /\ holds' = [holds EXCEPT ![t] = None]
    /\ carries' = [carries EXCEPT ![t] = 0]

-----------------------------------------------------------------------------
(* begin_login and complete_login.                                         *)

\* Abandoned logins are swept when the next one begins.  A provider that
\* cannot be discovered leaves everything as it was.
BeginLogin(l) ==
    /\ l \notin started
    /\ endpoints' = TRUE
    /\ pending' = (pending \ old) \cup {l} /\ old' = {}
    /\ started' = started \cup {l}
    /\ UNCHANGED <<sessions, cookie, pc, holds, carries, current, presented, ended, events>>

PendingAges(l) ==
    /\ l \in pending \ old
    /\ old' = old \cup {l}
    /\ UNCHANGED <<endpoints, started, pending, sessions, cookie, pc, holds, carries,
                   current, presented, ended, events>>

MutantTakePending(l) == UNCHANGED <<pending, old>>

\* The state value is good for one callback.
TakePending(l) == pending' = pending \ {l} /\ old' = old \ {l}

\* The callback's URL may be opened again, and in two tabs.
Callback(t, l) ==
    /\ pc[t] = "idle" /\ l \in pending
    /\ TakePending(l)
    /\ IF l \in old THEN UNCHANGED <<pc, holds, carries>>
       ELSE /\ pc' = [pc EXCEPT ![t] = "exchange"] /\ holds' = [holds EXCEPT ![t] = l]
            /\ UNCHANGED carries
    /\ UNCHANGED <<endpoints, started, sessions, cookie, current, presented, ended, events>>

Present(l) == presented' = presented \cup {l}

\* The response may come without a refresh token, which is refresh 0.
Exchange(t) ==
    /\ pc[t] = "exchange" /\ holds[t] \notin presented
    /\ Present(holds[t])
    /\ \E given \in {0, 1} :
          /\ current' = [current EXCEPT ![holds[t]] = given]
          /\ sessions' = [sessions EXCEPT ![holds[t]] = [live |-> TRUE, refresh |-> given]]
    /\ cookie' = holds[t]
    /\ Idle(t)
    /\ UNCHANGED <<endpoints, started, pending, old, ended, events>>

\* The provider fails, or has seen the code before: then it withdraws the
\* tokens it gave for it (RFC 6749, 4.1.2).
ExchangeFails(t) ==
    /\ pc[t] = "exchange"
    /\ \/ /\ holds[t] \in presented /\ UNCHANGED events
          /\ current' = [current EXCEPT ![holds[t]] = 0]
       \/ holds[t] \notin presented /\ Event("provider") /\ UNCHANGED current
    /\ Present(holds[t])
    /\ Idle(t)
    /\ UNCHANGED <<endpoints, started, pending, old, sessions, cookie, ended>>

-----------------------------------------------------------------------------
(* access_token, for a request that goes on to step next with it.          *)

SignedIn ==
    /\ cookie # None /\ sessions[cookie] # None
    /\ sessions[cookie].live \/ sessions[cookie].refresh > 0

\* An expired session without a refresh token is of no more use; it stays.
NeedToken(t, next) ==
    /\ pc[t] = "idle" /\ SignedIn
    /\ holds' = [holds EXCEPT ![t] = cookie]
    /\ IF sessions[cookie].live
       THEN pc' = [pc EXCEPT ![t] = next] /\ UNCHANGED carries
       ELSE /\ pc' = [pc EXCEPT ![t] = "refresh"]
            /\ carries' = [carries EXCEPT ![t] = sessions[cookie].refresh]
    /\ UNCHANGED <<endpoints, started, pending, old, sessions, cookie, current, presented,
                   ended, events>>

\* A response without a refresh token leaves the session the one it had.
Kept(given, had) == IF given > 0 THEN given ELSE had

\* The provider may rotate: replace the token that was presented.
RefreshOk(t, next) ==
    /\ pc[t] = "refresh" /\ carries[t] = current[holds[t]]
    /\ \E given \in {0, carries[t], carries[t] + 1} :
          /\ current' = [current EXCEPT ![holds[t]] = Kept(given, @)]
          /\ sessions' = [sessions EXCEPT ![holds[t]] =
                             [live |-> TRUE, refresh |-> Kept(given, carries[t])]]
    /\ pc' = [pc EXCEPT ![t] = next] /\ carries' = [carries EXCEPT ![t] = 0]
    /\ holds' = [holds EXCEPT ![t] = IF next = "idle" THEN None ELSE @]
    /\ UNCHANGED <<endpoints, started, pending, old, cookie, presented, ended, events>>

\* The session goes, also where another request has refreshed it meanwhile and
\* only the token presented here is one the provider has replaced.
RefreshFails(t) ==
    /\ pc[t] = "refresh"
    /\ \/ carries[t] # current[holds[t]] /\ UNCHANGED events
       \/ carries[t] = current[holds[t]] /\ Event("provider")
    /\ ended' = (IF current[holds[t]] > 0 THEN ended \cup {holds[t]} ELSE ended)
    /\ sessions' = [sessions EXCEPT ![holds[t]] = None]
    /\ Idle(t)
    /\ UNCHANGED <<endpoints, started, pending, old, cookie, current, presented>>

-----------------------------------------------------------------------------
TokenExpires(l) ==
    /\ sessions[l] # None /\ Event("expiry")
    /\ sessions[l].live
    /\ sessions' = [sessions EXCEPT ![l].live = FALSE]
    /\ UNCHANGED <<endpoints, started, pending, old, cookie, pc, holds, carries, current,
                   presented, ended>>

Logout ==
    /\ cookie # None /\ Event("logout")
    /\ sessions' = [sessions EXCEPT ![cookie] = None]
    /\ cookie' = None /\ ended' = ended \cup {cookie}
    /\ UNCHANGED <<endpoints, started, pending, old, pc, holds, carries, current, presented>>

-----------------------------------------------------------------------------
(* Properties.                                                             *)

\* Who is signed in stays signed in, however often and in however many tabs
\* the callback was opened and through every expiry, whether or not the
\* provider rotates refresh tokens: the session is there, with the refresh
\* token the provider takes if it gave one.  What ends it is a logout, a
\* failure of the provider, or a request that refreshes with a token another
\* request has had replaced; never a token the provider withdrew because the
\* login's code came twice, nor one that was lost or written back out of date.
SignedInStaysIn ==
    (cookie # None /\ cookie \notin ended) =>
        sessions[cookie] # None /\ sessions[cookie].refresh = current[cookie]

\* A session with a refresh token is refreshed, not dropped, unless its user
\* logs out or the provider fails (oidc.rs: "Sessions refresh once on expiry
\* when a `refresh_token` is present and are dropped otherwise").  TLC refutes
\* it: two requests may refresh at once (README, section 6).
DroppedWithoutToken ==
    [][\A l \in Logins :
          (sessions[l] # None /\ sessions'[l] = None) =>
              sessions[l].refresh = 0 \/ events' # events]_signVars

=============================================================================
