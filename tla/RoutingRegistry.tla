--------------------------- MODULE RoutingRegistry ---------------------------
(***************************************************************************)
(* The node's copy of OBP-API's registry of routing schemes: a background  *)
(* task reads the ACTIVE rows page by page, with a token for every page,   *)
(* and replaces the copy when the last page is there; a payment's routing  *)
(* is checked against the copy, and not at all until there is one.  The    *)
(* registry itself is external and changes whenever its operators like.    *)
(***************************************************************************)
EXTENDS ObpClient, FiniteSets

CONSTANTS
    Refresher,  \* the background task, one of the Workers
    Schemes,    \* routing schemes there are
    Strict,     \* schemes whose address_pattern compiles
    PageSize,   \* PAGE: rows per page
    MaxChanges  \* changes the registry may undergo

ASSUME RegistryAssumption ==
    /\ Refresher \in Workers
    /\ Strict \subseteq Schemes /\ IsFiniteSet(Schemes)
    /\ PageSize \in Nat \ {0} /\ MaxChanges \in Nat
    /\ \A S \in SUBSET Schemes : S # None

VARIABLES
    registry, \* OBP-API: its ACTIVE rows, in the order it lists them
    changes,  \* OBP-API: changes so far
    rows,     \* get_routing_schemes: the rows read so far
    loaded,   \* RoutingRegistry: the schemes of the copy, None before the first
    watch,    \* history: what the registry held while it was being read
    basis     \* history: watch, of the reading the copy comes from

registryVars == <<registry, changes>>
copyVars == <<rows, loaded, watch, basis>>
vars == <<clientVars, registryVars, copyVars>>

RangeOf(s) == {s[i] : i \in DOMAIN s}

\* throughout: ACTIVE all along; atSomePoint: ACTIVE at least once; shifted:
\* a row was taken out of the pages already read.
Histories == [throughout : SUBSET Schemes, atSomePoint : SUBSET Schemes, shifted : BOOLEAN]
Watch(S) == [throughout |-> S, atSomePoint |-> S, shifted |-> FALSE]

RegistryTypeOK ==
    /\ registry \in Seq(Schemes)
    /\ changes \in 0..MaxChanges
    /\ rows \in Seq(Schemes)
    /\ loaded \in (SUBSET Schemes) \cup {None}
    /\ watch \in Histories /\ basis \in Histories

\* Client and copy keep their types.
TypeOK == ClientTypeOK /\ RegistryTypeOK

Init ==
    /\ ClientInit
    /\ registry \in {s \in UNION {[1..n -> Schemes] : n \in 0..Cardinality(Schemes)} :
                       \A i, j \in DOMAIN s : s[i] = s[j] => i = j}
    /\ changes = 0
    /\ rows = <<>> /\ loaded = None
    /\ watch = Watch({}) /\ basis = Watch({})

Refreshing == phase[Refresher] \notin {"idle", "dead"}

-----------------------------------------------------------------------------
(* spawn_refresher and get_routing_schemes.                                *)

StartRefresh ==
    /\ Call(Refresher)
    /\ rows' = <<>> /\ watch' = Watch(RangeOf(registry))
    /\ UNCHANGED <<registryVars, loaded, basis>>

Page == SubSeq(registry, Len(rows) + 1,
               IF Len(rows) + PageSize < Len(registry) THEN Len(rows) + PageSize ELSE Len(registry))

MutantLastPage(page) == Len(page) < PageSize \/ Len(rows) >= Len(registry) - PageSize - 1

\* page.pagination.total is the registry's size when this page was made.
LastPage(page) == Len(page) < PageSize \/ Len(rows \o page) >= Len(registry)

MorePages ==
    /\ phase[Refresher] = "send" /\ Accepted(Refresher) /\ ~LastPage(Page)
    /\ rows' = rows \o Page
    /\ Queue(Refresher)
    /\ held' = [held EXCEPT ![Refresher] = NoToken]
    /\ waited' = [waited EXCEPT ![Refresher] = 0]
    /\ UNCHANGED <<holder, cache, issued, verdict, clientFaults, registryVars, loaded, watch, basis>>

\* load: the copy is replaced as a whole.
Load == loaded' = RangeOf(rows \o Page)

RefreshDone ==
    /\ phase[Refresher] = "send" /\ LastPage(Page)
    /\ AnswerOk(Refresher)
    /\ Load /\ basis' = watch
    /\ rows' = <<>> /\ watch' = Watch({})
    /\ UNCHANGED registryVars

\* A failure ends the reading, and a panic the task; the copy stays what it was.
RefreshFails ==
    /\ \/ TokenFails(Refresher) \/ AnswerFailure(Refresher) \/ NoAnswer(Refresher)
       \/ TokenPanics(Refresher) \/ AnswerPanics(Refresher)
    /\ rows' = <<>> /\ watch' = Watch({})
    /\ UNCHANGED <<registryVars, loaded, basis>>

RefreshAuthorizes ==
    /\ \/ LockToken(Refresher) \/ UseCached(Refresher) \/ AskToken(Refresher)
       \/ IssueToken(Refresher) \/ StoreToken(Refresher)
    /\ UNCHANGED <<registryVars, copyVars>>

\* The other callers do not touch the copy.
OtherCall(c) ==
    /\ Call(c) \/ Authorize(c) \/ Answer(c)
    /\ UNCHANGED <<registryVars, copyVars>>

-----------------------------------------------------------------------------
(* OBP-API's operators.                                                    *)

Observe(S, shift) ==
    IF Refreshing
    THEN watch' = [throughout |-> watch.throughout \cap S,
                   atSomePoint |-> watch.atSomePoint \cup S,
                   shifted |-> watch.shifted \/ shift]
    ELSE UNCHANGED watch

Insert(i, s) == SubSeq(registry, 1, i) \o <<s>> \o SubSeq(registry, i + 1, Len(registry))
Without(i) == SubSeq(registry, 1, i - 1) \o SubSeq(registry, i + 1, Len(registry))

Activate ==
    /\ \E s \in Schemes \ RangeOf(registry), i \in 0..Len(registry) :
          /\ registry' = Insert(i, s)
          /\ Observe(RangeOf(registry) \cup {s}, FALSE)
    /\ changes < MaxChanges /\ changes' = changes + 1
    /\ UNCHANGED <<clientVars, rows, loaded, basis>>

Withdraw ==
    /\ \E i \in DOMAIN registry :
          /\ registry' = Without(i)
          /\ Observe(RangeOf(registry) \ {registry[i]}, i <= Len(rows))
    /\ changes < MaxChanges /\ changes' = changes + 1
    /\ UNCHANGED <<clientVars, rows, loaded, basis>>

TimePasses == Tick /\ UNCHANGED <<registryVars, copyVars>>
Withdrawal == Revoke /\ UNCHANGED <<registryVars, copyVars>>

-----------------------------------------------------------------------------
(* check, for the two routings of a payment in initiate_payment.           *)

Routings == [scheme : Schemes, fits : BOOLEAN]

Check(r) ==
    IF loaded = None THEN "ok"
    ELSE IF r.scheme \notin loaded THEN "unknown"
    ELSE IF r.scheme \in Strict /\ ~r.fits THEN "mismatch" ELSE "ok"

-----------------------------------------------------------------------------
Next ==
    \/ StartRefresh \/ MorePages \/ RefreshDone \/ RefreshFails \/ RefreshAuthorizes
    \/ \E c \in Callers \ {Refresher} : OtherCall(c)
    \/ Activate \/ Withdraw \/ TimePasses \/ Withdrawal

Spec == Init /\ [][Next]_vars

RefreshSteps == StartRefresh \/ MorePages \/ RefreshDone \/ RefreshFails \/ RefreshAuthorizes

OtherSteps(c) == (Authorize(c) \/ Answer(c)) /\ UNCHANGED <<registryVars, copyVars>>

\* The refresher wakes up and goes on for as long as its task lives, every call
\* does its next step, and the clock runs.  Nobody has to call, to change the registry or to
\* revoke anything.  An answer may come so late that the token has expired
\* under way, but not every time.
Fairness ==
    /\ WF_vars(RefreshSteps) /\ WF_vars(TimePasses)
    /\ SF_vars(MorePages) /\ SF_vars(RefreshDone)
    /\ \A c \in Callers \ {Refresher} : WF_vars(OtherSteps(c))

FairSpec == Spec /\ Fairness

-----------------------------------------------------------------------------
(* Properties.                                                             *)

\* A payment is refused for an unknown scheme only if that scheme was not
\* ACTIVE throughout the last complete reading of the registry.  Reading by
\* offset misses a row when one of an earlier page is withdrawn meanwhile;
\* a failed refresh, a slow one and rows added between pages lose nothing.
RefusalIsGrounded ==
    \A r \in Routings : Check(r) = "unknown" =>
        basis.shifted \/ r.scheme \notin basis.throughout

\* Once the registry has been read, a payment passes only with a scheme that
\* was ACTIVE during that reading, and an address its pattern takes.
AcceptanceIsGrounded ==
    \A r \in Routings : (loaded # None /\ Check(r) = "ok") =>
        r.scheme \in basis.atSomePoint /\ (r.fits \/ r.scheme \notin Strict)

\* A copy, once loaded, only ever changes to what a complete reading found:
\* no failure empties it or turns the check off again.
CopyChangesByReading ==
    [][loaded' # loaded => loaded' # None /\ phase[Refresher] = "send" /\ verdict'[Refresher] = "ok"]_vars

\* Validation switches on, and when the registry stops changing the copy ends
\* up equal to it, whatever was revoked or failed before: a revoked token is
\* used until its time is over and then replaced.  A token has to live for
\* longer than two timeouts, fetching it and using it once.  The exception is
\* a refresher that a failure text cut inside a character has ended.
CopyCatchesUp == <>[](loaded = RangeOf(registry) \/ phase[Refresher] = "dead")

\* routing.rs:114-115, of the refresher: "fetch the registry now, then every
\* refresh_secs.  Failures only log".  TLC refutes it: one that is cut inside a
\* character ends the refresher (README, section 6).
FailuresOnlyLog == []<>Refreshing

=============================================================================
