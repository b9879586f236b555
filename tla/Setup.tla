-------------------------------- MODULE Setup --------------------------------
(***************************************************************************)
(* The operator app's setup page: what its status check makes of the       *)
(* running OBP-API instance, and the applies that bring the instance to    *)
(* what the configuration declares, step by step and against other         *)
(* administrators.  The instance is external.                              *)
(***************************************************************************)
EXTENDS Oidc, FiniteSets

CONSTANTS
    Applier,     \* the tab that applies items; the others read
    Configured,  \* items the setup block declares
    Owned,       \* whether its account has an owner_username
    Routings, Foreign, \* routing pairs the account may be given, and others
    Limit        \* 500: entries of the account directory that are listed

\* As the page lists them: the administrator's roles come before the bank they
\* are held at.
Items == {"system roles", "bank roles", "scheme", "bank", "account", "fx", "broker", "grant"}
RoleItems == {"system roles", "bank roles"}

ASSUME SetupAssumption ==
    /\ Applier \in Tabs /\ Configured \subseteq Items /\ Owned \in BOOLEAN
    /\ "bank" \in Configured \/ Configured \subseteq {"system roles", "scheme"}
    /\ "system roles" \in Configured => Configured \cap {"scheme", "bank"} # {}
    /\ "bank roles" \in Configured => Configured \cap {"account", "fx", "broker", "grant"} # {}
    /\ Routings \cap Foreign = {} /\ IsFiniteSet(Routings \cup Foreign)
    /\ Limit \in Nat

VARIABLES
    wanted,   \* the routings configured for the account
    there,    \* instance: item -> "absent", "as configured" or "otherwise"
    routings, \* instance: the account's
    place,    \* instance: the account's place in the directory
    extras,   \* instance: accounts besides the configured one
    mine,     \* instance: the administrator's roles
    users,    \* instance: whether the users named in the configuration exist
    task,     \* the item the applying tab is at
    result    \* what the page was told of the last apply; no answer yet is an error

instVars == <<there, routings, place, extras, mine, users>>
setupVars == <<wanted, instVars, task, result>>
vars == <<signVars, setupVars>>

\* required_admin_roles; an account with routings needs a third one.
RolesFor == [ scheme  |-> {"CanCreateRoutingScheme"},
              bank    |-> {"CanCreateBank"},
              account |-> {"CanCreateAccount", "CanGetAccountDirectoryAtOneBank"},
              fx      |-> {"CanCreateFxRate"},
              broker  |-> {"CanConfigureAmqpBankBroker"},
              grant   |-> {"CanCreateEntitlementAtOneBank"} ]

MutantRequiredRoles == UNION {RolesFor[i] : i \in Configured \ RoleItems}

RequiredRoles ==
    (UNION {RolesFor[i] : i \in Configured \ RoleItems})
    \cup (IF "account" \in Configured /\ wanted # {} THEN {"CanUpdateAccount"} ELSE {})

Granting == {"CanCreateEntitlementAtOneBank", "CanCreateEntitlementAtAnyBank"}
AllRoles == (UNION {RolesFor[i] : i \in Items \ RoleItems}) \cup Granting \cup {"CanUpdateAccount", "CanGetAnyUser"}
SystemRoles == {"CanCreateRoutingScheme", "CanCreateBank", "CanCreateEntitlementAtAnyBank"}

\* The required roles a role item stands for.
RolesOf(item) ==
    IF item = "system roles" THEN RequiredRoles \cap SystemRoles ELSE RequiredRoles \ SystemRoles

States == {"absent", "as configured", "otherwise"}
Results == {"done", "refused", "error"}

\* Sign-in, instance and page keep their types.
TypeOK ==
    /\ SignTypeOK
    /\ wanted \subseteq Routings
    /\ there \in [Items -> States]
    /\ routings \subseteq Routings \cup Foreign
    /\ place \in Nat /\ extras \in 0..MaxEvents
    /\ mine \subseteq AllRoles /\ users \in BOOLEAN
    /\ task \in Items \cup {"none"} /\ result \in Results

\* An empty instance, or one whose bank and account were there from its boot;
\* an administrator who holds the roles asked for so far, and may look users up
\* or not, or a super admin, who may do that and grant any role.
Init ==
    /\ SignInit
    /\ wanted \in {{}, Routings}
    /\ \E booted \in BOOLEAN :
          /\ there = [i \in Items |-> IF booted /\ i \in {"bank", "account"} THEN "as configured" ELSE "absent"]
          /\ routings \in (IF booted THEN {Foreign, Routings \cup Foreign} ELSE {{}})
          /\ place = (IF booted THEN 1 ELSE 0)
          /\ \E held \in {IF booted THEN RequiredRoles ELSE RolesOf("system roles"),
                          {"CanCreateEntitlementAtAnyBank"}} :
                mine \in {held, held \cup {"CanGetAnyUser"}}
    /\ extras = 0 /\ users \in BOOLEAN
    /\ task = "none" /\ result = "error"

-----------------------------------------------------------------------------
(* status: what one check says of the instance as it is.                   *)

Exists(item) == there[item] # "absent"

\* Whether a role of the configuration counts as held.
Held(role) ==
    role \in mine \/ (role = "CanCreateEntitlementAtOneBank" /\ "CanCreateEntitlementAtAnyBank" \in mine)

\* From one listing of the directory.
AccountCheck ==
    IF ~Exists("bank") THEN "missing"
    ELSE IF "CanGetAccountDirectoryAtOneBank" \notin mine THEN "unverified"
    ELSE IF ~Exists("account") \/ place > Limit THEN "missing"
    ELSE IF wanted \subseteq routings THEN "ok" ELSE "differs"

\* classify, of a check that reads the item itself.
Presence(item) == IF Exists(item) THEN "ok" ELSE "missing"

RoleCheck(item) == IF \A r \in RolesOf(item) : Held(r) THEN "ok" ELSE "missing"

\* Only its status is compared.
SchemeCheck == IF there["scheme"] = "otherwise" THEN "differs" ELSE Presence("scheme")

BankCheck == Presence("bank")

\* A rate is there or not; its value is not compared.
FxCheck == Presence("fx")

\* Every field but the password.
BrokerCheck == IF there["broker"] = "otherwise" THEN "differs" ELSE Presence("broker")

\* GET /users/username, which OBP-API answers to holders of CanGetAnyUser; no
\* item stands for that role.
UserFound == users /\ "CanGetAnyUser" \in mine

GrantCheck == IF UserFound THEN Presence("grant") ELSE "error"

Check(item) ==
    CASE item \in RoleItems -> RoleCheck(item)
      [] item = "scheme"  -> SchemeCheck
      [] item = "bank"    -> BankCheck
      [] item = "account" -> AccountCheck
      [] item = "fx"      -> FxCheck
      [] item = "broker"  -> BrokerCheck
      [] item = "grant"   -> GrantCheck

-----------------------------------------------------------------------------
(* apply, for one item, and what OBP-API does.                             *)

ByUser(item) == item = "grant" \/ (item = "account" /\ Owned)

StartApply(item) ==
    /\ NeedToken(Applier, "me")
    /\ task' = item /\ result' = "error"
    /\ UNCHANGED <<wanted, instVars>>

\* A request that only reads, or hands OBP-API's answer on, leaves a trace
\* only where it has to refresh the token: me, status, the account directory,
\* a request for a role.
ReadPage(t) ==
    /\ t # Applier
    /\ NeedToken(t, "idle") /\ ~sessions[cookie].live
    /\ UNCHANGED setupVars

At(step) == pc[Applier] = step

Goto(step) ==
    /\ pc' = [pc EXCEPT ![Applier] = step]
    /\ UNCHANGED <<endpoints, started, pending, old, sessions, cookie, holds, carries,
                   current, presented, ended>>

Finish(told) ==
    /\ Idle(Applier) /\ task' = "none" /\ result' = told
    /\ UNCHANGED <<endpoints, started, pending, old, sessions, cookie, current, presented, ended>>

FetchMe ==
    /\ At("me")
    /\ Goto(IF ByUser(task) THEN "resolve" ELSE "call")
    /\ UNCHANGED <<setupVars, events>>

\* The users are never created here; a lookup that is refused counts as a
\* missing user.
ResolveUser ==
    /\ At("resolve")
    /\ IF UserFound THEN Goto("call") /\ UNCHANGED <<task, result>> ELSE Finish("error")
    /\ UNCHANGED <<wanted, instVars, events>>

\* A call that gets no answer, before or after OBP-API acted on it.
CallFails ==
    /\ At("me") \/ At("resolve") \/ At("call") \/ At("update")
    /\ Event("api") /\ Finish("error")
    /\ UNCHANGED <<wanted, instVars>>

NeedsBank(item) == item \in {"bank roles", "account", "fx", "broker", "grant"}

Allowed(item) ==
    /\ NeedsBank(item) => Exists("bank")
    /\ IF item = "account" THEN "CanCreateAccount" \in mine
       ELSE IF item = "system roles" THEN "CanCreateEntitlementAtAnyBank" \in mine
       ELSE IF item = "bank roles" THEN mine \cap Granting # {}
       ELSE \A r \in RolesFor[item] : Held(r)

\* Schemes, banks, accounts and entitlements are created, and refused as
\* already existing; rates and brokers are put in place.
Put(item) == item \in {"fx", "broker"}

Told(answer) ==
    \/ Finish(answer) /\ UNCHANGED events
    \/ Finish("error") /\ Event("lost")

Create ==
    /\ At("call") /\ task \notin RoleItems /\ Allowed(task) /\ (Put(task) \/ ~Exists(task))
    /\ there' = [there EXCEPT ![task] = "as configured"]
    /\ routings' = (IF task = "account" THEN wanted ELSE routings)
    /\ IF task = "account" THEN place' \in 1..(extras + 1) ELSE place' = place
    /\ Told("done")
    /\ UNCHANGED <<wanted, extras, mine, users>>

MutantNextRole == "CanCreateEntitlement"

NextRole ==
    LET due == {r \in RolesOf(task) : ~Held(r)}
    IN  CHOOSE r \in RolesOf(task) : due # {} => r \in due

\* myrole: one entitlement after the other, by the administrator's own rights.
GrantMyself ==
    /\ At("call") /\ task \in RoleItems /\ Allowed(task)
    /\ mine' = mine \cup {NextRole}
    /\ Told("done")
    /\ UNCHANGED <<wanted, there, routings, place, extras, users>>

\* already_ok, but for an account with routings to attach.
AlreadyThere ==
    /\ At("call") /\ task \notin RoleItems /\ ~Put(task) /\ Allowed(task) /\ Exists(task)
    /\ IF task = "account" /\ wanted # {} THEN Goto("update") /\ UNCHANGED <<task, result, events>>
       ELSE Told("done")
    /\ UNCHANGED <<wanted, instVars>>

Refuse ==
    /\ \/ At("call") /\ ~Allowed(task)
       \/ At("update") /\ "CanUpdateAccount" \notin mine
    /\ Told("refused")
    /\ UNCHANGED <<wanted, instVars>>

MutantSentRoutings == {}

SentRoutings == wanted

\* Update Account replaces the routing list as a whole.
UpdateAccount ==
    /\ At("update") /\ "CanUpdateAccount" \in mine
    /\ routings' = SentRoutings
    /\ Told("done")
    /\ UNCHANGED <<wanted, there, place, extras, mine, users>>

\* test_account: an account under an id that OBP-API makes up, listed before the
\* configured one or after it.  Of its calls only the last one changes anything.
TestAccount ==
    /\ SignedIn /\ Event("test account") /\ Exists("bank") /\ "CanCreateAccount" \in mine
    /\ sessions[cookie].live
    /\ extras' = extras + 1
    /\ IF Exists("account") THEN place' \in {place, place + 1} ELSE place' = place
    /\ UNCHANGED <<endpoints, started, pending, old, sessions, cookie, pc, holds, carries,
                   current, presented, ended, wanted, there, routings, mine, users, task, result>>

-----------------------------------------------------------------------------
(* Other administrators.                                                   *)

Elsewhere ==
    /\ Event("elsewhere")
    /\ \/ \E i \in Configured \ (RoleItems \cup {"account"}), s \in {"as configured", "otherwise"} :
             /\ NeedsBank(i) => Exists("bank")
             /\ there' = [there EXCEPT ![i] = s]
             /\ UNCHANGED <<routings, place, extras, mine, users>>
       \/ /\ "account" \in Configured /\ Exists("bank")
          /\ \E rs \in SUBSET (Routings \cup Foreign) :
                /\ there' = [there EXCEPT !["account"] = "as configured"]
                /\ routings' = rs
                /\ IF Exists("account") THEN place' = place ELSE place' \in 1..(extras + 1)
          /\ UNCHANGED <<extras, mine, users>>
       \/ ~users /\ users' = TRUE /\ UNCHANGED <<there, routings, place, extras, mine>>
       \/ Exists("bank") /\ mine' \in {AllRoles, {}} /\ UNCHANGED <<there, routings, place, extras, users>>
    /\ UNCHANGED <<endpoints, started, pending, old, sessions, cookie, pc, holds, carries,
                   current, presented, ended, wanted, task, result>>

-----------------------------------------------------------------------------
\* The token step of a request that goes on.
Refreshing(t) ==
    /\ RefreshOk(t, IF t = Applier THEN "me" ELSE "idle")
    /\ UNCHANGED setupVars

RefreshGivenUp(t) ==
    /\ RefreshFails(t)
    /\ task' = (IF t = Applier THEN "none" ELSE task)
    /\ UNCHANGED <<wanted, instVars, result>>

SigningIn ==
    /\ \/ \E l \in Logins : BeginLogin(l) \/ PendingAges(l) \/ TokenExpires(l)
       \/ \E t \in Tabs, l \in Logins : Callback(t, l)
       \/ \E t \in Tabs : Exchange(t) \/ ExchangeFails(t)
       \/ Logout
    /\ UNCHANGED setupVars

ApplySteps ==
    \/ FetchMe \/ ResolveUser \/ CallFails \/ Create \/ GrantMyself \/ AlreadyThere
    \/ Refuse \/ UpdateAccount

App ==
    \/ SigningIn \/ ApplySteps \/ TestAccount
    \/ \E t \in Tabs : Refreshing(t) \/ RefreshGivenUp(t) \/ ReadPage(t)
    \/ \E i \in Configured : StartApply(i)

Next == App \/ Elsewhere

Spec == Init /\ [][Next]_vars

\* The page offers no apply for an item whose check fails with an error.
Applyable(item) == Check(item) \in {"missing", "differs", "unverified"}

StartDue(item) == Applyable(item) /\ StartApply(item)

\* What is begun goes on, and an administrator who is signed in keeps applying
\* what the page offers to apply, in whatever order.
Fairness ==
    /\ WF_vars(ApplySteps \/ Refreshing(Applier) \/ RefreshGivenUp(Applier))
    /\ \A i \in Configured : SF_vars(StartDue(i))

FairSpec == Spec /\ Fairness

-----------------------------------------------------------------------------
(* Properties.                                                             *)

\* The account is past the end of the directory's listing.
Unlisted == Exists("account") /\ place > Limit

\* An apply that OBP-API accepts, or answers with "already exists", leaves its
\* item ok: unless a scheme is registered with another status, which no apply
\* changes, the account is not listed, or the right to look users up was taken
\* away meanwhile.
DoneIsOk ==
    [][\A i \in Configured \ RoleItems :
          (task = i /\ result' = "done") =>
              \/ Check(i)' \in {"ok", "unverified"}
              \/ i = "scheme" /\ there[i] = "otherwise"
              \/ i = "account" /\ Unlisted'
              \/ i = "grant" /\ "CanGetAnyUser" \notin mine']_vars

\* What stands in the way for good: nobody signed in, a role that is missing and
\* may not be granted to oneself, users who are missing or may not be looked up,
\* a scheme with another status, an account past the listing.
CannotGrant ==
    \/ (\E r \in RolesOf("system roles") : ~Held(r)) /\ "CanCreateEntitlementAtAnyBank" \notin mine
    \/ (\E r \in RolesOf("bank roles") : ~Held(r)) /\ mine \cap Granting = {}

Stuck ==
    \/ ~SignedIn \/ CannotGrant \/ Unlisted
    \/ (\E i \in Configured : ByUser(i)) /\ ~UserFound
    \/ "scheme" \in Configured /\ there["scheme"] = "otherwise"

\* Applying what the page offers, again and again and in any order, brings the
\* instance to the configuration, whatever failed before: no role that an apply
\* needs, but the one to look users up, is missing from the list, and nothing
\* waits for what waits for it.
Converges == <>[](Stuck \/ \A i \in Configured : Check(i) = "ok")

\* A step of the app, as opposed to another administrator's.
OwnStep == pc' # pc \/ extras' # extras

\* Applies change nothing on an instance where every item is ok (setup.rs:
\* "re-applying a converged instance is a no-op").  TLC refutes it: the
\* account's list of routings is replaced (README, section 6).
ReapplyIsNoOp ==
    [][(OwnStep /\ \A i \in Configured : Check(i) = "ok") => UNCHANGED <<there, routings, mine>>]_vars

\* An apply whose user exists, of an administrator who holds every role of the
\* list, is not turned down for a role (setup.rs: "Admin roles the configured
\* applies will need").  TLC refutes it: to look a user up needs one more
\* (README, section 6).
RolesSuffice ==
    [][(/\ At("resolve") /\ users /\ \A r \in RequiredRoles : Held(r)
        /\ ResolveUser) => At("call")']_vars

=============================================================================
