----------------------------- MODULE SetupProofs -----------------------------
(***************************************************************************)
(* What sign-in and setup page promise, for any number of logins, tabs and *)
(* events, any configuration and any limit of the account directory.       *)
(***************************************************************************)
EXTENDS Setup, TLAPS

-----------------------------------------------------------------------------
(* Types.                                                                  *)

FlagTypes == endpoints \in BOOLEAN

SignTypes ==
    /\ started \subseteq Logins /\ pending \subseteq started /\ old \subseteq pending
    /\ sessions \in [Logins -> [live : BOOLEAN, refresh : Nat] \cup {None}]
    /\ cookie \in Logins \cup {None}
    /\ pc \in [Tabs -> Steps]
    /\ holds \in [Tabs -> Logins \cup {None}]
    /\ carries \in [Tabs -> Nat]
    /\ current \in [Logins -> Nat] /\ presented \subseteq Logins /\ ended \subseteq Logins
    /\ events \in 0..MaxEvents

\* A request that talks to the provider does so for a login.
HoldsLogin == \A t \in Tabs : pc[t] \in {"exchange", "refresh"} => holds[t] \in Logins

SignInv == SignTypes /\ HoldsLogin

SetupTypes ==
    /\ wanted \subseteq Routings
    /\ there \in [Items -> States]
    /\ routings \subseteq Routings \cup Foreign
    /\ place \in Nat /\ extras \in Nat
    /\ mine \subseteq AllRoles
    /\ task \in Items \cup {"none"} /\ result \in Results

\* Test accounts are events, and only what is configured is applied.
SetupInv == SetupTypes /\ extras <= events /\ task \in Configured \cup {"none"}

\* An item that asks for roles asks for some.
LEMMA RolesAreThere ==
    ASSUME NEW i \in Configured \cap RoleItems
    PROVE  RolesOf(i) # {} /\ RolesOf(i) \subseteq AllRoles
  <1>1. RequiredRoles \subseteq AllRoles
    BY SetupAssumption DEF RequiredRoles, AllRoles
  <1>2. \A k \in Configured \ RoleItems : RolesFor[k] \subseteq RequiredRoles
    BY DEF RequiredRoles
  <1>3. CASE i = "system roles"
    <2>1. "scheme" \in Configured \/ "bank" \in Configured
      BY <1>3, SetupAssumption
    <2>2. RolesFor["scheme"] = {"CanCreateRoutingScheme"} /\ RolesFor["bank"] = {"CanCreateBank"}
      BY DEF RolesFor
    <2>3. RolesOf(i) = RequiredRoles \cap SystemRoles
      BY <1>3 DEF RolesOf
    <2>4. "CanCreateRoutingScheme" \in RequiredRoles \/ "CanCreateBank" \in RequiredRoles
      BY <1>2, <2>1, <2>2 DEF RoleItems
    <2> QED
      BY <1>1, <2>3, <2>4 DEF SystemRoles
  <1>4. CASE i = "bank roles"
    <2>1. PICK k \in Configured : k \in {"account", "fx", "broker", "grant"}
      BY <1>4, SetupAssumption
    <2>2. /\ RolesFor["account"] = {"CanCreateAccount", "CanGetAccountDirectoryAtOneBank"}
          /\ RolesFor["fx"] = {"CanCreateFxRate"}
          /\ RolesFor["broker"] = {"CanConfigureAmqpBankBroker"}
          /\ RolesFor["grant"] = {"CanCreateEntitlementAtOneBank"}
      BY DEF RolesFor
    <2>3. RolesOf(i) = RequiredRoles \ SystemRoles
      BY <1>4 DEF RolesOf
    <2>4. RolesFor[k] \subseteq RequiredRoles
      BY <1>2, <2>1 DEF RoleItems
    <2>5. \E r \in RolesFor[k] : r \notin SystemRoles
      BY <2>1, <2>2 DEF SystemRoles
    <2> QED
      BY <1>1, <2>3, <2>4, <2>5
  <1> QED
    BY <1>3, <1>4 DEF RoleItems

\* The app starts well typed.
LEMMA TypesStart == Init => FlagTypes /\ users \in BOOLEAN /\ SignInv /\ SetupInv
  <1> SUFFICES ASSUME Init PROVE FlagTypes /\ users \in BOOLEAN /\ SignInv /\ SetupInv
    OBVIOUS
  <1>0. SignInit
    BY DEF Init
  <1>1. SignInv
    BY <1>0, OidcAssumption DEF SignInit, SignInv, SignTypes, HoldsLogin, Steps
  <1>2. RequiredRoles \subseteq AllRoles
    BY SetupAssumption DEF RequiredRoles, AllRoles
  <1>3. PICK booted \in BOOLEAN :
          /\ there = [i \in Items |-> IF booted /\ i \in {"bank", "account"} THEN "as configured" ELSE "absent"]
          /\ routings \in (IF booted THEN {Foreign, Routings \cup Foreign} ELSE {{}})
          /\ place = (IF booted THEN 1 ELSE 0)
          /\ \E held \in {IF booted THEN RequiredRoles ELSE RolesOf("system roles"),
                          {"CanCreateEntitlementAtAnyBank"}} :
                mine \in {held, held \cup {"CanGetAnyUser"}}
    BY DEF Init
  <1>4. mine \subseteq AllRoles
    <2>1. RolesOf("system roles") \subseteq AllRoles
      BY <1>2 DEF RolesOf
    <2>3. {"CanCreateEntitlementAtAnyBank"} \subseteq AllRoles
      <3>1. "CanCreateEntitlementAtAnyBank" \in Granting
        BY DEF Granting
      <3>2. Granting \subseteq AllRoles
        <4>1. \A X, Y, Z : Y \subseteq X \cup Y \cup Z
          OBVIOUS
        <4> QED
          BY <4>1 DEF AllRoles
      <3> QED
        BY <3>1, <3>2
    <2>4. "CanGetAnyUser" \in AllRoles
      BY DEF AllRoles
    <2>2. PICK held \in {RequiredRoles, RolesOf("system roles"), {"CanCreateEntitlementAtAnyBank"}} :
             mine \in {held, held \cup {"CanGetAnyUser"}}
      BY <1>3
    <2>5. held \subseteq AllRoles
      BY <1>2, <2>1, <2>2, <2>3
    <2> QED
      BY <2>2, <2>4, <2>5
  <1>5. there \in [Items -> States]
    <2>1. \A i \in Items : (IF booted /\ i \in {"bank", "account"} THEN "as configured" ELSE "absent") \in States
      BY Zenon DEF States
    <2> QED
      BY <1>3, <2>1
  <1>6. routings \subseteq Routings \cup Foreign /\ place \in Nat
    BY <1>3
  <1>7. wanted \subseteq Routings /\ extras = 0 /\ task = "none" /\ result = "error"
    BY DEF Init
  <1>8. SetupInv
    BY <1>0, <1>4, <1>5, <1>6, <1>7 DEF SignInit, SetupInv, SetupTypes, Results
  <1>9. FlagTypes /\ users \in BOOLEAN
    BY DEF Init, SignInit, FlagTypes
  <1> QED
    BY <1>1, <1>8, <1>9

\* A step of the sign-in or of a request's token.
TokenStep ==
    \/ \E l \in Logins :
          \/ BeginLogin(l) \/ PendingAges(l) \/ TokenExpires(l)
          \/ \E t \in Tabs : Callback(t, l)
    \/ \E t \in Tabs :
          \/ Exchange(t) \/ ExchangeFails(t) \/ RefreshFails(t)
          \/ \E next \in {"idle", "me"} : NeedToken(t, next) \/ RefreshOk(t, next)
    \/ Logout

\* A step is about tokens, about the apply, or somebody else's.
LEMMA NextCases ==
    ASSUME Next
    PROVE  TokenStep \/ ApplySteps \/ TestAccount \/ Elsewhere
  <1>1. CASE SigningIn
    BY <1>1 DEF SigningIn, TokenStep
  <1>2. ASSUME NEW t \in Tabs, Refreshing(t) \/ RefreshGivenUp(t) \/ ReadPage(t)
        PROVE  TokenStep
    BY <1>2 DEF Refreshing, RefreshGivenUp, ReadPage, TokenStep
  <1>3. ASSUME NEW i \in Configured, StartApply(i)
        PROVE  TokenStep
    BY <1>3, SetupAssumption DEF StartApply, TokenStep
  <1> QED
    BY <1>1, <1>2, <1>3 DEF Next, App

\* Sign-in and refreshes keep the types of the sign-in ...
LEMMA TokenStepTypes ==
    ASSUME SignInv, TokenStep
    PROVE  SignInv' /\ events <= events'
  <1> USE OidcAssumption DEF SignInv, SignTypes, HoldsLogin, Steps
  <1>1. ASSUME NEW l \in Logins, BeginLogin(l) \/ PendingAges(l)
        PROVE  SignInv' /\ events <= events'
    BY <1>1 DEF BeginLogin, PendingAges
  <1>2. ASSUME NEW l \in Logins, TokenExpires(l)
        PROVE  SignInv' /\ events <= events'
    <2>1. sessions[l] \in [live : BOOLEAN, refresh : Nat]
      BY <1>2 DEF TokenExpires
    <2>2. [sessions[l] EXCEPT !.live = FALSE] \in [live : BOOLEAN, refresh : Nat]
      BY <2>1
    <2>3. sessions' \in [Logins -> [live : BOOLEAN, refresh : Nat] \cup {None}]
      BY <1>2, <2>2 DEF TokenExpires
    <2> QED
      BY <1>2, <2>3 DEF TokenExpires, Event
  <1>3. ASSUME NEW l \in Logins, NEW t \in Tabs, Callback(t, l)
        PROVE  SignInv' /\ events <= events'
    BY <1>3 DEF Callback, TakePending
  <1>4. ASSUME NEW t \in Tabs, Exchange(t)
        PROVE  SignInv' /\ events <= events'
    BY <1>4 DEF Exchange, Present, Idle
  <1>5. ASSUME NEW t \in Tabs, ExchangeFails(t)
        PROVE  SignInv' /\ events <= events'
    BY <1>5 DEF ExchangeFails, Present, Idle, Event
  <1>6. ASSUME NEW t \in Tabs, RefreshFails(t)
        PROVE  SignInv' /\ events <= events'
    BY <1>6 DEF RefreshFails, Idle, Event
  <1>7. ASSUME NEW t \in Tabs, NEW next \in {"idle", "me"}, NeedToken(t, next)
        PROVE  SignInv' /\ events <= events'
    BY <1>7 DEF NeedToken, SignedIn
  <1>8. ASSUME NEW t \in Tabs, NEW next \in {"idle", "me"}, RefreshOk(t, next)
        PROVE  SignInv' /\ events <= events'
    BY <1>8 DEF RefreshOk, Kept
  <1>9. CASE Logout
    BY <1>9 DEF Logout, Event
  <1> QED
    BY <1>1, <1>2, <1>3, <1>4, <1>5, <1>6, <1>7, <1>8, <1>9 DEF TokenStep

\* ... and of its flags.
LEMMA TokenStepFlags ==
    ASSUME FlagTypes, TokenStep
    PROVE  FlagTypes'
  BY ZenonT(30) DEF FlagTypes, TokenStep, BeginLogin, PendingAges, TokenExpires, Callback, Exchange,
     ExchangeFails, Logout, NeedToken, RefreshOk, RefreshFails

\* What a step that is not the sign-in's may do to its state: move the
\* applying request, and count an event.
ApplierMoves ==
    /\ UNCHANGED <<started, pending, old, sessions, cookie, current, presented, ended>>
    /\ \/ UNCHANGED <<pc, holds, carries>>
       \/ Idle(Applier)
       \/ \E step \in {"resolve", "call", "update"} :
             pc' = [pc EXCEPT ![Applier] = step] /\ UNCHANGED <<holds, carries>>
    /\ \/ UNCHANGED events
       \/ events < MaxEvents /\ events' = events + 1

\* To the sign-in, an apply is only a tab that moves.
LEMMA ApplyMoves ==
    ASSUME ApplySteps \/ TestAccount \/ Elsewhere
    PROVE  ApplierMoves /\ UNCHANGED endpoints
  <1> USE DEF ApplierMoves, Event
  <1>1. \A step \in {"resolve", "call", "update"} : Goto(step) =>
           /\ UNCHANGED <<started, pending, old, sessions, cookie, current, presented, ended, holds, carries>>
           /\ pc' = [pc EXCEPT ![Applier] = step]
           /\ UNCHANGED endpoints
    BY DEF Goto
  <1>2. \A told : Finish(told) =>
           /\ UNCHANGED <<started, pending, old, sessions, cookie, current, presented, ended>>
           /\ Idle(Applier) /\ UNCHANGED endpoints
    BY DEF Finish
  <1>3. \A answer : Told(answer) => ApplierMoves /\ UNCHANGED endpoints
    BY <1>2 DEF Told
  <1>4. CASE FetchMe
    BY <1>1, <1>4 DEF FetchMe
  <1>5. CASE ResolveUser
    BY <1>1, <1>2, <1>5 DEF ResolveUser
  <1>6. CASE CallFails
    BY <1>2, <1>6 DEF CallFails
  <1>7. CASE AlreadyThere
    BY <1>1, <1>3, <1>7 DEF AlreadyThere
  <1>8. CASE Create \/ GrantMyself \/ Refuse \/ UpdateAccount
    BY <1>3, <1>8 DEF Create, GrantMyself, Refuse, UpdateAccount
  <1>9. CASE TestAccount
    BY <1>9 DEF TestAccount
  <1>10. CASE Elsewhere
    BY <1>10 DEF Elsewhere
  <1> QED
    BY <1>4, <1>5, <1>6, <1>7, <1>8, <1>9, <1>10 DEF ApplySteps

\* Such a tab keeps the types of the sign-in.
LEMMA ApplySignTypes ==
    ASSUME SignInv, ApplierMoves
    PROVE  SignInv' /\ events <= events'
  <1>0. MaxEvents \in Nat /\ Applier \in Tabs
    BY OidcAssumption, SetupAssumption
  <1>1. events' \in 0..MaxEvents /\ events <= events'
    <2>1. events \in 0..MaxEvents /\ (events' = events \/ (events < MaxEvents /\ events' = events + 1))
      BY DEF SignInv, SignTypes, ApplierMoves
    <2> QED
      BY <1>0, <2>1
  <1> USE <1>0 DEF SignInv, SignTypes, HoldsLogin, ApplierMoves
  <1>2. CASE UNCHANGED <<pc, holds, carries>>
    BY <1>1, <1>2
  <1>3. CASE Idle(Applier)
    BY <1>1, <1>3 DEF Idle, Steps
  <1>4. ASSUME NEW step \in {"resolve", "call", "update"},
               pc' = [pc EXCEPT ![Applier] = step], UNCHANGED <<holds, carries>>
        PROVE  SignInv'
    BY <1>1, <1>4 DEF Steps
  <1> QED
    BY <1>1, <1>2, <1>3, <1>4

\* The page's task stays what it was or ends.
LEMMA ApplySetupTypes ==
    ASSUME SignInv, SetupInv, ApplySteps \/ TestAccount \/ Elsewhere
    PROVE  SetupInv'
  <1>0. ApplierMoves /\ events <= events' /\ events \in Nat /\ events' \in Nat
    <2>1. ApplierMoves
      BY ApplyMoves
    <2> QED
      BY <2>1, OidcAssumption DEF ApplierMoves, SignInv, SignTypes
  <1> DEFINE TaskOK == task' \in {task, "none"} /\ result' \in Results
             Put3 == there' \in [Items -> States] /\ routings' \subseteq Routings \cup Foreign /\ place' \in Nat
  <1>1. \A told \in Results : Finish(told) => TaskOK
    BY DEF Finish
  <1>2. \A answer \in Results : Told(answer) => TaskOK
    BY <1>1 DEF Told, Results
  <1>3. UNCHANGED <<task, result>> => TaskOK
    BY DEF SetupInv, SetupTypes
  <1>4. /\ UNCHANGED instVars => /\ Put3 /\ mine' \subseteq AllRoles
                                 /\ extras' = extras
    BY DEF instVars, SetupInv, SetupTypes
  <1>5. \A i \in Items, s \in States : [there EXCEPT ![i] = s] \in [Items -> States]
    BY DEF SetupInv, SetupTypes
  <1>6. TaskOK /\ wanted' = wanted
    <2>1. CASE FetchMe
      BY <2>1, <1>3 DEF FetchMe, setupVars
    <2>2. CASE ResolveUser \/ CallFails
      BY <2>2, <1>1, <1>3 DEF ResolveUser, CallFails, Results
    <2>3. CASE Create \/ GrantMyself \/ Refuse \/ UpdateAccount
      BY <2>3, <1>2 DEF Create, GrantMyself, Refuse, UpdateAccount, Results
    <2>4. CASE AlreadyThere
      BY <2>4, <1>2, <1>3 DEF AlreadyThere, Results
    <2>5. CASE TestAccount \/ Elsewhere
      BY <2>5, <1>3 DEF TestAccount, Elsewhere
    <2> QED
      BY <2>1, <2>2, <2>3, <2>4, <2>5 DEF ApplySteps
  <1>7. extras' \in Nat /\ extras' <= events'
    <2>1. CASE TestAccount
      <3>1. extras' = extras + 1 /\ events' = events + 1
        BY <2>1 DEF TestAccount, Event
      <3>2. extras \in Nat /\ extras <= events
        BY DEF SetupInv, SetupTypes
      <3> QED
        BY <1>0, <3>1, <3>2
    <2>2. CASE ~TestAccount
      <3>1. extras' = extras
        BY <2>2 DEF ApplySteps, FetchMe, ResolveUser, CallFails, Create, GrantMyself, AlreadyThere,
           Refuse, UpdateAccount, Elsewhere, instVars, setupVars
      <3> QED
        BY <1>0, <3>1 DEF SetupInv, SetupTypes
    <2> QED
      BY <2>1, <2>2
  <1>8. Put3 /\ mine' \subseteq AllRoles
    <2>1. CASE FetchMe \/ ResolveUser \/ CallFails \/ AlreadyThere \/ Refuse
      BY <2>1, <1>4 DEF FetchMe, ResolveUser, CallFails, AlreadyThere, Refuse, setupVars
    <2>2. CASE Create
      <3>1. there' \in [Items -> States]
        BY <2>2, <1>5 DEF Create, States, SetupInv, SetupTypes
      <3>2. routings' \subseteq Routings \cup Foreign /\ mine' \subseteq AllRoles
        BY <2>2 DEF Create, SetupInv, SetupTypes
      <3>3. place' \in Nat
        <4>1. place' = place \/ place' \in 1..(extras + 1)
          BY <2>2 DEF Create
        <4>2. place \in Nat /\ extras \in Nat
          BY DEF SetupInv, SetupTypes
        <4> QED
          BY <4>1, <4>2
      <3> QED
        BY <3>1, <3>2, <3>3
    <2>3. CASE GrantMyself
      <3>1. task \in Configured \cap RoleItems
        BY <2>3 DEF GrantMyself, SetupInv, RoleItems
      <3>2. NextRole \in AllRoles
        <4>1. RolesOf(task) # {} /\ RolesOf(task) \subseteq AllRoles
          BY <3>1, RolesAreThere
        <4> QED
          BY <4>1 DEF NextRole
      <3> QED
        BY <2>3, <3>2 DEF GrantMyself, SetupInv, SetupTypes
    <2>4. CASE UpdateAccount
      BY <2>4 DEF UpdateAccount, SentRoutings, SetupInv, SetupTypes
    <2>5. CASE TestAccount
      <3>1. place' \in {place, place + 1} /\ UNCHANGED <<there, routings, mine>>
        BY <2>5 DEF TestAccount
      <3>2. place \in Nat
        BY DEF SetupInv, SetupTypes
      <3>3. place' \in Nat
        BY <3>1, <3>2
      <3> QED
        BY <3>1, <3>3 DEF SetupInv, SetupTypes
    <2>6. CASE Elsewhere
      <3>1. there' \in [Items -> States]
        <4>1. \A i \in Configured : i \in Items
          BY SetupAssumption
        <4>2. "account" \in Items
          BY DEF Items
        <4> QED
          BY <2>6, <4>1, <4>2, <1>5 DEF Elsewhere, States, SetupInv, SetupTypes
      <3>2. routings' \subseteq Routings \cup Foreign
        BY <2>6 DEF Elsewhere, SetupInv, SetupTypes
      <3>3. place' \in Nat
        <4>1. place' = place \/ place' \in 1..(extras + 1)
          BY <2>6 DEF Elsewhere
        <4>2. place \in Nat /\ extras \in Nat
          BY DEF SetupInv, SetupTypes
        <4> QED
          BY <4>1, <4>2
      <3>4. mine' \subseteq AllRoles
        BY <2>6 DEF Elsewhere, SetupInv, SetupTypes
      <3> QED
        BY <3>1, <3>2, <3>3, <3>4
    <2> QED
      BY <2>1, <2>2, <2>3, <2>4, <2>5, <2>6 DEF ApplySteps
  <1> QED
    BY <1>6, <1>7, <1>8, SetupAssumption DEF SetupInv, SetupTypes

\* Steps about tokens leave the instance alone.
LEMMA TokenSetupTypes ==
    ASSUME SignInv, SetupInv, Next, TokenStep, ~ApplySteps, ~TestAccount, ~Elsewhere
    PROVE  SetupInv'
  <1>1. events <= events' /\ events \in Nat /\ events' \in Nat
    BY TokenStepTypes DEF SignInv, SignTypes
  <1>2. /\ UNCHANGED <<wanted, instVars>>
        /\ task' \in Configured \cup {"none", task} /\ result' \in {"error", result}
    BY DEF Next, App, SigningIn, Refreshing, RefreshGivenUp, ReadPage, StartApply, setupVars
  <1>3. extras' = extras /\ extras \in Nat /\ extras <= events
    BY <1>2 DEF instVars, SetupInv, SetupTypes
  <1>4. extras' <= events'
    BY <1>1, <1>3
  <1> QED
    BY <1>2, <1>3, <1>4, SetupAssumption DEF instVars, SetupInv, SetupTypes, Results

\* Whether the named users exist stays a Boolean.
LEMMA UsersTyped ==
    ASSUME users \in BOOLEAN, Next
    PROVE  users' \in BOOLEAN
  BY DEF Next, App, SigningIn, Refreshing, RefreshGivenUp, ReadPage, StartApply, setupVars, instVars,
     ApplySteps, FetchMe, ResolveUser, CallFails, Create, GrantMyself, AlreadyThere, Refuse,
     UpdateAccount, TestAccount, Elsewhere

\* Everything the types rest on.
Typed == FlagTypes /\ users \in BOOLEAN /\ SignInv /\ SetupInv

\* Every step keeps the types ...
LEMMA TypedStep == Typed /\ [Next]_vars => Typed'
  <1> SUFFICES ASSUME Typed, [Next]_vars PROVE Typed'
    OBVIOUS
  <1>1. CASE UNCHANGED vars
    <2>1. FlagTypes' /\ users' \in BOOLEAN
      BY <1>1 DEF Typed, FlagTypes, vars, signVars, setupVars, instVars
    <2>2. SignInv'
      BY <1>1 DEF Typed, SignInv, SignTypes, HoldsLogin, vars, signVars
    <2>3. SetupInv'
      BY <1>1 DEF Typed, SetupInv, SetupTypes, vars, signVars, setupVars, instVars
    <2> QED
      BY <2>1, <2>2, <2>3 DEF Typed
  <1>2. CASE Next
    <2>1. users' \in BOOLEAN
      BY <1>2, UsersTyped DEF Typed
    <2>2. CASE ApplySteps \/ TestAccount \/ Elsewhere
      <3>1. ApplierMoves /\ UNCHANGED endpoints
        BY <2>2, ApplyMoves
      <3>2. FlagTypes'
        BY <3>1 DEF Typed, FlagTypes
      <3>3. SignInv' /\ SetupInv'
        BY <2>2, <3>1, ApplySignTypes, ApplySetupTypes DEF Typed
      <3> QED
        BY <2>1, <3>2, <3>3 DEF Typed
    <2>3. CASE ~(ApplySteps \/ TestAccount \/ Elsewhere)
      <3>1. TokenStep
        BY <1>2, <2>3, NextCases
      <3>2. FlagTypes'
        BY <3>1, TokenStepFlags DEF Typed
      <3>3. SignInv' /\ SetupInv'
        BY <1>2, <2>3, <3>1, TokenStepTypes, TokenSetupTypes DEF Typed
      <3> QED
        BY <2>1, <3>2, <3>3 DEF Typed
    <2> QED
      BY <2>2, <2>3
  <1> QED
    BY <1>1, <1>2

\* ... so they hold always.
LEMMA TypedAlways == Spec => []Typed
  <1>1. Init => Typed
    BY TypesStart DEF Typed
  <1> QED
    BY <1>1, TypedStep, PTL DEF Spec

\* Sign-in, instance and page keep their types through every request, event
\* and other administrator's change (oidc.rs, setup.rs of the operator app).
THEOREM TypeCorrect == Spec => []TypeOK
  <1>1. Typed => TypeOK
    <2> SUFFICES ASSUME Typed PROVE TypeOK
      OBVIOUS
    <2>1. SignTypeOK
      BY DEF Typed, FlagTypes, SignInv, SignTypes, SignTypeOK
    <2>2. extras \in 0..MaxEvents
      <3>1. extras \in Nat /\ extras <= events /\ events \in 0..MaxEvents
        BY DEF Typed, SetupInv, SetupTypes, SignInv, SignTypes
      <3> QED
        BY <3>1, OidcAssumption
    <2> QED
      BY <2>1, <2>2 DEF Typed, SetupInv, SetupTypes, TypeOK
  <1> QED
    BY <1>1, TypedAlways, PTL

-----------------------------------------------------------------------------
(* Signed in stays signed in.                                              *)

\* A code is presented once: a login is pending, or in the hands of one tab,
\* or presented.
CodesOnce ==
    /\ pending \cap presented = {} /\ presented \subseteq started
    /\ \A t \in Tabs : pc[t] = "exchange" => holds[t] \in started \ (pending \cup presented)
    /\ \A t, u \in Tabs : (pc[t] = "exchange" /\ pc[u] = "exchange" /\ t # u) => holds[t] # holds[u]

\* Sessions have the token that the provider takes, and requests that refresh
\* them have that one or one it has replaced since.
TokensTaken ==
    /\ cookie \in presented \cup {None}
    /\ \A l \in Logins : sessions[l] # None => l \in presented /\ sessions[l].refresh = current[l]
    /\ \A t \in Tabs : pc[t] = "refresh" =>
          holds[t] \in presented /\ 0 < carries[t] /\ carries[t] <= current[holds[t]]

CookieKept == (cookie # None /\ cookie \notin ended) => sessions[cookie] # None

\* A login's code is presented by at most one tab, since pending gives it out once.
LEMMA CodesOnceStep ==
    ASSUME SignInv, CodesOnce, TokenStep
    PROVE  CodesOnce'
  <1> USE DEF SignInv, SignTypes, HoldsLogin, CodesOnce
  <1>1. ASSUME NEW l \in Logins, BeginLogin(l) \/ PendingAges(l) \/ TokenExpires(l)
        PROVE  CodesOnce'
    BY <1>1 DEF BeginLogin, PendingAges, TokenExpires
  <1>2. ASSUME NEW l \in Logins, NEW t \in Tabs, Callback(t, l)
        PROVE  CodesOnce'
    BY <1>2 DEF Callback, TakePending
  <1>3. ASSUME NEW t \in Tabs, Exchange(t) \/ ExchangeFails(t)
        PROVE  CodesOnce'
    BY <1>3 DEF Exchange, ExchangeFails, Present, Idle
  <1>4. ASSUME NEW t \in Tabs, RefreshFails(t)
        PROVE  CodesOnce'
    BY <1>4 DEF RefreshFails, Idle
  <1>5. ASSUME NEW t \in Tabs, NEW next \in {"idle", "me"}, NeedToken(t, next) \/ RefreshOk(t, next)
        PROVE  CodesOnce'
    BY <1>5 DEF NeedToken, RefreshOk
  <1>6. CASE Logout
    BY <1>6 DEF Logout
  <1> QED
    BY <1>1, <1>2, <1>3, <1>4, <1>5, <1>6 DEF TokenStep

\* No refresh token in use is withdrawn, and a session's is never an old one.
LEMMA TokensTakenStep ==
    ASSUME SignInv, CodesOnce, TokensTaken, TokenStep
    PROVE  TokensTaken'
  <1> USE OidcAssumption DEF SignInv, SignTypes, HoldsLogin, CodesOnce, TokensTaken
  <1>1. ASSUME NEW l \in Logins, BeginLogin(l) \/ PendingAges(l)
        PROVE  TokensTaken'
    BY <1>1 DEF BeginLogin, PendingAges
  <1>2. ASSUME NEW l \in Logins, TokenExpires(l)
        PROVE  TokensTaken'
    <2>1. /\ sessions'[l] = [sessions[l] EXCEPT !.live = FALSE]
          /\ sessions[l] \in [live : BOOLEAN, refresh : Nat]
          /\ \A k \in Logins \ {l} : sessions'[k] = sessions[k]
      BY <1>2 DEF TokenExpires
    <2>2. sessions'[l].refresh = sessions[l].refresh
      BY <2>1
    <2> QED
      BY <1>2, <2>1, <2>2 DEF TokenExpires
  <1>3. ASSUME NEW l \in Logins, NEW t \in Tabs, Callback(t, l)
        PROVE  TokensTaken'
    BY <1>3 DEF Callback, TakePending
  <1>4. ASSUME NEW t \in Tabs, Exchange(t)
        PROVE  TokensTaken'
    BY <1>4 DEF Exchange, Present, Idle
  <1>5. ASSUME NEW t \in Tabs, ExchangeFails(t)
        PROVE  TokensTaken'
    BY <1>5 DEF ExchangeFails, Present, Idle
  <1>6. ASSUME NEW t \in Tabs, RefreshFails(t)
        PROVE  TokensTaken'
    BY <1>6 DEF RefreshFails, Idle
  <1>7. ASSUME NEW t \in Tabs, NEW next \in {"idle", "me"}, NeedToken(t, next)
        PROVE  TokensTaken'
    BY <1>7 DEF NeedToken, SignedIn
  <1>8. ASSUME NEW t \in Tabs, NEW next \in {"idle", "me"}, RefreshOk(t, next)
        PROVE  TokensTaken'
    BY <1>8 DEF RefreshOk, Kept
  <1>9. CASE Logout
    BY <1>9 DEF Logout
  <1> QED
    BY <1>1, <1>2, <1>3, <1>4, <1>5, <1>6, <1>7, <1>8, <1>9 DEF TokenStep

\* A signed-in browser keeps a session to go with its cookie.
LEMMA CookieKeptStep ==
    ASSUME SignInv, FlagTypes, TokensTaken, CookieKept, TokenStep
    PROVE  CookieKept'
  <1> USE OidcAssumption DEF SignInv, SignTypes, HoldsLogin, FlagTypes, CookieKept
  <1>1. ASSUME NEW l \in Logins, BeginLogin(l) \/ PendingAges(l)
        PROVE  CookieKept'
    BY <1>1 DEF BeginLogin, PendingAges
  <1>2. ASSUME NEW l \in Logins, TokenExpires(l)
        PROVE  CookieKept'
    <2>1. sessions[l] \in [live : BOOLEAN, refresh : Nat]
      BY <1>2 DEF TokenExpires
    <2>2. [sessions[l] EXCEPT !.live = FALSE] \in [live : BOOLEAN, refresh : Nat]
      BY <2>1
    <2>3. \A k \in Logins : sessions[k] # None => sessions'[k] # None
      BY <1>2, <2>2 DEF TokenExpires
    <2>4. UNCHANGED <<cookie, ended>> /\ cookie \in Logins \cup {None}
      BY <1>2 DEF TokenExpires
    <2> QED
      BY <2>3, <2>4
  <1>3. ASSUME NEW l \in Logins, NEW t \in Tabs, Callback(t, l)
        PROVE  CookieKept'
    BY <1>3 DEF Callback
  <1>4. ASSUME NEW t \in Tabs, Exchange(t)
        PROVE  CookieKept'
    <2>1. \A given \in {0, 1} : [live |-> TRUE, refresh |-> given] \in [live : BOOLEAN, refresh : Nat]
      OBVIOUS
    <2>2. cookie' = holds[t] /\ \E given \in {0, 1} : sessions'[holds[t]] = [live |-> TRUE, refresh |-> given]
      BY <1>4 DEF Exchange
    <2> QED
      BY <2>1, <2>2
  <1>5. ASSUME NEW t \in Tabs, ExchangeFails(t)
        PROVE  CookieKept'
    BY <1>5 DEF ExchangeFails
  <1>6. ASSUME NEW t \in Tabs, RefreshFails(t)
        PROVE  CookieKept'
    <2>1. current[holds[t]] > 0 /\ holds[t] \in Logins
      BY <1>6 DEF RefreshFails, TokensTaken
    <2>2. holds[t] \in ended' /\ ended \subseteq ended'
      BY <1>6, <2>1 DEF RefreshFails
    <2>3. \A k \in Logins : k # holds[t] => sessions'[k] = sessions[k]
      BY <1>6 DEF RefreshFails
    <2>4. UNCHANGED cookie
      BY <1>6 DEF RefreshFails
    <2> QED
      BY <2>2, <2>3, <2>4
  <1>7. ASSUME NEW t \in Tabs, NEW next \in {"idle", "me"}, NeedToken(t, next)
        PROVE  CookieKept'
    BY <1>7 DEF NeedToken
  <1>8. ASSUME NEW t \in Tabs, NEW next \in {"idle", "me"}, RefreshOk(t, next)
        PROVE  CookieKept'
    <2>0. \A given \in {0, carries[t], carries[t] + 1} : given \in Nat
      OBVIOUS
    <2>1. PICK given \in Nat :
             sessions' = [sessions EXCEPT ![holds[t]] = [live |-> TRUE, refresh |-> Kept(given, carries[t])]]
      <3> HIDE DEF SignInv, SignTypes, CookieKept, FlagTypes, HoldsLogin
      <3> QED
        BY <1>8, <2>0, Zenon DEF RefreshOk
    <2>2. [live |-> TRUE, refresh |-> Kept(given, carries[t])] \in [live : BOOLEAN, refresh : Nat]
      BY DEF Kept
    <2>3. \A k \in Logins : sessions[k] # None => sessions'[k] # None
      BY <2>1, <2>2
    <2>4. UNCHANGED <<cookie, ended>> /\ cookie \in Logins \cup {None}
      BY <1>8 DEF RefreshOk
    <2> QED
      BY <2>3, <2>4
  <1>9. CASE Logout
    BY <1>9 DEF Logout
  <1> QED
    BY <1>1, <1>2, <1>3, <1>4, <1>5, <1>6, <1>7, <1>8, <1>9 DEF TokenStep

\* Every step keeps all three.
LEMMA SessionsStep ==
    ASSUME Typed, CodesOnce, TokensTaken, CookieKept, [Next]_vars
    PROVE  CodesOnce' /\ TokensTaken' /\ CookieKept'
  <1>1. CASE TokenStep
    BY <1>1, CodesOnceStep, TokensTakenStep, CookieKeptStep DEF Typed
  <1>2. CASE ApplySteps \/ TestAccount \/ Elsewhere
    <2>1. ApplierMoves
      BY <1>2, ApplyMoves
    <2>2. \A t \in Tabs : pc'[t] \in {"exchange", "refresh"} =>
             pc'[t] = pc[t] /\ holds'[t] = holds[t] /\ carries'[t] = carries[t]
      BY <2>1, SetupAssumption DEF ApplierMoves, Idle, Typed, SignInv, SignTypes
    <2>3. UNCHANGED <<started, pending, sessions, cookie, current, presented, ended>>
      BY <2>1 DEF ApplierMoves
    <2>4. CodesOnce' /\ TokensTaken'
      BY <2>2, <2>3 DEF CodesOnce, TokensTaken
    <2> QED
      BY <2>1, <2>3, <2>4 DEF CookieKept
  <1>3. CASE UNCHANGED vars
    <2>1. CodesOnce' /\ TokensTaken'
      BY <1>3 DEF vars, signVars, CodesOnce, TokensTaken
    <2> QED
      BY <1>3, <2>1 DEF vars, signVars, CookieKept
  <1> QED
    BY <1>1, <1>2, <1>3, NextCases

\* Who is signed in stays signed in, for any number of logins and tabs and
\* whether or not the provider rotates refresh tokens (Oidc::access_token and
\* complete_login in oidc.rs): the session is there with the refresh token the
\* provider takes, if it gave one, until a logout, a failure of the provider or
\* a refresh with a token that another request has had replaced.
THEOREM StaysSignedIn == Spec => []SignedInStaysIn
  <1> DEFINE Inv == Typed /\ CodesOnce /\ TokensTaken /\ CookieKept
  <1>1. Init => Inv
    <2> SUFFICES ASSUME Init PROVE Inv
      OBVIOUS
    <2>1. Typed
      BY TypesStart DEF Typed
    <2>2. CodesOnce /\ TokensTaken
      BY OidcAssumption DEF Init, SignInit, CodesOnce, TokensTaken
    <2>3. CookieKept
      BY DEF Init, SignInit, CookieKept
    <2> QED
      BY <2>1, <2>2, <2>3
  <1>2. Inv /\ [Next]_vars => Inv'
    BY TypedStep, SessionsStep
  <1>3. Inv => SignedInStaysIn
    <2> SUFFICES ASSUME Inv, cookie # None, cookie \notin ended
                 PROVE  sessions[cookie] # None /\ sessions[cookie].refresh = current[cookie]
      BY DEF SignedInStaysIn
    <2>1. cookie \in Logins /\ sessions[cookie] # None
      BY DEF Typed, SignInv, SignTypes, CookieKept
    <2> QED
      BY <2>1 DEF TokensTaken
  <1> QED
    BY <1>1, <1>2, <1>3, PTL DEF Spec

-----------------------------------------------------------------------------
(* What an apply leaves behind.                                            *)

\* The checks, item by item.
LEMMA CheckOf ==
    /\ \A i \in RoleItems : Check(i) = RoleCheck(i)
    /\ Check("scheme") = SchemeCheck /\ Check("bank") = BankCheck /\ Check("account") = AccountCheck
    /\ Check("fx") = FxCheck /\ Check("broker") = BrokerCheck /\ Check("grant") = GrantCheck
  BY DEF Check, RoleItems

\* The kinds of item.
LEMMA ItemsAre == Items = {"system roles", "bank roles", "scheme", "bank", "account", "fx", "broker", "grant"}
  BY DEF Items

\* What the app does to the instance: it adds, and it puts in place what is
\* configured.
Adds ==
    /\ UNCHANGED users
    /\ \A i \in Items : there'[i] \in {there[i], "as configured"}

\* The app takes no item of an instance away.
LEMMA AppAdds ==
    ASSUME Typed, App
    PROVE  Adds
  <1> USE DEF Adds
  <1>1. CASE UNCHANGED <<wanted, instVars>>
    BY <1>1 DEF instVars
  <1>2. CASE Create
    BY <1>2 DEF Create, Typed, SetupInv, SetupTypes
  <1>3. CASE GrantMyself
    BY <1>3 DEF GrantMyself
  <1>4. CASE UpdateAccount
    BY <1>4 DEF UpdateAccount, SentRoutings
  <1>5. CASE TestAccount
    BY <1>5 DEF TestAccount
  <1>6. CASE FetchMe \/ ResolveUser \/ CallFails \/ AlreadyThere \/ Refuse
    BY <1>1, <1>6 DEF FetchMe, ResolveUser, CallFails, AlreadyThere, Refuse, setupVars
  <1>7. CASE \/ SigningIn \/ \E t \in Tabs : Refreshing(t) \/ RefreshGivenUp(t) \/ ReadPage(t)
             \/ \E i \in Configured : StartApply(i)
    BY <1>1, <1>7 DEF SigningIn, Refreshing, RefreshGivenUp, ReadPage, StartApply, setupVars
  <1> QED
    BY <1>2, <1>3, <1>4, <1>5, <1>6, <1>7 DEF App, ApplySteps

\* An apply has no good answer until it ends, calls on behalf of a user whom
\* it found, and updates an account that it was told is there.
ApplyInv ==
    /\ task # "none" => result = "error"
    /\ (pc[Applier] = "call" /\ ByUser(task)) => users
    /\ pc[Applier] = "update" => task = "account" /\ Exists("bank") /\ Exists("account")

\* How a step moves the applying request and what the page was told.
PageMove ==
    \/ pc'[Applier] = pc[Applier] /\ UNCHANGED <<task, result>>
    \/ /\ pc'[Applier] \notin {"call", "update"}
       /\ UNCHANGED <<task, result>> \/ result' = "error" \/ task' = "none"
    \/ /\ pc'[Applier] = "call" /\ UNCHANGED <<task, result>>
       /\ ByUser(task) => users
    \/ /\ pc'[Applier] = "update" /\ UNCHANGED <<task, result>>
       /\ task = "account" /\ Exists("bank") /\ Exists("account")

\* How a step of an apply moves the page's request ...
LEMMA ApplyPageMoves ==
    ASSUME Typed, ApplySteps \/ TestAccount \/ Elsewhere
    PROVE  PageMove
  <1> USE DEF PageMove
  <1>0. Applier \in DOMAIN pc
    BY SetupAssumption DEF Typed, SignInv, SignTypes
  <1>1. \A step : Goto(step) => pc'[Applier] = step
    BY <1>0 DEF Goto
  <1>2. \A told : Finish(told) => pc'[Applier] = "idle" /\ task' = "none"
    BY <1>0 DEF Finish, Idle
  <1>3. \A answer : Told(answer) => PageMove
    BY <1>2 DEF Told
  <1>4. CASE FetchMe
    BY <1>1, <1>4 DEF FetchMe, setupVars
  <1>5. CASE ResolveUser \/ CallFails
    BY <1>1, <1>2, <1>5 DEF ResolveUser, CallFails, UserFound
  <1>6. CASE AlreadyThere
    BY <1>1, <1>3, <1>6 DEF AlreadyThere, Allowed, NeedsBank
  <1>7. CASE Create \/ GrantMyself \/ Refuse \/ UpdateAccount
    BY <1>3, <1>7 DEF Create, GrantMyself, Refuse, UpdateAccount
  <1>8. CASE TestAccount \/ Elsewhere
    BY <1>8 DEF TestAccount, Elsewhere
  <1> QED
    BY <1>4, <1>5, <1>6, <1>7, <1>8 DEF ApplySteps

\* ... and how the others do.
LEMMA TokenPageMoves ==
    ASSUME Typed, \/ SigningIn \/ \E t \in Tabs : Refreshing(t) \/ RefreshGivenUp(t) \/ ReadPage(t)
                  \/ \E i \in Configured : StartApply(i)
    PROVE  PageMove
  <1> USE SetupAssumption DEF PageMove, Typed, SignInv, SignTypes, setupVars
  <1>1. CASE SigningIn
    <2>1. \/ pc'[Applier] = pc[Applier]
          \/ pc'[Applier] \notin {"call", "update"}
      BY <1>1, ZenonT(30) DEF SigningIn, BeginLogin, PendingAges, TokenExpires, Callback, Exchange, ExchangeFails,
         Idle, Logout
    <2> QED
      BY <1>1, <2>1 DEF SigningIn
  <1>2. ASSUME NEW t \in Tabs, Refreshing(t)
        PROVE  PageMove
    <2>1. pc'[Applier] = pc[Applier] \/ pc'[Applier] \notin {"call", "update"}
      BY <1>2 DEF Refreshing, RefreshOk
    <2> QED
      BY <1>2, <2>1 DEF Refreshing
  <1>3. ASSUME NEW t \in Tabs, RefreshGivenUp(t)
        PROVE  PageMove
    <2>1. IF t = Applier THEN pc'[Applier] = "idle" ELSE pc'[Applier] = pc[Applier]
      BY <1>3 DEF RefreshGivenUp, RefreshFails, Idle
    <2> QED
      BY <1>3, <2>1 DEF RefreshGivenUp
  <1>4. ASSUME NEW t \in Tabs, ReadPage(t)
        PROVE  PageMove
    <2>1. pc'[Applier] = pc[Applier]
      BY <1>4 DEF ReadPage, NeedToken
    <2> QED
      BY <1>4, <2>1 DEF ReadPage
  <1>5. ASSUME NEW i \in Configured, StartApply(i)
        PROVE  PageMove
    <2>1. pc'[Applier] \in {"me", "refresh"}
      BY <1>5 DEF StartApply, NeedToken
    <2> QED
      BY <1>5, <2>1 DEF StartApply
  <1> QED
    BY <1>1, <1>2, <1>3, <1>4, <1>5

\* Nothing ceases to exist, through whomever.
LEMMA NothingGoes ==
    ASSUME Typed, [Next]_vars
    PROVE  (users => users') /\ \A i \in Items : Exists(i) => Exists(i)'
  <1>1. CASE App
    <2>1. Adds
      BY <1>1, AppAdds
    <2>2. users' = users
      BY <2>1 DEF Adds
    <2>3. \A i \in Items : Exists(i) => Exists(i)'
      BY <2>1 DEF Adds, Exists
    <2> QED
      BY <2>2, <2>3
  <1>2. CASE Elsewhere
    <2>1. \A i \in Items : Exists(i) => Exists(i)'
      BY <1>2, SetupAssumption, ItemsAre DEF Elsewhere, Exists, Typed, SetupInv, SetupTypes
    <2>2. users => users'
      BY <1>2 DEF Elsewhere
    <2> QED
      BY <2>1, <2>2
  <1>3. CASE UNCHANGED vars
    BY <1>3 DEF vars, setupVars, instVars, Exists
  <1> QED
    BY <1>1, <1>2, <1>3 DEF Next

\* A request that has reached its call or update still meets the conditions for it.
LEMMA ApplyInvStep ==
    ASSUME Typed, ApplyInv, [Next]_vars
    PROVE  ApplyInv'
  <1>1. PageMove
    <2>1. CASE UNCHANGED vars
      BY <2>1 DEF vars, signVars, setupVars, PageMove
    <2> QED
      BY <2>1, ApplyPageMoves, TokenPageMoves DEF Next, App
  <1>2. (users => users') /\ (Exists("bank") => Exists("bank")') /\ (Exists("account") => Exists("account")')
    BY NothingGoes, ItemsAre
  <1> QED
    BY <1>1, <1>2 DEF PageMove, ApplyInv, ByUser

\* That holds always.
LEMMA ApplyInvAlways == Spec => [](Typed /\ ApplyInv)
  <1>1. Init => Typed /\ ApplyInv
    <2> SUFFICES ASSUME Init PROVE ApplyInv
      BY TypesStart DEF Typed
    <2> QED
      BY SetupAssumption DEF Init, SignInit, ApplyInv
  <1>2. Typed /\ ApplyInv /\ [Next]_vars => (Typed /\ ApplyInv)'
    BY TypedStep, ApplyInvStep
  <1> QED
    BY <1>1, <1>2, PTL DEF Spec

\* Which steps end an apply that is under way with a good answer.
LEMMA DoneBy ==
    ASSUME Typed, ApplyInv, [Next]_vars, task \in Configured \ RoleItems, result' = "done"
    PROVE  Create \/ (AlreadyThere /\ Told("done")) \/ UpdateAccount
  <1>1. task # "none" /\ result = "error"
    BY SetupAssumption, ItemsAre DEF ApplyInv
  <1>2. result' # result /\ result' # "error"
    BY <1>1
  <1>3. ~UNCHANGED vars
    BY <1>2 DEF vars, setupVars
  <1>4. ~\/ SigningIn \/ \E t \in Tabs : Refreshing(t) \/ RefreshGivenUp(t) \/ ReadPage(t)
         \/ \E i \in Configured : StartApply(i)
    BY <1>2 DEF SigningIn, Refreshing, RefreshGivenUp, ReadPage, StartApply, setupVars
  <1>5. ~FetchMe /\ ~TestAccount /\ ~Elsewhere
    BY <1>2 DEF FetchMe, TestAccount, Elsewhere, setupVars
  <1>6. \A told : Finish(told) => result' = told
    BY DEF Finish
  <1>7. ~ResolveUser /\ ~CallFails
    BY <1>2, <1>6 DEF ResolveUser, CallFails
  <1>8. ~Refuse
    <2>1. ~Told("refused")
      BY <1>2, <1>6 DEF Told
    <2> QED
      BY <2>1 DEF Refuse
  <1>9. ~GrantMyself
    BY DEF GrantMyself
  <1>10. AlreadyThere => Told("done")
    BY <1>2 DEF AlreadyThere
  <1>11. Next
    BY <1>3
  <1>12. App
    BY <1>5, <1>11 DEF Next
  <1>13. ApplySteps
    BY <1>4, <1>5, <1>12 DEF App
  <1> QED
    BY <1>5, <1>7, <1>8, <1>9, <1>10, <1>13 DEF ApplySteps

\* Of an account that is there with the configured routings.
LEMMA AccountDone ==
    ASSUME Exists("bank"), Exists("account"), wanted \subseteq routings
    PROVE  AccountCheck \in {"ok", "unverified"} \/ Unlisted
  BY DEF AccountCheck, Unlisted

\* An apply that OBP-API accepts, or answers with "already exists", leaves its
\* item ok but for the exceptions that DoneIsOk names, for every configuration
\* and through every order of other administrators' changes (apply in setup.rs).
THEOREM AppliedIsOk == Spec => DoneIsOk
  <1> DEFINE LeftOk(i) == \/ Check(i)' \in {"ok", "unverified"}
                          \/ i = "scheme" /\ there[i] = "otherwise"
                          \/ i = "account" /\ Unlisted'
                          \/ i = "grant" /\ "CanGetAnyUser" \notin mine'
  <1>1. ASSUME Typed, ApplyInv, [Next]_vars, NEW i \in Configured \ RoleItems, task = i, result' = "done"
        PROVE  LeftOk(i)
    <2>1. Create \/ (AlreadyThere /\ Told("done")) \/ UpdateAccount
      BY <1>1, DoneBy
    <2>2. i \in {"scheme", "bank", "account", "fx", "broker", "grant"}
      BY <1>1, SetupAssumption, ItemsAre DEF RoleItems
    <2>3. CASE UpdateAccount
      <3>1. i = "account" /\ Exists("bank") /\ Exists("account")
        BY <1>1, <2>3 DEF UpdateAccount, At, ApplyInv
      <3>2. Exists("bank")' /\ Exists("account")' /\ (wanted \subseteq routings)'
        BY <2>3, <3>1 DEF UpdateAccount, SentRoutings, Exists
      <3>3. (AccountCheck \in {"ok", "unverified"} \/ Unlisted)'
        BY <3>2, AccountDone, PTL
      <3> QED
        BY <3>1, <3>3 DEF Check, RoleItems
    <2>4. CASE Create \/ (AlreadyThere /\ Told("done"))
      <3>1. At("call") /\ Allowed(i) /\ (ByUser(i) => users)
        BY <1>1, <2>4 DEF Create, AlreadyThere, At, ApplyInv
      <3>2. Exists(i)' /\ (there'[i] = "otherwise" => ~Put(i) /\ there[i] = "otherwise")
        <4>1. i \in Items
          BY SetupAssumption
        <4> QED
          BY <1>1, <2>4, <4>1 DEF Create, AlreadyThere, Exists, instVars, Typed, SetupInv, SetupTypes
      <3>3. CASE i = "account"
        <4>1. Exists("bank")'
          <5>1. Exists("bank")
            BY <3>1, <3>3 DEF Allowed, NeedsBank
          <5> QED
            BY <1>1, <5>1, NothingGoes, ItemsAre
        <4>2. (wanted \subseteq routings)'
          BY <1>1, <2>4, <3>3 DEF Create, AlreadyThere, instVars, Told, Finish, Goto
        <4>3. (AccountCheck \in {"ok", "unverified"} \/ Unlisted)'
          <5>1. Exists("account")'
            BY <3>2, <3>3
          <5> QED
            BY <4>1, <4>2, <5>1, AccountDone, PTL
        <4> QED
          BY <3>3, <4>3 DEF Check, RoleItems
      <3>4. CASE i = "grant"
        <4>1. users'
          BY <1>1, <3>1, <3>4, NothingGoes DEF ByUser
        <4>2. GrantCheck' = "ok" \/ "CanGetAnyUser" \notin mine'
          BY <3>2, <3>4, <4>1 DEF GrantCheck, UserFound, Presence
        <4> QED
          BY <3>4, <4>2 DEF Check, RoleItems
      <3>5. CASE i = "scheme"
        BY <3>2, <3>5 DEF Check, SchemeCheck, Presence, RoleItems
      <3>6. CASE i = "broker"
        BY <3>2, <3>6 DEF Check, BrokerCheck, Presence, Put, RoleItems
      <3>7. CASE i \in {"bank", "fx"}
        BY <3>2, <3>7 DEF Check, BankCheck, FxCheck, Presence, RoleItems
      <3> QED
        BY <2>2, <3>3, <3>4, <3>5, <3>6, <3>7
    <2> QED
      BY <2>1, <2>3, <2>4
  <1>2. Typed /\ ApplyInv /\ [Next]_vars =>
           [\A i \in Configured \ RoleItems : (task = i /\ result' = "done") => LeftOk(i)]_vars
    BY <1>1
  <1> QED
    BY <1>2, ApplyInvAlways, PTL DEF Spec, DoneIsOk

=============================================================================
