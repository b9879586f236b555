--------------------------- MODULE ObpClientProofs ---------------------------
(***************************************************************************)
(* What the token cache and the copy of the routing schemes promise, for   *)
(* any set of callers, any lifetimes a token endpoint may grant, any       *)
(* registry, any page size and any faults.                                 *)
(***************************************************************************)
EXTENDS RoutingRegistry, SequenceTheorems, TLAPS

\* A token that is being fetched has lost no more of its life than the
\* request has been under way; a cached one is replaced before it expires.
TokenInv ==
    /\ \A c \in Callers : phase[c] = "fetch" => issued.left + waited[c] >= issued.life
    /\ cache.refresh <= cache.left

ClientInv == ClientTypeOK /\ OneFetch /\ TokenInv

\* What the pages still to be read hold.
Unread == {registry[i] : i \in {k \in DOMAIN registry : k > Len(rows)}}

\* What is read is what was there, and nothing that stays there is passed
\* over unless a row was taken out of the pages already read.
ReadingInv ==
    Refreshing =>
        /\ RangeOf(rows) \cup RangeOf(registry) \subseteq watch.atSomePoint
        /\ watch.shifted \/ watch.throughout \subseteq RangeOf(rows) \cup Unread

\* The same of the copy and the reading it comes from.
CopyInv ==
    loaded # None =>
        /\ loaded \subseteq basis.atSomePoint
        /\ basis.shifted \/ basis.throughout \subseteq loaded

RegistryInv == RegistryTypeOK /\ ReadingInv /\ CopyInv

IInv == ClientInv /\ RegistryInv

-----------------------------------------------------------------------------
(* The client.                                                             *)

\* The client's invariant holds as it starts.
LEMMA ClientStarts == ClientInit => ClientInv
  BY ClientAssumption DEF ClientInit, ClientInv, ClientTypeOK, OneFetch, TokenInv,
     NoCache, NoIssue, NoToken, Token, Phases, Verdicts

\* Queueing for the token, reading the cache and fetching keep the client's invariant.
LEMMA AuthorizeKeeps ==
    ASSUME ClientInv, NEW c \in Callers, Call(c) \/ Authorize(c)
    PROVE  ClientInv'
  <1> USE ClientAssumption
      DEF ClientInv, ClientTypeOK, OneFetch, TokenInv, Token, Phases, Verdicts, tokenVars, callVars,
          ClientFault, Queue, SendWith, Cache, NoIssue
  <1>1. CASE Call(c)
    <2>1. queue' \in Seq(Callers)
      BY <1>1 DEF Call
    <2>2. ClientTypeOK'
      BY <1>1, <2>1 DEF Call
    <2>3. OneFetch' /\ TokenInv'
      BY <1>1 DEF Call
    <2> QED
      BY <2>2, <2>3
  <1>2. CASE LockToken(c)
    <2>1. queue' \in Seq(Callers)
      BY <1>2 DEF LockToken
    <2>2. ClientTypeOK'
      BY <1>2, <2>1 DEF LockToken
    <2>3. OneFetch' /\ TokenInv'
      BY <1>2 DEF LockToken
    <2> QED
      BY <2>2, <2>3
  <1>3. CASE UseCached(c)
    BY <1>3 DEF UseCached
  <1>4. CASE AskToken(c)
    BY <1>4 DEF AskToken
  <1>5. CASE IssueToken(c)
    BY <1>5 DEF IssueToken
  <1>6. CASE StoreToken(c)
    BY <1>6, SMTT(30) DEF StoreToken, RefreshIn
  <1>7. CASE TokenFails(c)
    BY <1>7 DEF TokenFails
  <1>8. CASE TokenPanics(c)
    BY <1>8 DEF TokenPanics, Panic, NoToken
  <1> QED
    BY <1>1, <1>2, <1>3, <1>4, <1>5, <1>6, <1>7, <1>8 DEF Authorize

\* So do the answers to a call ...
LEMMA AnswerKeeps ==
    ASSUME ClientInv, NEW c \in Callers, Answer(c)
    PROVE  ClientInv'
  <1>0. ASSUME NEW v \in Verdicts, EndCall(c, v), phase[c] = "send",
               UNCHANGED tokenVars, clientFaults' \in 0..MaxClientFaults
        PROVE  ClientInv'
    <2> USE <1>0, ClientAssumption DEF ClientInv, tokenVars, EndCall
    <2>1. ClientTypeOK'
      BY DEF ClientTypeOK, Token, NoToken, Phases
    <2>2. OneFetch' /\ TokenInv'
      BY DEF ClientTypeOK, OneFetch, TokenInv
    <2> QED
      BY <2>1, <2>2
  <1>1. clientFaults \in 0..MaxClientFaults /\ MaxClientFaults \in Nat
    BY ClientAssumption DEF ClientInv, ClientTypeOK
  <1>2. CASE AnswerOk(c)
    BY <1>0, <1>1, <1>2 DEF AnswerOk, Verdicts
  <1>3. CASE AnswerFailure(c)
    <2>1. \A a : Classify(c, a) \in Verdicts
      BY DEF Classify, ClassifyFailure, ClassifyInteractiveFailure, Verdicts
    <2>2. PICK a : EndCall(c, Classify(c, a))
      BY <1>3 DEF AnswerFailure
    <2>3. UNCHANGED tokenVars /\ phase[c] = "send"
      BY <1>3 DEF AnswerFailure
    <2>4. clientFaults' \in 0..MaxClientFaults
      <3>1. clientFaults' = clientFaults \/ (clientFaults < MaxClientFaults /\ clientFaults' = clientFaults + 1)
        BY <1>3 DEF AnswerFailure, ClientFault
      <3> QED
        BY <1>1, <3>1
    <2> QED
      BY <1>0, <2>1, <2>2, <2>3, <2>4
  <1>4. CASE NoAnswer(c)
    BY <1>0, <1>1, <1>4 DEF NoAnswer, Verdicts, ClientFault
  <1>5. CASE AnswerPanics(c)
    <2>1. Panic(c) /\ phase[c] = "send" /\ UNCHANGED tokenVars
      BY <1>5 DEF AnswerPanics
    <2> USE <2>1, ClientAssumption DEF ClientInv, tokenVars, Panic
    <2>2. clientFaults' \in 0..MaxClientFaults
      BY <1>1 DEF ClientFault
    <2>3. ClientTypeOK'
      BY <2>2 DEF ClientTypeOK, Token, NoToken, Phases
    <2>4. OneFetch' /\ TokenInv'
      BY DEF ClientTypeOK, OneFetch, TokenInv
    <2> QED
      BY <2>3, <2>4
  <1> QED
    BY <1>2, <1>3, <1>4, <1>5 DEF Answer

\* ... and the passing of time, in which tokens lose lifetime no faster than it is waited.
LEMMA TickKeeps == ASSUME ClientInv, Tick \/ Revoke PROVE ClientInv'
  <1> USE ClientAssumption
      DEF ClientInv, ClientTypeOK, OneFetch, TokenInv, Token, Phases, Verdicts, ClientFault
  <1>1. CASE Tick
    <2>10. waited' \in [Callers -> 0..HttpTimeout]
      <3> SUFFICES ASSUME NEW c \in Callers
                   PROVE  (IF UnderWay(c) THEN waited[c] + 1 ELSE waited[c]) \in 0..HttpTimeout
        BY <1>1 DEF Tick
      <3> QED
        BY <1>1 DEF Tick
    <2>11. ClientTypeOK'
      BY <1>1, <2>10, SMTT(30) DEF Tick, GrowOlder, Less
    <2>12. OneFetch'
      BY <1>1 DEF Tick, GrowOlder, Less, UnderWay
    <2>13. TokenInv'
      BY <1>1 DEF Tick, GrowOlder, Less, UnderWay
    <2> QED
      BY <2>11, <2>12, <2>13
  <1>2. CASE Revoke
    BY <1>2 DEF Revoke
  <1> QED
    BY <1>1, <1>2



\* Whatever happens to registry and copy, the client's part is one of the
\* steps above, the call for the next page, or nothing.
LEMMA ClientKeeps == ASSUME ClientInv, [Next]_vars PROVE ClientInv'
  <1>1. Refresher \in Callers
    BY RegistryAssumption DEF Callers
  <1>2. ASSUME NEW c \in Callers, Call(c) \/ Authorize(c) \/ Answer(c)
        PROVE  ClientInv'
    BY <1>2, AuthorizeKeeps, AnswerKeeps
  <1>3. CASE StartRefresh \/ RefreshDone \/ RefreshFails \/ RefreshAuthorizes
    BY <1>1, <1>2, <1>3 DEF StartRefresh, RefreshDone, RefreshFails, RefreshAuthorizes, Authorize, Answer
  <1>4. CASE MorePages
    BY <1>1, <1>4, ClientAssumption, SMTT(30)
    DEF MorePages, Queue, ClientInv, ClientTypeOK, OneFetch, TokenInv, Token, Phases, Verdicts, NoToken
  <1>5. CASE \E c \in Callers \ {Refresher} : OtherCall(c)
    BY <1>2, <1>5 DEF OtherCall
  <1>6. CASE Activate \/ Withdraw \/ UNCHANGED vars
    <2>1. UNCHANGED clientVars
      BY <1>6 DEF Activate, Withdraw, vars
    <2> QED
      BY <2>1 DEF clientVars, tokenVars, callVars, ClientInv, ClientTypeOK, OneFetch, TokenInv
  <1>7. CASE TimePasses \/ Withdrawal
    BY <1>7, TickKeeps DEF TimePasses, Withdrawal
  <1> QED
    BY <1>3, <1>4, <1>5, <1>6, <1>7 DEF Next

-----------------------------------------------------------------------------
(* The reading of the registry.                                            *)

\* What a page adds to the rows read.
LEMMA RangeOfConcat ==
    ASSUME NEW S, NEW s \in Seq(S), NEW t \in Seq(S)
    PROVE  RangeOf(s \o t) = RangeOf(s) \cup RangeOf(t)
  <1>1. Len(s) \in Nat /\ DOMAIN s = 1..Len(s) /\ Len(t) \in Nat /\ DOMAIN t = 1..Len(t)
    OBVIOUS
  <1>2. /\ DOMAIN (s \o t) = 1..(Len(s) + Len(t))
        /\ \A i \in 1..(Len(s) + Len(t)) : (s \o t)[i] = IF i <= Len(s) THEN s[i] ELSE t[i - Len(s)]
    BY ConcatProperties
  <1>3. ASSUME NEW i \in 1..(Len(s) + Len(t))
        PROVE  (s \o t)[i] \in RangeOf(s) \cup RangeOf(t)
    <2>1. CASE i <= Len(s)
      BY <1>1, <1>2, <2>1 DEF RangeOf
    <2>2. CASE i > Len(s)
      <3>1. i - Len(s) \in DOMAIN t /\ (s \o t)[i] = t[i - Len(s)]
        BY <1>1, <1>2, <2>2
      <3> QED
        BY <3>1 DEF RangeOf
    <2> QED
      BY <1>1, <2>1, <2>2
  <1>4. ASSUME NEW i \in 1..Len(s)
        PROVE  s[i] \in RangeOf(s \o t)
    <2>1. i \in DOMAIN (s \o t) /\ (s \o t)[i] = s[i]
      BY <1>1, <1>2
    <2> QED
      BY <2>1 DEF RangeOf
  <1>5. ASSUME NEW i \in 1..Len(t)
        PROVE  t[i] \in RangeOf(s \o t)
    <2>1. Len(s) + i \in DOMAIN (s \o t) /\ (s \o t)[Len(s) + i] = t[i]
      BY <1>1, <1>2
    <2> QED
      BY <2>1 DEF RangeOf
  <1> QED
    BY <1>1, <1>2, <1>3, <1>4, <1>5 DEF RangeOf

\* What a page holds, and what is left behind it.
LEMMA PageFacts ==
    ASSUME RegistryTypeOK
    PROVE  /\ Page \in Seq(Schemes) /\ rows \o Page \in Seq(Schemes)
           /\ RangeOf(Page) \subseteq RangeOf(registry)
           /\ RangeOf(rows \o Page) = RangeOf(rows) \cup RangeOf(Page)
           /\ LastPage(Page) => Unread \subseteq RangeOf(Page)
           /\ \A i \in DOMAIN registry :
                 i > Len(rows) => registry[i] \in RangeOf(Page) \/ i > Len(rows \o Page)
  <1> DEFINE m == IF Len(rows) + PageSize < Len(registry) THEN Len(rows) + PageSize ELSE Len(registry)
  <1>1. /\ registry \in Seq(Schemes) /\ rows \in Seq(Schemes)
        /\ Len(registry) \in Nat /\ Len(rows) \in Nat /\ PageSize \in Nat \ {0}
    BY RegistryAssumption DEF RegistryTypeOK
  <1>2. m \in Nat /\ m <= Len(registry)
    BY <1>1
  <1>3. /\ Page \in Seq(Schemes)
        /\ Len(Page) = IF Len(rows) + 1 <= m THEN m - Len(rows) ELSE 0
        /\ \A k \in 1..Len(Page) : Page[k] = registry[Len(rows) + k]
    BY <1>1, <1>2 DEF Page
  <1> HIDE DEF m
  <1>4. rows \o Page \in Seq(Schemes) /\ Len(rows \o Page) = Len(rows) + Len(Page)
    BY <1>1, <1>3
  <1>5. RangeOf(Page) \subseteq RangeOf(registry)
    BY <1>1, <1>2, <1>3, SMTT(30) DEF RangeOf
  <1>6. RangeOf(rows \o Page) = RangeOf(rows) \cup RangeOf(Page)
    BY <1>1, <1>3, RangeOfConcat
  <1>7. \A i \in DOMAIN registry : i > Len(rows) /\ i <= m => registry[i] \in RangeOf(Page)
    <2> SUFFICES ASSUME NEW i \in 1..Len(registry), i > Len(rows), i <= m
                 PROVE  registry[i] \in RangeOf(Page)
      BY <1>1
    <2>1. i - Len(rows) \in 1..Len(Page) /\ Page[i - Len(rows)] = registry[i]
      BY <1>1, <1>2, <1>3
    <2> QED
      BY <1>3, <2>1 DEF RangeOf
  <1>8. LastPage(Page) => m = Len(registry) \/ Len(rows) >= Len(registry)
    BY <1>1, <1>2, <1>3, <1>4 DEF LastPage, m
  <1>9. LastPage(Page) => Unread \subseteq RangeOf(Page)
    BY <1>1, <1>7, <1>8 DEF Unread
  <1>10. \A i \in DOMAIN registry :
            i > Len(rows) => registry[i] \in RangeOf(Page) \/ i > Len(rows \o Page)
    BY <1>1, <1>2, <1>3, <1>4, <1>7
  <1> QED
    BY <1>3, <1>4, <1>5, <1>6, <1>9, <1>10

\* The rows behind the i-th one.
LEMMA RestFacts ==
    ASSUME NEW S, NEW s \in Seq(S), NEW i \in Nat, i <= Len(s)
    PROVE  /\ SubSeq(s, i + 1, Len(s)) \in Seq(S)
           /\ Len(SubSeq(s, i + 1, Len(s))) = Len(s) - i
           /\ \A k \in 1..(Len(s) - i) : SubSeq(s, i + 1, Len(s))[k] = s[i + k]
  <1> DEFINE rest == SubSeq(s, i + 1, Len(s))
  <1>1. Len(s) \in Nat
    OBVIOUS
  <1>2. i + 1 \in 1..(Len(s) + 1) /\ Len(s) \in ((i + 1) - 1)..Len(s)
    BY <1>1
  <1>3. /\ rest \in Seq(S)
        /\ Len(rest) = IF i + 1 <= Len(s) THEN Len(s) - (i + 1) + 1 ELSE 0
        /\ \A k \in 1..(Len(s) - (i + 1) + 1) : rest[k] = s[(i + 1) + k - 1]
    BY <1>1, <1>2, SubSeqProperties
  <1> HIDE DEF rest
  <1>4. Len(s) - (i + 1) + 1 = Len(s) - i /\ Len(rest) = Len(s) - i
    BY <1>1, <1>3
  <1>5. ASSUME NEW k \in 1..(Len(s) - i) PROVE rest[k] = s[i + k]
    <2>1. (i + 1) + k - 1 = i + k
      BY <1>1
    <2> QED
      BY <1>3, <1>4, <2>1
  <1> QED
    BY <1>3, <1>4, <1>5 DEF rest

\* What a change of the registry does to its rows.
LEMMA InsertFacts ==
    ASSUME RegistryTypeOK, NEW s \in Schemes, NEW i \in 0..Len(registry)
    PROVE  /\ Insert(i, s) \in Seq(Schemes)
           /\ RangeOf(Insert(i, s)) \subseteq RangeOf(registry) \cup {s}
           /\ \A j \in DOMAIN registry :
                 \E k \in DOMAIN Insert(i, s) : k >= j /\ Insert(i, s)[k] = registry[j]
  <1> DEFINE new == Insert(i, s)
  <1>1. /\ registry \in Seq(Schemes) /\ Len(registry) \in Nat /\ DOMAIN registry = 1..Len(registry)
        /\ i \in Nat /\ i <= Len(registry)
    BY DEF RegistryTypeOK
  <1>2. /\ new \in Seq(Schemes) /\ Len(new) = Len(registry) + 1
        /\ DOMAIN new = 1..Len(new)
        /\ \A k \in 1..Len(new) :
              new[k] = IF k <= i THEN registry[k] ELSE IF k = i + 1 THEN s ELSE registry[k - 1]
    <2> DEFINE front == SubSeq(registry, 1, i)
               back == SubSeq(registry, i + 1, Len(registry))
    <2>1. /\ front \in Seq(Schemes) /\ Len(front) = i
          /\ \A k \in 1..i : front[k] = registry[k]
      BY <1>1
    <2>2. /\ back \in Seq(Schemes) /\ Len(back) = Len(registry) - i
          /\ \A k \in 1..(Len(registry) - i) : back[k] = registry[i + k]
      BY <1>1, RestFacts
    <2>3. new = front \o <<s>> \o back
      BY DEF Insert
    <2> HIDE DEF front, back, new
    <2>4. /\ front \o <<s>> \in Seq(Schemes) /\ Len(front \o <<s>>) = i + 1
          /\ \A k \in 1..(i + 1) : (front \o <<s>>)[k] = IF k <= i THEN registry[k] ELSE s
      BY <1>1, <2>1
    <2>5. new \in Seq(Schemes) /\ Len(new) = Len(registry) + 1
      BY <1>1, <2>2, <2>3, <2>4
    <2>6. \A k \in 1..(i + 1) : new[k] = (front \o <<s>>)[k]
      BY <1>1, <2>2, <2>3, <2>4
    <2>7. \A k \in (i + 2)..Len(new) : new[k] = back[k - (i + 1)]
      BY <1>1, <2>2, <2>3, <2>4, <2>5
    <2>8. ASSUME NEW k \in 1..Len(new), k > i + 1
          PROVE  new[k] = registry[k - 1]
      <3>1. k - (i + 1) \in 1..(Len(registry) - i) /\ k \in (i + 2)..Len(new)
        BY <1>1, <2>5, <2>8
      <3>2. back[k - (i + 1)] = registry[i + (k - (i + 1))] /\ i + (k - (i + 1)) = k - 1
        BY <1>1, <2>2, <3>1
      <3> QED
        BY <2>7, <3>1, <3>2
    <2>9. ASSUME NEW k \in 1..Len(new), k <= i + 1
          PROVE  new[k] = IF k <= i THEN registry[k] ELSE s
      BY <1>1, <2>4, <2>5, <2>6, <2>9
    <2> QED
      BY <1>1, <2>5, <2>8, <2>9
  <1> HIDE DEF new
  <1>3. RangeOf(new) \subseteq RangeOf(registry) \cup {s}
    <2> SUFFICES ASSUME NEW k \in 1..Len(new) PROVE new[k] \in RangeOf(registry) \cup {s}
      BY <1>2 DEF RangeOf
    <2>1. k <= i \/ k = i + 1 \/ k - 1 \in 1..Len(registry)
      BY <1>1, <1>2
    <2>2. k <= i => k \in 1..Len(registry)
      BY <1>1, <1>2
    <2> QED
      BY <1>1, <1>2, <2>1, <2>2 DEF RangeOf
  <1>4. \A j \in DOMAIN registry : \E k \in DOMAIN new : k >= j /\ new[k] = registry[j]
    <2> SUFFICES ASSUME NEW j \in 1..Len(registry)
                 PROVE  \E k \in 1..Len(new) : k >= j /\ new[k] = registry[j]
      BY <1>1, <1>2
    <2>1. CASE j <= i
      BY <1>1, <1>2, <2>1
    <2>2. CASE j > i
      <3>1. j + 1 \in 1..Len(new) /\ new[j + 1] = registry[j]
        BY <1>1, <1>2, <2>2
      <3> QED
        BY <1>1, <3>1
    <2> QED
      BY <1>1, <2>1, <2>2
  <1> QED
    BY <1>2, <1>3, <1>4 DEF new

\* What is left of the list when a row is withdrawn, and where.
LEMMA WithoutFacts ==
    ASSUME RegistryTypeOK, NEW i \in DOMAIN registry
    PROVE  /\ Without(i) \in Seq(Schemes)
           /\ RangeOf(Without(i)) \subseteq RangeOf(registry)
           /\ \A j \in DOMAIN registry : j # i =>
                 \E k \in DOMAIN Without(i) :
                    (j < i => k = j) /\ (j > i => k = j - 1) /\ Without(i)[k] = registry[j]
  <1> DEFINE new == Without(i)
  <1>1. /\ registry \in Seq(Schemes) /\ Len(registry) \in Nat /\ DOMAIN registry = 1..Len(registry)
        /\ i \in Nat /\ i <= Len(registry)
    BY DEF RegistryTypeOK
  <1>2. /\ new \in Seq(Schemes) /\ Len(new) = Len(registry) - 1
        /\ DOMAIN new = 1..Len(new)
        /\ \A k \in 1..Len(new) : new[k] = IF k < i THEN registry[k] ELSE registry[k + 1]
    <2> DEFINE front == SubSeq(registry, 1, i - 1)
               back == SubSeq(registry, i + 1, Len(registry))
    <2>1. /\ front \in Seq(Schemes) /\ Len(front) = i - 1
          /\ \A k \in 1..(i - 1) : front[k] = registry[k]
      BY <1>1
    <2>2. /\ back \in Seq(Schemes) /\ Len(back) = Len(registry) - i
          /\ \A k \in 1..(Len(registry) - i) : back[k] = registry[i + k]
      BY <1>1, RestFacts
    <2>3. new = front \o back
      BY DEF Without
    <2> HIDE DEF front, back, new
    <2>4. new \in Seq(Schemes) /\ Len(new) = Len(registry) - 1
      <3>1. new \in Seq(Schemes) /\ Len(new) = Len(front) + Len(back)
        BY <2>1, <2>2, <2>3, ConcatProperties
      <3> QED
        BY <1>1, <2>1, <2>2, <3>1
    <2>5. \A k \in 1..(i - 1) : new[k] = front[k]
      BY <1>1, <2>1, <2>2, <2>3
    <2>6. \A k \in i..Len(new) : new[k] = back[k - (i - 1)]
      BY <1>1, <2>1, <2>2, <2>3, <2>4, SMTT(30)
    <2>7. ASSUME NEW k \in 1..Len(new), k >= i
          PROVE  new[k] = registry[k + 1]
      <3>1. k - (i - 1) \in 1..(Len(registry) - i) /\ k \in i..Len(new)
        BY <1>1, <2>4, <2>7
      <3>2. back[k - (i - 1)] = registry[i + (k - (i - 1))] /\ i + (k - (i - 1)) = k + 1
        BY <1>1, <2>2, <3>1
      <3> QED
        BY <2>6, <3>1, <3>2
    <2>8. ASSUME NEW k \in 1..Len(new), k < i
          PROVE  new[k] = registry[k]
      BY <1>1, <2>1, <2>4, <2>5, <2>8
    <2> QED
      BY <1>1, <2>4, <2>7, <2>8
  <1> HIDE DEF new
  <1>3. RangeOf(new) \subseteq RangeOf(registry)
    <2> SUFFICES ASSUME NEW k \in 1..Len(new) PROVE new[k] \in RangeOf(registry)
      BY <1>2 DEF RangeOf
    <2>1. k \in 1..Len(registry) /\ k + 1 \in 1..Len(registry)
      BY <1>1, <1>2
    <2> QED
      BY <1>1, <1>2, <2>1 DEF RangeOf
  <1>4. ASSUME NEW j \in DOMAIN registry, j # i
        PROVE  \E k \in DOMAIN new :
                  (j < i => k = j) /\ (j > i => k = j - 1) /\ new[k] = registry[j]
    <2>1. CASE j < i
      <3>1. j \in 1..Len(new) /\ new[j] = registry[j]
        BY <1>1, <1>2, <2>1
      <3> QED
        BY <1>1, <1>2, <2>1, <3>1
    <2>2. CASE j > i
      <3>1. j - 1 \in 1..Len(new) /\ new[j - 1] = registry[j]
        BY <1>1, <1>2, <2>2
      <3> QED
        BY <1>1, <1>2, <2>2, <3>1
    <2> QED
      BY <1>1, <1>4, <2>1, <2>2
  <1> QED
    BY <1>2, <1>3, <1>4 DEF new

-----------------------------------------------------------------------------
(* Registry and copy.                                                      *)

\* The registry's invariant holds at first, whatever the list is.
LEMMA RegistryStarts == Init => RegistryInv
  <1> SUFFICES ASSUME Init PROVE RegistryInv
    OBVIOUS
  <1>1. registry \in Seq(Schemes)
    <2>1. PICK n \in 0..Cardinality(Schemes) : registry \in [1..n -> Schemes]
      BY DEF Init
    <2>2. n \in Nat
      BY <2>1
    <2> QED
      BY <2>1, <2>2, SeqDef
  <1>2. RegistryTypeOK
    <2>1. changes = 0 /\ rows = <<>> /\ loaded = None /\ watch = Watch({}) /\ basis = Watch({})
      BY DEF Init
    <2>2. Watch({}) \in Histories
      BY DEF Watch, Histories
    <2>3. changes \in 0..MaxChanges /\ rows \in Seq(Schemes)
      <3>1. 0 \in 0..MaxChanges
        BY RegistryAssumption
      <3>2. <<>> \in Seq(Schemes)
        OBVIOUS
      <3> QED
        BY <2>1, <3>1, <3>2
    <2> QED
      <3>1. watch \in Histories /\ basis \in Histories
        BY <2>1, <2>2
      <3>2. loaded \in (SUBSET Schemes) \cup {None}
        BY <2>1
      <3> QED
        BY <1>1, <2>3, <3>1, <3>2 DEF RegistryTypeOK
  <1>3. ~Refreshing
    BY RegistryAssumption DEF Init, ClientInit, Refreshing, Callers
  <1> QED
    BY <1>2, <1>3 DEF Init, RegistryInv, ReadingInv, CopyInv

\* Nothing of the registry's side changes, and the refresher neither begins
\* nor ends a reading.
LEMMA RegistryStutters ==
    ASSUME RegistryInv, UNCHANGED <<registryVars, copyVars>>, Refreshing' => Refreshing
    PROVE  RegistryInv'
  BY DEF RegistryInv, RegistryTypeOK, ReadingInv, CopyInv, Unread, registryVars, copyVars

\* The refresher's steps keep the registry's invariant.
LEMMA RefreshKeeps ==
    ASSUME ClientInv, RegistryInv, StartRefresh \/ MorePages \/ RefreshDone \/ RefreshFails
    PROVE  RegistryInv'
  <1> USE DEF RegistryInv, ReadingInv, CopyInv
  <1>1. Refresher \in Callers /\ phase \in [Callers -> Phases]
    BY RegistryAssumption DEF ClientInv, ClientTypeOK, Callers
  <1>2. CASE StartRefresh
    BY <1>1, <1>2 DEF StartRefresh, RegistryTypeOK, Watch, Histories, RangeOf, registryVars, Unread
  <1>3. CASE MorePages
    <2>1. Refreshing /\ rows' = rows \o Page /\ UNCHANGED <<registry, changes, loaded, watch, basis>>
      BY <1>3 DEF MorePages, Refreshing, registryVars
    <2>2. RegistryTypeOK'
      BY <2>1, PageFacts DEF RegistryTypeOK
    <2>3. RangeOf(rows') \cup RangeOf(registry') \subseteq watch'.atSomePoint
      BY <2>1, PageFacts
    <2>4. RangeOf(rows) \cup Unread \subseteq RangeOf(rows') \cup Unread'
      BY <2>1, PageFacts DEF Unread
    <2> QED
      BY <2>1, <2>2, <2>3, <2>4
  <1>4. CASE RefreshDone
    <2>1. /\ Refreshing /\ LastPage(Page) /\ loaded' = RangeOf(rows) \cup RangeOf(Page)
          /\ basis' = watch /\ rows' = <<>> /\ watch' = Watch({})
          /\ UNCHANGED <<registry, changes>>
      BY <1>4, PageFacts DEF RefreshDone, Refreshing, Load, registryVars
    <2>2. ~Refreshing'
      BY <1>1, <1>4 DEF RefreshDone, AnswerOk, EndCall, Refreshing
    <2>3. loaded' \subseteq Schemes
      BY <2>1, PageFacts DEF RegistryTypeOK, RangeOf
    <2>4. RegistryTypeOK'
      BY <2>1, <2>3 DEF RegistryTypeOK, Watch, Histories
    <2> QED
      BY <2>1, <2>2, <2>4, PageFacts
  <1>5. CASE RefreshFails
    <2>1. ~Refreshing'
      BY <1>1, <1>5
      DEF RefreshFails, TokenFails, AnswerFailure, NoAnswer, EndCall, TokenPanics, AnswerPanics, Panic, Refreshing
    <2>2. RegistryTypeOK'
      BY <1>5 DEF RefreshFails, RegistryTypeOK, Watch, Histories, registryVars
    <2> QED
      BY <1>5, <2>1, <2>2 DEF RefreshFails
  <1> QED
    BY <1>2, <1>3, <1>4, <1>5

\* What a change of the list does to the record of the reading under way.
LEMMA ObserveFacts ==
    ASSUME watch \in Histories, NEW S \in SUBSET Schemes, NEW shift \in BOOLEAN, Observe(S, shift)
    PROVE  /\ watch' \in Histories
           /\ Refreshing => /\ watch'.throughout = watch.throughout \cap S
                            /\ watch'.atSomePoint = watch.atSomePoint \cup S
                            /\ watch'.shifted <=> (watch.shifted \/ shift)
  BY DEF Observe, Histories

\* Changes of the registry while it is being read.
LEMMA ChangeKeeps ==
    ASSUME RegistryInv, Activate \/ Withdraw
    PROVE  RegistryInv'
  <1> USE DEF RegistryInv, CopyInv
  <1>1. /\ UNCHANGED <<rows, loaded, basis>> /\ changes' \in 0..MaxChanges
        /\ Refreshing' <=> Refreshing
    <2>1. UNCHANGED <<phase, rows, loaded, basis>>
      BY DEF Activate, Withdraw, clientVars, callVars
    <2>2. changes' \in 0..MaxChanges
      <3>1. changes < MaxChanges /\ changes' = changes + 1
        BY DEF Activate, Withdraw
      <3>2. changes \in 0..MaxChanges
        BY DEF RegistryTypeOK
      <3> QED
        BY <3>1, <3>2, RegistryAssumption
    <2> QED
      BY <2>1, <2>2 DEF Refreshing
  <1>2. CASE Activate
    <2>1. PICK s \in Schemes \ RangeOf(registry), i \in 0..Len(registry) :
             registry' = Insert(i, s) /\ Observe(RangeOf(registry) \cup {s}, FALSE)
      BY <1>2 DEF Activate
    <2>2. /\ registry' \in Seq(Schemes) /\ RangeOf(registry') \subseteq RangeOf(registry) \cup {s}
          /\ \A j \in DOMAIN registry : \E k \in DOMAIN registry' : k >= j /\ registry'[k] = registry[j]
      BY <2>1, InsertFacts
    <2>3. RangeOf(registry) \cup {s} \subseteq Schemes
      BY DEF RegistryTypeOK, RangeOf
    <2>4. RegistryTypeOK'
      BY <1>1, <2>1, <2>2, <2>3, ObserveFacts DEF RegistryTypeOK
    <2>5. Unread \subseteq Unread'
      <3> SUFFICES ASSUME NEW j \in DOMAIN registry, j > Len(rows)
                   PROVE  registry[j] \in Unread'
        BY DEF Unread
      <3>1. PICK k \in DOMAIN registry' : k >= j /\ registry'[k] = registry[j]
        BY <2>2
      <3>2. k > Len(rows)
        BY <2>2, <3>1 DEF RegistryTypeOK
      <3> QED
        BY <1>1, <3>1, <3>2 DEF Unread
    <2>6. ReadingInv'
      <3>1. Refreshing => /\ watch'.throughout \subseteq watch.throughout
                          /\ watch'.atSomePoint = watch.atSomePoint \cup (RangeOf(registry) \cup {s})
                          /\ watch'.shifted <=> watch.shifted
        BY <2>1, <2>3, ObserveFacts DEF RegistryTypeOK
      <3> QED
        BY <1>1, <2>2, <2>5, <3>1 DEF ReadingInv
    <2> QED
      BY <1>1, <2>4, <2>6
  <1>3. CASE Withdraw
    <2>1. PICK i \in DOMAIN registry :
             registry' = Without(i) /\ Observe(RangeOf(registry) \ {registry[i]}, i <= Len(rows))
      BY <1>3 DEF Withdraw
    <2>2. /\ registry' \in Seq(Schemes) /\ RangeOf(registry') \subseteq RangeOf(registry)
          /\ \A j \in DOMAIN registry : j # i =>
                \E k \in DOMAIN registry' :
                   (j < i => k = j) /\ (j > i => k = j - 1) /\ registry'[k] = registry[j]
      BY <2>1, WithoutFacts
    <2>3. RangeOf(registry) \subseteq Schemes
      BY DEF RegistryTypeOK, RangeOf
    <2>0. /\ watch' \in Histories
          /\ Refreshing =>
               /\ watch'.throughout = watch.throughout \cap (RangeOf(registry) \ {registry[i]})
               /\ watch'.atSomePoint = watch.atSomePoint \cup (RangeOf(registry) \ {registry[i]})
               /\ watch'.shifted <=> (watch.shifted \/ i <= Len(rows))
      <3> DEFINE S == RangeOf(registry) \ {registry[i]}
                 shift == i <= Len(rows)
      <3>1. S \in SUBSET Schemes /\ shift \in BOOLEAN /\ Observe(S, shift) /\ watch \in Histories
        BY <2>1, <2>3 DEF RegistryTypeOK
      <3> HIDE DEF S, shift
      <3>2. /\ watch' \in Histories
            /\ Refreshing => /\ watch'.throughout = watch.throughout \cap S
                             /\ watch'.atSomePoint = watch.atSomePoint \cup S
                             /\ watch'.shifted <=> (watch.shifted \/ shift)
        BY <3>1, ObserveFacts
      <3> QED
        BY <3>2 DEF S, shift
    <2>4. RegistryTypeOK'
      BY <1>1, <2>0, <2>2, <2>3 DEF RegistryTypeOK
    <2>5. ASSUME i > Len(rows)
          PROVE  Unread \ {registry[i]} \subseteq Unread'
      <3> SUFFICES ASSUME NEW j \in DOMAIN registry, j > Len(rows), j # i
                   PROVE  registry[j] \in Unread'
        BY DEF Unread
      <3>1. PICK k \in DOMAIN registry' :
               (j < i => k = j) /\ (j > i => k = j - 1) /\ registry'[k] = registry[j]
        BY <2>2
      <3>2. k > Len(rows)
        BY <2>2, <2>5, <3>1 DEF RegistryTypeOK
      <3> QED
        BY <1>1, <3>1, <3>2 DEF Unread
    <2>6. i > Len(rows) \/ i <= Len(rows)
      BY DEF RegistryTypeOK
    <2>7. ReadingInv'
      <3> SUFFICES ASSUME Refreshing
                   PROVE  /\ RangeOf(rows') \cup RangeOf(registry') \subseteq watch'.atSomePoint
                          /\ watch'.shifted \/ watch'.throughout \subseteq RangeOf(rows') \cup Unread'
        BY <1>1 DEF ReadingInv
      <3>1. RangeOf(rows') \cup RangeOf(registry') \subseteq watch'.atSomePoint
        BY <1>1, <2>0, <2>2 DEF ReadingInv
      <3>2. CASE i <= Len(rows)
        BY <2>0, <3>1, <3>2
      <3>3. CASE i > Len(rows)
        BY <1>1, <2>0, <2>5, <3>1, <3>3 DEF ReadingInv
      <3> QED
        BY <2>6, <3>2, <3>3
    <2> QED
      BY <1>1, <2>4, <2>7
  <1> QED
    BY <1>2, <1>3

\* Every step keeps the registry's invariant.
LEMMA RegistryKeeps == ASSUME ClientInv, RegistryInv, [Next]_vars PROVE RegistryInv'
  <1>1. Refresher \in Callers /\ phase \in [Callers -> Phases]
    BY RegistryAssumption DEF ClientInv, ClientTypeOK, Callers
  <1>2. CASE RefreshAuthorizes
    <2>1. Refreshing
      BY <1>2 DEF RefreshAuthorizes, LockToken, UseCached, AskToken, IssueToken, StoreToken, Refreshing
    <2> QED
      BY <1>2, <2>1, RegistryStutters DEF RefreshAuthorizes
  <1>3. CASE \E c \in Callers \ {Refresher} : OtherCall(c)
    <2>1. phase'[Refresher] = phase[Refresher]
      BY <1>1, <1>3
      DEF OtherCall, Call, Authorize, Answer, Queue, LockToken, UseCached, AskToken, IssueToken, StoreToken,
          TokenFails, AnswerOk, AnswerFailure, NoAnswer, TokenPanics, AnswerPanics, Panic,
          SendWith, EndCall, callVars
    <2> QED
      BY <1>3, <2>1, RegistryStutters DEF OtherCall, Refreshing
  <1>4. CASE TimePasses \/ Withdrawal \/ UNCHANGED vars
    BY <1>4, RegistryStutters
    DEF TimePasses, Withdrawal, Tick, Revoke, Refreshing, vars, clientVars, callVars
  <1> QED
    BY <1>2, <1>3, <1>4, RefreshKeeps, ChangeKeeps DEF Next

\* Both invariants hold always.
LEMMA Inductive == Spec => []IInv
  <1>1. Init => IInv
    BY ClientStarts, RegistryStarts DEF Init, IInv
  <1>2. IInv /\ [Next]_vars => IInv'
    BY ClientKeeps, RegistryKeeps DEF IInv
  <1> QED
    BY <1>1, <1>2, PTL DEF Spec

-----------------------------------------------------------------------------
(* The theorems.                                                           *)

\* Every reachable state of the client, of the refresher's reading and of the
\* copy of the routing schemes has its declared type.
THEOREM TypeCorrect == Spec => []TypeOK
  <1>1. IInv => TypeOK
    BY DEF IInv, ClientInv, RegistryInv, TypeOK
  <1> QED
    BY <1>1, Inductive, PTL

\* bearer_token holds the mutex exactly while it reads or fetches the token.
THEOREM OneFetchAtATime == Spec => []OneFetch
  <1>1. IInv => OneFetch
    BY DEF IInv, ClientInv
  <1> QED
    BY <1>1, Inductive, PTL

\* A token bearer_token takes from its cache has not expired, for every
\* lifetime, as long as the HTTP timeout is no longer than the lead.
THEOREM CachedTokensAreAlive == Spec => []CachedIsAlive
  <1>1. IInv => CachedIsAlive
    BY DEF IInv, ClientInv, ClientTypeOK, TokenInv, CachedIsAlive, FreshEnough
  <1> QED
    BY <1>1, Inductive, PTL

\* A payment refused for its scheme: the scheme was not ACTIVE throughout the
\* last reading, or a row was withdrawn from a page already read.
THEOREM RefusalsAreGrounded == Spec => []RefusalIsGrounded
  <1>1. IInv => RefusalIsGrounded
    BY DEF IInv, RegistryInv, CopyInv, RefusalIsGrounded, Check, Routings
  <1> QED
    BY <1>1, Inductive, PTL

\* A payment that passes the check of a loaded copy names a scheme that was
\* ACTIVE during the last reading, and an address its pattern takes.
THEOREM AcceptancesAreGrounded == Spec => []AcceptanceIsGrounded
  <1>1. IInv => AcceptanceIsGrounded
    BY DEF IInv, RegistryInv, CopyInv, AcceptanceIsGrounded, Check, Routings
  <1> QED
    BY <1>1, Inductive, PTL

\* Only a complete reading changes the copy, and none unloads it.
THEOREM OnlyReadingsChangeTheCopy == Spec => CopyChangesByReading
  <1>1. IInv /\ [Next]_vars =>
          [loaded' # loaded => loaded' # None /\ phase[Refresher] = "send" /\ verdict'[Refresher] = "ok"]_vars
    <2> SUFFICES ASSUME IInv, Next, loaded' # loaded
                 PROVE  loaded' # None /\ phase[Refresher] = "send" /\ verdict'[Refresher] = "ok"
      OBVIOUS
    <2>1. RefreshDone
      BY DEF Next, StartRefresh, MorePages, RefreshFails, RefreshAuthorizes, OtherCall, Activate,
             Withdraw, TimePasses, Withdrawal, copyVars
    <2>2. loaded' = RangeOf(rows) \cup RangeOf(Page) /\ loaded' \subseteq Schemes
      <3>1. RegistryTypeOK
        BY DEF IInv, RegistryInv
      <3>2. RangeOf(rows) \subseteq Schemes /\ RangeOf(registry) \subseteq Schemes
        BY <3>1 DEF RegistryTypeOK, RangeOf
      <3> QED
        BY <2>1, <3>1, <3>2, PageFacts DEF RefreshDone, Load
    <2>3. verdict'[Refresher] = "ok"
      BY <2>1, RegistryAssumption DEF RefreshDone, AnswerOk, EndCall, IInv, ClientInv, ClientTypeOK, Callers
    <2> QED
      BY <2>1, <2>2, <2>3, RegistryAssumption DEF RefreshDone
  <1> QED
    BY <1>1, Inductive, PTL DEF Spec, CopyChangesByReading

\* A call of a worker that OBP-API turned away for its token is never a
\* terminal rejection.
THEOREM CredentialsAreNeverTerminal == Spec => CredentialsNeverTerminal
  <1> DEFINE Grounded ==
        \A c \in Workers :
           (phase[c] = "send" /\ phase'[c] = "idle" /\ verdict'[c] = "rejected") => Accepted(c)
  <1>1. IInv /\ [Next]_vars => [Grounded]_clientVars
    <2> SUFFICES ASSUME IInv, Next, NEW c \in Workers,
                        phase[c] = "send", phase'[c] = "idle", verdict'[c] = "rejected"
                 PROVE  Accepted(c)
      BY DEF vars
    <2>1. /\ phase \in [Callers -> Phases] /\ verdict \in [Callers -> Verdicts]
          /\ c \in Callers /\ Refresher \in Callers
      BY RegistryAssumption DEF IInv, ClientInv, ClientTypeOK, Callers
    <2>2. ASSUME NEW d \in Callers, Call(d) \/ Authorize(d) \/ Answer(d)
          PROVE  AnswerFailure(c)
      <3> USE DEF Queue, SendWith, EndCall, callVars
      <3>1. CASE Call(d) \/ LockToken(d) \/ UseCached(d) \/ AskToken(d)
        BY <2>1, <3>1 DEF Call, LockToken, UseCached, AskToken
      <3>2. CASE IssueToken(d) \/ StoreToken(d) \/ TokenFails(d)
        BY <2>1, <3>2 DEF IssueToken, StoreToken, TokenFails
      <3>3. CASE AnswerOk(d) \/ NoAnswer(d)
        BY <2>1, <3>3 DEF AnswerOk, NoAnswer
      <3>5. CASE TokenPanics(d) \/ AnswerPanics(d)
        BY <2>1, <3>5 DEF TokenPanics, AnswerPanics, Panic
      <3>4. CASE AnswerFailure(d)
        <4>1. d = c
          BY <2>1, <3>4 DEF AnswerFailure
        <4> QED
          BY <3>4, <4>1
      <3> QED
        BY <2>2, <3>1, <3>2, <3>3, <3>4, <3>5 DEF Authorize, Answer
    <2>3. AnswerFailure(c)
      <3>1. CASE StartRefresh \/ RefreshDone \/ RefreshFails \/ RefreshAuthorizes
        BY <2>1, <2>2, <3>1 DEF StartRefresh, RefreshDone, RefreshFails, RefreshAuthorizes, Authorize, Answer
      <3>2. CASE MorePages
        BY <2>1, <3>2 DEF MorePages, Queue
      <3>3. CASE \E d \in Callers \ {Refresher} : OtherCall(d)
        BY <2>2, <3>3 DEF OtherCall
      <3>4. CASE Activate \/ Withdraw \/ TimePasses \/ Withdrawal
        BY <3>4 DEF Activate, Withdraw, TimePasses, Withdrawal, Tick, Revoke, clientVars, callVars
      <3> QED
        BY <3>1, <3>2, <3>3, <3>4 DEF Next
    <2> QED
      <3>1. PICK a \in FailedAnswers(c) : EndCall(c, Classify(c, a))
        BY <2>3 DEF AnswerFailure
      <3>2. ClassifyFailure(a) = "rejected"
        BY <2>1, <3>1 DEF EndCall, Classify
      <3>3. a.status # 401
        BY <3>2 DEF ClassifyFailure
      <3> QED
        BY <3>1, <3>3 DEF FailedAnswers
  <1> QED
    BY <1>1, Inductive, PTL DEF Spec, CredentialsNeverTerminal

=============================================================================
