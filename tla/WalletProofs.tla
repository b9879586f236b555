---------------------------- MODULE WalletProofs ----------------------------
(***************************************************************************)
(* What the wallet's writers promise, for any number of writers, payments  *)
(* and faults, any wallet of finitely many coins and any protocol          *)
(* parameters; that the fee loop converges rests on FeeLoopAssumption too. *)
(***************************************************************************)
EXTENDS Wallet, FiniteSetTheorems, WellFoundedInduction, TLAPS

-----------------------------------------------------------------------------
(* The sum of a set of coins.  The fold that computes it is a recursive    *)
(* function; what it is and that it is a number are shown on the smallest  *)
(* set for which they would fail.                                          *)

\* A set of numbers has a least one.
LEMMA NatLeast ==
    ASSUME NEW T \in SUBSET Nat, T # {}
    PROVE  \E m \in T : \A k \in T : m <= k
  <1>1. PICK m \in T : \A k \in T : ~(<<k, m>> \in OpToRel(<, Nat))
    BY NatLessThanWellFounded, WFMin
  <1>2. \A k \in Nat, n \in Nat : k < n => <<k, n>> \in OpToRel(<, Nat)
    BY DEF OpToRel
  <1>3. \A k \in T : ~(k < m)
    BY <1>1, <1>2
  <1> QED
    BY <1>3

Any(s) == CHOOSE x \in s : TRUE

\* The recursion by which a set of coins is summed, on the sets in D.
SumStep(g, s) == IF s = {} THEN 0 ELSE Any(s).lovelace + g[s \ {Any(s)}]

Sums(g, D) == g = [s \in D |-> SumStep(g, s)]

\* The sums of all parts of a finite set of coins exist.
LEMMA SumsExist ==
    ASSUME NEW S, IsFiniteSet(S)
    PROVE  \E g : Sums(g, SUBSET S)
  <1> DEFINE D(n) == {s \in SUBSET S : Cardinality(s) <= n}
             bad == {n \in Nat : ~\E g : Sums(g, D(n))}
  <1>1. \A s \in SUBSET S : IsFiniteSet(s) /\ Cardinality(s) \in Nat /\ Cardinality(s) <= Cardinality(S)
    BY FS_Subset, FS_CardinalityType
  <1>2. \A s \in SUBSET S : s # {} =>
           /\ Any(s) \in s /\ s \ {Any(s)} \in SUBSET S
           /\ Cardinality(s \ {Any(s)}) = Cardinality(s) - 1
    <2> SUFFICES ASSUME NEW s \in SUBSET S, s # {}
                 PROVE  /\ Any(s) \in s /\ s \ {Any(s)} \in SUBSET S
                        /\ Cardinality(s \ {Any(s)}) = Cardinality(s) - 1
      OBVIOUS
    <2>1. Any(s) \in s
      BY DEF Any
    <2> QED
      BY <1>1, <2>1, FS_RemoveElement
  <1>3. ASSUME NEW m \in bad, \A k \in bad : m <= k
        PROVE  FALSE
    <2>1. CASE m = 0
      <3> DEFINE g == [s \in D(0) |-> 0]
      <3>1. \A s \in D(0) : s = {}
        BY <1>1, FS_EmptySet
      <3>2. Sums(g, D(0))
        BY <3>1 DEF Sums, SumStep
      <3> QED
        BY <1>3, <2>1, <3>2
    <2>2. CASE m # 0
      <3>1. m - 1 \in Nat /\ m - 1 \notin bad
        BY <1>3, <2>2
      <3>2. PICK g : Sums(g, D(m - 1))
        BY <3>1
      <3> DEFINE h == [s \in D(m) |-> SumStep(g, s)]
      <3>3. \A s \in D(m - 1) : s \in D(m) /\ g[s] = SumStep(g, s)
        BY <1>1, <3>1, <3>2 DEF Sums
      <3>4. \A s \in D(m - 1) : h[s] = g[s]
        BY <3>3
      <3>5. \A s \in D(m) : SumStep(h, s) = SumStep(g, s)
        <4> HIDE DEF h, D
        <4> SUFFICES ASSUME NEW s \in D(m), s # {} PROVE h[s \ {Any(s)}] = g[s \ {Any(s)}]
          BY DEF SumStep
        <4> USE DEF D
        <4>1. s \ {Any(s)} \in D(m - 1)
          BY <1>1, <1>2, <3>1
        <4> QED
          BY <3>4, <4>1
      <3>6. Sums(h, D(m))
        <4> HIDE DEF D
        <4>1. h = [s \in D(m) |-> SumStep(h, s)]
          BY <3>5
        <4> QED
          BY <4>1 DEF Sums
      <3> QED
        BY <3>6
    <2> QED
      BY <2>1, <2>2
  <1>4. bad = {}
    BY <1>3, NatLeast
  <1>5. Cardinality(S) \in Nat /\ SUBSET S = D(Cardinality(S))
    BY <1>1, FS_CardinalityType
  <1> QED
    BY <1>4, <1>5

\* Total is such a sum.
LEMMA TotalIs ==
    ASSUME NEW S, IsFiniteSet(S)
    PROVE  \E h : Sums(h, SUBSET S) /\ Total(S) = h[S]
  <1> DEFINE h == CHOOSE h : Sums(h, SUBSET S)
  <1>1. Sums(h, SUBSET S)
    BY SumsExist
  <1>2. Total(S) = h[S]
    BY DEF Total, MapThenSumSet, MapThenFoldSet, Sums, SumStep, Any
  <1> QED
    BY <1>1, <1>2

\* The total of a set of coins is a number.
LEMMA TotalType ==
    ASSUME NEW S, IsFiniteSet(S), \A c \in S : c.lovelace \in Nat
    PROVE  Total(S) \in Nat
  <1>1. PICK h : Sums(h, SUBSET S) /\ Total(S) = h[S]
    BY TotalIs
  <1> DEFINE bad == {n \in Nat : \E s \in SUBSET S : Cardinality(s) = n /\ h[s] \notin Nat}
  <1>2. ASSUME NEW m \in bad, \A k \in bad : m <= k
        PROVE  FALSE
    <2>1. PICK s \in SUBSET S : Cardinality(s) = m /\ h[s] \notin Nat
      OBVIOUS
    <2>2. h[s] = SumStep(h, s)
      BY <1>1 DEF Sums
    <2>3. s # {} /\ Any(s) \in s /\ h[s] = Any(s).lovelace + h[s \ {Any(s)}]
      BY <2>1, <2>2 DEF SumStep, Any
    <2>4. s \ {Any(s)} \in SUBSET S /\ Cardinality(s \ {Any(s)}) = m - 1 /\ m - 1 \in Nat
      <3>1. IsFiniteSet(s) /\ s \ {Any(s)} \in SUBSET S
        BY FS_Subset
      <3>2. IsFiniteSet(s \ {Any(s)}) /\ Cardinality(s \ {Any(s)}) = Cardinality(s) - 1
        BY <2>3, <3>1, FS_RemoveElement
      <3>3. Cardinality(s \ {Any(s)}) \in Nat /\ Cardinality(s) \in Nat
        BY <3>1, <3>2, FS_CardinalityType
      <3> QED
        BY <2>1, <3>1, <3>2, <3>3
    <2>5. h[s \ {Any(s)}] \in Nat
      BY <1>2, <2>4
    <2> QED
      BY <2>1, <2>3, <2>5
  <1>3. bad = {}
    BY <1>2, NatLeast
  <1>4. Cardinality(S) \in Nat
    BY FS_CardinalityType
  <1> QED
    BY <1>1, <1>3, <1>4

\* The recursion determines the sums.
LEMMA SumsAgree ==
    ASSUME NEW S, IsFiniteSet(S), NEW R \in SUBSET S,
           NEW g, Sums(g, SUBSET S), NEW h, Sums(h, SUBSET R)
    PROVE  g[R] = h[R]
  <1> DEFINE bad == {n \in Nat : \E s \in SUBSET R : Cardinality(s) = n /\ g[s] # h[s]}
  <1>1. \A s \in SUBSET R : IsFiniteSet(s) /\ Cardinality(s) \in Nat
    BY FS_Subset, FS_CardinalityType
  <1>2. ASSUME NEW m \in bad, \A k \in bad : m <= k
        PROVE  FALSE
    <2>1. PICK s \in SUBSET R : Cardinality(s) = m /\ g[s] # h[s]
      OBVIOUS
    <2>2. g[s] = SumStep(g, s) /\ h[s] = SumStep(h, s)
      BY DEF Sums
    <2>3. s # {} /\ Any(s) \in s /\ g[s \ {Any(s)}] # h[s \ {Any(s)}]
      BY <2>1, <2>2 DEF SumStep, Any
    <2>4. s \ {Any(s)} \in SUBSET R /\ Cardinality(s \ {Any(s)}) = m - 1 /\ m - 1 \in Nat
      <3>1. Cardinality(s \ {Any(s)}) = Cardinality(s) - 1
        BY <1>1, <2>3, FS_RemoveElement
      <3>2. s \ {Any(s)} \in SUBSET R
        OBVIOUS
      <3>3. Cardinality(s \ {Any(s)}) \in Nat /\ Cardinality(s) \in Nat
        BY <1>1, <3>2
      <3> QED
        BY <2>1, <3>1, <3>2, <3>3
    <2>5. m - 1 \in bad
      BY <2>3, <2>4
    <2> QED
      BY <1>2, <2>5
  <1>3. bad = {}
    BY <1>2, NatLeast
  <1>4. R \in SUBSET R
    OBVIOUS
  <1> QED
    BY <1>1, <1>3, <1>4

\* A total is that of one coin and the others ...
LEMMA TotalStep ==
    ASSUME NEW S, IsFiniteSet(S), S # {}
    PROVE  Any(S) \in S /\ Total(S) = Any(S).lovelace + Total(S \ {Any(S)})
  <1> DEFINE R == S \ {Any(S)}
  <1>1. Any(S) \in S /\ R \in SUBSET S /\ IsFiniteSet(R)
    BY FS_Subset DEF Any
  <1>2. PICK g : Sums(g, SUBSET S) /\ Total(S) = g[S]
    BY TotalIs
  <1>3. PICK h : Sums(h, SUBSET R) /\ Total(R) = h[R]
    BY <1>1, TotalIs
  <1>4. g[R] = h[R]
    <2> HIDE DEF R
    <2>1. /\ IsFiniteSet(S) /\ R \in SUBSET S
          /\ Sums(g, SUBSET S) /\ Sums(h, SUBSET R)
      BY <1>1, <1>2, <1>3
    <2> QED
      BY ONLY <2>1, SumsAgree
  <1>5. g[S] = SumStep(g, S)
    BY <1>2 DEF Sums
  <1> QED
    BY <1>1, <1>2, <1>3, <1>4, <1>5 DEF SumStep

\* ... and nothing for no coin.
LEMMA TotalEmpty == Total({}) = 0
  <1>1. IsFiniteSet({})
    BY FS_EmptySet
  <1>2. PICK g : Sums(g, SUBSET {}) /\ Total({}) = g[{}]
    BY <1>1, TotalIs
  <1>3. g[{}] = SumStep(g, {})
    BY <1>2 DEF Sums
  <1> QED
    BY <1>2, <1>3 DEF SumStep

\* Any coin may be counted first.
LEMMA TotalRemove ==
    ASSUME NEW S, IsFiniteSet(S), \A c \in S : c.lovelace \in Nat, NEW x \in S
    PROVE  Total(S) = x.lovelace + Total(S \ {x})
  <1> DEFINE Wrong(s, c) == Total(s) # c.lovelace + Total(s \ {c})
             bad == {n \in Nat : \E s \in SUBSET S : \E c \in s : Cardinality(s) = n /\ Wrong(s, c)}
  <1>1. \A s \in SUBSET S : IsFiniteSet(s) /\ Cardinality(s) \in Nat /\ Total(s) \in Nat
    <2> SUFFICES ASSUME NEW s \in SUBSET S
                 PROVE  IsFiniteSet(s) /\ Cardinality(s) \in Nat /\ Total(s) \in Nat
      OBVIOUS
    <2>1. IsFiniteSet(s)
      BY FS_Subset
    <2> QED
      BY <2>1, FS_CardinalityType, TotalType
  <1>2. ASSUME NEW m \in bad, \A k \in bad : m <= k
        PROVE  FALSE
    <2>1. PICK s \in SUBSET S : \E c \in s : Cardinality(s) = m /\ Wrong(s, c)
      OBVIOUS
    <2>2. PICK c \in s : Cardinality(s) = m /\ Wrong(s, c)
      BY <2>1
    <2> DEFINE a == Any(s)
    <2>3. a \in s /\ Total(s) = a.lovelace + Total(s \ {a})
      BY <1>1, TotalStep
    <2>4. a # c
      BY <2>2, <2>3
    <2> HIDE DEF a
    <2>5. /\ Cardinality(s \ {a}) = m - 1 /\ s \ {a} \in SUBSET S /\ c \in s \ {a}
          /\ Cardinality(s \ {c}) = m - 1 /\ s \ {c} \in SUBSET S /\ a \in s \ {c}
      BY <1>1, <2>2, <2>3, <2>4, FS_RemoveElement
    <2>6. m - 1 \in Nat /\ m - 1 \notin bad
      <3>1. m - 1 \in Nat
        BY <1>1, <2>5
      <3> QED
        BY <1>2, <3>1
    <2>7. ~Wrong(s \ {a}, c) /\ ~Wrong(s \ {c}, a)
      <3> HIDE DEF Wrong
      <3> QED
        BY <2>5, <2>6
    <2>8. (s \ {a}) \ {c} = (s \ {c}) \ {a} /\ (s \ {a}) \ {c} \in SUBSET S
      OBVIOUS
    <2>9. a.lovelace \in Nat /\ c.lovelace \in Nat
      BY <2>3
    <2> DEFINE rest == Total((s \ {a}) \ {c})
    <2>10. /\ Total(s \ {a}) = c.lovelace + rest /\ Total(s \ {c}) = a.lovelace + rest /\ rest \in Nat
      BY <1>1, <2>7, <2>8
    <2>11. Total(s) = c.lovelace + Total(s \ {c})
      <3> HIDE DEF rest
      <3> QED
        BY <2>3, <2>9, <2>10
    <2> QED
      BY <2>2, <2>11
  <1>3. bad = {}
    <2> HIDE DEF Wrong
    <2> QED
      BY <1>2, NatLeast
  <1>4. ~Wrong(S, x)
    <2> HIDE DEF Wrong
    <2>1. Cardinality(S) \in Nat
      BY <1>1
    <2> QED
      BY <1>3, <2>1
  <1> QED
    BY <1>4

\* As many coins, none of them smaller, are worth as much.
LEMMA TotalCompare ==
    ASSUME NEW S, IsFiniteSet(S), \A c \in S : c.lovelace \in Nat,
           NEW C \in SUBSET S, NEW D \in SUBSET S, Cardinality(C) <= Cardinality(D),
           \A c \in C \ D, d \in D \ C : c.lovelace <= d.lovelace
    PROVE  Total(C) <= Total(D)
  <1> DEFINE Below(c, d) == \A x \in c \ d, y \in d \ c : x.lovelace <= y.lovelace
             Wrong(c, d) == Cardinality(c) <= Cardinality(d) /\ Below(c, d) /\ ~(Total(c) <= Total(d))
             bad == {n \in Nat : \E c \in SUBSET S, d \in SUBSET S : Cardinality(c) = n /\ Wrong(c, d)}
  <1>1. \A s \in SUBSET S : /\ IsFiniteSet(s) /\ Cardinality(s) \in Nat /\ Total(s) \in Nat
                            /\ Cardinality(s) = 0 <=> s = {}
    <2> SUFFICES ASSUME NEW s \in SUBSET S
                 PROVE  /\ IsFiniteSet(s) /\ Cardinality(s) \in Nat /\ Total(s) \in Nat
                        /\ Cardinality(s) = 0 <=> s = {}
      OBVIOUS
    <2>1. IsFiniteSet(s)
      BY FS_Subset
    <2> QED
      BY <2>1, FS_CardinalityType, FS_EmptySet, TotalType
  <1>2. \A s \in SUBSET S : \A x \in s :
           /\ s \ {x} \in SUBSET S /\ Cardinality(s \ {x}) = Cardinality(s) - 1
           /\ Total(s) = x.lovelace + Total(s \ {x}) /\ x.lovelace \in Nat
    <2> SUFFICES ASSUME NEW s \in SUBSET S, NEW x \in s
                 PROVE  /\ s \ {x} \in SUBSET S /\ Cardinality(s \ {x}) = Cardinality(s) - 1
                        /\ Total(s) = x.lovelace + Total(s \ {x}) /\ x.lovelace \in Nat
      OBVIOUS
    <2>1. IsFiniteSet(s)
      BY <1>1
    <2> QED
      BY <2>1, FS_RemoveElement, TotalRemove
  <1>3. ASSUME NEW m \in bad, \A k \in bad : m <= k
        PROVE  FALSE
    <2>1. PICK c \in SUBSET S, d \in SUBSET S : Cardinality(c) = m /\ Wrong(c, d)
      OBVIOUS
    <2>2. ASSUME NEW x \in c, NEW y \in d, Below(c \ {x}, d \ {y}), x.lovelace <= y.lovelace
          PROVE  FALSE
      <3>1. /\ c \ {x} \in SUBSET S /\ d \ {y} \in SUBSET S
            /\ Cardinality(c \ {x}) = m - 1 /\ Cardinality(c \ {x}) <= Cardinality(d \ {y})
            /\ Cardinality(c \ {x}) \in Nat
        <4>1. c \ {x} \in SUBSET S /\ Cardinality(c \ {x}) = Cardinality(c) - 1
          BY <1>2
        <4>2. d \ {y} \in SUBSET S /\ Cardinality(d \ {y}) = Cardinality(d) - 1
          BY <1>2
        <4>3. Cardinality(c) = m /\ Cardinality(c) <= Cardinality(d)
          BY <2>1
        <4>4. /\ Cardinality(c) \in Nat /\ Cardinality(d) \in Nat
              /\ Cardinality(c \ {x}) \in Nat /\ Cardinality(d \ {y}) \in Nat
          BY <1>1, <4>1, <4>2
        <4> QED
          BY <4>1, <4>2, <4>3, <4>4
      <3>2. m - 1 \in Nat /\ m - 1 \notin bad
        BY <1>3, <3>1
      <3>3. Total(c \ {x}) <= Total(d \ {y})
        <4> HIDE DEF Below
        <4> QED
          BY <2>2, <3>1, <3>2
      <3>4. Total(c) = x.lovelace + Total(c \ {x}) /\ Total(d) = y.lovelace + Total(d \ {y})
        BY <1>2
      <3>5. Total(c \ {x}) \in Nat /\ Total(d \ {y}) \in Nat /\ x.lovelace \in Nat /\ y.lovelace \in Nat
        BY <1>1, <1>2
      <3>6. Total(c) <= Total(d)
        BY <2>2, <3>3, <3>4, <3>5
      <3> QED
        BY <2>1, <3>6
    <2>3. CASE c = {}
      <3>1. Total(c) = 0 /\ Total(d) \in Nat
        BY <1>1, <2>3, TotalEmpty
      <3> QED
        BY <2>1, <3>1
    <2>4. CASE c # {} /\ c \cap d # {}
      <3>1. PICK x : x \in c /\ x \in d
        BY <2>4
      <3>2. Below(c \ {x}, d \ {x})
        BY <2>1, <3>1
      <3>3. x.lovelace <= x.lovelace
        BY <1>2, <3>1
      <3> HIDE DEF Below
      <3> QED
        BY <2>2, <3>1, <3>2, <3>3
    <2>5. CASE c # {} /\ c \cap d = {}
      <3>1. PICK x : x \in c
        BY <2>5
      <3>2. d # {}
        <4>1. Cardinality(c) \in Nat /\ Cardinality(d) \in Nat /\ Cardinality(c) # 0 /\ Cardinality(c) <= Cardinality(d)
          BY <1>1, <2>1, <2>5
        <4>2. Cardinality(d) # 0
          BY <4>1
        <4> QED
          BY <1>1, <4>2
      <3>3. PICK y : y \in d
        BY <3>2
      <3>4. x \in c \ d /\ y \in d \ c
        BY <2>5, <3>1, <3>3
      <3>5. x.lovelace <= y.lovelace
        BY <2>1, <3>4
      <3>6. Below(c \ {x}, d \ {y})
        <4>1. (c \ {x}) \ (d \ {y}) \subseteq c \ d /\ (d \ {y}) \ (c \ {x}) \subseteq d \ c
          BY <2>5
        <4> QED
          BY <2>1, <4>1
      <3> HIDE DEF Below
      <3> QED
        BY <2>2, <3>1, <3>3, <3>5, <3>6
    <2> QED
      BY <2>3, <2>4, <2>5
  <1>4. bad = {}
    <2> HIDE DEF Wrong
    <2> QED
      BY <1>3, NatLeast
  <1>5. ~Wrong(C, D)
    <2> HIDE DEF Wrong
    <2> QED
      BY <1>1, <1>4
  <1> QED
    BY <1>5

-----------------------------------------------------------------------------
(* The inductive invariant.                                                *)

Held == {"read", "build", "submit"}

Counts == started \in 0..MaxTxs /\ faults \in 0..MaxFaults

\* The lock is held from the UTxO read to the end of the submission.
Tasks ==
    /\ pc \in [Writers -> Places]
    /\ \A w \in Writers : lock = w <=> pc[w] \in Held
    /\ result \in [Writers -> Results]
    /\ DOMAIN job = Writers /\ DOMAIN view = Writers /\ DOMAIN behind = Writers /\ DOMAIN tx = Writers
    /\ pass \in [Writers -> 0..(MaxFeeIters - 1)]
    /\ fee \in [Writers -> Nat]

CoinsOk(coins) == IsFiniteSet(coins) /\ \A c \in coins : c.lovelace \in Nat \ {0}

PaymentOk(t) == t.pay \in Nat \ {0} /\ Pays(t)

\* What the node may be asked to take was built, and built right.
Node ==
    /\ CoinsOk(ledger)
    /\ mempool \subseteq built /\ inflight \subseteq built /\ refused \subseteq built
    /\ \A t \in built : PaymentOk(t) /\ t.change \in Nat /\ Valid(t)

\* A writer builds a payment of its job's amount from coins that it read.
Building ==
    \A w \in Writers :
        /\ pc[w] # "idle" => PaymentOk(job[w])
        /\ pc[w] \in {"build", "submit"} => CoinsOk(view[w])

\* What it submits is spent from the coins it read, and says whether another
\* payment was under way then.
Signed ==
    \A w \in Writers :
        pc[w] = "submit" =>
            tx[w] \in built /\ tx[w].inputs \subseteq view[w] /\ tx[w].behind = behind[w]

\* Nobody comes in between from the read on: if no payment was under way then,
\* none is, and the coins are still unspent.
Alone ==
    \A w \in Writers :
        (pc[w] \in {"build", "submit"} /\ ~behind[w]) =>
            mempool = {} /\ inflight = {} /\ view[w] \subseteq ledger

WriterInv == Tasks /\ Building /\ Signed /\ Alone

\* A writer that returns gives up the lock if it holds it, and no other.
LEMMA ReturnStep ==
    ASSUME WriterInv, NEW w \in Writers, NEW how \in Results, Return(w, how), UNCHANGED built,
           IF pc[w] \in Held THEN lock' = None /\ UNCHANGED ledger ELSE UNCHANGED <<lock, nodeVars>>
    PROVE  WriterInv'
  <1>1. /\ pc'[w] = "idle"
        /\ \A v \in Writers \ {w} :
              /\ pc'[v] = pc[v] /\ job'[v] = job[v] /\ view'[v] = view[v]
              /\ behind'[v] = behind[v] /\ tx'[v] = tx[v]
    BY DEF WriterInv, Tasks, Return, Goto
  <1>2. \A v \in Writers \ {w} : pc[w] \in Held => pc[v] \notin Held
    BY DEF WriterInv, Tasks
  <1>3. Tasks'
    <2>1. \A v \in Writers : lock' = v <=> pc'[v] \in Held
      BY <1>1, <1>2, WalletAssumption DEF WriterInv, Tasks, Held
    <2>2. MaxFeeIters - 1 \in Nat
      BY WalletAssumption
    <2> QED
      BY <2>1, <2>2 DEF WriterInv, Tasks, Return, Goto, Places
  <1>4. Building'
    BY <1>1 DEF WriterInv, Building, PaymentOk, Pays, CoinsOk
  <1>5. Signed'
    BY <1>1 DEF WriterInv, Signed
  <1>6. Alone'
    BY <1>1, <1>2 DEF WriterInv, Alone, Held, nodeVars
  <1> QED
    BY <1>3, <1>4, <1>5, <1>6 DEF WriterInv

-----------------------------------------------------------------------------
(* Sizing and building.                                                    *)

LEMMA DivBounds ==
    ASSUME NEW a \in Nat, NEW r \in Nat \ {0}
    PROVE  (a \div r) * r <= a /\ a < (a \div r + 1) * r
  OBVIOUS

LEMMA ProductType ==
    ASSUME NEW a \in Nat, NEW b \in Nat
    PROVE  a * b \in Nat
  OBVIOUS

LEMMA ProductGrows ==
    ASSUME NEW a \in Nat, NEW b \in Nat, NEW c \in Nat
    PROVE  a * b <= a * (b + c)
  OBVIOUS

\* fiat_minor_to_lovelace pays the debt to the last whole lovelace.
LEMMA SizedPays ==
    ASSUME NEW net \in Nat, NEW rate \in Nat, Sizable(net, rate)
    PROVE  /\ Lovelace(net, rate) \in Nat \ {0}
           /\ Lovelace(net, rate) * rate <= net * LovelacePerAda
           /\ net * LovelacePerAda < (Lovelace(net, rate) + 1) * rate
  <1>1. LovelacePerAda \in Nat /\ MaxU64 \in Nat
    BY WalletAssumption
  <1>2. net * LovelacePerAda \in Nat
    BY <1>1, ProductType
  <1>3. rate \in Nat \ {0} /\ Lovelace(net, rate) \in 1..MaxU64
    BY DEF Sizable
  <1> QED
    BY <1>1, <1>2, <1>3, DivBounds DEF Lovelace

\* The fee of a size is a number ...
LEMMA MinFeeType ==
    ASSUME NEW size \in Nat
    PROVE  MinFee(size) \in Nat
  <1>1. FeeConstant \in Nat /\ FeeCoefficient \in Nat
    BY WalletAssumption
  <1> QED
    BY <1>1, ProductType DEF MinFee

\* The margin never makes the fee smaller.
LEMMA RequiredCovers ==
    ASSUME NEW size \in Nat
    PROVE  Required(size) \in Nat /\ Required(size) >= MinFee(size)
  <1>1. FeeConstant \in Nat /\ FeeCoefficient \in Nat /\ FeeSizeMargin \in Nat
    BY WalletAssumption
  <1>2. FeeCoefficient * size \in Nat /\ FeeCoefficient * (size + FeeSizeMargin) \in Nat
    BY <1>1, ProductType
  <1>3. FeeCoefficient * size <= FeeCoefficient * (size + FeeSizeMargin)
    BY <1>1, ProductGrows
  <1> QED
    BY <1>1, <1>2, <1>3 DEF Required, MinFee

\* ... and so is the size of a transaction.
LEMMA SizeType ==
    ASSUME NEW t, IsFiniteSet(t.inputs)
    PROVE  SizeOf(t) \in Nat
  <1>1. BaseSize \in Nat /\ InputSize \in Nat /\ OutputSize \in Nat
    BY WalletAssumption
  <1>2. Cardinality(t.inputs) \in Nat
    BY FS_CardinalityType
  <1>3. InputSize * Cardinality(t.inputs) \in Nat
    BY <1>1, <1>2, ProductType
  <1>4. \A n : Width(n) \in Nat
    BY DEF Width
  <1>5. Width(t.fee) \in Nat /\ Width(t.pay) \in Nat /\ Width(t.change) \in Nat
    BY <1>4
  <1> DEFINE ins == InputSize * Cardinality(t.inputs)
             change == IF t.change = 0 THEN 0 ELSE OutputSize + Width(t.change)
  <1>6. SizeOf(t) = BaseSize + ins + Width(t.fee) + OutputSize + Width(t.pay) + change
    BY DEF SizeOf
  <1>7. ins \in Nat /\ change \in Nat
    BY <1>1, <1>3, <1>5
  <1> HIDE DEF ins, change
  <1> QED
    BY <1>1, <1>5, <1>6, <1>7

\* A pass of the fee loop: nothing is lost between inputs, payment, change and
\* fee, and the fee is never less than the one the pass was to pay.
LEMMA AssembledOk ==
    ASSUME WriterInv, NEW w \in Writers, pc[w] = "build",
           NEW chosen \in LargestFirst(view[w], job[w].pay + fee[w]), NEW t, t = Assembled(w, chosen)
    PROVE  /\ t.inputs \subseteq view[w] /\ t.behind = behind[w]
           /\ PaymentOk(t) /\ t.change \in Nat /\ t.fee \in Nat /\ SizeOf(t) \in Nat
           /\ Balanced(t) /\ (t.change = 0 \/ t.change >= MinUtxoLovelace)
  <1>1. /\ CoinsOk(view[w]) /\ PaymentOk(job[w]) /\ fee[w] \in Nat /\ job[w].pay \in Nat \ {0}
    BY DEF WriterInv, Building, Tasks, PaymentOk
  <1>2. /\ chosen \subseteq view[w] /\ Total(chosen) >= job[w].pay + fee[w]
    BY DEF LargestFirst
  <1>3. IsFiniteSet(chosen)
    BY <1>1, <1>2, FS_Subset DEF CoinsOk
  <1>4. Total(chosen) \in Nat
    BY <1>1, <1>2, <1>3, TotalType DEF CoinsOk
  <1> DEFINE r == Total(chosen) - job[w].pay - fee[w]
  <1>5. r \in Nat
    BY <1>1, <1>2, <1>4
  <1>6. /\ t.inputs = chosen /\ t.pay = job[w].pay /\ t.debt = job[w].debt /\ t.behind = behind[w]
        /\ t.change = Change(r) /\ t.fee = fee[w] + (r - Change(r))
    BY DEF Assembled
  <1>7. /\ Change(r) \in Nat /\ r - Change(r) \in Nat
        /\ Change(r) = 0 \/ Change(r) >= MinUtxoLovelace
    BY <1>5 DEF Change
  <1>8. PaymentOk(t)
    BY <1>1, <1>6 DEF PaymentOk, Pays
  <1>9. Balanced(t)
    <2> HIDE DEF r
    <2>1. Total(chosen) = job[w].pay + fee[w] + r
      BY <1>1, <1>4 DEF r
    <2> QED
      BY <1>1, <1>4, <1>5, <1>6, <1>7, <2>1 DEF Balanced
  <1>10. SizeOf(t) \in Nat
    BY <1>3, <1>6, SizeType
  <1>11. t.fee \in Nat
    <2> HIDE DEF r
    <2> QED
      BY <1>1, <1>5, <1>6, <1>7
  <1> QED
    BY <1>2, <1>6, <1>7, <1>8, <1>9, <1>10, <1>11

-----------------------------------------------------------------------------
(* Every step keeps the invariant.                                         *)

\* A payment begins.
LEMMA BeginStep ==
    ASSUME WriterInv, NEW w \in Writers,
           BeginNotary(w) \/ \E d \in Debts : BeginSettle(w, d[1], d[2])
    PROVE  WriterInv'
  <1>0. pc[w] = "idle" /\ UNCHANGED <<nodeVars, lock, built>> /\ pc[w] \notin Held
    BY DEF BeginNotary, BeginSettle, Held
  <1>1. ASSUME NEW payment, PaymentOk(payment),
               job' = [job EXCEPT ![w] = payment], Goto(w, "query"), UNCHANGED <<buildVars, tx, result>>
        PROVE  WriterInv'
    <2>1. /\ pc'[w] = "query" /\ job'[w] = payment
          /\ \A v \in Writers \ {w} : pc'[v] = pc[v] /\ job'[v] = job[v]
          /\ UNCHANGED <<view, behind, tx>>
      BY <1>1 DEF WriterInv, Tasks, Goto, buildVars
    <2>2. Tasks'
      BY <1>0, <1>1 DEF WriterInv, Tasks, Goto, buildVars, Places, Held
    <2>3. Building'
      BY <1>1, <2>1 DEF WriterInv, Building
    <2>4. Signed'
      BY <1>0, <2>1 DEF WriterInv, Signed
    <2>5. Alone'
      BY <1>0, <2>1 DEF WriterInv, Alone, nodeVars
    <2> QED
      BY <2>2, <2>3, <2>4, <2>5 DEF WriterInv
  <1>2. CASE BeginNotary(w)
    <2> DEFINE payment == [pay |-> MinUtxoLovelace, self |-> TRUE, debt |-> None]
    <2>1. MinUtxoLovelace \in Nat \ {0}
      BY WalletAssumption
    <2>2. PaymentOk(payment)
      BY <2>1 DEF PaymentOk, Pays
    <2>3. job' = [job EXCEPT ![w] = payment] /\ Goto(w, "query") /\ UNCHANGED <<buildVars, tx, result>>
      BY <1>2 DEF BeginNotary
    <2> QED
      BY <1>1, <2>2, <2>3
  <1>3. ASSUME NEW d \in Debts, BeginSettle(w, d[1], d[2])
        PROVE  WriterInv'
    <2>1. d[1] \in Nat /\ d[2] \in Nat
      BY WalletAssumption
    <2>2. CASE ~Sizable(d[1], d[2])
      <3>1. Return(w, "sizing") /\ "sizing" \in Results
        BY <1>3, <2>2 DEF BeginSettle, Results
      <3> QED
        BY <1>0, <3>1, ReturnStep
    <2>3. CASE Sizable(d[1], d[2])
      <3> DEFINE payment == [pay |-> Lovelace(d[1], d[2]), self |-> FALSE, debt |-> <<d[1], d[2]>>]
      <3>1. PaymentOk(payment)
        BY <2>1, <2>3, SizedPays DEF PaymentOk, Pays
      <3>2. job' = [job EXCEPT ![w] = payment] /\ Goto(w, "query") /\ UNCHANGED <<buildVars, tx, result>>
        BY <1>3, <2>3 DEF BeginSettle
      <3> QED
        BY <1>1, <3>1, <3>2
    <2> QED
      BY <2>2, <2>3
  <1> QED
    BY <1>2, <1>3

\* Every early return, and the end of every submission.
LEMMA EndStep ==
    ASSUME WriterInv, NEW w \in Writers,
           \/ QueryFails(w) \/ ReadFails(w) \/ BuildFails(w) \/ BuildInsufficient(w)
           \/ SubmitAccepted(w) \/ SubmitRefused(w) \/ SubmitMismatched(w) \/ SubmitUnanswered(w)
    PROVE  WriterInv'
  <1> USE DEF Held, Results
  <1>1. \E how \in Results :
           /\ Return(w, how) /\ UNCHANGED built
           /\ IF pc[w] \in Held THEN lock' = None /\ UNCHANGED ledger ELSE UNCHANGED <<lock, nodeVars>>
    <2>1. CASE QueryFails(w)
      BY <2>1 DEF QueryFails
    <2>2. CASE ReadFails(w)
      BY <2>2 DEF ReadFails, ReturnUnlocking, nodeVars
    <2>3. CASE BuildFails(w)
      BY <2>3 DEF BuildFails, ReturnUnlocking, nodeVars
    <2>4. CASE BuildInsufficient(w)
      BY <2>4 DEF BuildInsufficient, ReturnUnlocking, nodeVars
    <2>5. CASE SubmitAccepted(w)
      BY <2>5 DEF SubmitAccepted, ReturnUnlocking
    <2>6. CASE SubmitRefused(w)
      BY <2>6 DEF SubmitRefused, ReturnUnlocking, nodeVars
    <2>7. CASE SubmitMismatched(w)
      BY <2>7 DEF SubmitMismatched, ReturnUnlocking
    <2>8. CASE SubmitUnanswered(w)
      BY <2>8 DEF SubmitUnanswered, ReturnUnlocking
    <2> QED
      BY <2>1, <2>2, <2>3, <2>4, <2>5, <2>6, <2>7, <2>8
  <1> QED
    BY <1>1, ReturnStep

\* A writer that queries or takes the lock keeps what is known of the writers.
LEMMA QueryLockStep ==
    ASSUME WriterInv, NEW w \in Writers, Query(w) \/ Lock(w)
    PROVE  WriterInv'
  <1>1. /\ pc[w] \in {"query", "lock"} /\ pc'[w] \in {"lock", "read"}
        /\ \A v \in Writers \ {w} : pc'[v] = pc[v]
        /\ UNCHANGED <<nodeVars, built, job, view, behind, tx, result, fee, pass>>
    BY DEF WriterInv, Tasks, Query, Lock, Goto, buildVars
  <1>2. Tasks'
    BY <1>1, WalletAssumption DEF WriterInv, Tasks, Query, Lock, Goto, Places, Held
  <1>3. Building'
    BY <1>1 DEF WriterInv, Building
  <1>4. Signed'
    BY <1>1 DEF WriterInv, Signed
  <1>5. Alone'
    BY <1>1 DEF WriterInv, Alone, nodeVars
  <1> QED
    BY <1>2, <1>3, <1>4, <1>5 DEF WriterInv

\* So does the UTxO read, which shows the coins as the node has them ...
LEMMA ReadStep ==
    ASSUME WriterInv, Node, NEW w \in Writers, ReadUtxos(w)
    PROVE  WriterInv'
  <1>1. /\ pc[w] = "read" /\ pc'[w] = "build"
        /\ \A v \in Writers \ {w} : pc'[v] = pc[v] /\ view'[v] = view[v] /\ behind'[v] = behind[v]
        /\ UNCHANGED <<nodeVars, built, job, tx, result, pass, lock>>
        /\ view'[w] = ParseUtxos(ledger)
    BY DEF WriterInv, Tasks, ReadUtxos, Goto
  <1>2. view'[w] \subseteq ledger
    BY <1>1 DEF ParseUtxos
  <1>3. Tasks'
    <2>1. MinFee(FirstEstimate) \in Nat
      BY MinFeeType, WalletAssumption
    <2> QED
      BY <2>1 DEF WriterInv, Tasks, ReadUtxos, Goto, Places, Held
  <1>4. Building'
    <2>1. CoinsOk(view'[w])
      <3>1. IsFiniteSet(view'[w])
        BY <1>2, FS_Subset DEF Node, CoinsOk
      <3> QED
        BY <1>2, <3>1 DEF Node, CoinsOk
    <2> QED
      BY <1>1, <2>1 DEF WriterInv, Building
  <1>5. Signed'
    BY <1>1 DEF WriterInv, Signed
  <1>6. Alone'
    <2>1. behind'[w] = (mempool \cup inflight # {})
      BY DEF WriterInv, Tasks, ReadUtxos
    <2>2. ~behind'[w] => mempool = {} /\ inflight = {}
      BY <2>1
    <2> QED
      BY <1>1, <1>2, <2>2 DEF WriterInv, Alone, nodeVars
  <1> QED
    BY <1>3, <1>4, <1>5, <1>6 DEF WriterInv

\* ... and a pass of the fee loop.
LEMMA BuildStep ==
    ASSUME WriterInv, Node, NEW w \in Writers, BuildPass(w)
    PROVE  WriterInv' /\ Node'
  <1>1. PICK chosen \in LargestFirst(view[w], job[w].pay + fee[w]) :
           BuildTooLarge(w, Assembled(w, chosen)) \/ BuildDone(w, Assembled(w, chosen))
             \/ BuildUnderpaid(w, Assembled(w, chosen))
    BY DEF BuildPass
  <1>2. pc[w] = "build" /\ UNCHANGED <<nodeVars, refused>>
    BY DEF BuildPass
  <1>3. PICK t : t = Assembled(w, chosen)
    OBVIOUS
  <1>4. /\ t.inputs \subseteq view[w] /\ t.behind = behind[w]
        /\ PaymentOk(t) /\ t.change \in Nat /\ t.fee \in Nat /\ SizeOf(t) \in Nat
        /\ Balanced(t) /\ (t.change = 0 \/ t.change >= MinUtxoLovelace)
    BY <1>2, <1>3, AssembledOk
  <1>5. ASSUME NEW how \in Results, ReturnUnlocking(w, how), UNCHANGED built
        PROVE  WriterInv' /\ Node'
    <2>1. WriterInv'
      BY <1>2, <1>5, ReturnStep DEF ReturnUnlocking, nodeVars, Held
    <2>2. Node'
      BY <1>2, <1>5 DEF Node, nodeVars
    <2> QED
      BY <2>1, <2>2
  <1>6. CASE BuildTooLarge(w, t)
    BY <1>5, <1>6 DEF BuildTooLarge, Results
  <1>7. CASE BuildDone(w, t)
    <2>1. /\ pc'[w] = "submit" /\ tx'[w] = t /\ built' = built \cup {t}
          /\ \A v \in Writers \ {w} : pc'[v] = pc[v] /\ tx'[v] = tx[v]
          /\ UNCHANGED <<lock, job, view, behind, fee, pass, result>>
      BY <1>7 DEF WriterInv, Tasks, BuildDone, Goto, buildVars
    <2>2. Tasks'
      BY <1>2, <1>7 DEF WriterInv, Tasks, BuildDone, Goto, buildVars, Places, Held
    <2>3. Building'
      BY <1>2, <2>1 DEF WriterInv, Building
    <2>4. Signed'
      BY <1>4, <2>1 DEF WriterInv, Signed
    <2>5. Alone'
      BY <1>2, <2>1 DEF WriterInv, Alone, nodeVars
    <2>6. Valid(t)
      <3>1. t.fee >= Required(SizeOf(t))
        BY <1>7 DEF BuildDone
      <3>2. t.fee >= MinFee(SizeOf(t))
        BY <1>4, <3>1, RequiredCovers, MinFeeType
      <3> QED
        BY <1>4, <3>2 DEF Valid, WellFormed
    <2>7. Node'
      BY <1>2, <1>4, <2>1, <2>6 DEF Node, nodeVars
    <2> QED
      BY <2>2, <2>3, <2>4, <2>5, <2>7 DEF WriterInv
  <1>8. CASE BuildUnderpaid(w, t)
    <2>1. CASE pass[w] + 1 = MaxFeeIters
      BY <1>5, <1>8, <2>1 DEF BuildUnderpaid, Results
    <2>2. CASE pass[w] + 1 # MaxFeeIters
      <3>1. /\ fee' = [fee EXCEPT ![w] = NextFee(w, t)]
            /\ pass' = [pass EXCEPT ![w] = @ + 1]
            /\ UNCHANGED <<lock, pc, job, view, behind, tx, result, built>>
        BY <1>8, <2>2 DEF BuildUnderpaid
      <3>2. Tasks'
        <4>1. NextFee(w, t) \in Nat
          BY <1>4, RequiredCovers DEF NextFee
        <4>2. pass[w] + 1 \in 0..(MaxFeeIters - 1)
          BY <2>2, WalletAssumption DEF WriterInv, Tasks
        <4> QED
          BY <3>1, <4>1, <4>2 DEF WriterInv, Tasks
      <3>3. Building' /\ Signed'
        BY <3>1 DEF WriterInv, Building, Signed
      <3>4. Alone'
        BY <1>2, <3>1 DEF WriterInv, Alone, nodeVars
      <3>5. Node'
        BY <1>2, <3>1 DEF Node, nodeVars
      <3> QED
        BY <3>2, <3>3, <3>4, <3>5 DEF WriterInv
    <2> QED
      BY <2>1, <2>2
  <1> QED
    BY <1>1, <1>3, <1>6, <1>7, <1>8

\* A submission moves what was built from the writer to the node.
LEMMA SubmitNode ==
    ASSUME WriterInv, Node, NEW w \in Writers,
           SubmitAccepted(w) \/ SubmitRefused(w) \/ SubmitMismatched(w) \/ SubmitUnanswered(w)
    PROVE  Node'
  <1>1. tx[w] \in built /\ UNCHANGED <<ledger, built>>
    BY DEF WriterInv, Signed, SubmitAccepted, SubmitRefused, SubmitMismatched, SubmitUnanswered, nodeVars
  <1>2. /\ mempool' \subseteq mempool \cup {tx[w]} /\ inflight' \subseteq inflight \cup {tx[w]}
        /\ refused' \subseteq refused \cup {tx[w]}
    BY DEF SubmitAccepted, SubmitRefused, SubmitMismatched, SubmitUnanswered, nodeVars
  <1> QED
    BY <1>1, <1>2 DEF Node

\* The other steps of a writer leave the node alone.
LEMMA QuietNode ==
    ASSUME Node, UNCHANGED <<nodeVars, refused, built>>
    PROVE  Node'
  BY DEF Node, nodeVars

\* The node works on a payment, which then was or is under way.
LEMMA NodeMoves ==
    ASSUME WriterInv, Node, NodeStep
    PROVE  WriterInv' /\ Node'
  <1>1. UNCHANGED <<taskVars, refused, built>>
    BY DEF NodeStep, LateSubmit, Include, Expire
  <1>2. Tasks' /\ Building' /\ Signed'
    BY <1>1 DEF WriterInv, Tasks, Building, Signed, taskVars, buildVars
  <1>3. mempool \cup inflight # {}
    BY DEF NodeStep
  <1>4. Alone'
    BY <1>1, <1>3 DEF WriterInv, Alone, taskVars, buildVars
  <1>5. mempool' \subseteq mempool \cup inflight /\ inflight' \subseteq inflight
    BY DEF NodeStep, LateSubmit, Include, Expire
  <1>6. CoinsOk(ledger')
    <2>1. ASSUME NEW t \in mempool, Include(t)
          PROVE  CoinsOk(ledger')
      <3>1. t.pay \in Nat \ {0} /\ t.change \in Nat
        BY DEF Node, PaymentOk
      <3> DEFINE kept == ledger \ t.inputs
                 own == IF t.self THEN {Coin(t, 1, t.pay)} ELSE {}
                 change == IF t.change = 0 THEN {} ELSE {Coin(t, 2, t.change)}
      <3>2. ledger' = kept \cup own \cup change
        BY <2>1 DEF Include
      <3>3. IsFiniteSet(kept) /\ \A c \in kept : c.lovelace \in Nat \ {0}
        <4>1. kept \in SUBSET ledger /\ IsFiniteSet(ledger)
          BY DEF Node, CoinsOk
        <4> QED
          BY <4>1, FS_Subset DEF Node, CoinsOk
      <3>4. IsFiniteSet(own) /\ \A c \in own : c.lovelace \in Nat \ {0}
        <4>1. Coin(t, 1, t.pay).lovelace = t.pay
          BY DEF Coin
        <4>2. IsFiniteSet(own)
          BY FS_Singleton, FS_EmptySet
        <4>3. \A c \in own : c.lovelace = t.pay
          BY <4>1
        <4> QED
          BY <3>1, <4>2, <4>3
      <3>5. IsFiniteSet(change) /\ \A c \in change : c.lovelace \in Nat \ {0}
        <4>1. Coin(t, 2, t.change).lovelace = t.change
          BY DEF Coin
        <4>2. IsFiniteSet(change)
          BY FS_Singleton, FS_EmptySet
        <4>3. \A c \in change : c.lovelace = t.change /\ t.change # 0
          BY <4>1
        <4> QED
          BY <3>1, <4>2, <4>3
      <3>6. IsFiniteSet(kept \cup own \cup change)
        <4> HIDE DEF kept, own, change
        <4>1. IsFiniteSet(kept \cup own)
          BY <3>3, <3>4, FS_Union
        <4> QED
          BY <3>5, <4>1, FS_Union
      <3>7. \A c \in kept \cup own \cup change : c.lovelace \in Nat \ {0}
        <4> HIDE DEF kept, own, change
        <4> QED
          BY <3>3, <3>4, <3>5
      <3> QED
        BY <3>2, <3>6, <3>7 DEF CoinsOk
    <2>2. CASE UNCHANGED ledger
      BY <2>2 DEF Node, CoinsOk
    <2> QED
      BY <2>1, <2>2 DEF NodeStep, LateSubmit, Expire
  <1>7. Node'
    BY <1>1, <1>5, <1>6 DEF Node
  <1> QED
    BY <1>2, <1>4, <1>7 DEF WriterInv

\* A restart leaves no writer, and the submissions under way to the node.
LEMMA CrashStep ==
    ASSUME WriterInv, Node, Crash
    PROVE  WriterInv' /\ Node'
  <1>1. Tasks'
    <2>1. MaxFeeIters - 1 \in Nat /\ None \notin Writers
      BY WalletAssumption
    <2> QED
      BY <2>1 DEF Crash, Tasks, Places, Results, Held
  <1>2. \A w \in Writers : pc'[w] = "idle"
    BY DEF Crash
  <1>3. Building' /\ Signed' /\ Alone'
    BY <1>2 DEF Building, Signed, Alone
  <1>4. Node'
    <2>1. PICK sent \in SUBSET {tx[w] : w \in {v \in Writers : pc[v] = "submit"}} :
             inflight' = inflight \cup sent
      BY DEF Crash
    <2>2. sent \subseteq built
      BY DEF WriterInv, Signed
    <2>3. UNCHANGED <<ledger, mempool, refused, built>>
      BY DEF Crash
    <2> QED
      BY <2>1, <2>2, <2>3 DEF Node
  <1> QED
    BY <1>1, <1>3, <1>4 DEF WriterInv

\* A refusal has one of two reasons left.
LEMMA RefusalExplained ==
    ASSUME WriterInv, Node, RefusedOnlyBehindAnother, NEW w \in Writers, SubmitRefused(w)
    PROVE  RefusedOnlyBehindAnother'
  <1> DEFINE t == tx[w]
  <1>1. pc[w] = "submit" /\ ~Acceptable(t) /\ refused' = refused \cup {t}
    BY DEF SubmitRefused
  <1>2. t \in built /\ t.inputs \subseteq view[w] /\ t.behind = behind[w]
    BY <1>1 DEF WriterInv, Signed
  <1>3. WellFormed(t) /\ (t.change = 0 \/ t.change >= MinUtxoLovelace) /\ t.change \in Nat /\ t.pay \in Nat
    BY <1>2 DEF Node, Valid, PaymentOk
  <1>4. ~t.behind => t.inputs \subseteq ledger /\ mempool = {}
    BY <1>1, <1>2 DEF WriterInv, Alone
  <1>5. ~t.behind => \E out \in Outputs(t) : ~(out >= LedgerMin)
    <2> HIDE DEF t
    <2> QED
      BY <1>1, <1>3, <1>4 DEF Acceptable
  <1>6. ~t.behind => t.pay < LedgerMin
    <2> HIDE DEF t
    <2>1. LedgerMin \in Nat /\ MinUtxoLovelace \in Nat /\ LedgerMin <= MinUtxoLovelace
      BY WalletAssumption
    <2>2. t.change >= MinUtxoLovelace => t.change >= LedgerMin
      BY <1>3, <2>1
    <2>3. \A out \in Outputs(t) : out = t.pay \/ (out = t.change /\ t.change # 0)
      BY DEF Outputs
    <2>4. ~t.behind => ~(t.pay >= LedgerMin)
      BY <1>3, <1>5, <2>2, <2>3
    <2>5. ~(t.pay >= LedgerMin) => t.pay < LedgerMin
      BY <1>3, <2>1
    <2> QED
      BY <2>4, <2>5
  <1> QED
    BY <1>1, <1>6 DEF RefusedOnlyBehindAnother

WalletInv == Counts /\ WriterInv /\ Node

\* Payments and faults are counted within their bounds.
LEMMA CountsStep ==
    ASSUME Counts, Next
    PROVE  Counts'
  <1>1. started' \in {started, started + 1} /\ (started' # started => started < MaxTxs)
    BY DEF Next, WriterStep, NodeStep, BeginNotary, BeginSettle, Query, QueryFails, Lock, ReadUtxos,
       ReadFails, BuildFails, BuildInsufficient, BuildPass, SubmitAccepted, SubmitRefused,
       SubmitMismatched, SubmitUnanswered, LateSubmit, Include, Expire, Crash
  <1>2. faults' \in {faults, faults + 1} /\ (faults' # faults => faults < MaxFaults)
    BY DEF Next, WriterStep, NodeStep, BeginNotary, BeginSettle, Query, QueryFails, Lock, ReadUtxos,
       ReadFails, BuildFails, BuildInsufficient, BuildPass, SubmitAccepted, SubmitRefused,
       SubmitMismatched, SubmitUnanswered, LateSubmit, Include, Expire, Crash, Fault
  <1>3. MaxTxs \in Nat /\ MaxFaults \in Nat
    BY WalletAssumption
  <1> QED
    BY <1>1, <1>2, <1>3 DEF Counts

\* Every step keeps the invariant, and refuses only behind another payment.
LEMMA WalletStep ==
    ASSUME WalletInv, [Next]_vars
    PROVE  WalletInv' /\ (RefusedOnlyBehindAnother => RefusedOnlyBehindAnother')
  <1> USE DEF WalletInv
  <1>1. CASE UNCHANGED vars
    BY <1>1 DEF Counts, WriterInv, Tasks, Building, Signed, Alone, Node, RefusedOnlyBehindAnother, vars,
       nodeVars, taskVars, buildVars
  <1>2. Next => Counts'
    BY CountsStep
  <1>3. ASSUME NEW w \in Writers, BeginNotary(w) \/ \E d \in Debts : BeginSettle(w, d[1], d[2])
        PROVE  WriterInv' /\ Node' /\ UNCHANGED refused
    BY <1>3, BeginStep, QuietNode DEF BeginNotary, BeginSettle
  <1>4. ASSUME NEW w \in Writers, QueryFails(w) \/ ReadFails(w) \/ BuildFails(w) \/ BuildInsufficient(w)
        PROVE  WriterInv' /\ Node' /\ UNCHANGED refused
    BY <1>4, EndStep, QuietNode DEF QueryFails, ReadFails, BuildFails, BuildInsufficient
  <1>5. ASSUME NEW w \in Writers, Query(w) \/ Lock(w)
        PROVE  WriterInv' /\ Node' /\ UNCHANGED refused
    BY <1>5, QueryLockStep, QuietNode DEF Query, Lock
  <1>6. ASSUME NEW w \in Writers, ReadUtxos(w)
        PROVE  WriterInv' /\ Node' /\ UNCHANGED refused
    BY <1>6, ReadStep, QuietNode DEF ReadUtxos
  <1>7. ASSUME NEW w \in Writers, BuildPass(w)
        PROVE  WriterInv' /\ Node' /\ UNCHANGED refused
    BY <1>7, BuildStep DEF BuildPass
  <1>8. ASSUME NEW w \in Writers, SubmitAccepted(w) \/ SubmitMismatched(w) \/ SubmitUnanswered(w)
        PROVE  WriterInv' /\ Node' /\ UNCHANGED refused
    BY <1>8, EndStep, SubmitNode DEF SubmitAccepted, SubmitMismatched, SubmitUnanswered
  <1>9. ASSUME NEW w \in Writers, SubmitRefused(w)
        PROVE  WriterInv' /\ Node' /\ (RefusedOnlyBehindAnother => RefusedOnlyBehindAnother')
    BY <1>9, EndStep, SubmitNode, RefusalExplained
  <1>10. CASE NodeStep
    <2>1. UNCHANGED refused
      BY <1>10 DEF NodeStep, LateSubmit, Include, Expire
    <2> QED
      BY <1>2, <1>10, <2>1, NodeMoves DEF Next, RefusedOnlyBehindAnother
  <1>11. CASE Crash
    <2>1. UNCHANGED refused
      BY <1>11 DEF Crash
    <2> QED
      BY <1>2, <1>11, <2>1, CrashStep DEF Next, RefusedOnlyBehindAnother
  <1>12. UNCHANGED refused => (RefusedOnlyBehindAnother => RefusedOnlyBehindAnother')
    BY DEF RefusedOnlyBehindAnother
  <1> QED
    BY <1>1, <1>2, <1>3, <1>4, <1>5, <1>6, <1>7, <1>8, <1>9, <1>10, <1>11, <1>12 DEF Next, WriterStep

\* The invariant holds at first ...
LEMMA WalletStart == Init => WalletInv /\ RefusedOnlyBehindAnother
  <1> SUFFICES ASSUME Init PROVE WalletInv /\ RefusedOnlyBehindAnother
    OBVIOUS
  <1>1. Counts /\ MaxFeeIters - 1 \in Nat
    BY WalletAssumption DEF Init, Counts
  <1>2. Tasks
    BY <1>1, WalletAssumption DEF Init, Tasks, Places, Results, Held
  <1>3. Building /\ Signed /\ Alone
    BY DEF Init, Building, Signed, Alone
  <1>4. Node
    BY WalletAssumption DEF Init, Node, CoinsOk
  <1> QED
    BY <1>1, <1>2, <1>3, <1>4 DEF Init, WalletInv, WriterInv, RefusedOnlyBehindAnother

\* ... and so always.
LEMMA WalletAlways == Spec => [](WalletInv /\ RefusedOnlyBehindAnother)
  <1>1. (WalletInv /\ RefusedOnlyBehindAnother) /\ [Next]_vars => (WalletInv /\ RefusedOnlyBehindAnother)'
    BY WalletStep
  <1> QED
    BY <1>1, WalletStart, PTL DEF Spec

-----------------------------------------------------------------------------
(* The fee loop's convergence.  A pass is underpaid again only if the fee  *)
(* has grown wider in CBOR or an input has been added since the last one,  *)
(* and an input is added once.                                             *)

\* The transaction that a pass assembles, as far as its size depends on it.
Payment(pay, f, chosen) ==
    LET remainder == Total(chosen) - pay - f IN
    [inputs |-> chosen, pay |-> pay, change |-> Change(remainder),
     fee |-> f + (remainder - Change(remainder))]

\* The pass that selects these coins is the last one.
Settled(pay, f, chosen) ==
    Payment(pay, f, chosen).fee >= Required(SizeOf(Payment(pay, f, chosen)))

MaxFee == Required(MaxTxSize)

\* The chosen coins cover every fee there is.
Roomy(pay, chosen) == Total(chosen) >= pay + MaxFee

\* How many of CBOR's integer sizes are smaller than the one n takes.
Level(n) == CASE Width(n) = 1 -> 0
              [] Width(n) = 2 -> 1
              [] Width(n) = 3 -> 2
              [] Width(n) = 5 -> 3
              [] OTHER -> 4

\* What has been grown so far bounds the passes made so far.
Paced(pay, f, n, chosen) ==
    Settled(pay, f, chosen) \/ n <= Level(f) + (IF Roomy(pay, chosen) THEN 1 ELSE 0)

Ample(coins) == \A c \in coins : c.lovelace >= LedgerMin

FeeLoop ==
    \A w \in Writers :
        /\ result[w] # "did not converge"
        /\ pc[w] \notin {"build", "submit"} => pass[w] = 0
        /\ pc[w] = "build" =>
              /\ fee[w] >= FeeConstant /\ Ample(view[w])
              /\ \A chosen \in LargestFirst(view[w], job[w].pay + fee[w]) :
                    Paced(job[w].pay, fee[w], pass[w], chosen)

\* The ledger holds no coin below its minimum, and is asked to create none.
Minima ==
    /\ Ample(ledger)
    /\ \A t \in mempool : \A out \in Outputs(t) : out >= LedgerMin

\* Fewer coins than largest-first selection takes do not reach the target, and
\* are worth a coin less.
LEMMA FewerCoins ==
    ASSUME NEW V, CoinsOk(V), NEW T \in Nat, NEW C \in LargestFirst(V, T),
           NEW D \in SUBSET V, Cardinality(D) < Cardinality(C)
    PROVE  Total(D) < T /\ \E c \in C : Total(D) + c.lovelace <= Total(C)
  <1>1. PICK c \in C : (\A d \in C : c.lovelace <= d.lovelace) /\ Total(C \ {c}) < T
    BY DEF LargestFirst
  <1>2. C \in SUBSET V /\ \A x \in C, y \in V \ C : x.lovelace >= y.lovelace
    BY DEF LargestFirst
  <1>3. IsFiniteSet(V) /\ \A x \in V : x.lovelace \in Nat
    BY DEF CoinsOk
  <1> DEFINE R == C \ {c}
  <1>4. R \in SUBSET V /\ IsFiniteSet(C) /\ IsFiniteSet(D) /\ IsFiniteSet(R)
    BY <1>2, <1>3, FS_Subset
  <1>5. Cardinality(D) <= Cardinality(R)
    <2>1. Cardinality(R) = Cardinality(C) - 1
      BY <1>4, FS_RemoveElement
    <2>2. Cardinality(D) \in Nat /\ Cardinality(C) \in Nat
      BY <1>4, FS_CardinalityType
    <2> QED
      BY <2>1, <2>2
  <1>6. \A x \in D \ R, y \in R \ D : x.lovelace <= y.lovelace
    <2> SUFFICES ASSUME NEW x \in D \ R, NEW y \in R \ D PROVE x.lovelace <= y.lovelace
      OBVIOUS
    <2>1. x.lovelace \in Nat /\ y.lovelace \in Nat /\ y \in C
      BY <1>2, <1>3
    <2>2. CASE x = c
      BY <1>1, <2>1, <2>2
    <2>3. CASE x # c
      BY <1>2, <2>1, <2>3
    <2> QED
      BY <2>2, <2>3
  <1>7. Total(D) <= Total(R)
    <2> HIDE DEF R
    <2> QED
      BY <1>3, <1>4, <1>5, <1>6, TotalCompare
  <1>8. Total(C) = c.lovelace + Total(R) /\ c.lovelace \in Nat
    BY <1>2, <1>3, <1>4, TotalRemove
  <1>9. Total(D) \in Nat /\ Total(R) \in Nat
    BY <1>3, <1>4, TotalType
  <1> QED
    BY <1>1, <1>7, <1>8, <1>9

\* A larger target selects coins of the same number and worth while these reach
\* it, and then at least one coin more.
LEMMA SelectAgain ==
    ASSUME NEW V, CoinsOk(V), NEW T \in Nat, NEW U \in Nat, T <= U,
           NEW C \in LargestFirst(V, T), NEW D \in LargestFirst(V, U)
    PROVE  /\ Total(C) >= U => Cardinality(C) = Cardinality(D) /\ Total(C) = Total(D)
           /\ Total(C) < U => \E d \in D : Total(C) + d.lovelace <= Total(D)
  <1>1. IsFiniteSet(V) /\ \A x \in V : x.lovelace \in Nat
    BY DEF CoinsOk
  <1>2. /\ C \in SUBSET V /\ Total(C) >= T /\ \A x \in C, y \in V \ C : x.lovelace >= y.lovelace
        /\ D \in SUBSET V /\ Total(D) >= U /\ \A x \in D, y \in V \ D : x.lovelace >= y.lovelace
    BY DEF LargestFirst
  <1>3. IsFiniteSet(C) /\ IsFiniteSet(D)
    BY <1>1, <1>2, FS_Subset
  <1>4. Total(C) \in Nat /\ Total(D) \in Nat /\ Cardinality(C) \in Nat /\ Cardinality(D) \in Nat
    BY <1>1, <1>2, <1>3, FS_CardinalityType, TotalType
  <1>5. Cardinality(D) <= Cardinality(C) => Total(D) <= Total(C)
    <2>1. \A x \in D \ C, y \in C \ D : x.lovelace <= y.lovelace
      BY <1>1, <1>2
    <2> QED
      BY <1>1, <1>2, <2>1, TotalCompare
  <1>6. Cardinality(C) <= Cardinality(D) => Total(C) <= Total(D)
    <2>1. \A x \in C \ D, y \in D \ C : x.lovelace <= y.lovelace
      BY <1>1, <1>2
    <2> QED
      BY <1>1, <1>2, <2>1, TotalCompare
  <1>7. Cardinality(D) < Cardinality(C) => Total(D) < T
    BY <1>2, FewerCoins
  <1>8. Cardinality(C) < Cardinality(D) => Total(C) < U /\ \E d \in D : Total(C) + d.lovelace <= Total(D)
    BY <1>2, FewerCoins
  <1>9. Cardinality(C) <= Cardinality(D)
    BY <1>2, <1>4, <1>7
  <1>10. CASE Total(C) >= U
    <2>1. ~(Cardinality(C) < Cardinality(D))
      BY <1>4, <1>8, <1>10
    <2>2. Cardinality(C) = Cardinality(D)
      BY <1>4, <1>9, <2>1
    <2>3. Total(C) = Total(D)
      BY <1>4, <1>5, <1>6, <2>2
    <2>4. ~(Total(C) < U)
      BY <1>4, <1>10
    <2> QED
      BY <2>2, <2>3, <2>4
  <1>11. CASE Total(C) < U
    <2>1. ~(Cardinality(D) <= Cardinality(C))
      BY <1>2, <1>4, <1>5, <1>11
    <2>2. Cardinality(C) < Cardinality(D)
      BY <1>4, <2>1
    <2>3. ~(Total(C) >= U)
      BY <1>4, <1>11
    <2> QED
      BY <1>8, <2>2, <2>3
  <1> QED
    BY <1>4, <1>10, <1>11

\* CBOR encodes an integer in one to nine bytes ...
LEMMA WidthBounds ==
    ASSUME NEW n \in Nat
    PROVE  Width(n) \in 1..9
  BY DEF Width

\* ... and never a larger one in fewer.
LEMMA WidthGrows ==
    ASSUME NEW n \in Nat, NEW k \in Nat, n <= k
    PROVE  Width(n) <= Width(k) /\ Level(n) \in 0..4 /\ Level(n) <= Level(k)
           /\ (Level(n) = Level(k) => Width(n) = Width(k))
  <1>1. n \div 65536 \in Nat /\ k \div 65536 \in Nat /\ n \div 65536 <= k \div 65536
    OBVIOUS
  <1>2. Width(n) \in {1, 2, 3, 5, 9} /\ Width(k) \in {1, 2, 3, 5, 9} /\ Width(n) <= Width(k)
    BY <1>1 DEF Width
  <1> QED
    BY <1>2 DEF Level

\* A larger transaction is never required to pay less.
LEMMA RequiredGrows ==
    ASSUME NEW a \in Nat, NEW b \in Nat, a <= b
    PROVE  Required(a) \in Nat /\ Required(b) \in Nat /\ Required(a) <= Required(b)
  <1>1. FeeConstant \in Nat /\ FeeCoefficient \in Nat /\ FeeSizeMargin \in Nat
    BY WalletAssumption
  <1>2. a + FeeSizeMargin \in Nat /\ b + FeeSizeMargin \in Nat /\ b - a \in Nat
    BY <1>1
  <1>3. b + FeeSizeMargin = (a + FeeSizeMargin) + (b - a)
    BY <1>1
  <1>4. FeeCoefficient * (a + FeeSizeMargin) <= FeeCoefficient * (b + FeeSizeMargin)
    BY <1>1, <1>2, <1>3, ProductGrows
  <1>5. FeeCoefficient * (a + FeeSizeMargin) \in Nat /\ FeeCoefficient * (b + FeeSizeMargin) \in Nat
    BY <1>1, <1>2, ProductType
  <1> QED
    BY <1>1, <1>4, <1>5 DEF Required, MinFee

\* What a pass builds from these coins balances.
LEMMA PaymentIs ==
    ASSUME NEW pay \in Nat, NEW f \in Nat, NEW chosen, Total(chosen) \in Nat, Total(chosen) >= pay + f
    PROVE  LET r == Total(chosen) - pay - f
               t == Payment(pay, f, chosen) IN
           /\ r \in Nat /\ t.inputs = chosen /\ t.pay = pay
           /\ r >= MinUtxoLovelace => t.change = r /\ r # 0 /\ t.fee = f
           /\ ~(r >= MinUtxoLovelace) => t.change = 0 /\ t.fee = f + r
           /\ t.fee \in Nat /\ t.fee >= f
  <1> DEFINE r == Total(chosen) - pay - f
             t == Payment(pay, f, chosen)
  <1>1. r \in Nat /\ MinUtxoLovelace \in Nat /\ MinUtxoLovelace # 0
    BY WalletAssumption
  <1>2. t.inputs = chosen /\ t.pay = pay /\ t.change = Change(r) /\ t.fee = f + (r - Change(r))
    BY DEF Payment
  <1> HIDE DEF r, t
  <1>3. r >= MinUtxoLovelace => t.change = r /\ r # 0 /\ t.fee = f
    BY <1>1, <1>2 DEF Change
  <1>4. ~(r >= MinUtxoLovelace) => t.change = 0 /\ t.fee = f + r
    BY <1>1, <1>2 DEF Change
  <1>5. t.fee \in Nat /\ t.fee >= f
    BY <1>1, <1>3, <1>4
  <1> QED
    BY <1>1, <1>2, <1>3, <1>4, <1>5 DEF r, t

\* Built again from as many coins of the same worth, with the fee its size
\* requires and that fee no wider than before, a transaction has not grown.
LEMMA SameCoinsSettle ==
    ASSUME NEW pay \in Nat, NEW f \in Nat, NEW g \in Nat, f < g, Level(f) = Level(g),
           NEW C, NEW D, IsFiniteSet(C), IsFiniteSet(D), Cardinality(C) = Cardinality(D),
           Total(C) = Total(D), Total(C) \in Nat, Total(C) >= pay + g,
           Payment(pay, f, C).fee < g, g = Required(SizeOf(Payment(pay, f, C)))
    PROVE  Settled(pay, g, D)
  <1> DEFINE P == Payment(pay, f, C)
             Q == Payment(pay, g, D)
             r == Total(C) - pay - f
             q == Total(D) - pay - g
  <1>1. /\ r \in Nat /\ P.inputs = C /\ P.pay = pay
        /\ r >= MinUtxoLovelace => P.change = r /\ r # 0 /\ P.fee = f
        /\ ~(r >= MinUtxoLovelace) => P.change = 0 /\ P.fee = f + r
    <2>1. Total(C) >= pay + f
      OBVIOUS
    <2> QED
      BY <2>1, PaymentIs
  <1>2. /\ q \in Nat /\ Q.inputs = D /\ Q.pay = pay
        /\ q >= MinUtxoLovelace => Q.change = q /\ q # 0 /\ Q.fee = g
        /\ ~(q >= MinUtxoLovelace) => Q.change = 0 /\ Q.fee = g + q
        /\ Q.fee \in Nat /\ Q.fee >= g
    BY PaymentIs
  <1>3. q <= r /\ f + r >= g
    OBVIOUS
  <1>4. SizeOf(P) \in Nat /\ SizeOf(Q) \in Nat
    BY <1>1, <1>2, SizeType
  <1>5. P.fee < g /\ g = Required(SizeOf(P))
    OBVIOUS
  <1>6. Settled(pay, g, D) <=> Q.fee >= Required(SizeOf(Q))
    BY DEF Settled
  <1> HIDE DEF P, Q, r, q
  <1>7. P.change = r /\ r # 0 /\ P.fee = f
    BY <1>1, <1>3, <1>5
  <1> DEFINE ins == InputSize * Cardinality(C)
  <1>8. BaseSize \in Nat /\ OutputSize \in Nat /\ 8 <= OutputSize /\ ins \in Nat
    <2>1. InputSize \in Nat /\ Cardinality(C) \in Nat
      BY WalletAssumption, FS_CardinalityType
    <2> QED
      BY <2>1, ProductType, WalletAssumption, FeeLoopAssumption
  <1>9. SizeOf(P) = BaseSize + ins + Width(f) + OutputSize + Width(pay) + (OutputSize + Width(r))
    BY <1>1, <1>7 DEF SizeOf
  <1>10. SizeOf(Q) = BaseSize + ins + Width(Q.fee) + OutputSize + Width(pay)
                      + (IF Q.change = 0 THEN 0 ELSE OutputSize + Width(Q.change))
    BY <1>2 DEF SizeOf
  <1>11. Width(f) \in 1..9 /\ Width(Q.fee) \in 1..9 /\ Width(pay) \in 1..9 /\ Width(r) \in 1..9 /\ Width(q) \in 1..9
    BY <1>1, <1>2, WidthBounds
  <1>12. Width(g) = Width(f) /\ Width(q) <= Width(r)
    BY <1>1, <1>2, <1>3, WidthGrows
  <1> HIDE DEF ins
  <1>13. SizeOf(Q) <= SizeOf(P)
    <2>1. CASE q >= MinUtxoLovelace
      <3>1. SizeOf(Q) = BaseSize + ins + Width(f) + OutputSize + Width(pay) + (OutputSize + Width(q))
        BY <1>2, <1>10, <1>12, <2>1
      <3> QED
        BY <1>8, <1>9, <1>11, <1>12, <3>1
    <2>2. CASE ~(q >= MinUtxoLovelace)
      <3>1. SizeOf(Q) = BaseSize + ins + Width(Q.fee) + OutputSize + Width(pay) + 0
        BY <1>2, <1>10, <2>2
      <3> QED
        BY <1>8, <1>9, <1>11, <3>1
    <2> QED
      BY <2>1, <2>2
  <1>14. Required(SizeOf(Q)) \in Nat /\ Required(SizeOf(Q)) <= g
    BY <1>4, <1>5, <1>13, RequiredGrows
  <1> QED
    BY <1>2, <1>6, <1>14

\* An underpaid pass leaves the next one paced, and there were fewer than six
\* before it.
LEMMA PassPaced ==
    ASSUME NEW V, CoinsOk(V), Ample(V), NEW pay \in Nat, NEW f \in Nat, f >= FeeConstant, NEW n \in Nat,
           NEW C \in LargestFirst(V, pay + f), Paced(pay, f, n, C), NEW size \in Nat,
           size = SizeOf(Payment(pay, f, C)), size <= MaxTxSize, ~Settled(pay, f, C)
    PROVE  /\ n <= 5 /\ Required(size) \in Nat /\ Required(size) >= FeeConstant
           /\ \A D \in LargestFirst(V, pay + Required(size)) : Paced(pay, Required(size), n + 1, D)
  <1> DEFINE g == Required(size)
             P == Payment(pay, f, C)
  <1>1. IsFiniteSet(V) /\ \A c \in V : c.lovelace \in Nat /\ c.lovelace >= LedgerMin
    BY DEF CoinsOk, Ample
  <1>2. C \in SUBSET V /\ Total(C) >= pay + f
    BY DEF LargestFirst
  <1>3. IsFiniteSet(C) /\ Total(C) \in Nat
    <2>1. IsFiniteSet(C)
      BY <1>1, <1>2, FS_Subset
    <2> QED
      BY <1>1, <1>2, <2>1, TotalType
  <1>4. P.fee \in Nat /\ P.fee >= f
    BY <1>2, <1>3, PaymentIs
  <1>5. /\ FeeConstant \in Nat /\ LedgerMin \in Nat /\ MaxTxSize \in Nat
        /\ g \in Nat /\ MaxFee \in Nat /\ g <= MaxFee /\ MaxFee <= FeeConstant + LedgerMin
    <2>1. FeeConstant \in Nat /\ LedgerMin \in Nat /\ MaxTxSize \in Nat
      BY WalletAssumption
    <2>2. g \in Nat /\ MaxFee \in Nat /\ g <= MaxFee
      BY <2>1, RequiredGrows DEF MaxFee
    <2>3. FeeCoefficient * (MaxTxSize + FeeSizeMargin) \in Nat
      BY WalletAssumption, ProductType
    <2>4. MaxFee <= FeeConstant + LedgerMin
      BY <2>1, <2>3, FeeLoopAssumption DEF MaxFee, Required, MinFee
    <2> QED
      BY <2>1, <2>2, <2>4
  <1>6. P.fee < g /\ f < g
    <2>1. ~(P.fee >= g)
      BY DEF Settled
    <2> QED
      BY <1>4, <1>5, <2>1
  <1>7. Level(f) \in 0..4 /\ Level(g) \in 0..4 /\ Level(f) <= Level(g)
    BY <1>5, <1>6, WidthGrows
  <1> DEFINE room(S) == IF Roomy(pay, S) THEN 1 ELSE 0
  <1>8. n <= Level(f) + room(C)
    BY DEF Paced
  <1>9. ASSUME NEW D \in LargestFirst(V, pay + g)
        PROVE  Paced(pay, g, n + 1, D)
    <2>1. D \in SUBSET V /\ Total(D) >= pay + g
      BY <1>9 DEF LargestFirst
    <2>2. IsFiniteSet(D) /\ Total(D) \in Nat
      <3>1. IsFiniteSet(D)
        BY <1>1, <2>1, FS_Subset
      <3> QED
        BY <1>1, <2>1, <3>1, TotalType
    <2> HIDE DEF g
    <2>3. /\ Total(C) >= pay + g => Cardinality(C) = Cardinality(D) /\ Total(C) = Total(D)
          /\ Total(C) < pay + g => \E d \in D : Total(C) + d.lovelace <= Total(D)
      <3>1. pay + f \in Nat /\ pay + g \in Nat /\ pay + f <= pay + g
        BY <1>5, <1>6
      <3> QED
        BY <3>1, SelectAgain
    <2>4. CASE Total(C) >= pay + g
      <3>1. Cardinality(C) = Cardinality(D) /\ Total(C) = Total(D)
        BY <2>3, <2>4
      <3>2. CASE Level(f) = Level(g)
        <4>1. Settled(pay, g, D)
          BY <1>3, <1>5, <1>6, <2>2, <2>4, <3>1, <3>2, SameCoinsSettle DEF g
        <4> QED
          BY <4>1 DEF Paced
      <3>3. CASE Level(f) # Level(g)
        <4>1. room(C) = room(D) /\ room(C) \in 0..1
          BY <3>1 DEF Roomy
        <4> HIDE DEF room
        <4>2. n + 1 <= Level(g) + room(D)
          BY <1>7, <1>8, <3>3, <4>1
        <4> QED
          BY <4>2 DEF Paced, room
      <3> QED
        BY <3>2, <3>3
    <2>5. CASE Total(C) < pay + g
      <3>1. PICK d \in D : Total(C) + d.lovelace <= Total(D)
        BY <2>3, <2>5
      <3>2. d.lovelace \in Nat /\ d.lovelace >= LedgerMin
        BY <1>1, <2>1
      <3>3. Roomy(pay, D)
        <4>1. Total(D) >= pay + FeeConstant + LedgerMin
          BY <1>2, <1>3, <1>5, <2>2, <3>1, <3>2
        <4> QED
          BY <1>5, <2>2, <4>1 DEF Roomy
      <3>4. ~Roomy(pay, C)
        BY <1>3, <1>5, <2>5 DEF Roomy
      <3>5. n <= Level(f)
        BY <1>7, <1>8, <3>4
      <3>6. n + 1 <= Level(g) + 1
        BY <1>7, <3>5
      <3> QED
        BY <3>3, <3>6 DEF Paced
    <2> QED
      BY <1>3, <1>5, <2>4, <2>5
  <1>10. n <= 5
    <2>1. room(C) \in 0..1
      OBVIOUS
    <2> HIDE DEF room
    <2> QED
      BY <1>7, <1>8, <2>1
  <1>11. g >= FeeConstant
    BY <1>5, <1>6
  <1> QED
    BY <1>5, <1>9, <1>10, <1>11

FeeInv == FeeLoop /\ Minima

\* A writer that is elsewhere than in the loop, and did not fail in it.
LEMMA OutsideLoop ==
    ASSUME FeeLoop, NEW w \in Writers,
           \A v \in Writers \ {w} :
              /\ pc'[v] = pc[v] /\ result'[v] = result[v] /\ job'[v] = job[v]
              /\ view'[v] = view[v] /\ fee'[v] = fee[v] /\ pass'[v] = pass[v],
           pc'[w] # "build", result'[w] # "did not converge", pc'[w] # "submit" => pass'[w] = 0
    PROVE  FeeLoop'
  <1> SUFFICES ASSUME NEW v \in Writers
               PROVE  /\ result'[v] # "did not converge"
                      /\ pc'[v] \notin {"build", "submit"} => pass'[v] = 0
                      /\ pc'[v] = "build" =>
                            /\ fee'[v] >= FeeConstant /\ Ample(view'[v])
                            /\ \A chosen \in LargestFirst(view'[v], job'[v].pay + fee'[v]) :
                                  Paced(job'[v].pay, fee'[v], pass'[v], chosen)
    BY DEF FeeLoop
  <1>1. CASE v = w
    BY <1>1
  <1>2. CASE v # w
    <2>1. /\ pc'[v] = pc[v] /\ result'[v] = result[v] /\ job'[v] = job[v]
          /\ view'[v] = view[v] /\ fee'[v] = fee[v] /\ pass'[v] = pass[v]
      BY <1>2
    <2> QED
      BY <2>1 DEF FeeLoop
  <1> QED
    BY <1>1, <1>2

\* A writer that returns for another reason has not run out of passes.
LEMMA ReturnLoop ==
    ASSUME WriterInv, FeeLoop, NEW w \in Writers, NEW how, how # "did not converge", Return(w, how)
    PROVE  FeeLoop'
  <1>1. \A v \in Writers \ {w} :
           /\ pc'[v] = pc[v] /\ result'[v] = result[v] /\ job'[v] = job[v]
           /\ view'[v] = view[v] /\ fee'[v] = fee[v] /\ pass'[v] = pass[v]
    BY DEF WriterInv, Tasks, Return, Goto
  <1>2. pc'[w] = "idle" /\ result'[w] = how /\ pass'[w] = 0
    BY DEF WriterInv, Tasks, Return, Goto
  <1> QED
    BY <1>1, <1>2, OutsideLoop

\* The steps of a writer up to the UTxO read.
LEMMA ApproachLoop ==
    ASSUME WriterInv, FeeLoop, NEW w \in Writers,
           \/ BeginNotary(w) \/ \E d \in Debts : BeginSettle(w, d[1], d[2])
           \/ Query(w) \/ Lock(w)
    PROVE  FeeLoop'
  <1>1. ASSUME NEW place \in {"query", "lock", "read"}, pc[w] \notin {"build", "submit"}, Goto(w, place),
               UNCHANGED <<buildVars, result>>, \A v \in Writers \ {w} : job'[v] = job[v]
        PROVE  FeeLoop'
    <2>1. /\ \A v \in Writers \ {w} : pc'[v] = pc[v]
          /\ pc'[w] = place /\ UNCHANGED <<view, fee, pass, result>>
      BY <1>1 DEF WriterInv, Tasks, Goto, buildVars
    <2>2. result[w] # "did not converge" /\ pass[w] = 0
      BY <1>1 DEF FeeLoop
    <2> QED
      BY <1>1, <2>1, <2>2, OutsideLoop
  <1>2. CASE BeginNotary(w)
    <2>1. /\ pc[w] = "idle" /\ Goto(w, "query") /\ UNCHANGED <<buildVars, result>>
          /\ \A v \in Writers \ {w} : job'[v] = job[v]
      BY <1>2 DEF BeginNotary, WriterInv, Tasks
    <2> QED
      BY <1>1, <2>1
  <1>3. ASSUME NEW d \in Debts, BeginSettle(w, d[1], d[2]) PROVE FeeLoop'
    <2>1. CASE ~Sizable(d[1], d[2])
      BY <1>3, <2>1, ReturnLoop DEF BeginSettle
    <2>2. CASE Sizable(d[1], d[2])
      <3>1. /\ pc[w] = "idle" /\ Goto(w, "query") /\ UNCHANGED <<buildVars, result>>
            /\ \A v \in Writers \ {w} : job'[v] = job[v]
        BY <1>3, <2>2 DEF BeginSettle, WriterInv, Tasks
      <3> QED
        BY <1>1, <3>1
    <2> QED
      BY <2>1, <2>2
  <1>4. CASE Query(w)
    <2>1. pc[w] = "query" /\ Goto(w, "lock") /\ UNCHANGED <<buildVars, result, job>>
      BY <1>4 DEF Query
    <2> QED
      BY <1>1, <2>1
  <1>5. CASE Lock(w)
    <2>1. pc[w] = "lock" /\ Goto(w, "read") /\ UNCHANGED <<buildVars, result, job>>
      BY <1>5 DEF Lock
    <2> QED
      BY <1>1, <2>1
  <1> QED
    BY <1>2, <1>3, <1>4, <1>5

\* A writer in the loop, the others as they were.
LEMMA InsideLoop ==
    ASSUME FeeLoop, NEW w \in Writers,
           \A v \in Writers \ {w} :
              /\ pc'[v] = pc[v] /\ result'[v] = result[v] /\ job'[v] = job[v]
              /\ view'[v] = view[v] /\ fee'[v] = fee[v] /\ pass'[v] = pass[v],
           pc'[w] = "build", result'[w] # "did not converge",
           fee'[w] >= FeeConstant, Ample(view'[w]),
           \A chosen \in LargestFirst(view'[w], job'[w].pay + fee'[w]) :
              Paced(job'[w].pay, fee'[w], pass'[w], chosen)
    PROVE  FeeLoop'
  <1> SUFFICES ASSUME NEW v \in Writers
               PROVE  /\ result'[v] # "did not converge"
                      /\ pc'[v] \notin {"build", "submit"} => pass'[v] = 0
                      /\ pc'[v] = "build" =>
                            /\ fee'[v] >= FeeConstant /\ Ample(view'[v])
                            /\ \A chosen \in LargestFirst(view'[v], job'[v].pay + fee'[v]) :
                                  Paced(job'[v].pay, fee'[v], pass'[v], chosen)
    BY DEF FeeLoop
  <1>1. CASE v = w
    BY <1>1
  <1>2. CASE v # w
    <2>1. /\ pc'[v] = pc[v] /\ result'[v] = result[v] /\ job'[v] = job[v]
          /\ view'[v] = view[v] /\ fee'[v] = fee[v] /\ pass'[v] = pass[v]
      BY <1>2
    <2> QED
      BY <2>1 DEF FeeLoop
  <1> QED
    BY <1>1, <1>2

\* The loop starts from the network's constant part of the fee and a view of
\* the ledger's coins.
LEMMA EnterLoop ==
    ASSUME WriterInv, FeeLoop, Minima, NEW w \in Writers, ReadUtxos(w)
    PROVE  FeeLoop'
  <1>1. /\ \A v \in Writers \ {w} :
              /\ pc'[v] = pc[v] /\ result'[v] = result[v] /\ job'[v] = job[v]
              /\ view'[v] = view[v] /\ fee'[v] = fee[v] /\ pass'[v] = pass[v]
        /\ pc'[w] = "build" /\ view'[w] = ParseUtxos(ledger) /\ fee'[w] = MinFee(FirstEstimate)
        /\ UNCHANGED <<result, pass>> /\ pc[w] = "read"
    BY DEF WriterInv, Tasks, ReadUtxos, Goto
  <1>2. result[w] # "did not converge" /\ pass[w] = 0
    BY <1>1 DEF FeeLoop
  <1>3. Ample(view'[w])
    BY <1>1 DEF Minima, Ample, ParseUtxos
  <1>4. fee'[w] \in Nat /\ fee'[w] >= FeeConstant
    <2>1. FirstEstimate \in Nat /\ FeeConstant \in Nat /\ FeeCoefficient * FirstEstimate \in Nat
      BY WalletAssumption, ProductType
    <2> QED
      BY <1>1, <2>1 DEF MinFee
  <1>5. \A chosen : Paced(job'[w].pay, fee'[w], 0, chosen)
    <2>1. Level(fee'[w]) \in 0..4
      BY <1>4, WidthGrows
    <2> QED
      BY <2>1 DEF Paced
  <1> QED
    BY <1>1, <1>2, <1>3, <1>4, <1>5, InsideLoop

\* A pass of the loop ends it, or makes the next one from what was grown.
LEMMA PassLoop ==
    ASSUME WriterInv, FeeLoop, NEW w \in Writers, BuildPass(w)
    PROVE  FeeLoop'
  <1>1. PICK chosen \in LargestFirst(view[w], job[w].pay + fee[w]) :
           BuildTooLarge(w, Assembled(w, chosen)) \/ BuildDone(w, Assembled(w, chosen))
             \/ BuildUnderpaid(w, Assembled(w, chosen))
    BY DEF BuildPass
  <1>2. pc[w] = "build"
    BY DEF BuildPass
  <1>3. PICK t : t = Assembled(w, chosen)
    OBVIOUS
  <1>4. CASE BuildTooLarge(w, t)
    BY <1>4, ReturnLoop DEF BuildTooLarge, ReturnUnlocking
  <1>5. CASE BuildDone(w, t)
    <2>1. /\ pc'[w] = "submit" /\ UNCHANGED <<job, view, fee, pass, result>>
          /\ \A v \in Writers \ {w} : pc'[v] = pc[v]
      BY <1>5 DEF BuildDone, Goto, WriterInv, Tasks, buildVars
    <2>2. result[w] # "did not converge"
      BY DEF FeeLoop
    <2> QED
      BY <2>1, <2>2, OutsideLoop
  <1>6. CASE BuildUnderpaid(w, t)
    <2> DEFINE p == job[w].pay
               f == fee[w]
               size == SizeOf(t)
    <2>1. /\ CoinsOk(view[w]) /\ p \in Nat /\ f \in Nat /\ pass[w] \in Nat
          /\ size \in Nat /\ t.fee \in Nat
      <3>1. CoinsOk(view[w]) /\ PaymentOk(job[w]) /\ f \in Nat /\ pass[w] \in Nat
        BY <1>2 DEF WriterInv, Building, Tasks
      <3>2. p \in Nat
        BY <3>1 DEF PaymentOk
      <3>3. size \in Nat /\ t.fee \in Nat
        BY <1>2, <1>3, AssembledOk
      <3> QED
        BY <3>1, <3>2, <3>3
    <2>2. f >= FeeConstant /\ Ample(view[w]) /\ Paced(p, f, pass[w], chosen)
      BY <1>2 DEF FeeLoop
    <2>3. t.fee = Payment(p, f, chosen).fee /\ size = SizeOf(Payment(p, f, chosen))
      BY <1>3 DEF Assembled, Payment, SizeOf
    <2>4. size <= MaxTxSize /\ t.fee < Required(size)
      BY <1>6 DEF BuildUnderpaid
    <2>5. ~Settled(p, f, chosen)
      BY <2>1, <2>3, <2>4, RequiredCovers DEF Settled
    <2> HIDE DEF p, f, size
    <2>6. /\ pass[w] <= 5 /\ Required(size) \in Nat /\ Required(size) >= FeeConstant
          /\ \A D \in LargestFirst(view[w], p + Required(size)) : Paced(p, Required(size), pass[w] + 1, D)
      <3>1. chosen \in LargestFirst(view[w], p + f)
        BY DEF p, f
      <3> QED
        BY <2>1, <2>2, <2>3, <2>4, <2>5, <3>1, PassPaced
    <2>7. pass[w] + 1 # MaxFeeIters
      BY <2>1, <2>6, FeeLoopAssumption, WalletAssumption
    <2>8. /\ fee' = [fee EXCEPT ![w] = Required(size)] /\ pass' = [pass EXCEPT ![w] = @ + 1]
          /\ UNCHANGED <<pc, job, view, result>>
      BY <1>6, <2>7 DEF BuildUnderpaid, NextFee, size
    <2>9. /\ fee'[w] = Required(size) /\ pass'[w] = pass[w] + 1
          /\ \A v \in Writers \ {w} : fee'[v] = fee[v] /\ pass'[v] = pass[v]
      BY <2>8 DEF WriterInv, Tasks
    <2>10. result[w] # "did not converge" /\ job'[w].pay = p
      BY <2>8 DEF FeeLoop, p
    <2>11. \A D \in LargestFirst(view'[w], job'[w].pay + fee'[w]) : Paced(job'[w].pay, fee'[w], pass'[w], D)
      BY <2>6, <2>8, <2>9, <2>10
    <2> QED
      BY <1>2, <2>2, <2>6, <2>8, <2>9, <2>10, <2>11, InsideLoop
  <1> QED
    BY <1>1, <1>3, <1>4, <1>5, <1>6

\* The node creates no coin below its own minimum.
LEMMA MinimaStep ==
    ASSUME WalletInv, Minima, Next
    PROVE  Minima'
  <1>1. CASE UNCHANGED <<ledger, mempool>>
    BY <1>1 DEF Minima
  <1>2. ASSUME NEW t, Acceptable(t), mempool' = mempool \cup {t}, UNCHANGED ledger
        PROVE  Minima'
    BY <1>2 DEF Minima, Acceptable
  <1>3. ASSUME NEW t \in mempool, Include(t)
        PROVE  Minima'
    <2>1. \A out \in Outputs(t) : out >= LedgerMin
      BY DEF Minima
    <2>2. t.pay >= LedgerMin /\ (t.change # 0 => t.change >= LedgerMin)
      BY <2>1 DEF Outputs
    <2>3. /\ ledger' = (ledger \ t.inputs) \cup (IF t.self THEN {Coin(t, 1, t.pay)} ELSE {})
                         \cup (IF t.change = 0 THEN {} ELSE {Coin(t, 2, t.change)})
          /\ mempool' \subseteq mempool
      BY <1>3 DEF Include
    <2>4. Coin(t, 1, t.pay).lovelace = t.pay /\ Coin(t, 2, t.change).lovelace = t.change
      BY DEF Coin
    <2>5. \A c \in ledger' : \/ c \in ledger \/ c = Coin(t, 1, t.pay)
                             \/ c = Coin(t, 2, t.change) /\ t.change # 0
      BY <2>3
    <2>6. Ample(ledger')
      BY <2>2, <2>4, <2>5 DEF Minima, Ample
    <2> QED
      BY <2>3, <2>6 DEF Minima
  <1>4. ASSUME NEW t \in mempool, Expire(t)
        PROVE  Minima'
    BY <1>4 DEF Expire, Minima
  <1>5. ASSUME NEW t \in inflight, LateSubmit(t)
        PROVE  Minima'
    BY <1>1, <1>2, <1>5 DEF LateSubmit
  <1>6. CASE NodeStep
    BY <1>3, <1>4, <1>5, <1>6 DEF NodeStep
  <1>7. ASSUME NEW w \in Writers, SubmitAccepted(w) \/ SubmitMismatched(w)
        PROVE  Minima'
    BY <1>2, <1>7 DEF SubmitAccepted, SubmitMismatched
  <1>8. ASSUME ~NodeStep, ~\E w \in Writers : SubmitAccepted(w) \/ SubmitMismatched(w)
        PROVE  UNCHANGED <<ledger, mempool>>
    BY <1>8 DEF Next, WriterStep, BeginNotary, BeginSettle, Query, QueryFails, Lock, ReadUtxos,
       ReadFails, BuildFails, BuildInsufficient, BuildPass, SubmitRefused, SubmitUnanswered, Crash, nodeVars
  <1> QED
    BY <1>1, <1>6, <1>7, <1>8

\* Every step keeps what is known of the fee loop ...
LEMMA FeeStep ==
    ASSUME WalletInv, FeeInv, [Next]_vars
    PROVE  FeeInv'
  <1>1. WriterInv /\ FeeLoop /\ Minima
    BY DEF WalletInv, FeeInv
  <1>2. Minima'
    BY <1>1, MinimaStep DEF vars, nodeVars, Minima
  <1> SUFFICES FeeLoop'
    BY <1>2 DEF FeeInv
  <1>3. ASSUME UNCHANGED taskVars
        PROVE  FeeLoop'
    <2>1. UNCHANGED <<pc, result, job, view, fee, pass>>
      BY <1>3 DEF taskVars, buildVars
    <2> QED
      BY <1>1, <2>1 DEF FeeLoop
  <1>4. ASSUME NEW w \in Writers, BeginNotary(w) \/ \E d \in Debts : BeginSettle(w, d[1], d[2])
        PROVE  FeeLoop'
    BY <1>1, <1>4, ApproachLoop
  <1>5. ASSUME NEW w \in Writers, WriterStep(w)
        PROVE  FeeLoop'
    <2>1. CASE Query(w) \/ Lock(w)
      BY <1>1, <2>1, ApproachLoop
    <2>2. CASE ReadUtxos(w)
      BY <1>1, <2>2, EnterLoop
    <2>3. CASE BuildPass(w)
      BY <1>1, <2>3, PassLoop
    <2>4. CASE QueryFails(w) \/ ReadFails(w) \/ BuildFails(w) \/ BuildInsufficient(w)
      BY <1>1, <2>4, ReturnLoop DEF QueryFails, ReadFails, BuildFails, BuildInsufficient, ReturnUnlocking
    <2>5. CASE SubmitAccepted(w) \/ SubmitRefused(w) \/ SubmitMismatched(w) \/ SubmitUnanswered(w)
      BY <1>1, <2>5, ReturnLoop DEF SubmitAccepted, SubmitRefused, SubmitMismatched, SubmitUnanswered,
         ReturnUnlocking
    <2> QED
      BY <1>5, <2>1, <2>2, <2>3, <2>4, <2>5 DEF WriterStep
  <1>6. CASE NodeStep
    BY <1>3, <1>6 DEF NodeStep, LateSubmit, Include, Expire
  <1>7. CASE Crash
    <2>1. \A w \in Writers : pc'[w] = "idle" /\ result'[w] = "none" /\ pass'[w] = 0
      BY <1>7 DEF Crash
    <2>2. \A w \in Writers :
             /\ result'[w] # "did not converge" /\ pc'[w] # "build"
             /\ pc'[w] \notin {"build", "submit"} => pass'[w] = 0
      BY <2>1
    <2> QED
      BY <2>2 DEF FeeLoop
  <1>8. CASE UNCHANGED vars
    BY <1>3, <1>8 DEF vars
  <1> QED
    BY <1>4, <1>5, <1>6, <1>7, <1>8 DEF Next

\* ... which holds at first.
LEMMA FeeStart == Init => FeeInv
  <1>1. Init => FeeLoop
    BY DEF Init, FeeLoop
  <1>2. Init => Minima
    BY FeeLoopAssumption DEF Init, Minima, Ample
  <1> QED
    BY <1>1, <1>2 DEF FeeInv

-----------------------------------------------------------------------------
(* The theorems.                                                           *)

\* The writers, the lock and what is handed to the node keep their types; the
\* submit lock is held exactly from the UTxO read to the end of the submission,
\* on every way out of write_notary and submit_ada_transfer.
THEOREM TypeCorrect == Spec => []TypeOK
  <1>1. WalletInv => TypeOK
    BY DEF WalletInv, Counts, WriterInv, Tasks, Signed, Node, CoinsOk, TypeOK, Held
  <1> QED
    BY <1>1, WalletAlways, PTL

\* Whatever coins are selected, build_signed_payment builds transactions that
\* balance, pay the fee their final size calls for and leave no change below
\* the minimum.
THEOREM BuiltValid == Spec => [](\A t \in built : Valid(t))
  <1>1. WalletInv => \A t \in built : Valid(t)
    BY DEF WalletInv, Node
  <1> QED
    BY <1>1, WalletAlways, PTL

\* The fee loop of build_signed_payment converges, whatever coins the wallet
\* holds and however the payments of the other writers interleave: a transaction
\* is underpaid again only after its fee grew wider or its inputs grew, which the
\* network's parameters allow fewer times than MAX_FEE_ITERS; and what it builds
\* is valid.
THEOREM FeeLoopConverges == Spec => []BuiltIsValid
  <1>1. WalletInv /\ FeeInv => BuiltIsValid
    BY DEF WalletInv, FeeInv, Node, FeeLoop, BuiltIsValid
  <1>2. WalletInv /\ FeeInv /\ [Next]_vars => FeeInv'
    BY FeeStep
  <1>3. Spec => []WalletInv
    BY WalletAlways, PTL
  <1> QED
    BY <1>1, <1>2, <1>3, FeeStart, PTL DEF Spec

\* A settlement pays its debt at the quoted rate, to the last whole lovelace,
\* for every debt and every rate that fiat_minor_to_lovelace takes.
THEOREM DebtPaid == Spec => []PaysTheDebt
  <1>1. WalletInv => PaysTheDebt
    BY DEF WalletInv, Node, PaymentOk, PaysTheDebt
  <1> QED
    BY <1>1, WalletAlways, PTL

\* What the submit lock is for: with any number of writers, lost answers, late
\* submissions and crashes, the node refuses a transaction only when an earlier
\* payment was under way as its coins were read, or when the payment is too
\* small for the ledger.
THEOREM LockPreventsRefusal == Spec => []RefusedOnlyBehindAnother
  BY WalletAlways, PTL

=============================================================================
