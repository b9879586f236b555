---------------------------- MODULE FollowerProofs ----------------------------
(***************************************************************************)
(* What the chain-sync follower promises, for any transactions, number of  *)
(* points kept, depth of forks short of it, and any faults.                *)
(***************************************************************************)
EXTENDS ChainFollower, WellFoundedInduction, TLAPS

-----------------------------------------------------------------------------
(* The inductive invariant.                                                *)

Blocks == [id : Nat, height : Nat, slot : Nat, txs : SUBSET Txs]

\* Blocks that follow one another: heights count them, slots increase, and no
\* transaction is in two of them.
Linked(c) ==
    /\ c \in Seq(Blocks)
    /\ \A i \in 1..Len(c) :
          /\ c[i].height = i /\ c[i].slot <= 2 * i
          /\ c[i].id \in 1..made /\ c[i].txs \subseteq submitted
    /\ \A i, j \in 1..Len(c) : i < j => c[i].slot < c[j].slot
    /\ \A i, j \in 1..Len(c) : i # j => c[i].txs \cap c[j].txs = {}

\* The chain; a transaction is watched before it is submitted.
NodeInv ==
    /\ Linked(chain) /\ Len(chain) \in Cap..MaxHeight
    /\ made \in Nat /\ submitted \subseteq Txs
    /\ \A t \in submitted : watched[t].known

\* What was sent is linked too, and shares with the chain all that precedes
\* any block it shares.
CursorInv ==
    /\ Linked(cursor) /\ Len(cursor) <= Len(chain)
    /\ \A i \in 1..Len(cursor) : cursor[i] = chain[i] => \A j \in 1..i : cursor[j] = chain[j]
    /\ cursor # <<>> => cursor[1] = chain[1]
    /\ session = "up" => cursor # <<>>

Sync == session = "up" /\ ~fresh

\* A point is a block that was sent, unless it was forked away and the step
\* back that tells of it has not been read.
Sent(p) == p.height \in 1..Len(cursor) /\ cursor[p.height] = p

Gone(p) ==
    /\ ~Sync /\ cursor # <<>>
    /\ p.slot > cursor[Len(cursor)].slot /\ p.id \in 1..made /\ chain[p.height] # p

PointsInv ==
    /\ points \in Seq(Blocks) /\ Len(points) <= Cap
    /\ \A i \in 1..Len(points) :
          points[i].height \in 1..Len(chain) /\ (Sent(points[i]) \/ Gone(points[i]))
    /\ \A i, j \in 1..Len(points) : i < j =>
          points[i].slot < points[j].slot /\ points[i].height + (j - i) <= points[j].height
    /\ Len(points) > MaxRollback => chain[points[1].height] = points[1]

AskedInv == session = "intersect" /\ points # <<>> => asked = Reverse(points)

\* An inclusion is one in a block that was sent, or was, before it was forked
\* away.
Seated(t) ==
    /\ watched[t].height \in 1..Len(cursor)
    /\ t \in cursor[watched[t].height].txs /\ cursor[watched[t].height].slot = watched[t].slot

Unseated(t) ==
    /\ ~Sync /\ cursor # <<>>
    /\ watched[t].slot > cursor[Len(cursor)].slot
    /\ \A i \in 1..Len(cursor) : t \notin cursor[i].txs

\* A block of the list that no fork can reach any more.
Anchored ==
    /\ points # <<>>
    /\ points[1].height + MaxRollback <= Len(chain) /\ chain[points[1].height] = points[1]

Pointed(t) == \E i \in 1..Len(points) : points[i].slot = watched[t].slot

WatchInv ==
    /\ watched \in [Txs -> [height : 0..MaxHeight, slot : 0..(2 * MaxHeight), known : BOOLEAN]]
    /\ \A t \in Txs : Included(t) =>
          watched[t].known /\ (Seated(t) \/ Unseated(t)) /\ (Pointed(t) \/ Anchored)

\* What is reported deep enough is on the chain.
TipInv ==
    /\ tip \in 0..Len(chain)
    /\ \A t \in Txs : Included(t) /\ watched[t].height + MaxRollback <= tip =>
          t \in chain[watched[t].height].txs

SeenInv ==
    /\ skipped \subseteq 1..made
    /\ \A i \in 1..Len(cursor) : cursor[i].id \notin skipped => \A t \in cursor[i].txs : Included(t)

FollowerInv == NodeInv /\ CursorInv /\ PointsInv /\ AskedInv /\ WatchInv /\ TipInv /\ SeenInv

-----------------------------------------------------------------------------
(* Numbers and sequences.                                                  *)

\* A set of numbers has a least one.
LEMMA NatLeast ==
    ASSUME NEW T \in SUBSET Nat, T # {}
    PROVE  \E m \in T : \A k \in T : m <= k
  <1>1. PICK m \in T : \A k \in T : ~(<<k, m>> \in OpToRel(<, Nat))
    BY NatLessThanWellFounded, WFMin
  <1>2. \A k \in Nat, n \in Nat : k < n => <<k, n>> \in OpToRel(<, Nat)
    BY DEF OpToRel
  <1>3. \A k \in T : ~(k < m)
    BY <1>1, <1>2
  <1> QED
    BY <1>3

\* A bounded set of numbers has a greatest one, which Max chooses.
LEMMA MaxIs ==
    ASSUME NEW S \in SUBSET Nat, S # {}, NEW b \in Nat, \A x \in S : x <= b
    PROVE  Max(S) \in S /\ \A y \in S : Max(S) >= y
  <1> DEFINE above == {k \in Nat : \A x \in S : x <= k}
  <1>1. PICK m \in above : \A k \in above : m <= k
    <2>1. above \in SUBSET Nat /\ b \in above
      OBVIOUS
    <2> QED
      BY <2>1, NatLeast
  <1>2. m \in S
    <2> SUFFICES ASSUME m \notin S PROVE FALSE
      OBVIOUS
    <2>1. \A x \in S : x <= m - 1
      OBVIOUS
    <2>2. m - 1 \in Nat
      <3>1. PICK x \in S : TRUE
        OBVIOUS
      <3>2. x \in Nat /\ x <= m - 1 /\ m \in Nat
        BY <2>1, <3>1
      <3> QED
        BY <3>2
    <2>3. m - 1 \in above
      BY <2>1, <2>2
    <2> QED
      BY <1>1, <2>3
  <1>3. \E x \in S : \A y \in S : x >= y
    BY <1>2
  <1> QED
    BY <1>3 DEF Max

\* What a prefix of a sequence is ...
LEMMA Prefix ==
    ASSUME NEW A, NEW c \in Seq(A), NEW n \in 0..Len(c)
    PROVE  /\ SubSeq(c, 1, n) \in Seq(A) /\ Len(SubSeq(c, 1, n)) = n
           /\ \A i \in 1..n : SubSeq(c, 1, n)[i] = c[i]
  OBVIOUS

\* ... and what two sequences joined are.
LEMMA Joined ==
    ASSUME NEW A, NEW c \in Seq(A), NEW d \in Seq(A)
    PROVE  /\ c \o d \in Seq(A) /\ Len(c \o d) = Len(c) + Len(d)
           /\ \A i \in 1..Len(c) : (c \o d)[i] = c[i]
           /\ \A i \in (Len(c) + 1)..(Len(c) + Len(d)) : (c \o d)[i] = d[i - Len(c)]
  OBVIOUS

\* The fields of a block.
LEMMA BlockFields ==
    ASSUME NEW b \in Blocks
    PROVE  b.id \in Nat /\ b.height \in Nat /\ b.slot \in Nat /\ b.txs \subseteq Txs
  BY DEF Blocks

\* retain keeps a prefix of a list that is in the order of its slots.
LEMMA PrunedIs ==
    ASSUME points \in Seq(Blocks), NEW cut \in Nat,
           \A i, j \in 1..Len(points) : i < j => points[i].slot < points[j].slot
    PROVE  \E k \in 0..Len(points) :
              /\ Pruned(cut) = SubSeq(points, 1, k)
              /\ \A i \in 1..Len(points) : i <= k <=> points[i].slot <= cut
  <1> DEFINE L == Len(points)
             kept == {i \in 1..L : points[i].slot <= cut}
             least(i, k) == IF i <= k THEN i ELSE k
             Step(g, i) == IF i = 0 THEN <<>>
                           ELSE IF points[i].slot <= cut THEN Append(g[i - 1], points[i]) ELSE g[i - 1]
             Is(g) == g = [i \in 0..L |-> Step(g, i)]
  <1>1. L \in Nat /\ \A i \in 1..L : points[i] \in Blocks /\ points[i].slot \in Nat
    <2>1. L \in Nat /\ \A i \in 1..L : points[i] \in Blocks
      OBVIOUS
    <2> QED
      BY <2>1, BlockFields
  <1>2. PICK k \in 0..L : \A i \in 1..L : i <= k <=> points[i].slot <= cut
    <2>1. CASE kept = {}
      <3>1. \A i \in 1..L : i <= 0 <=> points[i].slot <= cut
        BY <1>1, <2>1
      <3>2. 0 \in 0..L
        BY <1>1
      <3> QED
        BY <3>1, <3>2, Zenon
    <2>2. CASE kept # {}
      <3>1. kept \in SUBSET Nat /\ \A x \in kept : x <= L
        BY <1>1
      <3>2. PICK k \in kept : \A i \in kept : k >= i
        BY <1>1, <2>2, <3>1, MaxIs
      <3>3. \A i \in 1..L : i <= k <=> points[i].slot <= cut
        <4> SUFFICES ASSUME NEW i \in 1..L PROVE i <= k <=> points[i].slot <= cut
          OBVIOUS
        <4>1. CASE i > k
          BY <1>1, <3>2, <4>1
        <4>2. CASE i <= k
          <5>1. i = k \/ points[i].slot < points[k].slot
            BY <3>2, <4>2
          <5> QED
            BY <1>1, <3>2, <4>2, <5>1
        <4> QED
          BY <1>1, <3>2, <4>1, <4>2
      <3> QED
        BY <3>2, <3>3
    <2> QED
      BY <2>1, <2>2
  <1> DEFINE g == [i \in 0..L |-> SubSeq(points, 1, least(i, k))]
  <1>3. \A i \in 0..L : g[i] = Step(g, i)
    <2> SUFFICES ASSUME NEW i \in 0..L PROVE g[i] = Step(g, i)
      OBVIOUS
    <2>1. CASE i = 0
      BY <1>1, <2>1
    <2>2. CASE i # 0 /\ i <= k
      <3>1. i - 1 \in 0..L /\ g[i - 1] = SubSeq(points, 1, i - 1) /\ g[i] = SubSeq(points, 1, i)
        <4>1. i - 1 \in 0..L /\ least(i - 1, k) = i - 1 /\ least(i, k) = i
          BY <1>1, <2>2
        <4>2. g[i - 1] = SubSeq(points, 1, least(i - 1, k)) /\ g[i] = SubSeq(points, 1, least(i, k))
          <5> HIDE DEF least, L
          <5> QED
            BY <4>1
        <4> HIDE DEF g, L, least
        <4> QED
          BY <4>1, <4>2
      <3>2. points[i].slot <= cut
        BY <1>1, <1>2, <2>2
      <3>3. Append(SubSeq(points, 1, i - 1), points[i]) = SubSeq(points, 1, i)
        BY <1>1, <2>2
      <3> QED
        BY <2>2, <3>1, <3>2, <3>3
    <2>3. CASE i # 0 /\ i > k
      <3>1. i - 1 \in 0..L /\ least(i - 1, k) = k /\ least(i, k) = k
        BY <1>1, <2>3
      <3>2. ~(points[i].slot <= cut)
        BY <1>1, <1>2, <2>3
      <3> QED
        BY <2>3, <3>1, <3>2
    <2>4. i = 0 \/ (i # 0 /\ i <= k) \/ (i # 0 /\ i > k)
      BY <1>1
    <2> HIDE DEF g, Step
    <2> QED
      BY <2>1, <2>2, <2>3, <2>4
  <1>4. Is(g)
    <2>1. g = [i \in 0..L |-> g[i]]
      OBVIOUS
    <2> HIDE DEF g
    <2> QED
      BY <1>3, <2>1
  <1>5. ASSUME NEW f, Is(f)
        PROVE  \A i \in 0..L : f[i] = g[i]
    <2> DEFINE bad == {i \in Nat : i <= L /\ f[i] # g[i]}
    <2>1. ASSUME NEW m \in bad, \A i \in bad : m <= i
          PROVE  FALSE
      <3>1. m \in 0..L /\ f[m] = Step(f, m) /\ g[m] = Step(g, m)
        <4>1. m \in 0..L
          BY <1>1
        <4> HIDE DEF g
        <4> QED
          BY <1>3, <1>5, <4>1
      <3> HIDE DEF g
      <3>2. m # 0
        BY <3>1
      <3>3. m - 1 \in Nat /\ m - 1 <= L /\ m - 1 \notin bad
        BY <1>1, <2>1, <3>1, <3>2
      <3>4. f[m - 1] = g[m - 1]
        BY <3>3
      <3> QED
        BY <3>1, <3>2, <3>4
    <2>2. bad = {}
      BY <2>1, NatLeast
    <2> HIDE DEF g
    <2> QED
      BY <1>1, <2>2
  <1>6. Pruned(cut) = (CHOOSE f : Is(f))[L]
    BY DEF Pruned
  <1>7. Is(CHOOSE f : Is(f))
    <2> HIDE DEF Is, g
    <2> QED
      BY <1>4
  <1>8. Pruned(cut) = g[L]
    <2> HIDE DEF Is, g
    <2> QED
      BY <1>1, <1>5, <1>6, <1>7
  <1>9. g[L] = SubSeq(points, 1, k)
    BY <1>1
  <1> QED
    BY <1>2, <1>8, <1>9

-----------------------------------------------------------------------------
(* The Cardano node's chain.                                               *)

\* Shared is the height of the last block the session was sent that is still on the chain.
LEMMA SharedIs ==
    ASSUME NodeInv, CursorInv
    PROVE  /\ Shared \in 0..Len(cursor)
           /\ \A i \in 1..Shared : cursor[i] = chain[i]
           /\ \A i \in 1..Len(cursor) : cursor[i] = chain[i] => i <= Shared
  <1> DEFINE same == {n \in 1..Len(cursor) : n <= Len(chain) /\ cursor[n] = chain[n]}
             S == {0} \cup same
  <1>1. Len(cursor) \in Nat /\ Len(chain) \in Nat /\ Len(cursor) <= Len(chain)
    BY DEF NodeInv, CursorInv, Linked
  <1>2. S \in SUBSET Nat /\ S # {} /\ \A x \in S : x <= Len(cursor)
    BY <1>1
  <1>3. Shared = Max(S)
    BY DEF Shared
  <1> HIDE DEF S
  <1>4. Shared \in S /\ \A y \in S : Shared >= y
    BY <1>1, <1>2, <1>3, MaxIs
  <1>5. Shared \in 0..Len(cursor)
    BY <1>1, <1>4 DEF S
  <1>6. \A i \in 1..Shared : cursor[i] = chain[i]
    <2>1. CASE Shared = 0
      BY <2>1
    <2>2. CASE Shared # 0
      <3>1. Shared \in 1..Len(cursor) /\ cursor[Shared] = chain[Shared]
        BY <1>4, <2>2 DEF S
      <3> QED
        BY <3>1 DEF CursorInv
    <2> QED
      BY <2>1, <2>2
  <1>7. \A i \in 1..Len(cursor) : cursor[i] = chain[i] => i <= Shared
    <2> SUFFICES ASSUME NEW i \in 1..Len(cursor), cursor[i] = chain[i] PROVE i <= Shared
      OBVIOUS
    <2>1. i \in S
      BY <1>1 DEF S
    <2> QED
      BY <1>1, <1>4, <1>5, <2>1
  <1> QED
    BY <1>5, <1>6, <1>7

\* What a longer chain has in common with the one it replaces: it forks off
\* after block k, no deeper than forks go, and has blocks never seen after it.
Switch(k) ==
    /\ k \in 1..Len(chain) /\ Len(chain) <= k + MaxRollback
    /\ chain' \in Seq(Blocks) /\ Len(chain') = Len(chain) + 1 /\ Len(chain') <= MaxHeight
    /\ \A i \in 1..k : chain'[i] = chain[i]
    /\ \A i \in (k + 1)..Len(chain') : chain'[i].id \in (made + 1)..made'
    /\ made' \in Nat /\ made <= made'

\* Both ways the node's chain moves are a Switch.
LEMMA AdoptIs ==
    ASSUME NodeInv, NEW n \in 0..MaxRollback, NEW T \in SUBSET submitted, NEW gap \in {0, 1},
           Adopt(n, T, gap)
    PROVE  Switch(Len(chain) - n) /\ Linked(chain)'
  <1> DEFINE k == Len(chain) - n
             kept == SubSeq(chain, 1, k)
             base == IF kept = <<>> THEN 0 ELSE Last(kept).slot
             new(at) == [i \in 1..(n + 1) |->
                           Block(made + i, Len(kept) + i, base + gap + i, IF i = at THEN T ELSE {})]
  <1>1. PICK at \in {1, n + 1} : chain' = kept \o new(at)
    BY DEF Adopt
  <1>2. /\ Len(chain) < MaxHeight /\ T \subseteq submitted \ TxsOf(kept)
        /\ made' = made + n + 1 /\ submitted' = submitted
    BY DEF Adopt
  <1>3. /\ Cap \in Nat /\ MaxRollback \in Nat /\ MaxHeight \in Nat /\ MaxRollback < Cap
        /\ made \in Nat /\ n \in Nat /\ Len(chain) \in Nat /\ Cap <= Len(chain)
    BY FollowerAssumption DEF NodeInv, Linked
  <1>4. k \in 1..Len(chain) /\ k \in Nat /\ k + n = Len(chain) /\ Len(chain) <= k + MaxRollback
    BY <1>3
  <1>5. chain \in Seq(Blocks)
    BY DEF NodeInv, Linked
  <1>6. kept \in Seq(Blocks) /\ Len(kept) = k /\ \A i \in 1..k : kept[i] = chain[i]
    BY <1>4, <1>5, Prefix
  <1> HIDE DEF k, kept
  <1>7. base = chain[k].slot
    <2>1. kept # <<>>
      BY <1>4, <1>6
    <2> QED
      BY <1>4, <1>6, <2>1 DEF Last
  <1>8. chain[k].slot \in Nat /\ chain[k].slot <= 2 * k
    BY <1>4, <1>5, BlockFields DEF NodeInv, Linked
  <1> DEFINE fresh_(i) == Block(made + i, k + i, chain[k].slot + gap + i, IF i = at THEN T ELSE {})
             added == [i \in 1..(n + 1) |-> fresh_(i)]
  <1>9. chain' = kept \o added
    BY <1>1, <1>6, <1>7
  <1>10. T \subseteq Txs /\ \A i \in 1..k : T \cap chain[i].txs = {}
    <2>1. \A i \in 1..k : chain[i].txs \subseteq TxsOf(kept)
      BY <1>6 DEF TxsOf
    <2> QED
      BY <1>2, <2>1 DEF NodeInv
  <1>11. \A i \in 1..(n + 1) :
            /\ fresh_(i) \in Blocks /\ fresh_(i).id = made + i /\ fresh_(i).height = k + i
            /\ fresh_(i).slot = chain[k].slot + gap + i
            /\ fresh_(i).txs = IF i = at THEN T ELSE {}
    BY <1>3, <1>4, <1>8, <1>10, SMTT(30) DEF Block, Blocks
  <1> HIDE DEF base, new, fresh_
  <1>12. added \in Seq(Blocks) /\ Len(added) = n + 1 /\ \A i \in 1..(n + 1) : added[i] = fresh_(i)
    BY <1>3, <1>11, SMTT(30)
  <1> HIDE DEF added
  <1>13. /\ chain' \in Seq(Blocks) /\ Len(chain') = Len(chain) + 1
         /\ \A i \in 1..k : chain'[i] = kept[i]
         /\ \A i \in (k + 1)..Len(chain') : chain'[i] = added[i - k]
    <2>1. kept \o added \in Seq(Blocks) /\ Len(kept \o added) = k + (n + 1)
      <3>1. kept \in Seq(Blocks) /\ added \in Seq(Blocks)
        BY <1>6, <1>12
      <3>2. kept \o added \in Seq(Blocks) /\ Len(kept \o added) = Len(kept) + Len(added)
        BY <3>1
      <3>3. Len(kept) = k /\ Len(added) = n + 1
        BY <1>6, <1>12
      <3> QED
        BY <3>2, <3>3
    <2>2. \A i \in 1..k : (kept \o added)[i] = kept[i]
      BY <1>6, <1>12, Joined
    <2>3. \A i \in (k + 1)..(k + (n + 1)) : (kept \o added)[i] = added[i - k]
      BY <1>6, <1>12, Joined
    <2>4. k + (n + 1) = Len(chain) + 1
      BY <1>3, <1>4
    <2> QED
      BY <1>9, <2>1, <2>2, <2>3, <2>4
  <1>14. \A i \in 1..k : chain'[i] = chain[i]
    BY <1>6, <1>13
  <1>15. ASSUME NEW i \in (k + 1)..Len(chain')
         PROVE  /\ i - k \in 1..(n + 1) /\ chain'[i].id = made + (i - k) /\ chain'[i].height = i
                /\ chain'[i].slot = chain[k].slot + gap + (i - k)
                /\ chain'[i].txs = IF i - k = at THEN T ELSE {}
    <2>1. i - k \in 1..(n + 1) /\ k + (i - k) = i
      BY <1>3, <1>4, <1>13
    <2>2. chain'[i] = fresh_(i - k)
      BY <1>12, <1>13, <2>1
    <2> QED
      BY <1>11, <2>1, <2>2
  <1>16. Switch(k)
    <2>1. ASSUME NEW i \in (k + 1)..Len(chain')
          PROVE  chain'[i].id \in (made + 1)..made'
      <3>1. i - k \in 1..(n + 1) /\ chain'[i].id = made + (i - k)
        BY <1>15
      <3> QED
        BY <1>2, <1>3, <3>1
    <2>2. Len(chain') <= MaxHeight /\ made' \in Nat /\ made <= made'
      BY <1>2, <1>3, <1>13
    <2> QED
      BY <1>4, <1>13, <1>14, <2>1, <2>2 DEF Switch
  <1>17. ASSUME NEW i \in 1..Len(chain')
         PROVE  /\ chain'[i].height = i /\ chain'[i].slot <= 2 * i
                /\ chain'[i].id \in 1..made' /\ chain'[i].txs \subseteq submitted'
    <2>1. CASE i <= k
      <3>1. /\ chain'[i] = chain[i] /\ chain[i].height = i /\ chain[i].slot <= 2 * i
            /\ chain[i].id \in 1..made /\ chain[i].txs \subseteq submitted
        BY <1>3, <1>4, <1>14, <2>1 DEF NodeInv, Linked
      <3>2. chain[i].id \in 1..made'
        BY <1>2, <1>3, <3>1, SMTT(30)
      <3> QED
        BY <1>2, <3>1, <3>2
    <2>2. CASE i > k
      <3>1. i \in (k + 1)..Len(chain')
        BY <1>3, <1>4, <1>13, <2>2
      <3>2. /\ i - k \in 1..(n + 1) /\ chain'[i].id = made + (i - k) /\ chain'[i].height = i
            /\ chain'[i].slot = chain[k].slot + gap + (i - k)
            /\ chain'[i].txs = IF i - k = at THEN T ELSE {}
        BY <1>15, <3>1
      <3>3. chain'[i].slot <= 2 * i
        <4>1. chain'[i].slot = chain[k].slot + gap + (i - k) /\ i \in Nat /\ i > k
          BY <1>3, <1>4, <1>13, <2>2, <3>2
        <4>2. \A x \in Nat : x <= 2 * k => x + gap + (i - k) <= 2 * i
          BY <1>4, <4>1
        <4> QED
          BY <1>8, <4>1, <4>2
      <3>4. chain'[i].id \in 1..made'
        <4>1. chain'[i].id = made + (i - k) /\ i - k \in 1..(n + 1) /\ made' = made + n + 1
          BY <1>2, <3>2
        <4>2. \A x \in 1..(n + 1) : made + x \in 1..(made + n + 1)
          BY <1>3
        <4> QED
          BY <4>1, <4>2
      <3> QED
        BY <1>2, <3>2, <3>3, <3>4
    <2> QED
      BY <1>3, <1>4, <1>13, <2>1, <2>2
  <1>18. ASSUME NEW i \in 1..Len(chain'), NEW j \in 1..Len(chain'), i < j
         PROVE  chain'[i].slot < chain'[j].slot /\ chain'[i].txs \cap chain'[j].txs = {}
    <2>0. i \in Nat /\ j \in Nat /\ Len(chain') \in Nat
      BY <1>3, <1>13
    <2>1. CASE j <= k
      <3>1. chain'[i] = chain[i] /\ chain'[j] = chain[j] /\ i \in 1..Len(chain) /\ j \in 1..Len(chain)
        BY <1>3, <1>4, <1>14, <1>18, <2>0, <2>1
      <3> QED
        BY <1>18, <2>0, <3>1 DEF NodeInv, Linked
    <2>2. CASE i <= k /\ j > k
      <3>1. /\ j - k \in 1..(n + 1) /\ chain'[j].slot = chain[k].slot + gap + (j - k)
            /\ chain'[j].txs = IF j - k = at THEN T ELSE {}
        <4>1. j \in (k + 1)..Len(chain')
          BY <1>3, <1>4, <2>0, <2>2
        <4> QED
          BY <1>15, <4>1
      <3>2. chain'[i] = chain[i] /\ i \in 1..k /\ i \in 1..Len(chain)
        BY <1>3, <1>4, <1>14, <2>0, <2>2
      <3>3. chain[i].slot \in Nat /\ chain[i].slot <= chain[k].slot
        <4>1. chain[i].slot \in Nat
          BY <1>5, <3>2, BlockFields
        <4>2. i = k \/ chain[i].slot < chain[k].slot
          BY <1>3, <1>4, <2>2, <3>2 DEF NodeInv, Linked
        <4> QED
          BY <1>8, <4>1, <4>2
      <3>4. chain'[i].slot < chain'[j].slot
        <4>1. \A x, y \in Nat, d \in 1..(n + 1) : x <= y => x < y + gap + d
          BY <1>3
        <4> QED
          BY <1>8, <3>1, <3>2, <3>3, <4>1
      <3>5. chain'[i].txs \cap chain'[j].txs = {}
        BY <1>10, <3>1, <3>2
      <3> QED
        BY <3>4, <3>5
    <2>3. CASE i > k
      <3>1. i \in (k + 1)..Len(chain') /\ j \in (k + 1)..Len(chain')
        BY <1>3, <1>4, <1>18, <2>0, <2>3
      <3>2. chain'[i].slot = chain[k].slot + gap + (i - k) /\ chain'[j].slot = chain[k].slot + gap + (j - k)
        BY <1>15, <3>1
      <3>3. chain'[i].slot < chain'[j].slot
        <4>1. \A a \in Nat, x, y \in Int : x < y => a + gap + x < a + gap + y
          OBVIOUS
        <4>2. i - k \in Int /\ j - k \in Int /\ i - k < j - k
          BY <1>4, <1>18, <2>0
        <4> QED
          BY <1>8, <3>2, <4>1, <4>2
      <3>4. i - k # j - k
        BY <1>3, <1>4, <1>18, <2>0
      <3>5. chain'[i].txs = {} \/ chain'[j].txs = {}
        BY <1>15, <3>1, <3>4
      <3> QED
        BY <3>3, <3>5
    <2>4. j <= k \/ (i <= k /\ j > k) \/ i > k
      BY <1>4, <2>0
    <2> QED
      BY <2>1, <2>2, <2>3, <2>4
  <1>19. \A i, j \in 1..Len(chain') : i # j => i < j \/ j < i
    BY <1>3, <1>13
  <1>20. Linked(chain)'
    BY <1>13, <1>17, <1>18, <1>19 DEF Linked
  <1> QED
    BY <1>16, <1>20 DEF k

-----------------------------------------------------------------------------
(* The writers.                                                            *)

WatchType == [height : 0..MaxHeight, slot : 0..(2 * MaxHeight), known : BOOLEAN]

\* A transaction that was not submitted is on no chain.
LEMMA NotSent ==
    ASSUME CursorInv, NEW t, t \notin submitted
    PROVE  \A i \in 1..Len(cursor) : t \notin cursor[i].txs
  BY DEF CursorInv, Linked

\* A transaction that is unknown or waited for has no height.
LEMMA BlankTypes ==
    Unknown \in WatchType /\ Waiting \in WatchType /\ Unknown.height = 0 /\ Waiting.height = 0
  <1>1. 0 \in 0..MaxHeight /\ 0 \in 0..(2 * MaxHeight)
    BY FollowerAssumption
  <1> QED
    BY <1>1 DEF Unknown, Waiting, WatchType

\* Watching or unwatching what was not submitted keeps the invariant.
LEMMA WriterStep ==
    ASSUME FollowerInv, NEW t \in Txs, t \notin submitted, NEW w \in {Unknown, Waiting},
           watched' = [watched EXCEPT ![t] = w],
           UNCHANGED <<points, tip, nodeVars, sessionVars, skipped>>
    PROVE  FollowerInv'
  <1> USE DEF nodeVars, sessionVars
  <1>1. UNCHANGED <<chain, made, submitted, cursor, fresh, session, asked, points, tip, skipped>>
    OBVIOUS
  <1>2. watched \in [Txs -> WatchType]
    BY DEF FollowerInv, WatchInv, WatchType
  <1>3. watched'[t] = w /\ \A u \in Txs : u # t => watched'[u] = watched[u]
    BY <1>2
  <1>4. w.height = 0 /\ w \in WatchType
    BY BlankTypes
  <1>5. watched' \in [Txs -> WatchType]
    BY <1>2, <1>4
  <1>6. \A u \in Txs : Included(u)' => u # t /\ Included(u)
    <2> SUFFICES ASSUME NEW u \in Txs, Included(u)' PROVE u # t /\ Included(u)
      OBVIOUS
    <2>1. watched'[u].height > 0
      BY DEF Included
    <2>2. u # t
      BY <1>3, <1>4, <2>1
    <2> QED
      BY <1>3, <2>1, <2>2 DEF Included
  <1>7. NodeInv'
    <2>1. \A u \in submitted : u # t /\ u \in Txs /\ watched'[u] = watched[u]
      BY <1>3 DEF FollowerInv, NodeInv
    <2>2. \A u \in submitted' : watched'[u].known
      BY <1>1, <2>1 DEF FollowerInv, NodeInv
    <2>3. Linked(chain)' /\ Len(chain') \in Cap..MaxHeight /\ made' \in Nat /\ submitted' \subseteq Txs
      BY <1>1 DEF FollowerInv, NodeInv, Linked
    <2> QED
      BY <2>2, <2>3 DEF NodeInv
  <1>8. CursorInv'
    BY <1>1 DEF FollowerInv, CursorInv, Linked
  <1>9. PointsInv' /\ AskedInv'
    BY <1>1 DEF FollowerInv, PointsInv, AskedInv, Sent, Gone, Sync
  <1>10. WatchInv'
    <2> SUFFICES ASSUME NEW u \in Txs, Included(u)'
                 PROVE  watched'[u].known /\ (Seated(u) \/ Unseated(u))' /\ (Pointed(u) \/ Anchored)'
      BY <1>5 DEF WatchInv, WatchType
    <2>1. watched'[u] = watched[u] /\ watched[u].known /\ (Seated(u) \/ Unseated(u)) /\ (Pointed(u) \/ Anchored)
      BY <1>3, <1>6 DEF FollowerInv, WatchInv
    <2>2. Seated(u) => Seated(u)'
      BY <1>1, <2>1 DEF Seated
    <2>3. Unseated(u) => Unseated(u)'
      BY <1>1, <2>1 DEF Unseated, Sync
    <2>4. Pointed(u) => Pointed(u)'
      BY <1>1, <2>1 DEF Pointed
    <2>5. Anchored => Anchored'
      BY <1>1 DEF Anchored
    <2> QED
      BY <2>1, <2>2, <2>3, <2>4, <2>5
  <1>11. TipInv'
    <2> SUFFICES ASSUME NEW u \in Txs, Included(u)', watched'[u].height + MaxRollback <= tip'
                 PROVE  u \in chain'[watched'[u].height].txs
      BY <1>1 DEF FollowerInv, TipInv
    <2>1. Included(u) /\ watched'[u] = watched[u]
      BY <1>3, <1>6
    <2> QED
      BY <1>1, <2>1 DEF FollowerInv, TipInv
  <1>12. SeenInv'
    <2>1. \A i \in 1..Len(cursor) : t \notin cursor[i].txs
      BY NotSent DEF FollowerInv
    <2>2. \A u \in Txs : u # t /\ Included(u) => Included(u)'
      BY <1>3 DEF Included
    <2>3. \A i \in 1..Len(cursor) : cursor[i].txs \subseteq Txs
      BY DEF FollowerInv, CursorInv, NodeInv, Linked
    <2> QED
      BY <1>1, <2>1, <2>2, <2>3 DEF FollowerInv, SeenInv
  <1> QED
    BY <1>7, <1>8, <1>9, <1>10, <1>11, <1>12 DEF FollowerInv

\* So does a submission ...
LEMMA SubmitStep ==
    ASSUME FollowerInv, NEW t \in Txs, Submit(t)
    PROVE  FollowerInv'
  <1>1. /\ watched[t].known /\ submitted' = submitted \cup {t}
        /\ UNCHANGED <<chain, made, cursor, fresh, session, asked, watched, points, tip, skipped>>
    BY DEF Submit, sessionVars, stateVars
  <1>2. NodeInv'
    <2>1. \A u \in submitted' : watched'[u].known
      BY <1>1 DEF FollowerInv, NodeInv
    <2>2. Linked(chain)' /\ Len(chain') \in Cap..MaxHeight /\ made' \in Nat /\ submitted' \subseteq Txs
      BY <1>1 DEF FollowerInv, NodeInv, Linked
    <2> QED
      BY <2>1, <2>2 DEF NodeInv
  <1>3. CursorInv'
    BY <1>1 DEF FollowerInv, CursorInv, Linked
  <1>4. PointsInv' /\ AskedInv'
    BY <1>1 DEF FollowerInv, PointsInv, AskedInv, Sent, Gone, Sync
  <1>5. WatchInv'
    BY <1>1 DEF FollowerInv, WatchInv, Included, Seated, Unseated, Pointed, Anchored, Sync
  <1>6. TipInv' /\ SeenInv'
    BY <1>1 DEF FollowerInv, TipInv, SeenInv, Included
  <1> QED
    BY <1>2, <1>3, <1>4, <1>5, <1>6 DEF FollowerInv

-----------------------------------------------------------------------------
(* The chain grows and forks.                                              *)

\* The chain that replaces another is linked to what was sent in the same way.
LEMMA SwitchNode ==
    ASSUME NodeInv, CursorInv, NEW k, Switch(k), Linked(chain)',
           UNCHANGED <<submitted, cursor, session, watched>>
    PROVE  NodeInv' /\ CursorInv'
  <1>2. /\ Cap \in Nat /\ MaxHeight \in Nat /\ made \in Nat /\ made' \in Nat
        /\ made <= made' /\ k \in 1..Len(chain)
        /\ Len(chain) \in Nat /\ Cap <= Len(chain) /\ Len(chain') = Len(chain) + 1
        /\ Len(chain') <= MaxHeight
    BY FollowerAssumption DEF Switch, NodeInv, Linked
  <1>3. \A i \in 1..k : chain'[i] = chain[i]
    BY DEF Switch
  <1>4. \A i \in (k + 1)..Len(chain') : chain'[i].id \notin 1..made
    BY <1>2 DEF Switch
  <1>5. ASSUME NEW b, NEW i \in 1..Len(chain'), b.id \in 1..made
        PROVE  chain'[i] = b => i <= k /\ chain[i] = b
    <2> SUFFICES ASSUME chain'[i] = b PROVE i <= k
      BY <1>2, <1>3
    <2> SUFFICES ASSUME i > k PROVE FALSE
      BY <1>2
    <2>1. i \in (k + 1)..Len(chain')
      BY <1>2
    <2> QED
      BY <1>4, <1>5, <2>1
  <1>6. NodeInv'
    <2>1. \A u \in submitted' : watched'[u].known
      BY DEF NodeInv
    <2>2. Len(chain') \in Cap..MaxHeight /\ submitted' \subseteq Txs
      BY <1>2 DEF NodeInv
    <2> QED
      BY <1>2, <2>1, <2>2 DEF NodeInv
  <1>7. CursorInv'
    <2>1. Linked(cursor) /\ Len(cursor) \in Nat /\ Len(cursor) <= Len(chain)
      BY DEF CursorInv, Linked
    <2>2. Linked(cursor)'
      <3>1. 1..made \subseteq 1..made'
        BY <1>2
      <3> QED
        BY <2>1, <3>1 DEF Linked
    <2>3. ASSUME NEW i \in 1..Len(cursor), cursor[i] = chain'[i]
          PROVE  \A j \in 1..i : cursor[j] = chain'[j]
      <3>1. cursor[i].id \in 1..made /\ i \in 1..Len(chain')
        BY <1>2, <2>1 DEF Linked
      <3>2. i <= k /\ chain[i] = cursor[i]
        BY <1>5, <2>3, <3>1
      <3>3. \A j \in 1..i : cursor[j] = chain[j] /\ j \in 1..k
        BY <1>2, <3>1, <3>2, SMTT(30) DEF CursorInv
      <3> QED
        BY <1>3, <3>3
    <2>4. cursor # <<>> => cursor[1] = chain'[1]
      BY <1>2, <1>3 DEF CursorInv
    <2> QED
      BY <1>2, <2>1, <2>2, <2>3, <2>4 DEF CursorInv
  <1> QED
    BY <1>6, <1>7

\* A block that was known stays on the chain if it was on it up to the fork,
\* and does not come back.
LEMMA SwitchStep ==
    ASSUME FollowerInv, NEW k, Switch(k), Linked(chain)',
           UNCHANGED <<submitted, sessionVars, stateVars, skipped>>
    PROVE  FollowerInv'
  <1>1. UNCHANGED <<submitted, cursor, fresh, session, asked, watched, points, tip, skipped>>
    BY DEF sessionVars, stateVars
  <1>2. /\ MaxRollback \in Nat /\ Cap \in Nat /\ MaxHeight \in Nat /\ made \in Nat /\ made' \in Nat
        /\ made <= made' /\ k \in 1..Len(chain) /\ Len(chain) <= k + MaxRollback
        /\ Len(chain) \in Nat /\ Cap <= Len(chain) /\ Len(chain') = Len(chain) + 1
        /\ Len(chain') <= MaxHeight
    BY FollowerAssumption DEF Switch, FollowerInv, NodeInv, Linked
  <1>3. \A i \in 1..k : chain'[i] = chain[i]
    BY DEF Switch
  <1>4. \A i \in (k + 1)..Len(chain') : chain'[i].id \notin 1..made
    BY <1>2 DEF Switch
  <1>5. ASSUME NEW b, NEW i \in 1..Len(chain'), b.id \in 1..made
        PROVE  chain'[i] = b => i <= k /\ chain[i] = b
    <2> SUFFICES ASSUME chain'[i] = b PROVE i <= k
      BY <1>2, <1>3
    <2> SUFFICES ASSUME i > k PROVE FALSE
      BY <1>2
    <2>1. i \in (k + 1)..Len(chain')
      BY <1>2
    <2> QED
      BY <1>4, <1>5, <2>1
  <1>6. NodeInv' /\ CursorInv'
    BY <1>1, SwitchNode DEF FollowerInv
  <1>8. PointsInv'
    <2>1. points \in Seq(Blocks) /\ Len(points) \in Nat
      BY DEF FollowerInv, PointsInv
    <2>2. ASSUME NEW i \in 1..Len(points)
          PROVE  points[i].height \in 1..Len(chain') /\ (Sent(points[i]) \/ Gone(points[i]))'
      <3>1. points[i].height \in 1..Len(chain) /\ (Sent(points[i]) \/ Gone(points[i]))
        BY DEF FollowerInv, PointsInv
      <3>2. Sent(points[i]) => Sent(points[i])'
        BY <1>1 DEF Sent
      <3>3. Gone(points[i]) => Gone(points[i])'
        <4> SUFFICES ASSUME Gone(points[i]) PROVE Gone(points[i])'
          OBVIOUS
        <4>1. /\ ~Sync /\ cursor # <<>> /\ points[i].slot > cursor[Len(cursor)].slot
              /\ points[i].id \in 1..made /\ chain[points[i].height] # points[i]
          BY DEF Gone
        <4>2. points[i].height \in 1..Len(chain')
          BY <1>2, <3>1
        <4>3. chain'[points[i].height] # points[i]
          BY <1>5, <4>1, <4>2
        <4>4. points[i].id \in 1..made'
          BY <1>2, <4>1, SMTT(30)
        <4> QED
          BY <1>1, <4>1, <4>3, <4>4 DEF Gone, Sync
      <3>4. points[i].height \in 1..Len(chain')
        BY <1>2, <3>1
      <3> QED
        BY <3>1, <3>2, <3>3, <3>4
    <2>3. Len(points) > MaxRollback => chain'[points[1].height] = points[1]
      <3> SUFFICES ASSUME Len(points) > MaxRollback PROVE chain'[points[1].height] = points[1]
        OBVIOUS
      <3>1. chain[points[1].height] = points[1] /\ 1 \in 1..Len(points) /\ Len(points) \in 1..Len(points)
        BY <1>2, <2>1 DEF FollowerInv, PointsInv
      <3>2. points[1].height \in 1..Len(chain) /\ points[Len(points)].height \in 1..Len(chain)
        BY <3>1 DEF FollowerInv, PointsInv
      <3>3. 1 < Len(points) => points[1].height + (Len(points) - 1) <= points[Len(points)].height
        BY <3>1 DEF FollowerInv, PointsInv
      <3>4. points[1].height + (Len(points) - 1) <= Len(chain)
        BY <1>2, <2>1, <3>1, <3>2, <3>3, SMTT(30)
      <3>5. points[1].height \in 1..k
        BY <1>2, <2>1, <3>2, <3>4
      <3> QED
        BY <1>3, <3>1, <3>5
    <2>4. \A i \in 1..Len(points') :
             points'[i].height \in 1..Len(chain') /\ (Sent(points[i]) \/ Gone(points[i]))'
      BY <1>1, <2>2
    <2>5. /\ points' \in Seq(Blocks) /\ Len(points') <= Cap
          /\ \A i, j \in 1..Len(points') : i < j =>
                points'[i].slot < points'[j].slot /\ points'[i].height + (j - i) <= points'[j].height
      BY <1>1 DEF FollowerInv, PointsInv
    <2> QED
      BY <1>1, <2>3, <2>4, <2>5 DEF PointsInv
  <1>9. AskedInv' /\ SeenInv'
    <2>1. skipped' \subseteq 1..made'
      BY <1>1, <1>2 DEF FollowerInv, SeenInv
    <2> QED
      BY <1>1, <2>1 DEF FollowerInv, AskedInv, SeenInv, Included
  <1>10. WatchInv'
    <2>1. Anchored => Anchored'
      <3> SUFFICES ASSUME Anchored PROVE Anchored'
        OBVIOUS
      <3>1. points # <<>> /\ points[1].height + MaxRollback <= Len(chain) /\ chain[points[1].height] = points[1]
        BY DEF Anchored
      <3>2. points[1].height \in 1..Len(chain)
        BY <3>1 DEF FollowerInv, PointsInv
      <3>3. points[1].height \in 1..k /\ points[1].height + MaxRollback <= Len(chain')
        BY <1>2, <3>1, <3>2, SMTT(30)
      <3> QED
        BY <1>1, <1>3, <3>1, <3>3 DEF Anchored
    <2> QED
      BY <1>1, <2>1 DEF FollowerInv, WatchInv, Included, Seated, Unseated, Pointed, Sync
  <1>11. TipInv'
    <2>1. tip \in 0..Len(chain) /\ tip \in 0..Len(chain')
      BY <1>2 DEF FollowerInv, TipInv
    <2>2. ASSUME NEW t \in Txs, Included(t), watched[t].height + MaxRollback <= tip
          PROVE  t \in chain'[watched[t].height].txs
      <3>1. t \in chain[watched[t].height].txs
        BY <2>2 DEF FollowerInv, TipInv
      <3>2. watched[t].height \in Nat /\ watched[t].height > 0
        BY <2>2 DEF FollowerInv, WatchInv, Included
      <3>3. watched[t].height \in 1..k
        BY <1>2, <2>1, <2>2, <3>2, SMTT(30)
      <3> QED
        BY <1>3, <3>1, <3>3
    <2> QED
      BY <1>1, <2>1, <2>2 DEF TipInv, Included
  <1> QED
    BY <1>6, <1>8, <1>9, <1>10, <1>11 DEF FollowerInv

-----------------------------------------------------------------------------
(* A connection is made and lost.                                          *)

\* ... and losing or negotiating a session, after which nothing is claimed to be in sync.
LEMMA SessionStep ==
    ASSUME FollowerInv, AskedInv', session' # "up",
           UNCHANGED <<cursor, nodeVars, stateVars, skipped>>
    PROVE  FollowerInv'
  <1>1. UNCHANGED <<chain, made, submitted, cursor, watched, points, tip, skipped>> /\ ~Sync'
    BY DEF nodeVars, stateVars, Sync
  <1>2. NodeInv' /\ CursorInv'
    BY <1>1 DEF FollowerInv, NodeInv, CursorInv, Linked
  <1>3. PointsInv'
    BY <1>1 DEF FollowerInv, PointsInv, Sent, Gone
  <1>4. WatchInv'
    BY <1>1 DEF FollowerInv, WatchInv, Included, Seated, Unseated, Pointed, Anchored
  <1>5. TipInv' /\ SeenInv'
    BY <1>1 DEF FollowerInv, TipInv, SeenInv, Included
  <1> QED
    BY <1>2, <1>3, <1>4, <1>5 DEF FollowerInv

\* A cursor that is the chain up to some block.
LEMMA PrefixCursor ==
    ASSUME NodeInv, UNCHANGED <<chain, made, submitted>>, NEW n \in 1..Len(chain),
           cursor' \in Seq(Blocks), Len(cursor') = n, \A i \in 1..n : cursor'[i] = chain[i]
    PROVE  CursorInv'
  <1>1. Len(chain) \in Nat /\ \A i \in 1..n : i \in 1..Len(chain)
    BY DEF NodeInv, Linked
  <1>2. Linked(cursor)'
    BY <1>1 DEF NodeInv, Linked
  <1>3. Len(cursor') <= Len(chain') /\ cursor'[1] = chain'[1]
    BY <1>1
  <1>4. \A i \in 1..Len(cursor') : \A j \in 1..i : cursor'[j] = chain'[j]
    BY <1>1
  <1>5. cursor' # <<>>
    BY <1>1
  <1> QED
    BY <1>2, <1>3, <1>4, <1>5 DEF CursorInv

\* Of what was sent up to block m: an inclusion is in it or comes after it,
\* and so does a point.
LEMMA CutInclusions ==
    ASSUME FollowerInv, NEW m \in 1..Len(cursor), NEW t \in Txs, Included(t)
    PROVE  \/ /\ watched[t].height \in 1..m /\ t \in cursor[watched[t].height].txs
              /\ cursor[watched[t].height].slot = watched[t].slot /\ watched[t].slot <= cursor[m].slot
           \/ /\ watched[t].slot > cursor[m].slot
              /\ \A i \in 1..m : t \notin cursor[i].txs
  <1> DEFINE h == watched[t].height
  <1>1. Len(cursor) \in Nat /\ \A i \in 1..Len(cursor) : cursor[i] \in Blocks /\ cursor[i].slot \in Nat
    <2>1. cursor \in Seq(Blocks)
      BY DEF FollowerInv, CursorInv, Linked
    <2>2. Len(cursor) \in Nat /\ \A i \in 1..Len(cursor) : cursor[i] \in Blocks
      BY <2>1
    <2> QED
      BY <2>2, BlockFields
  <1>2. \A i, j \in 1..Len(cursor) : i < j => cursor[i].slot < cursor[j].slot
    BY DEF FollowerInv, CursorInv, Linked
  <1>3. \A i, j \in 1..Len(cursor) : i # j => cursor[i].txs \cap cursor[j].txs = {}
    BY DEF FollowerInv, CursorInv, Linked
  <1>4. Seated(t) \/ Unseated(t)
    BY DEF FollowerInv, WatchInv
  <1>5. CASE Seated(t)
    <2>1. h \in 1..Len(cursor) /\ t \in cursor[h].txs /\ cursor[h].slot = watched[t].slot
      BY <1>5 DEF Seated
    <2> HIDE DEF h
    <2>2. CASE h <= m
      <3>1. h \in 1..m
        BY <1>1, <2>1, <2>2
      <3>2. cursor[h].slot <= cursor[m].slot
        BY <1>1, <1>2, <2>1, <2>2
      <3> QED
        BY <2>1, <3>1, <3>2 DEF h
    <2>3. CASE h > m
      <3>1. watched[t].slot > cursor[m].slot
        <4>1. cursor[m].slot < cursor[h].slot
          BY <1>1, <1>2, <2>1, <2>3
        <4> QED
          BY <1>1, <2>1, <4>1
      <3>2. ASSUME NEW i \in 1..m PROVE t \notin cursor[i].txs
        <4>1. i # h /\ i \in 1..Len(cursor)
          BY <1>1, <2>1, <2>3
        <4> QED
          BY <1>3, <2>1, <4>1
      <3> QED
        BY <3>1, <3>2
    <2> QED
      BY <1>1, <2>1, <2>2, <2>3
  <1>6. CASE Unseated(t)
    <2>1. /\ watched[t].slot > cursor[Len(cursor)].slot
          /\ \A i \in 1..Len(cursor) : t \notin cursor[i].txs
      BY <1>6 DEF Unseated
    <2>2. watched[t].slot \in Nat /\ Len(cursor) \in 1..Len(cursor)
      BY <1>1 DEF FollowerInv, WatchInv
    <2>3. cursor[m].slot <= cursor[Len(cursor)].slot
      BY <1>1, <1>2, <2>2
    <2>4. watched[t].slot > cursor[m].slot
      BY <1>1, <2>1, <2>2, <2>3
    <2>5. \A i \in 1..m : i \in 1..Len(cursor)
      BY <1>1
    <2> QED
      BY <2>1, <2>4, <2>5
  <1> QED
    BY <1>4, <1>5, <1>6

\* A point is on the part of the chain below the rollback point, or has a later slot.
LEMMA CutPoints ==
    ASSUME FollowerInv, NEW m \in 1..Len(cursor), NEW j \in 1..Len(points)
    PROVE  \/ /\ points[j].height \in 1..m /\ cursor[points[j].height] = points[j]
              /\ points[j].slot <= cursor[m].slot
           \/ points[j].slot > cursor[m].slot
  <1> DEFINE p == points[j]
  <1>1. Len(cursor) \in Nat /\ \A i \in 1..Len(cursor) : cursor[i] \in Blocks /\ cursor[i].slot \in Nat
    <2>1. cursor \in Seq(Blocks)
      BY DEF FollowerInv, CursorInv, Linked
    <2>2. Len(cursor) \in Nat /\ \A i \in 1..Len(cursor) : cursor[i] \in Blocks
      BY <2>1
    <2> QED
      BY <2>2, BlockFields
  <1>2. \A i, l \in 1..Len(cursor) : i < l => cursor[i].slot < cursor[l].slot
    BY DEF FollowerInv, CursorInv, Linked
  <1>3. p \in Blocks /\ p.slot \in Nat
    <2>1. p \in Blocks
      BY DEF FollowerInv, PointsInv
    <2> QED
      BY <2>1, BlockFields
  <1>4. Sent(p) \/ Gone(p)
    BY DEF FollowerInv, PointsInv
  <1> HIDE DEF p
  <1>5. CASE Sent(p)
    <2>1. p.height \in 1..Len(cursor) /\ cursor[p.height] = p
      BY <1>5 DEF Sent
    <2>2. CASE p.height <= m
      <3>1. p.height \in 1..m
        BY <1>1, <2>1, <2>2
      <3>2. p.height = m \/ cursor[p.height].slot < cursor[m].slot
        BY <1>1, <1>2, <2>1, <2>2
      <3>3. p.slot <= cursor[m].slot
        BY <1>1, <1>3, <2>1, <3>2
      <3> QED
        BY <2>1, <3>1, <3>3 DEF p
    <2>3. CASE p.height > m
      <3>1. cursor[m].slot < cursor[p.height].slot
        BY <1>1, <1>2, <2>1, <2>3
      <3> QED
        BY <1>1, <1>3, <2>1, <3>1 DEF p
    <2> QED
      BY <1>1, <2>1, <2>2, <2>3
  <1>6. CASE Gone(p)
    <2>1. p.slot > cursor[Len(cursor)].slot /\ Len(cursor) \in 1..Len(cursor)
      BY <1>1, <1>6 DEF Gone
    <2>2. cursor[m].slot <= cursor[Len(cursor)].slot
      BY <1>1, <1>2, <2>1
    <2> QED
      BY <1>1, <1>3, <2>1, <2>2 DEF p
  <1> QED
    BY <1>4, <1>5, <1>6

-----------------------------------------------------------------------------
(* The intersection.                                                       *)

Common == {i \in DOMAIN chain : chain[i] \in Range(asked)}

\* The intersection is the highest block of the chain that was offered.
LEMMA CommonMax ==
    ASSUME NodeInv, Common # {}
    PROVE  /\ Max(Common) \in 1..Len(chain) /\ chain[Max(Common)] \in Range(asked)
           /\ \A i \in 1..Len(chain) : chain[i] \in Range(asked) => i <= Max(Common)
  <1>1. Len(chain) \in Nat /\ DOMAIN chain = 1..Len(chain)
    BY DEF NodeInv, Linked
  <1>2. Common \in SUBSET Nat /\ \A x \in Common : x <= Len(chain)
    BY <1>1 DEF Common
  <1>3. Max(Common) \in Common /\ \A y \in Common : Max(Common) >= y
    BY <1>1, <1>2, MaxIs
  <1>4. Max(Common) \in 1..Len(chain) /\ chain[Max(Common)] \in Range(asked)
    BY <1>1, <1>3 DEF Common
  <1>5. ASSUME NEW i \in 1..Len(chain), chain[i] \in Range(asked) PROVE i <= Max(Common)
    <2>1. i \in Common
      BY <1>1, <1>5 DEF Common
    <2> QED
      BY <1>1, <1>3, <1>4, <2>1
  <1> QED
    BY <1>4, <1>5

\* The newest point on the chain was sent, and so was all before it; the
\* points after it are off the chain.
LEMMA IntersectAt ==
    ASSUME FollowerInv, session = "intersect", points # <<>>, Common # {}
    PROVE  /\ Max(Common) \in 1..Len(cursor)
           /\ \A i \in 1..Max(Common) : cursor[i] = chain[i]
           /\ \A j \in 1..Len(points) :
                 chain[points[j].height] = points[j] => points[j].height <= Max(Common)
  <1> DEFINE m == Max(Common)
  <1>1. /\ m \in 1..Len(chain) /\ chain[m] \in Range(asked)
        /\ \A i \in 1..Len(chain) : chain[i] \in Range(asked) => i <= m
    BY CommonMax DEF FollowerInv
  <1>2. asked = Reverse(points) /\ points \in Seq(Blocks) /\ Len(points) \in Nat
    BY DEF FollowerInv, AskedInv, PointsInv
  <1>3. \A x : x \in Range(asked) <=> \E j \in 1..Len(points) : points[j] = x
    <2>1. DOMAIN asked = 1..Len(points) /\ \A i \in 1..Len(points) : asked[i] = points[(Len(points) - i) + 1]
      BY <1>2 DEF Reverse
    <2>2. \A i \in 1..Len(points) : /\ (Len(points) - i) + 1 \in 1..Len(points)
                                    /\ (Len(points) - ((Len(points) - i) + 1)) + 1 = i
      BY <1>2
    <2>3. ASSUME NEW j \in 1..Len(points) PROVE points[j] \in Range(asked)
      <3>1. asked[(Len(points) - j) + 1] = points[j]
        BY <2>1, <2>2
      <3> QED
        BY <2>1, <2>2, <3>1 DEF Range
    <2>4. ASSUME NEW x \in Range(asked) PROVE \E j \in 1..Len(points) : points[j] = x
      <3>1. PICK i \in 1..Len(points) : x = asked[i]
        BY <2>1 DEF Range
      <3> QED
        BY <2>1, <2>2, <3>1
    <2> QED
      BY <2>3, <2>4
  <1> HIDE DEF m
  <1>4. PICK q \in 1..Len(points) : points[q] = chain[m]
    BY <1>1, <1>3
  <1>5. chain[m].height = m
    BY <1>1 DEF FollowerInv, NodeInv, Linked
  <1>6. Sent(points[q])
    <2>1. Sent(points[q]) \/ Gone(points[q])
      BY DEF FollowerInv, PointsInv
    <2> QED
      BY <1>4, <1>5, <2>1 DEF Gone
  <1>7. m \in 1..Len(cursor) /\ cursor[m] = chain[m]
    BY <1>4, <1>5, <1>6 DEF Sent
  <1>8. \A i \in 1..m : cursor[i] = chain[i]
    BY <1>7 DEF FollowerInv, CursorInv
  <1>9. ASSUME NEW j \in 1..Len(points), chain[points[j].height] = points[j]
        PROVE  points[j].height <= m
    <2>1. points[j].height \in 1..Len(chain) /\ points[j] \in Range(asked)
      BY <1>3 DEF FollowerInv, PointsInv
    <2> QED
      BY <1>1, <1>9, <2>1
  <1> QED
    BY <1>7, <1>8, <1>9 DEF m

\* A session that is up again starts where memory and chain agree.
LEMMA IntersectStep ==
    ASSUME FollowerInv, Intersect
    PROVE  FollowerInv'
  <1>1. session = "intersect" /\ asked' = <<>>
        /\ UNCHANGED <<chain, made, submitted, watched, points, tip>>
    BY DEF Intersect, nodeVars, stateVars
  <1>2. CASE Common = {}
    <2>1. session' = "down" /\ UNCHANGED <<cursor, nodeVars, stateVars, skipped>>
      BY <1>2 DEF Intersect, Common
    <2> QED
      BY <2>1, SessionStep DEF AskedInv
  <1>3. CASE Common # {}
    <2> DEFINE m == Max(Common)
    <2>1. /\ cursor' = SubSeq(chain, 1, m) /\ fresh' = TRUE /\ session' = "up"
          /\ skipped' = IF points = <<>> THEN skipped \cup {b.id : b \in Range(cursor')} ELSE skipped
      BY <1>3 DEF Intersect, Common
    <2>2. m \in 1..Len(chain) /\ chain \in Seq(Blocks) /\ Len(chain) \in Nat
      BY <1>3, CommonMax DEF FollowerInv, NodeInv, Linked
    <2> HIDE DEF m
    <2>3. cursor' \in Seq(Blocks) /\ Len(cursor') = m /\ \A i \in 1..m : cursor'[i] = chain[i]
      <3>1. m \in 0..Len(chain)
        BY <2>2
      <3> QED
        BY <2>1, <2>2, <3>1, Prefix
    <2>4. NodeInv'
      BY <1>1 DEF FollowerInv, NodeInv, Linked
    <2>5. CursorInv'
      BY <1>1, <2>2, <2>3, PrefixCursor DEF FollowerInv
    <2>6. ~Sync' /\ cursor' # <<>> /\ AskedInv'
      BY <2>1, <2>2, <2>3 DEF Sync, AskedInv
    <2>7. TipInv'
      BY <1>1 DEF FollowerInv, TipInv, Included
    <2>8. CASE points = <<>>
      <3>1. \A t \in Txs : ~Included(t)
        BY <2>8 DEF FollowerInv, WatchInv, Pointed, Anchored
      <3>2. \A t \in Txs : ~Included(t)'
        BY <1>1, <3>1 DEF Included
      <3>3. PointsInv'
        <4>1. points' = <<>> /\ Len(points') = 0
          BY <1>1, <2>8
        <4> QED
          BY <4>1, FollowerAssumption DEF PointsInv
      <3>4. WatchInv'
        BY <1>1, <3>2 DEF FollowerInv, WatchInv
      <3>5. SeenInv'
        <4>1. \A i \in 1..m : cursor'[i].id \in 1..made /\ cursor'[i].id \in skipped'
          <5>1. DOMAIN cursor' = 1..m
            BY <2>2, <2>3
          <5>2. \A i \in 1..m : cursor'[i].id \in skipped'
            BY <2>1, <2>8, <5>1 DEF Range
          <5>3. \A i \in 1..m : cursor'[i].id \in 1..made
            BY <2>2, <2>3 DEF FollowerInv, NodeInv, Linked
          <5> QED
            BY <5>2, <5>3
        <4>2. skipped' \subseteq 1..made
          <5>1. \A b \in Range(cursor') : b.id \in 1..made
            BY <2>2, <2>3, <4>1 DEF Range
          <5> QED
            BY <2>1, <2>8, <5>1 DEF FollowerInv, SeenInv
        <4> QED
          BY <1>1, <2>3, <4>1, <4>2 DEF SeenInv
      <3> QED
        BY <2>4, <2>5, <2>6, <2>7, <3>3, <3>4, <3>5 DEF FollowerInv
    <2>9. CASE points # <<>>
      <3>1. /\ m \in 1..Len(cursor) /\ \A i \in 1..m : cursor[i] = chain[i]
            /\ \A j \in 1..Len(points) : chain[points[j].height] = points[j] => points[j].height <= m
        BY <1>1, <1>3, <2>9, IntersectAt DEF m
      <3>2. skipped' = skipped
        BY <2>1, <2>9
      <3>3. cursor'[m] = cursor[m] /\ \A i \in 1..m : cursor'[i] = cursor[i]
        BY <2>2, <2>3, <3>1
      <3>4. PointsInv'
        <4>1. ASSUME NEW j \in 1..Len(points) PROVE Sent(points[j])' \/ Gone(points[j])'
          <5>0. points'[j] = points[j]
            BY <1>1
          <5>1. CASE points[j].height \in 1..m /\ cursor[points[j].height] = points[j]
            BY <2>3, <3>3, <5>0, <5>1 DEF Sent
          <5>2. CASE points[j].slot > cursor[m].slot
            <6>1. points[j].id \in 1..made
              <7>1. Sent(points[j]) \/ Gone(points[j])
                BY DEF FollowerInv, PointsInv
              <7>2. Sent(points[j]) => points[j].id \in 1..made
                BY DEF Sent, FollowerInv, CursorInv, Linked
              <7> QED
                BY <7>1, <7>2 DEF Gone
            <6>2. chain[points[j].height] # points[j]
              <7> SUFFICES ASSUME chain[points[j].height] = points[j] PROVE FALSE
                OBVIOUS
              <7>1. points[j].height \in 1..Len(chain) /\ points[j].height <= m
                BY <3>1 DEF FollowerInv, PointsInv
              <7>2. points[j].height \in 1..m
                BY <2>2, <7>1
              <7>3. cursor[points[j].height] = points[j]
                BY <3>1, <7>2
              <7>4. points[j].height = m \/ cursor[points[j].height].slot < cursor[m].slot
                <8>1. points[j].height \in 1..Len(cursor) /\ (points[j].height = m \/ points[j].height < m)
                  BY <2>2, <3>1, <7>2
                <8> QED
                  BY <3>1, <8>1 DEF FollowerInv, CursorInv, Linked
              <7>5. points[j].slot \in Nat /\ cursor[m].slot \in Nat
                <8>1. points[j] \in Blocks /\ cursor[m] \in Blocks
                  BY <3>1 DEF FollowerInv, PointsInv, CursorInv, Linked
                <8> QED
                  BY <8>1, BlockFields
              <7> QED
                BY <5>2, <7>3, <7>4, <7>5
            <6> QED
              BY <1>1, <2>3, <2>6, <3>3, <5>0, <5>2, <6>1, <6>2 DEF Gone
          <5> QED
            BY <3>1, <5>1, <5>2, CutPoints
        <4>2. \A j \in 1..Len(points') :
                 points'[j].height \in 1..Len(chain') /\ (Sent(points[j]) \/ Gone(points[j]))'
          BY <1>1, <4>1 DEF FollowerInv, PointsInv
        <4>3. /\ points' \in Seq(Blocks) /\ Len(points') <= Cap
              /\ \A i, j \in 1..Len(points') : i < j =>
                    points'[i].slot < points'[j].slot /\ points'[i].height + (j - i) <= points'[j].height
              /\ Len(points') > MaxRollback => chain'[points'[1].height] = points'[1]
          BY <1>1 DEF FollowerInv, PointsInv
        <4> QED
          BY <4>2, <4>3 DEF PointsInv
      <3>5. WatchInv'
        <4> SUFFICES ASSUME NEW t \in Txs, Included(t)'
                     PROVE  watched'[t].known /\ (Seated(t) \/ Unseated(t))' /\ (Pointed(t) \/ Anchored)'
          BY <1>1 DEF FollowerInv, WatchInv
        <4>1. watched'[t] = watched[t] /\ Included(t)
          BY <1>1 DEF Included
        <4>2. watched[t].known /\ (Pointed(t) \/ Anchored)
          BY <4>1 DEF FollowerInv, WatchInv
        <4>3. (Pointed(t) \/ Anchored)'
          BY <1>1, <4>2 DEF Pointed, Anchored
        <4>4. \/ /\ watched[t].height \in 1..m /\ t \in cursor[watched[t].height].txs
                 /\ cursor[watched[t].height].slot = watched[t].slot
              \/ watched[t].slot > cursor[m].slot /\ \A i \in 1..m : t \notin cursor[i].txs
          BY <3>1, <4>1, CutInclusions
        <4>5. (Seated(t) \/ Unseated(t))'
          BY <2>3, <2>6, <3>3, <4>1, <4>4 DEF Seated, Unseated
        <4> QED
          BY <4>1, <4>2, <4>3, <4>5
      <3>6. SeenInv'
        <4>1. \A i \in 1..m : i \in 1..Len(cursor)
          BY <2>2, <3>1
        <4> QED
          BY <1>1, <2>3, <3>2, <3>3, <4>1 DEF FollowerInv, SeenInv, Included
      <3> QED
        BY <2>4, <2>5, <2>6, <2>7, <3>4, <3>5, <3>6 DEF FollowerInv
    <2> QED
      BY <2>8, <2>9
  <1> QED
    BY <1>2, <1>3

-----------------------------------------------------------------------------
(* apply_backward.                                                         *)

\* A step back removes exactly the points and inclusions that were forked away.
LEMMA BackwardStep ==
    ASSUME FollowerInv, Backward
    PROVE  FollowerInv'
  <1> DEFINE m == Shared
             cut == chain[m].slot
  <1>1. session = "up" /\ cursor # <<>> /\ cursor[1] = chain[1] /\ Len(cursor) \in Nat
    BY DEF Backward, SteppingBack, FollowerInv, CursorInv, Linked
  <1>2. /\ m \in 0..Len(cursor) /\ \A i \in 1..m : cursor[i] = chain[i]
        /\ \A i \in 1..Len(cursor) : cursor[i] = chain[i] => i <= m
    BY SharedIs DEF FollowerInv
  <1>3. m \in 1..Len(cursor) /\ m # 0
    <2>1. 1 \in 1..Len(cursor)
      <3>1. cursor \in Seq(Blocks)
        BY DEF FollowerInv, CursorInv, Linked
      <3>2. Len(cursor) # 0
        BY <1>1, <3>1
      <3> QED
        BY <1>1, <3>2
    <2>2. 1 <= m
      BY <1>1, <1>2, <2>1
    <2> QED
      BY <1>1, <1>2, <2>2
  <1>4. /\ cursor' = SubSeq(chain, 1, m) /\ fresh' = FALSE /\ points' = Pruned(cut) /\ tip' = Len(chain)
        /\ watched' = [t \in Txs |-> IF Included(t) /\ RolledBack(watched[t].slot, cut)
                                     THEN Waiting ELSE watched[t]]
        /\ UNCHANGED <<session, asked, chain, made, submitted, skipped>>
    BY <1>3 DEF Backward, nodeVars
  <1>5. chain \in Seq(Blocks) /\ Len(chain) \in Nat /\ m \in 1..Len(chain)
    BY <1>1, <1>3 DEF FollowerInv, NodeInv, CursorInv, Linked
  <1>6. cut \in Nat /\ cut = cursor[m].slot
    <2>1. chain[m] \in Blocks
      BY <1>5
    <2> QED
      BY <1>2, <1>3, <2>1, BlockFields
  <1> HIDE DEF m, cut
  <1>7. cursor' \in Seq(Blocks) /\ Len(cursor') = m /\ \A i \in 1..m : cursor'[i] = chain[i]
    <2>1. m \in 0..Len(chain)
      BY <1>5
    <2> QED
      BY <1>4, <1>5, <2>1, Prefix
  <1>8. CursorInv'
    BY <1>4, <1>5, <1>7, PrefixCursor DEF FollowerInv
  <1>9. PICK k \in 0..Len(points) :
           /\ points' = SubSeq(points, 1, k)
           /\ \A i \in 1..Len(points) : i <= k <=> points[i].slot <= cut
    BY <1>4, <1>6, PrunedIs DEF FollowerInv, PointsInv
  <1>10. points \in Seq(Blocks) /\ Len(points) \in Nat /\ Len(points) <= Cap
    BY DEF FollowerInv, PointsInv
  <1>11. points' \in Seq(Blocks) /\ Len(points') = k /\ \A i \in 1..k : points'[i] = points[i]
    BY <1>9, <1>10, Prefix
  <1>12. \A i \in 1..k : i \in 1..Len(points) /\ points[i].slot <= cut
    BY <1>9, <1>10
  <1>13. PointsInv'
    <2>1. ASSUME NEW i \in 1..k
          PROVE  points'[i].height \in 1..Len(chain') /\ (Sent(points[i]) \/ Gone(points[i]))'
      <3>1. i \in 1..Len(points) /\ points[i].slot <= cursor[m].slot
        BY <1>6, <1>12
      <3>2. points[i].slot \in Nat /\ cursor[m].slot \in Nat
        <4>1. points[i] \in Blocks
          BY <1>10, <3>1
        <4> QED
          BY <1>6, <4>1, BlockFields
      <3>3. points[i].height \in 1..m /\ cursor[points[i].height] = points[i]
        BY <1>3, <3>1, <3>2, CutPoints
      <3>4. Sent(points[i])'
        BY <1>2, <1>7, <1>11, <3>3 DEF Sent
      <3>5. points'[i].height \in 1..Len(chain')
        BY <1>4, <1>11, <3>1 DEF FollowerInv, PointsInv
      <3> QED
        BY <3>4, <3>5
    <2>2. \A i, j \in 1..k : i < j =>
             points'[i].slot < points'[j].slot /\ points'[i].height + (j - i) <= points'[j].height
      BY <1>11, <1>12 DEF FollowerInv, PointsInv
    <2>3. k > MaxRollback => chain'[points'[1].height] = points'[1]
      <3> SUFFICES ASSUME k > MaxRollback PROVE chain'[points'[1].height] = points'[1]
        OBVIOUS
      <3>1. 1 \in 1..k /\ Len(points) > MaxRollback
        BY <1>9, <1>10, FollowerAssumption
      <3> QED
        BY <1>4, <1>11, <3>1 DEF FollowerInv, PointsInv
    <2>4. Len(points') <= Cap
      BY <1>9, <1>10, <1>11, FollowerAssumption
    <2> QED
      BY <1>11, <2>1, <2>2, <2>3, <2>4 DEF PointsInv
  <1>14. watched \in [Txs -> WatchType]
    BY DEF FollowerInv, WatchInv, WatchType
  <1>15. ASSUME NEW t \in Txs
         PROVE  /\ watched'[t] \in {watched[t], Waiting}
                /\ Included(t)' => /\ Included(t) /\ watched'[t] = watched[t]
                                   /\ watched[t].slot <= cut
    <2>0. watched[t].slot \in Nat
      BY <1>14 DEF WatchType
    <2>1. CASE Included(t) /\ watched[t].slot > cut
      <3>1. watched'[t] = Waiting
        BY <1>4, <2>1 DEF RolledBack
      <3> QED
        BY <3>1, BlankTypes DEF Included
    <2>2. CASE ~(Included(t) /\ watched[t].slot > cut)
      <3>1. watched'[t] = watched[t]
        BY <1>4, <2>2 DEF RolledBack
      <3>2. Included(t)' => Included(t)
        BY <3>1 DEF Included
      <3> QED
        BY <1>6, <2>0, <2>2, <3>1, <3>2
    <2> QED
      BY <2>1, <2>2
  <1>16. \A t \in Txs : watched'[t].known \/ ~watched[t].known
    <2>1. Waiting.known
      BY DEF Waiting
    <2> QED
      BY <1>15, <2>1
  <1>17. NodeInv'
    <2>1. \A t \in submitted' : watched'[t].known
      BY <1>4, <1>16 DEF FollowerInv, NodeInv
    <2>2. Linked(chain)' /\ Len(chain') \in Cap..MaxHeight /\ made' \in Nat /\ submitted' \subseteq Txs
      BY <1>4 DEF FollowerInv, NodeInv, Linked
    <2> QED
      BY <2>1, <2>2 DEF NodeInv
  <1>18. ASSUME NEW t \in Txs, Included(t)'
         PROVE  /\ Included(t) /\ watched'[t] = watched[t] /\ watched[t].slot <= cut
                /\ watched[t].height \in 1..m /\ t \in cursor[watched[t].height].txs
                /\ cursor[watched[t].height].slot = watched[t].slot
    <2>1. Included(t) /\ watched'[t] = watched[t] /\ watched[t].slot <= cut
      BY <1>15, <1>18
    <2>2. watched[t].slot \in Nat
      BY <1>14 DEF WatchType
    <2>3. ~(watched[t].slot > cursor[m].slot)
      BY <1>6, <2>1, <2>2
    <2> QED
      BY <1>3, <2>1, <2>3, CutInclusions
  <1>19. WatchInv'
    <2>1. watched' \in [Txs -> WatchType]
      <3>1. DOMAIN watched' = Txs /\ watched' = [t \in Txs |-> watched'[t]]
        BY <1>4
      <3>2. \A t \in Txs : watched'[t] \in WatchType
        BY <1>14, <1>15, BlankTypes
      <3> QED
        BY <3>1, <3>2
    <2> SUFFICES ASSUME NEW t \in Txs, Included(t)'
                 PROVE  watched'[t].known /\ (Seated(t) \/ Unseated(t))' /\ (Pointed(t) \/ Anchored)'
      BY <2>1 DEF WatchInv, WatchType
    <2>2. /\ Included(t) /\ watched'[t] = watched[t] /\ watched[t].slot <= cut
          /\ watched[t].height \in 1..m /\ t \in cursor[watched[t].height].txs
          /\ cursor[watched[t].height].slot = watched[t].slot
      BY <1>18
    <2>3. watched[t].known /\ (Pointed(t) \/ Anchored)
      BY <2>2 DEF FollowerInv, WatchInv
    <2>4. Seated(t)'
      BY <1>2, <1>7, <2>2 DEF Seated
    <2>5. Pointed(t) => Pointed(t)'
      <3> SUFFICES ASSUME NEW i \in 1..Len(points), points[i].slot = watched[t].slot PROVE Pointed(t)'
        BY DEF Pointed
      <3>1. i <= k
        BY <1>9, <2>2
      <3>2. i \in 1..k
        BY <1>9, <1>10, <3>1
      <3> QED
        BY <1>11, <2>2, <3>2 DEF Pointed
    <2>6. Anchored => Anchored'
      <3> SUFFICES ASSUME Anchored PROVE Anchored'
        OBVIOUS
      <3>1. points # <<>> /\ points[1].height + MaxRollback <= Len(chain) /\ chain[points[1].height] = points[1]
        BY DEF Anchored
      <3>2. 1 \in 1..Len(points)
        BY <1>10, <3>1
      <3>3. Sent(points[1])
        <4>1. Sent(points[1]) \/ Gone(points[1])
          BY <3>2 DEF FollowerInv, PointsInv
        <4> QED
          BY <3>1, <4>1 DEF Gone
      <3>4. points[1].height \in 1..Len(cursor) /\ cursor[points[1].height] = chain[points[1].height]
        BY <3>1, <3>3 DEF Sent
      <3>5. points[1].height \in 1..m
        BY <1>1, <1>2, <1>3, <3>4
      <3>6. points[1].slot <= cursor[m].slot
        <4>1. points[1].height = m \/ cursor[points[1].height].slot < cursor[m].slot
          <5>1. points[1].height = m \/ points[1].height < m
            BY <1>1, <1>3, <3>5
          <5> QED
            BY <1>3, <3>4, <5>1 DEF FollowerInv, CursorInv, Linked
        <4>2. cursor[points[1].height] = points[1] /\ points[1] \in Blocks
          BY <1>10, <3>1, <3>2, <3>4
        <4>3. points[1].slot \in Nat
          BY <4>2, BlockFields
        <4> QED
          BY <1>6, <4>1, <4>2, <4>3
      <3>7. 1 <= k
        BY <1>6, <1>9, <3>2, <3>6
      <3>8. 1 \in 1..k /\ points' # <<>> /\ points'[1] = points[1]
        BY <1>9, <1>10, <1>11, <3>7
      <3> QED
        BY <1>4, <3>1, <3>8 DEF Anchored
    <2> QED
      BY <2>2, <2>3, <2>4, <2>5, <2>6
  <1>20. TipInv'
    <2>1. tip' \in 0..Len(chain')
      BY <1>4, <1>5
    <2>2. ASSUME NEW t \in Txs, Included(t)' PROVE t \in chain'[watched'[t].height].txs
      BY <1>2, <1>4, <1>18, <2>2
    <2> QED
      BY <2>1, <2>2 DEF TipInv
  <1>21. SeenInv'
    <2>1. ASSUME NEW i \in 1..m, cursor'[i].id \notin skipped', NEW t \in cursor'[i].txs
          PROVE  Included(t)'
      <3>1. cursor'[i] = cursor[i] /\ i \in 1..Len(cursor)
        BY <1>1, <1>2, <1>3, <1>7
      <3>2. t \in Txs /\ Included(t)
        <4>1. cursor[i].txs \subseteq Txs
          BY <3>1 DEF FollowerInv, CursorInv, NodeInv, Linked
        <4> QED
          BY <1>4, <2>1, <3>1, <4>1 DEF FollowerInv, SeenInv
      <3>3. watched[t].slot <= cursor[m].slot
        BY <1>3, <2>1, <3>1, <3>2, CutInclusions
      <3>4. ~RolledBack(watched[t].slot, cut)
        <4>1. watched[t].slot \in Nat
          BY <1>14, <3>2 DEF WatchType
        <4> QED
          BY <1>6, <3>3, <4>1 DEF RolledBack
      <3>5. watched'[t] = watched[t]
        BY <1>4, <3>2, <3>4
      <3> QED
        BY <3>2, <3>5 DEF Included
    <2> QED
      BY <1>4, <1>7, <2>1 DEF FollowerInv, SeenInv
  <1>22. AskedInv'
    BY <1>1, <1>4 DEF AskedInv
  <1> QED
    BY <1>8, <1>13, <1>17, <1>19, <1>20, <1>21, <1>22 DEF FollowerInv

-----------------------------------------------------------------------------
(* apply_forward, and a block that cannot be parsed.                       *)

\* A block is read only in sync, and leaves the follower in sync.
LEMMA ReadOn ==
    ASSUME NodeInv, CursorInv, Unread, cursor' = Append(cursor, chain[Len(cursor) + 1]),
           UNCHANGED <<chain, made, submitted>>
    PROVE  /\ Sync /\ Len(cursor) \in Nat /\ Len(cursor) + 1 \in 1..Len(chain)
           /\ \A i \in 1..Len(cursor) : cursor[i] = chain[i] /\ cursor'[i] = cursor[i]
           /\ Len(cursor') = Len(cursor) + 1 /\ \A i \in 1..(Len(cursor) + 1) : cursor'[i] = chain[i]
           /\ CursorInv'
  <1>1. /\ cursor \in Seq(Blocks) /\ chain \in Seq(Blocks) /\ Len(cursor) \in Nat /\ Len(chain) \in Nat
    BY DEF NodeInv, CursorInv, Linked
  <1>2. Sync /\ Shared = Len(cursor) /\ Len(cursor) < Len(chain)
    BY DEF Unread, Sync
  <1>3. Len(cursor) + 1 \in 1..Len(chain)
    BY <1>1, <1>2
  <1>4. \A i \in 1..Len(cursor) : cursor[i] = chain[i]
    BY <1>2, SharedIs
  <1>5. chain[Len(cursor) + 1] \in Blocks
    BY <1>1, <1>3
  <1>6. /\ cursor' \in Seq(Blocks) /\ Len(cursor') = Len(cursor) + 1
        /\ \A i \in 1..Len(cursor) : cursor'[i] = cursor[i]
        /\ cursor'[Len(cursor) + 1] = chain[Len(cursor) + 1]
    BY <1>1, <1>5
  <1>7. \A i \in 1..(Len(cursor) + 1) : cursor'[i] = chain[i]
    <2>1. \A i \in 1..(Len(cursor) + 1) : i \in 1..Len(cursor) \/ i = Len(cursor) + 1
      BY <1>1
    <2> QED
      BY <1>4, <1>6, <2>1
  <1>8. CursorInv'
    BY <1>3, <1>6, <1>7, PrefixCursor
  <1> QED
    BY <1>1, <1>2, <1>3, <1>4, <1>6, <1>7, <1>8

\* In sync, every point and every inclusion is in what was sent.
LEMMA AllSent ==
    ASSUME FollowerInv, Sync
    PROVE  /\ \A i \in 1..Len(points) : Sent(points[i])
           /\ \A t \in Txs : Included(t) => Seated(t)
  BY DEF FollowerInv, PointsInv, WatchInv, Gone, Unseated

\* A block that cannot be parsed is skipped.
LEMMA GarbledStep ==
    ASSUME FollowerInv, GarbledForward
    PROVE  FollowerInv'
  <1> DEFINE n == Len(cursor) + 1
  <1>1. /\ Unread /\ cursor' = Append(cursor, chain[Len(cursor) + 1])
        /\ skipped' = skipped \cup {chain[n].id}
        /\ UNCHANGED <<fresh, session, asked, chain, made, submitted, watched, points, tip>>
    BY DEF GarbledForward, nodeVars, stateVars
  <1>2. /\ Sync /\ Len(cursor) \in Nat /\ n \in 1..Len(chain)
        /\ \A i \in 1..Len(cursor) : cursor[i] = chain[i] /\ cursor'[i] = cursor[i]
        /\ Len(cursor') = n /\ \A i \in 1..n : cursor'[i] = chain[i]
        /\ CursorInv'
    BY <1>1, ReadOn DEF FollowerInv
  <1>3. \A i \in 1..Len(cursor) : i \in 1..n
    BY <1>2
  <1> HIDE DEF n
  <1>4. NodeInv'
    BY <1>1 DEF FollowerInv, NodeInv, Linked
  <1>5. PointsInv'
    <2>1. \A i \in 1..Len(points) : Sent(points[i])'
      BY <1>1, <1>2, <1>3, AllSent DEF Sent
    <2> QED
      BY <1>1, <2>1 DEF FollowerInv, PointsInv
  <1>6. AskedInv'
    BY <1>1 DEF FollowerInv, AskedInv
  <1>7. WatchInv'
    <2>1. \A t \in Txs : Included(t)' => Seated(t)'
      BY <1>1, <1>2, <1>3, AllSent DEF Seated, Included
    <2>2. \A t \in Txs : Included(t)' => Included(t) /\ watched'[t] = watched[t]
      BY <1>1 DEF Included
    <2>3. \A t \in Txs : Pointed(t) \/ Anchored => (Pointed(t) \/ Anchored)'
      BY <1>1 DEF Pointed, Anchored
    <2> QED
      BY <1>1, <2>1, <2>2, <2>3 DEF FollowerInv, WatchInv
  <1>8. TipInv'
    BY <1>1 DEF FollowerInv, TipInv, Included
  <1>9. SeenInv'
    <2>1. skipped' \subseteq 1..made'
      BY <1>1, <1>2 DEF FollowerInv, SeenInv, NodeInv, Linked
    <2>2. ASSUME NEW i \in 1..n, cursor'[i].id \notin skipped'
          PROVE  \A t \in cursor'[i].txs : Included(t)'
      <3>1. i # n
        BY <1>1, <1>2, <2>2
      <3>2. i \in 1..Len(cursor)
        BY <1>2, <3>1 DEF n
      <3> QED
        BY <1>1, <1>2, <2>2, <3>2 DEF FollowerInv, SeenInv, Included
    <2> QED
      BY <1>2, <2>1, <2>2 DEF SeenInv
  <1> QED
    BY <1>2, <1>4, <1>5, <1>6, <1>7, <1>8, <1>9 DEF FollowerInv

\* The list with a block added, cut back to Cap: the last n of them, in order.
LEMMA KeptRecent ==
    ASSUME NEW s \in Seq(Blocks), Len(s) <= Cap, NEW b \in Blocks
    PROVE  \E d \in {0, 1} :
              /\ KeepRecent(Append(s, b)) \in Seq(Blocks)
              /\ Len(KeepRecent(Append(s, b))) = Len(s) + 1 - d /\ Len(s) + 1 - d <= Cap
              /\ d = 1 => Len(s) = Cap
              /\ \A i \in 1..(Len(s) + 1 - d) : KeepRecent(Append(s, b))[i] = Append(s, b)[i + d]
  <1>1. Cap \in Nat /\ Cap > 0 /\ Len(s) \in Nat
    BY FollowerAssumption
  <1>2. Append(s, b) \in Seq(Blocks) /\ Len(Append(s, b)) = Len(s) + 1
    OBVIOUS
  <1>3. CASE Len(s) + 1 > Cap
    <2>1. Len(s) = Cap
      BY <1>1, <1>3
    <2>2. KeepRecent(Append(s, b)) = Tail(Append(s, b))
      BY <1>2, <1>3 DEF KeepRecent
    <2>3. Tail(Append(s, b)) \in Seq(Blocks) /\ Len(Tail(Append(s, b))) = Len(s)
      BY <1>1, <1>2
    <2>4. \A i \in 1..Len(s) : Tail(Append(s, b))[i] = Append(s, b)[i + 1]
      BY <1>1, <1>2
    <2>5. Len(s) + 1 - 1 = Len(s)
      BY <1>1
    <2> QED
      BY <1>1, <2>1, <2>2, <2>3, <2>4, <2>5
  <1>4. CASE ~(Len(s) + 1 > Cap)
    <2>1. KeepRecent(Append(s, b)) = Append(s, b)
      BY <1>2, <1>4 DEF KeepRecent
    <2>2. Len(s) + 1 - 0 = Len(s) + 1 /\ Len(s) + 1 <= Cap /\ \A i \in 1..(Len(s) + 1) : i + 0 = i
      BY <1>1, <1>4
    <2> QED
      BY <1>2, <2>1, <2>2
  <1> QED
    BY <1>3, <1>4

\* A block that is read adds its point and its inclusions.
LEMMA ForwardStep ==
    ASSUME FollowerInv, Forward
    PROVE  FollowerInv'
  <1> DEFINE n == Len(cursor) + 1
             b == chain[n]
             L == Len(points)
             full == Append(points, b)
  <1>1. /\ Unread /\ cursor' = Append(cursor, chain[Len(cursor) + 1])
        /\ watched' = [t \in Txs |-> IF t \in b.txs /\ watched[t].known
                                     THEN [height |-> b.height, slot |-> b.slot, known |-> TRUE]
                                     ELSE watched[t]]
        /\ points' = KeepRecent(full) /\ tip' = Len(chain)
        /\ UNCHANGED <<fresh, session, asked, chain, made, submitted, skipped>>
    BY DEF Forward, nodeVars
  <1>2. /\ Sync /\ Len(cursor) \in Nat /\ n \in 1..Len(chain)
        /\ \A i \in 1..Len(cursor) : cursor[i] = chain[i] /\ cursor'[i] = cursor[i]
        /\ Len(cursor') = n /\ \A i \in 1..n : cursor'[i] = chain[i]
        /\ CursorInv'
    BY <1>1, ReadOn DEF FollowerInv
  <1>3. \A i \in 1..Len(cursor) : i \in 1..n /\ i < n
    BY <1>2
  <1>4. /\ Len(chain) \in Nat /\ chain \in Seq(Blocks) /\ Len(chain) <= MaxHeight
        /\ Cap \in Nat /\ MaxRollback \in Nat /\ MaxRollback < Cap /\ MaxHeight \in Nat
    BY FollowerAssumption DEF FollowerInv, NodeInv, Linked
  <1>5. /\ b \in Blocks /\ b.height = n /\ b.slot \in Nat /\ b.slot <= 2 * n /\ b.txs \subseteq submitted
        /\ submitted \subseteq Txs
    <2>1. b \in Blocks
      BY <1>2, <1>4
    <2> QED
      BY <1>2, <2>1, BlockFields DEF FollowerInv, NodeInv, Linked
  <1>6. points \in Seq(Blocks) /\ L \in Nat /\ L <= Cap
    BY DEF FollowerInv, PointsInv
  <1>7. n = Len(cursor) + 1
    OBVIOUS
  <1> HIDE DEF n, b, L, full
  <1>8. full[L + 1] = b /\ \A i \in 1..L : full[i] = points[i]
    BY <1>5, <1>6 DEF full, L
  <1>9. PICK d \in {0, 1} :
           /\ points' \in Seq(Blocks) /\ Len(points') = L + 1 - d /\ L + 1 - d <= Cap
           /\ d = 1 => L = Cap
           /\ \A i \in 1..(L + 1 - d) : points'[i] = full[i + d]
    BY <1>1, <1>5, <1>6, KeptRecent DEF full, L
  <1>10. ASSUME NEW i \in 1..L
         PROVE  /\ Sent(points[i]) /\ points[i].height \in 1..Len(cursor)
                /\ chain[points[i].height] = points[i]
                /\ points[i].height + ((L + 1) - i) <= n
                /\ points[i].slot < b.slot
    <2>1. Sent(points[i]) /\ Sent(points[L]) /\ L \in 1..L
      BY <1>2, <1>6, AllSent DEF L
    <2>2. /\ points[i].height \in 1..Len(cursor) /\ cursor[points[i].height] = points[i]
          /\ points[L].height \in 1..Len(cursor)
      BY <2>1 DEF Sent
    <2>3. chain[points[i].height] = points[i]
      BY <1>2, <2>2
    <2>4. i = L \/ points[i].height + (L - i) <= points[L].height
      <3>1. i = L \/ i < L
        BY <1>6
      <3> QED
        BY <2>1, <3>1 DEF FollowerInv, PointsInv, L
    <2>5. points[i].height + ((L + 1) - i) <= n
      BY <1>2, <1>6, <1>7, <2>2, <2>4, SMTT(30)
    <2>6. points[i].slot < b.slot
      <3>1. points[i].height \in 1..Len(chain) /\ points[i].height < n
        BY <1>2, <1>4, <1>7, <2>2
      <3>2. chain[points[i].height].slot < chain[n].slot
        BY <1>2, <3>1 DEF FollowerInv, NodeInv, Linked
      <3> QED
        BY <2>3, <3>2 DEF b
    <2> QED
      BY <2>1, <2>2, <2>3, <2>5, <2>6
  <1>11. ASSUME NEW i \in 1..(L + 1)
         PROVE  full[i].height \in 1..n /\ cursor'[full[i].height] = full[i] /\ chain[full[i].height] = full[i]
    <2>1. CASE i = L + 1
      BY <1>2, <1>5, <1>8, <2>1 DEF b
    <2>2. CASE i # L + 1
      <3>1. i \in 1..L
        BY <1>6, <2>2
      <3>2. full[i] = points[i] /\ points[i].height \in 1..Len(cursor) /\ chain[points[i].height] = points[i]
        BY <1>8, <1>10, <3>1
      <3> QED
        BY <1>2, <1>3, <3>2
    <2> QED
      BY <2>1, <2>2
  <1>12. ASSUME NEW i \in 1..(L + 1), NEW j \in 1..(L + 1), i < j
         PROVE  full[i].slot < full[j].slot /\ full[i].height + (j - i) <= full[j].height
    <2>1. i \in 1..L /\ full[i] = points[i]
      BY <1>6, <1>8, <1>12
    <2>2. CASE j = L + 1
      BY <1>5, <1>8, <1>10, <2>1, <2>2
    <2>3. CASE j # L + 1
      <3>1. j \in 1..L /\ full[j] = points[j]
        BY <1>6, <1>8, <2>3
      <3> QED
        BY <1>12, <2>1, <3>1 DEF FollowerInv, PointsInv, L
    <2> QED
      BY <2>2, <2>3
  <1>13. \A i \in 1..(L + 1 - d) : i + d \in 1..(L + 1) /\ points'[i] = full[i + d]
    BY <1>6, <1>9
  <1>14. 1 \in 1..(L + 1 - d) /\ points' # <<>> /\ chain[points'[1].height] = points'[1]
    <2>1. 1 \in 1..(L + 1 - d)
      BY <1>4, <1>6, <1>9
    <2>2. Len(points') # 0
      BY <1>6, <1>9, <2>1
    <2> QED
      BY <1>9, <1>11, <1>13, <2>1, <2>2, SMTT(30)
  <1>15. PointsInv'
    <2>1. \A i \in 1..(L + 1 - d) : points'[i].height \in 1..Len(chain') /\ Sent(points[i])'
      <3>1. \A i \in 1..(L + 1 - d) : points'[i].height \in 1..n /\ cursor'[points'[i].height] = points'[i]
        BY <1>11, <1>13
      <3>2. 1..n \subseteq 1..Len(chain)
        BY <1>2, <1>4
      <3> QED
        BY <1>1, <1>2, <3>1, <3>2 DEF Sent
    <2>2. \A i, j \in 1..(L + 1 - d) : i < j =>
             points'[i].slot < points'[j].slot /\ points'[i].height + (j - i) <= points'[j].height
      <3> SUFFICES ASSUME NEW i \in 1..(L + 1 - d), NEW j \in 1..(L + 1 - d), i < j
                   PROVE  points'[i].slot < points'[j].slot
                          /\ points'[i].height + (j - i) <= points'[j].height
        OBVIOUS
      <3>1. /\ i + d \in 1..(L + 1) /\ j + d \in 1..(L + 1) /\ i + d < j + d /\ (j + d) - (i + d) = j - i
            /\ points'[i] = full[i + d] /\ points'[j] = full[j + d]
        BY <1>6, <1>13
      <3>2. /\ full[i + d].slot < full[j + d].slot
            /\ full[i + d].height + ((j + d) - (i + d)) <= full[j + d].height
        BY <1>12, <3>1
      <3> QED
        BY <3>1, <3>2
    <2> QED
      BY <1>1, <1>9, <1>14, <2>1, <2>2 DEF PointsInv
  <1>16. watched \in [Txs -> WatchType]
    BY DEF FollowerInv, WatchInv, WatchType
  <1> DEFINE seen == [height |-> b.height, slot |-> b.slot, known |-> TRUE]
  <1>17. seen \in WatchType /\ seen.height = n /\ seen.slot = b.slot /\ seen.known
    <2>1. n \in 0..MaxHeight /\ b.slot \in 0..(2 * MaxHeight)
      BY <1>2, <1>4, <1>5
    <2> QED
      BY <1>5, <2>1 DEF WatchType
  <1> HIDE DEF seen
  <1>18. \A t \in Txs : t \in b.txs => watched'[t] = seen
    <2>1. \A t \in Txs : t \in b.txs => watched[t].known
      BY <1>5 DEF FollowerInv, NodeInv
    <2> QED
      BY <1>1, <2>1 DEF seen
  <1>19. \A t \in Txs : t \notin b.txs => watched'[t] = watched[t]
    BY <1>1
  <1>20. watched' \in [Txs -> WatchType]
    <2>1. \A t \in Txs : watched'[t] \in WatchType
      BY <1>16, <1>17, <1>18, <1>19
    <2>2. watched' = [t \in Txs |-> watched'[t]]
      BY <1>1
    <2> QED
      BY <2>1, <2>2
  <1>21. NodeInv'
    <2>1. \A t \in submitted' : watched'[t].known
      <3>1. \A t \in submitted : watched[t].known /\ t \in Txs
        BY DEF FollowerInv, NodeInv
      <3> QED
        BY <1>1, <1>17, <1>18, <1>19, <3>1
    <2>2. Linked(chain)' /\ Len(chain') \in Cap..MaxHeight /\ made' \in Nat /\ submitted' \subseteq Txs
      BY <1>1 DEF FollowerInv, NodeInv, Linked
    <2> QED
      BY <2>1, <2>2 DEF NodeInv
  <1>22. d = 1 => Anchored'
    <2> SUFFICES ASSUME d = 1 PROVE Anchored'
      OBVIOUS
    <2>1. L = Cap /\ points'[1] = full[2] /\ 2 \in 1..(L + 1) /\ L + 1 \in 1..(L + 1)
      BY <1>4, <1>6, <1>9, <1>13, <1>14
    <2>2. full[L + 1].height = n /\ full[2].height \in 1..n
      BY <1>5, <1>8, <1>11, <2>1
    <2>3. full[2].height + (L - 1) <= n
      <3>1. L = 1 \/ 2 < L + 1
        BY <1>4, <1>6, <2>1
      <3>2. 2 < L + 1 => full[2].height + ((L + 1) - 2) <= full[L + 1].height
        BY <1>12, <2>1
      <3>3. n \in Nat /\ full[2].height \in Nat
        BY <1>2, <1>7, <2>2
      <3> QED
        BY <1>6, <2>2, <3>1, <3>2, <3>3
    <2>4. points'[1].height + MaxRollback <= Len(chain)
      BY <1>2, <1>4, <1>7, <2>1, <2>2, <2>3
    <2> QED
      BY <1>1, <1>14, <2>4 DEF Anchored
  <1>23. d = 0 => \A i \in 1..L : i \in 1..Len(points') /\ points'[i] = points[i]
    <2> SUFFICES ASSUME d = 0, NEW i \in 1..L PROVE i \in 1..Len(points') /\ points'[i] = points[i]
      OBVIOUS
    <2>1. i \in 1..(L + 1 - d) /\ i + d = i
      BY <1>6
    <2> QED
      BY <1>8, <1>9, <1>13, <2>1
  <1>24. WatchInv'
    <2> SUFFICES ASSUME NEW t \in Txs, Included(t)'
                 PROVE  watched'[t].known /\ (Seated(t) \/ Unseated(t))' /\ (Pointed(t) \/ Anchored)'
      BY <1>20 DEF WatchInv, WatchType
    <2>1. CASE t \in b.txs
      <3>1. watched'[t] = seen
        BY <1>18, <2>1
      <3>2. Seated(t)'
        <4>1. n \in 1..Len(cursor') /\ cursor'[n] = b
          BY <1>2, <1>7 DEF b
        <4> QED
          BY <1>17, <2>1, <3>1, <4>1 DEF Seated
      <3>3. Pointed(t)'
        <4>1. L + 1 - d \in 1..Len(points') /\ (L + 1 - d) + d = L + 1
          BY <1>6, <1>9, <1>14
        <4>2. points'[L + 1 - d] = b
          BY <1>8, <1>9, <1>13, <4>1
        <4> QED
          BY <1>17, <3>1, <4>1, <4>2 DEF Pointed
      <3> QED
        BY <1>17, <3>1, <3>2, <3>3
    <2>2. CASE t \notin b.txs
      <3>1. watched'[t] = watched[t] /\ Included(t)
        BY <1>19, <2>2 DEF Included
      <3>2. watched[t].known /\ (Pointed(t) \/ Anchored) /\ Seated(t)
        BY <1>2, <3>1, AllSent DEF FollowerInv, WatchInv
      <3>3. Seated(t)'
        BY <1>2, <1>3, <3>1, <3>2 DEF Seated
      <3>4. (Pointed(t) \/ Anchored)'
        <4>1. CASE d = 1
          BY <1>22, <4>1
        <4>2. CASE d = 0 /\ Pointed(t)
          <5>1. PICK i \in 1..L : points[i].slot = watched[t].slot
            BY <4>2 DEF Pointed, L
          <5>2. i \in 1..Len(points') /\ points'[i] = points[i]
            BY <1>23, <4>2
          <5> QED
            BY <3>1, <5>1, <5>2 DEF Pointed
        <4>3. CASE d = 0 /\ Anchored
          <5>1. 1 \in 1..L
            <6>1. points # <<>>
              BY <4>3 DEF Anchored
            <6>2. L # 0
              BY <1>6, <6>1 DEF L
            <6> QED
              BY <1>6, <6>2
          <5>2. points'[1] = points[1]
            BY <1>23, <4>3, <5>1
          <5> QED
            BY <1>1, <1>14, <4>3, <5>2 DEF Anchored
        <4> QED
          BY <1>9, <3>2, <4>1, <4>2, <4>3
      <3> QED
        BY <3>1, <3>2, <3>3, <3>4
    <2> QED
      BY <2>1, <2>2
  <1>25. TipInv'
    <2>1. tip' \in 0..Len(chain')
      BY <1>1, <1>4
    <2>2. ASSUME NEW t \in Txs, Included(t)' PROVE t \in chain'[watched'[t].height].txs
      <3>1. CASE t \in b.txs
        BY <1>1, <1>17, <1>18, <3>1 DEF b
      <3>2. CASE t \notin b.txs
        <4>1. watched'[t] = watched[t] /\ Included(t)
          BY <1>19, <2>2, <3>2 DEF Included
        <4>2. Seated(t)
          BY <1>2, <4>1, AllSent
        <4> QED
          BY <1>1, <1>2, <4>1, <4>2 DEF Seated
      <3> QED
        BY <3>1, <3>2
    <2> QED
      BY <2>1, <2>2 DEF TipInv
  <1>26. SeenInv'
    <2>1. ASSUME NEW i \in 1..n, cursor'[i].id \notin skipped', NEW t \in cursor'[i].txs
          PROVE  Included(t)'
      <3>1. CASE t \in b.txs
        <4>1. n > 0
          BY <1>2, <1>7
        <4> QED
          BY <1>5, <1>17, <1>18, <3>1, <4>1 DEF Included
      <3>2. CASE t \notin b.txs
        <4>1. i # n
          BY <1>2, <2>1, <3>2 DEF b
        <4>2. i \in 1..Len(cursor)
          BY <1>2, <1>7, <4>1
        <4>3. Included(t) /\ t \in Txs
          <5>1. cursor[i].txs \subseteq Txs
            BY <4>2 DEF FollowerInv, CursorInv, NodeInv, Linked
          <5> QED
            BY <1>1, <1>2, <2>1, <4>2, <5>1 DEF FollowerInv, SeenInv
        <4> QED
          BY <1>19, <3>2, <4>3 DEF Included
      <3> QED
        BY <3>1, <3>2
    <2> QED
      BY <1>1, <1>2, <2>1 DEF FollowerInv, SeenInv
  <1>27. AskedInv'
    BY <1>1 DEF Unread, AskedInv
  <1> QED
    BY <1>2, <1>15, <1>21, <1>24, <1>25, <1>26, <1>27 DEF FollowerInv

-----------------------------------------------------------------------------
(* The theorems.                                                           *)

SmallTypes ==
    /\ session \in {"down", "intersect", "up"}
    /\ faults \in 0..MaxFaults

FreshType == fresh \in BOOLEAN

\* The invariant holds of a follower just spawned and of one in sync ...
LEMMA InitInv ==
    ASSUME Init
    PROVE  FollowerInv /\ SmallTypes /\ FreshType
  <1>1. /\ Cap \in Nat /\ MaxRollback \in Nat /\ MaxHeight \in Nat /\ MaxFaults \in Nat
        /\ 0 < Cap /\ MaxRollback < Cap /\ Cap < MaxHeight
    BY FollowerAssumption
  <1>2. /\ chain = Genesis(Cap) /\ made = Cap /\ submitted = {} /\ fresh = FALSE /\ faults = 0
        /\ watched = [t \in Txs |-> Unknown]
    BY DEF Init
  <1>3. /\ chain \in Seq(Blocks) /\ Len(chain) = Cap
        /\ \A i \in 1..Cap : chain[i] = Block(i, i, i, {})
    <2>1. \A i \in 1..Cap : Block(i, i, i, {}) \in Blocks
      BY <1>1 DEF Block, Blocks
    <2>2. chain = [i \in 1..Cap |-> Block(i, i, i, {})]
      BY <1>2 DEF Genesis
    <2> QED
      BY <1>1, <2>1, <2>2
  <1>4. \A i \in 1..Cap : chain[i].height = i /\ chain[i].slot = i /\ chain[i].id = i /\ chain[i].txs = {}
    BY <1>3 DEF Block
  <1>5. Linked(chain)
    <2>1. \A i \in 1..Cap : i <= 2 * i /\ i \in 1..made
      BY <1>1, <1>2
    <2> QED
      BY <1>2, <1>3, <1>4, <2>1 DEF Linked
  <1>6. NodeInv
    BY <1>1, <1>2, <1>3, <1>5 DEF NodeInv
  <1>7. \A t \in Txs : ~Included(t)
    BY <1>2, BlankTypes DEF Included
  <1>8. WatchInv
    <2>1. watched \in [Txs -> WatchType]
      BY <1>2, BlankTypes
    <2> QED
      BY <1>7, <2>1 DEF WatchInv, WatchType
  <1>9. FreshType
    BY <1>2 DEF FreshType
  <1>10. CASE Spawned
    <2>1. session = "down" /\ cursor = <<>> /\ points = <<>> /\ tip = 0 /\ skipped = {}
      BY <1>10 DEF Spawned
    <2>2. CursorInv
      BY <2>1 DEF CursorInv, Linked
    <2>3. PointsInv /\ AskedInv
      BY <1>1, <2>1 DEF PointsInv, AskedInv
    <2>4. TipInv
      BY <1>1, <1>3, <1>7, <2>1 DEF TipInv
    <2>5. SeenInv
      BY <2>1 DEF SeenInv
    <2>6. SmallTypes
      BY <1>1, <1>2, <2>1 DEF SmallTypes
    <2> QED
      BY <1>6, <1>8, <1>9, <2>2, <2>3, <2>4, <2>5, <2>6 DEF FollowerInv
  <1>11. CASE InSync
    <2>1. session = "up" /\ cursor = chain /\ points = chain /\ tip = Cap /\ skipped = {}
      BY <1>11 DEF InSync
    <2>2. CursorInv
      <3>1. cursor # <<>>
        BY <1>1, <1>3, <2>1
      <3> QED
        BY <1>5, <2>1, <3>1 DEF CursorInv, NodeInv, Linked
    <2>3. PointsInv
      <3>1. \A i \in 1..Cap : points[i].height \in 1..Len(chain) /\ Sent(points[i])
        BY <1>3, <1>4, <2>1 DEF Sent
      <3>2. \A i, j \in 1..Cap : i < j =>
               points[i].slot < points[j].slot /\ points[i].height + (j - i) <= points[j].height
        BY <1>1, <1>4, <2>1
      <3>3. chain[points[1].height] = points[1]
        BY <1>1, <1>4, <2>1
      <3> QED
        BY <1>1, <1>3, <2>1, <3>1, <3>2, <3>3 DEF PointsInv
    <2>4. AskedInv
      BY <2>1 DEF AskedInv
    <2>5. TipInv
      BY <1>1, <1>3, <1>7, <2>1 DEF TipInv
    <2>6. SeenInv
      BY <1>3, <1>4, <2>1 DEF SeenInv
    <2>7. SmallTypes
      BY <1>1, <1>2, <2>1 DEF SmallTypes
    <2> QED
      BY <1>6, <1>8, <1>9, <2>2, <2>3, <2>4, <2>5, <2>6, <2>7 DEF FollowerInv
  <1> QED
    BY <1>10, <1>11 DEF Init

\* ... and is kept by every step but the loss of a step back.
LEMMA StepInv ==
    ASSUME FollowerInv, [Next]_vars, ~GarbledBackward
    PROVE  FollowerInv'
  <1>1. ASSUME NEW t \in Txs, Watch(t) \/ Unwatch(t)
        PROVE  FollowerInv'
    <2>1. t \notin submitted
      BY <1>1 DEF Watch, Unwatch, FollowerInv, NodeInv
    <2>2. PICK w \in {Unknown, Waiting} : watched' = [watched EXCEPT ![t] = w]
      BY <1>1 DEF Watch, Unwatch
    <2>3. UNCHANGED <<points, tip, nodeVars, sessionVars, skipped>>
      BY <1>1 DEF Watch, Unwatch
    <2> QED
      BY <2>1, <2>2, <2>3, WriterStep
  <1>2. ASSUME NEW t \in Txs, Submit(t)
        PROVE  FollowerInv'
    BY <1>2, SubmitStep
  <1>3. CASE Grow \/ Fork
    <2>1. PICK n \in 0..MaxRollback, T \in SUBSET submitted, gap \in {0, 1} : Adopt(n, T, gap)
      <3>1. 0 \in 0..MaxRollback /\ 1..MaxRollback \subseteq 0..MaxRollback
        BY FollowerAssumption
      <3> QED
        BY <1>3, <3>1 DEF Grow, Fork
    <2>2. Switch(Len(chain) - n) /\ Linked(chain)'
      BY <2>1, AdoptIs DEF FollowerInv
    <2>3. UNCHANGED <<submitted, sessionVars, stateVars, skipped>>
      BY <2>1 DEF Adopt
    <2> QED
      BY <2>2, <2>3, SwitchStep
  <1>4. CASE Connect
    <2>1. session' = "intersect" /\ asked' = Candidates /\ UNCHANGED <<cursor, nodeVars, stateVars, skipped>>
      BY <1>4 DEF Connect
    <2>2. AskedInv'
      BY <2>1 DEF AskedInv, Candidates, stateVars
    <2> QED
      BY <2>1, <2>2, SessionStep
  <1>5. CASE Disconnect
    <2>1. session' = "down" /\ UNCHANGED <<cursor, nodeVars, stateVars, skipped>>
      BY <1>5 DEF Disconnect
    <2> QED
      BY <2>1, SessionStep DEF AskedInv
  <1>6. CASE UNCHANGED vars
    <2>1. UNCHANGED <<chain, made, submitted, cursor, fresh, session, asked, watched, points, tip, skipped>>
      BY <1>6 DEF vars, nodeVars, sessionVars, stateVars
    <2>2. NodeInv' /\ CursorInv'
      BY <2>1 DEF FollowerInv, NodeInv, CursorInv, Linked
    <2>3. PointsInv' /\ AskedInv'
      BY <2>1 DEF FollowerInv, PointsInv, AskedInv, Sent, Gone, Sync
    <2>4. WatchInv'
      BY <2>1 DEF FollowerInv, WatchInv, Included, Seated, Unseated, Pointed, Anchored, Sync
    <2>5. TipInv' /\ SeenInv'
      BY <2>1 DEF FollowerInv, TipInv, SeenInv, Included
    <2> QED
      BY <2>2, <2>3, <2>4, <2>5 DEF FollowerInv
  <1> QED
    BY <1>1, <1>2, <1>3, <1>4, <1>5, <1>6, IntersectStep, BackwardStep, ForwardStep, GarbledStep
       DEF Next, FollowStep

\* So are the types of session and faults ...
LEMMA SmallStep ==
    ASSUME SmallTypes, [Next]_vars
    PROVE  SmallTypes'
  <1>1. session' = session \/ session' \in {"down", "intersect", "up"}
    BY DEF Next, FollowStep, Watch, Submit, Unwatch, Grow, Fork, Adopt, Connect, Intersect, Backward, Forward,
       GarbledForward, GarbledBackward, Disconnect, vars, sessionVars
  <1>2. faults' = faults \/ (faults < MaxFaults /\ faults' = faults + 1)
    BY DEF Next, FollowStep, Watch, Submit, Unwatch, Grow, Fork, Connect, Intersect, Backward, Forward,
       GarbledForward, GarbledBackward, Disconnect, Fault, vars
  <1>3. MaxFaults \in Nat
    BY FollowerAssumption
  <1> QED
    BY <1>1, <1>2, <1>3 DEF SmallTypes

\* ... and of the flag for the first answer.
LEMMA FreshStep ==
    ASSUME FreshType, [Next]_vars
    PROVE  FreshType'
  <1>1. fresh' = fresh \/ fresh' = TRUE \/ fresh' = FALSE
    BY DEF Next, FollowStep, Watch, Submit, Unwatch, Grow, Fork, Adopt, Connect, Intersect, Backward, Forward,
       GarbledForward, GarbledBackward, Disconnect, vars, sessionVars
  <1> QED
    BY <1>1, Zenon DEF FreshType

\* Once a step back is lost, that is known for ever.
LEMMA MisledStays == ASSUME [Next]_vars PROVE Misled => Misled'
  BY DEF Next, FollowStep, Watch, Submit, Unwatch, Grow, Fork, Adopt, Connect, Intersect, Backward, Forward,
     GarbledForward, GarbledBackward, Disconnect, vars, Misled

\* The invariant holds as long as every step back could be parsed.
LEMMA FollowerInvariant == Spec => [](Misled \/ FollowerInv)
  <1>1. Init => Misled \/ FollowerInv
    BY InitInv
  <1>2. (Misled \/ FollowerInv) /\ [Next]_vars => (Misled \/ FollowerInv)'
    <2>1. GarbledBackward => Misled'
      BY DEF GarbledBackward, Misled
    <2> QED
      BY <2>1, MisledStays, StepInv
  <1> QED
    BY <1>1, <1>2, PTL DEF Spec

-----------------------------------------------------------------------------
(* What a lost step back does not touch: chain, session and types.         *)

LooseInv ==
    /\ NodeInv /\ CursorInv
    /\ watched \in [Txs -> WatchType]
    /\ tip \in 0..Len(chain)
    /\ skipped \subseteq 0..made

\* A step that adds no block and leaves the cursor, or shortens it to a part of the chain.
LEMMA LooseSame ==
    ASSUME LooseInv, UNCHANGED <<chain, made, submitted>>, watched' \in [Txs -> WatchType],
           \A t \in submitted : watched'[t].known, tip' \in 0..Len(chain), skipped' \subseteq 0..made,
           CursorInv'
    PROVE  LooseInv'
  <1>1. NodeInv'
    BY DEF LooseInv, NodeInv, Linked
  <1> QED
    BY <1>1 DEF LooseInv

\* What a session is sent when it goes back: the chain up to the last block they share.
LEMMA StepsBack ==
    ASSUME NodeInv, CursorInv, SteppingBack, cursor' = SubSeq(chain, 1, Shared),
           UNCHANGED <<chain, made, submitted>>
    PROVE  Shared \in 1..Len(chain) /\ CursorInv'
  <1>1. /\ session = "up" /\ cursor # <<>> /\ cursor[1] = chain[1]
        /\ cursor \in Seq(Blocks) /\ chain \in Seq(Blocks) /\ Len(cursor) <= Len(chain)
    BY DEF SteppingBack, CursorInv, NodeInv, Linked
  <1>2. 1 \in 1..Len(cursor) /\ Len(cursor) \in Nat /\ Len(chain) \in Nat
    BY <1>1
  <1>3. Shared \in 0..Len(cursor) /\ 1 <= Shared
    BY <1>1, <1>2, SharedIs
  <1>4. Shared \in 1..Len(chain) /\ Shared \in 0..Len(chain)
    BY <1>1, <1>2, <1>3
  <1>5. cursor' \in Seq(Blocks) /\ Len(cursor') = Shared /\ \A i \in 1..Shared : cursor'[i] = chain[i]
    BY <1>1, <1>4, Prefix
  <1> QED
    BY <1>4, <1>5, PrefixCursor

\* Every step keeps chain, session and types.
LEMMA LooseStep ==
    ASSUME LooseInv, [Next]_vars
    PROVE  LooseInv'
  <1>1. /\ NodeInv /\ CursorInv /\ watched \in [Txs -> WatchType] /\ tip \in 0..Len(chain)
        /\ skipped \subseteq 0..made /\ submitted \subseteq Txs
        /\ \A t \in submitted : watched[t].known
    BY DEF LooseInv, NodeInv
  <1>2. Len(chain) \in Nat /\ Len(chain) \in 0..Len(chain) /\ made \in Nat
        /\ \A i \in 1..Len(chain) : chain[i].id \in 0..made
    BY <1>1 DEF NodeInv, Linked
  <1>3. ASSUME UNCHANGED <<chain, made, submitted, cursor>>, session' = "up" => session = "up"
        PROVE  CursorInv'
    BY <1>1, <1>3 DEF CursorInv, Linked
  <1>4. ASSUME NEW t \in Txs, Watch(t) \/ Unwatch(t)
        PROVE  LooseInv'
    <2>1. PICK w \in {Unknown, Waiting} : watched' = [watched EXCEPT ![t] = w]
      BY <1>4 DEF Watch, Unwatch
    <2>2. t \notin submitted /\ w \in WatchType
      BY <1>1, <1>4, BlankTypes DEF Watch, Unwatch
    <2>3. UNCHANGED <<chain, made, submitted, cursor, session, tip, skipped>>
      BY <1>4 DEF Watch, Unwatch, nodeVars, sessionVars
    <2>4. watched' \in [Txs -> WatchType] /\ \A u \in submitted : watched'[u].known
      BY <1>1, <2>1, <2>2
    <2> QED
      BY <1>1, <1>3, <2>3, <2>4, LooseSame
  <1>5. ASSUME NEW t \in Txs, Submit(t)
        PROVE  LooseInv'
    <2>1. /\ watched[t].known /\ submitted' = submitted \cup {t}
          /\ UNCHANGED <<chain, made, cursor, fresh, session, asked, watched, points, tip, skipped>>
      BY <1>5 DEF Submit, sessionVars, stateVars
    <2>2. NodeInv'
      <3>1. \A u \in submitted' : watched'[u].known
        BY <1>1, <2>1
      <3>2. Linked(chain)' /\ Len(chain') \in Cap..MaxHeight /\ made' \in Nat /\ submitted' \subseteq Txs
        BY <1>1, <2>1 DEF NodeInv, Linked
      <3> QED
        BY <3>1, <3>2 DEF NodeInv
    <2>3. CursorInv'
      BY <1>1, <2>1 DEF CursorInv, Linked
    <2> QED
      BY <1>1, <2>1, <2>2, <2>3 DEF LooseInv
  <1>6. CASE Grow \/ Fork
    <2>1. PICK n \in 0..MaxRollback, T \in SUBSET submitted, gap \in {0, 1} : Adopt(n, T, gap)
      <3>1. 0 \in 0..MaxRollback /\ 1..MaxRollback \subseteq 0..MaxRollback
        BY FollowerAssumption
      <3> QED
        BY <1>6, <3>1 DEF Grow, Fork
    <2>2. Switch(Len(chain) - n) /\ Linked(chain)'
      BY <1>1, <2>1, AdoptIs
    <2>3. UNCHANGED <<submitted, cursor, session, watched, tip, skipped>>
      BY <2>1 DEF Adopt, sessionVars, stateVars
    <2>4. NodeInv' /\ CursorInv'
      BY <1>1, <2>2, <2>3, SwitchNode
    <2>5. Len(chain') = Len(chain) + 1 /\ made' \in Nat /\ made <= made'
      BY <2>2 DEF Switch
    <2>6. tip' \in 0..Len(chain') /\ skipped' \subseteq 0..made'
      BY <1>1, <1>2, <2>3, <2>5
    <2> QED
      BY <1>1, <2>3, <2>4, <2>6 DEF LooseInv
  <1>7. CASE Connect \/ Disconnect \/ UNCHANGED vars
    <2>1. UNCHANGED <<chain, made, submitted, cursor, watched, tip, skipped>>
      BY <1>7 DEF Connect, Disconnect, vars, nodeVars, sessionVars, stateVars
    <2>2. session' = "up" => session = "up"
      BY <1>7 DEF Connect, Disconnect, vars, sessionVars
    <2> QED
      BY <1>1, <1>3, <2>1, <2>2, LooseSame
  <1>8. CASE Intersect
    <2>1. UNCHANGED <<chain, made, submitted, watched, tip>>
      BY <1>8 DEF Intersect, nodeVars, stateVars
    <2>2. CASE Common = {}
      <3>1. session' = "down" /\ UNCHANGED <<cursor, skipped>>
        BY <1>8, <2>2 DEF Intersect, Common
      <3> QED
        BY <1>1, <1>3, <2>1, <3>1, LooseSame
    <2>3. CASE Common # {}
      <3> DEFINE m == Max(Common)
      <3>1. /\ cursor' = SubSeq(chain, 1, m)
            /\ skipped' = IF points = <<>> THEN skipped \cup {b.id : b \in Range(cursor')} ELSE skipped
        BY <1>8, <2>3 DEF Intersect, Common
      <3>2. m \in 1..Len(chain) /\ m \in 0..Len(chain) /\ chain \in Seq(Blocks)
        <4>1. m \in 1..Len(chain) /\ chain \in Seq(Blocks)
          BY <1>1, <2>3, CommonMax DEF NodeInv, Linked
        <4> QED
          BY <1>2, <4>1
      <3> HIDE DEF m
      <3>3. cursor' \in Seq(Blocks) /\ Len(cursor') = m /\ \A i \in 1..m : cursor'[i] = chain[i]
        BY <3>1, <3>2, Prefix
      <3>4. CursorInv'
        BY <1>1, <2>1, <3>2, <3>3, PrefixCursor
      <3>5. \A b \in Range(cursor') : b.id \in 0..made
        <4> SUFFICES ASSUME NEW i \in DOMAIN cursor' PROVE cursor'[i].id \in 0..made
          BY DEF Range
        <4>1. i \in 1..m /\ i \in 1..Len(chain)
          BY <1>2, <3>2, <3>3
        <4> QED
          BY <1>2, <3>3, <4>1
      <3>6. skipped' \subseteq 0..made
        BY <1>1, <3>1, <3>5
      <3> QED
        BY <1>1, <2>1, <3>4, <3>6, LooseSame
    <2> QED
      BY <2>2, <2>3
  <1>9. CASE Backward \/ GarbledBackward
    <2>1. SteppingBack /\ cursor' = SubSeq(chain, 1, Shared) /\ UNCHANGED <<chain, made, submitted>>
      BY <1>9 DEF Backward, GarbledBackward, nodeVars
    <2>2. CursorInv'
      BY <1>1, <2>1, StepsBack
    <2>3. tip' \in 0..Len(chain)
      BY <1>1, <1>2, <1>9 DEF Backward, GarbledBackward, stateVars
    <2>4. skipped' \subseteq 0..made
      <3>1. made \in Nat /\ skipped \subseteq 0..made /\ made' = made
        BY <1>1, <2>1 DEF LooseInv, NodeInv
      <3>2. skipped' = skipped \/ skipped' = skipped \cup {0}
        BY <1>9 DEF Backward, GarbledBackward
      <3>3. 0 \in 0..made
        BY <3>1
      <3>4. skipped \cup {0} \subseteq 0..made
        BY <3>1, <3>3, Zenon
      <3> QED
        BY <3>1, <3>2, <3>4, Zenon
    <2>5. \A t \in Txs : watched[t] \in WatchType
      BY <1>1
    <2>6. \A t \in Txs : watched'[t] \in {watched[t], Waiting}
      BY <1>9, <1>1 DEF Backward, GarbledBackward, stateVars
    <2>7. watched' \in [Txs -> WatchType]
      <3>1. DOMAIN watched' = Txs /\ watched' = [t \in Txs |-> watched'[t]]
        BY <1>1, <1>9 DEF Backward, GarbledBackward, stateVars
      <3> QED
        BY <2>5, <2>6, <3>1, BlankTypes
    <2>8. \A t \in submitted : watched'[t].known
      BY <1>1, <2>6 DEF Waiting
    <2> QED
      BY <2>1, <2>2, <2>3, <2>4, <2>7, <2>8, LooseSame
  <1>10. CASE Forward \/ GarbledForward
    <2> DEFINE b == chain[Len(cursor) + 1]
    <2>1. Unread /\ cursor' = Append(cursor, b) /\ UNCHANGED <<chain, made, submitted>>
      BY <1>10 DEF Forward, GarbledForward, nodeVars
    <2>2. CursorInv' /\ Len(cursor) + 1 \in 1..Len(chain)
      BY <1>1, <2>1, ReadOn
    <2>3. tip' \in 0..Len(chain)
      BY <1>1, <1>2, <1>10 DEF Forward, GarbledForward, stateVars
    <2>4. skipped' \subseteq 0..made
      BY <1>1, <1>2, <1>10, <2>2 DEF Forward, GarbledForward
    <2>5. [height |-> b.height, slot |-> b.slot, known |-> TRUE] \in WatchType
      <3>1. b \in Blocks /\ b.height = Len(cursor) + 1 /\ b.slot <= 2 * (Len(cursor) + 1)
        BY <1>1, <2>2 DEF NodeInv, Linked
      <3>2. b.slot \in Nat
        BY <3>1, BlockFields
      <3>3. Len(cursor) + 1 \in 0..MaxHeight /\ Len(chain) <= MaxHeight /\ MaxHeight \in Nat
        BY <1>1, <1>2, <2>2, FollowerAssumption DEF NodeInv
      <3>4. b.slot \in 0..(2 * MaxHeight)
        <4>1. \A x, y \in Nat, z \in Nat : z <= 2 * x /\ x <= y => z <= 2 * y
          OBVIOUS
        <4> HIDE DEF b
        <4> QED
          BY <3>1, <3>2, <3>3, <4>1
      <3> HIDE DEF b
      <3> QED
        BY <3>1, <3>3, <3>4 DEF WatchType
    <2> DEFINE w == [height |-> b.height, slot |-> b.slot, known |-> TRUE]
    <2>6. \A t \in Txs : watched'[t] \in {watched[t], w}
      BY <1>1, <1>10 DEF Forward, GarbledForward, stateVars
    <2>7. DOMAIN watched' = Txs /\ watched' = [t \in Txs |-> watched'[t]]
      BY <1>1, <1>10 DEF Forward, GarbledForward, stateVars
    <2>8. w.known /\ w \in WatchType
      BY <2>5
    <2> HIDE DEF w, b
    <2>9. watched' \in [Txs -> WatchType]
      BY <1>1, <2>6, <2>7, <2>8
    <2>10. \A t \in submitted : watched'[t].known
      BY <1>1, <2>6, <2>8
    <2> QED
      BY <2>1, <2>2, <2>3, <2>4, <2>9, <2>10, LooseSame
  <1> QED
    BY <1>4, <1>5, <1>6, <1>7, <1>8, <1>9, <1>10 DEF Next, FollowStep

\* They hold always.
LEMMA LooseInvariant == Spec => [](LooseInv /\ SmallTypes /\ FreshType)
  <1>1. Init => LooseInv /\ SmallTypes /\ FreshType
    <2>1. FollowerInv /\ WatchInv => LooseInv
      <3> SUFFICES ASSUME FollowerInv PROVE LooseInv
        OBVIOUS
      <3>1. skipped \subseteq 0..made
        BY DEF FollowerInv, SeenInv, NodeInv
      <3> QED
        BY <3>1 DEF FollowerInv, WatchInv, WatchType, TipInv, LooseInv
    <2> QED
      BY <2>1, InitInv DEF FollowerInv
  <1>2. LooseInv /\ SmallTypes /\ FreshType /\ [Next]_vars => (LooseInv /\ SmallTypes /\ FreshType)'
    BY LooseStep, SmallStep, FreshStep
  <1> QED
    BY <1>1, <1>2, PTL DEF Spec

-----------------------------------------------------------------------------
(* The follower implements Confirmations.                                  *)

DepthOn(c, t) == Max({0} \cup {Len(c) - i + 1 : i \in {i \in DOMAIN c : t \in c[i].txs}})

\* A transaction's depth is told by the one block that has it.
LEMMA DepthIs ==
    ASSUME NEW c \in Seq(Blocks), NEW t,
           \A i, j \in 1..Len(c) : i # j => c[i].txs \cap c[j].txs = {}
    PROVE  /\ \A i \in 1..Len(c) : t \in c[i].txs => DepthOn(c, t) = Len(c) - i + 1
           /\ (\A i \in 1..Len(c) : t \notin c[i].txs) => DepthOn(c, t) = 0
  <1> DEFINE at == {i \in DOMAIN c : t \in c[i].txs}
             D == {0} \cup {Len(c) - i + 1 : i \in at}
  <1>1. Len(c) \in Nat /\ DOMAIN c = 1..Len(c)
    OBVIOUS
  <1>2. D \in SUBSET Nat /\ D # {} /\ \A x \in D : x <= Len(c)
    BY <1>1
  <1>3. Max(D) \in D /\ \A y \in D : Max(D) >= y
    <2> HIDE DEF D
    <2> QED
      BY <1>1, <1>2, MaxIs
  <1>4. ASSUME NEW i \in 1..Len(c), t \in c[i].txs
        PROVE  Max(D) = Len(c) - i + 1
    <2>1. \A j \in at : j = i
      BY <1>1, <1>4
    <2>2. i \in at
      BY <1>1, <1>4
    <2>3. D = {0, Len(c) - i + 1}
      BY <2>1, <2>2
    <2> HIDE DEF D
    <2> QED
      BY <1>1, <1>2, <1>3, <2>3
  <1>5. ASSUME \A i \in 1..Len(c) : t \notin c[i].txs
        PROVE  Max(D) = 0
    <2>1. D = {0}
      BY <1>1, <1>5
    <2> HIDE DEF D
    <2> QED
      BY <1>3, <2>1
  <1>6. DepthOn(c, t) = Max(D)
    BY DEF DepthOn
  <1> HIDE DEF D
  <1> QED
    BY <1>4, <1>5, <1>6

\* The depth of a transaction is given by its block, of which there is at most one ...
LEMMA ChainDepth ==
    ASSUME Linked(chain), NEW t
    PROVE  /\ Len(chain) \in Nat
           /\ \A i \in 1..Len(chain) : t \in chain[i].txs => Depth(t) = Len(chain) - i + 1
           /\ (\A i \in 1..Len(chain) : t \notin chain[i].txs) => Depth(t) = 0
  <1>1. chain \in Seq(Blocks) /\ \A i, j \in 1..Len(chain) : i # j => chain[i].txs \cap chain[j].txs = {}
    BY DEF Linked
  <1>2. Depth(t) = DepthOn(chain, t)
    BY DEF Depth, DepthOn
  <1>3. Len(chain) \in Nat
    BY <1>1
  <1> QED
    BY <1>1, <1>2, <1>3, DepthIs

\* ... and so after a step.
LEMMA NextChainDepth ==
    ASSUME Linked(chain)', NEW t
    PROVE  /\ Len(chain') \in Nat
           /\ \A i \in 1..Len(chain') : t \in chain'[i].txs => Depth(t)' = Len(chain') - i + 1
           /\ (\A i \in 1..Len(chain') : t \notin chain'[i].txs) => Depth(t)' = 0
  <1>1. chain' \in Seq(Blocks) /\ \A i, j \in 1..Len(chain') : i # j => chain'[i].txs \cap chain'[j].txs = {}
    BY DEF Linked
  <1>2. Depth(t)' = DepthOn(chain', t)
    BY DEF Depth, DepthOn
  <1>3. Len(chain') \in Nat
    BY <1>1
  <1> QED
    BY <1>1, <1>2, <1>3, DepthIs

\* A longer chain buries what is below the fork by one more block.
LEMMA SwitchDepths ==
    ASSUME NodeInv, NEW n \in 0..MaxRollback, Switch(Len(chain) - n), Linked(chain)', UNCHANGED Reports
    PROVE  C!ChainMoves(n)
  <1> DEFINE k == Len(chain) - n
             new == [t \in Txs |-> IF Depth(t) > n THEN 0 ELSE Depth(t)']
  <1>1. /\ Linked(chain) /\ Len(chain) \in Nat /\ n \in Nat /\ k \in 1..Len(chain) /\ MaxHeight \in Nat
        /\ Len(chain') = Len(chain) + 1 /\ Len(chain') <= MaxHeight
        /\ \A i \in 1..k : chain'[i] = chain[i] /\ i \in 1..Len(chain')
    <2>1. /\ k \in 1..Len(chain) /\ Len(chain') = Len(chain) + 1 /\ Len(chain') <= MaxHeight
          /\ \A i \in 1..k : chain'[i] = chain[i]
      BY DEF Switch
    <2>2. Linked(chain) /\ MaxHeight \in Nat /\ MaxRollback \in Nat
      BY FollowerAssumption DEF NodeInv
    <2>3. Len(chain) \in Nat /\ n \in Nat
      BY <2>2 DEF Linked
    <2> HIDE DEF k
    <2>4. \A i \in 1..k : i \in 1..Len(chain')
      BY <2>1, <2>3
    <2> QED
      BY <2>1, <2>2, <2>3, <2>4
  <1>2. ASSUME NEW t \in Txs
        PROVE  /\ Depth(t) > n => Depth(t)' = C!Deeper(Depth(t))
               /\ ~(Depth(t) > n) => Depth(t)' \in 0..(n + 1)
    <2> HIDE DEF k
    <2>0. k + n = Len(chain)
      BY <1>1 DEF k
    <2>1. CASE \E i \in 1..k : t \in chain[i].txs
      <3>1. PICK i \in 1..k : t \in chain[i].txs
        BY <2>1
      <3>2. i \in 1..Len(chain) /\ i \in 1..Len(chain') /\ t \in chain'[i].txs
        BY <1>1, <3>1
      <3>3. Depth(t) = Len(chain) - i + 1
        BY <1>1, <3>1, <3>2, ChainDepth
      <3>4. Depth(t)' = Len(chain') - i + 1
        BY <3>2, NextChainDepth
      <3>5. Depth(t) \in Nat /\ Depth(t) > n /\ Depth(t) < MaxHeight /\ Depth(t)' = Depth(t) + 1
        BY <1>1, <2>0, <3>1, <3>2, <3>3, <3>4
      <3> QED
        BY <3>5 DEF C!Deeper
    <2>2. CASE \A i \in 1..k : t \notin chain[i].txs
      <3>1. Depth(t) \in 0..n
        <4>1. CASE \E i \in 1..Len(chain) : t \in chain[i].txs
          <5>1. PICK i \in 1..Len(chain) : t \in chain[i].txs
            BY <4>1
          <5>2. Depth(t) = Len(chain) - i + 1
            BY <1>1, <5>1, ChainDepth
          <5>3. i > k
            BY <1>1, <2>2, <5>1
          <5> QED
            BY <1>1, <2>0, <5>1, <5>2, <5>3
        <4>2. CASE \A i \in 1..Len(chain) : t \notin chain[i].txs
          <5>1. Depth(t) = 0
            BY <1>1, <4>2, ChainDepth
          <5> QED
            BY <1>1, <5>1
        <4> QED
          BY <4>1, <4>2
      <3>2. Depth(t)' \in 0..(n + 1)
        <4>1. CASE \E i \in 1..Len(chain') : t \in chain'[i].txs
          <5>1. PICK i \in 1..Len(chain') : t \in chain'[i].txs
            BY <4>1
          <5>2. Depth(t)' = Len(chain') - i + 1
            BY <5>1, NextChainDepth
          <5>3. i > k
            BY <1>1, <2>2, <5>1
          <5> QED
            BY <1>1, <2>0, <5>1, <5>2, <5>3
        <4>2. CASE \A i \in 1..Len(chain') : t \notin chain'[i].txs
          <5>1. Depth(t)' = 0
            BY <4>2, NextChainDepth
          <5> QED
            BY <1>1, <5>1
        <4> QED
          BY <4>1, <4>2
      <3>3. ~(Depth(t) > n)
        BY <1>1, <3>1
      <3> QED
        BY <3>2, <3>3
    <2> QED
      BY <2>1, <2>2
  <1>3. new \in [Txs -> 0..(n + 1)]
    <2>1. 0 \in 0..(n + 1)
      BY <1>1
    <2> QED
      BY <1>2, <2>1
  <1>4. Depths' = [t \in Txs |-> IF Depths[t] > n THEN C!Deeper(Depths[t]) ELSE new[t]]
    <2>1. \A t \in Txs : Depth(t)' = IF Depths[t] > n THEN C!Deeper(Depths[t]) ELSE new[t]
      BY <1>2 DEF Depths
    <2>2. Depths' = [t \in Txs |-> Depth(t)']
      BY DEF Depths
    <2> HIDE DEF new
    <2> QED
      BY <2>1, <2>2
  <1> HIDE DEF new
  <1> QED
    BY <1>3, <1>4 DEF C!ChainMoves

\* In sync and just told of the tip, the follower reports what is true.
LEMMA ReportExact ==
    ASSUME FollowerInv', Sync', tip' = Len(chain'), \A i \in 1..Len(cursor') : cursor'[i] = chain'[i], UNCHANGED chain
    PROVE  \E known \in SUBSET Txs : C!Report(known)
  <1> DEFINE known == {t \in Txs : Included(t)'}
  <1>1. Linked(chain)' /\ Len(chain') \in Nat /\ Len(cursor') \in Nat /\ Len(cursor') <= Len(chain')
    BY DEF FollowerInv, NodeInv, CursorInv, Linked
  <1>2. Depths' = Depths
    BY DEF Depths, Depth
  <1>3. \A t \in Txs : Reported(t)' = IF t \in known THEN Depth(t)' ELSE 0
    <2> SUFFICES ASSUME NEW t \in Txs, Included(t)'
                 PROVE  tip' - watched'[t].height + 1 = Depth(t)'
      BY DEF Reported
    <2> DEFINE h == watched'[t].height
    <2>1. Seated(t)'
      BY DEF FollowerInv, WatchInv, Unseated
    <2>2. h \in 1..Len(cursor') /\ t \in cursor'[h].txs
      BY <2>1 DEF Seated
    <2> HIDE DEF h
    <2>3. h \in 1..Len(chain') /\ t \in chain'[h].txs
      BY <1>1, <2>2
    <2>4. Depth(t)' = Len(chain') - h + 1
      BY <1>1, <2>3, NextChainDepth
    <2> QED
      BY <2>4 DEF h
  <1>4. Reports' = [t \in Txs |-> IF t \in known THEN Depths[t] ELSE 0]
    <2>1. \A t \in Txs : Depth(t)' = Depths[t]
      <3>1. \A t \in Txs : Depths'[t] = Depth(t)'
        BY DEF Depths
      <3> QED
        BY <1>2, <3>1
    <2>2. Reports' = [t \in Txs |-> Reported(t)']
      BY DEF Reports
    <2> HIDE DEF known
    <2> QED
      BY <1>3, <2>1, <2>2
  <1>5. C!Report(known) /\ known \in SUBSET Txs
    BY <1>2, <1>4 DEF C!Report
  <1> QED
    BY <1>5

\* Every step of node and follower is a move of the chain, a report, the
\* withdrawal of a transaction, or nothing to the one who asks for depths.
LEMMA StepRefines ==
    ASSUME FollowerInv, FollowerInv', [Next]_vars
    PROVE  [C!Next]_<<Depths, Reports>>
  <1>1. ASSUME UNCHANGED <<chain, watched, tip>>
        PROVE  UNCHANGED <<Depths, Reports>>
    BY <1>1 DEF Depths, Reports, Depth, Reported, Included
  <1>2. ASSUME NEW t \in Txs, Watch(t) \/ Unwatch(t)
        PROVE  C!Forget(t)
    <2>1. PICK w \in {Unknown, Waiting} : watched' = [watched EXCEPT ![t] = w]
      BY <1>2 DEF Watch, Unwatch
    <2>2. UNCHANGED <<chain, tip>>
      BY <1>2 DEF Watch, Unwatch, nodeVars
    <2>3. DOMAIN watched = Txs /\ w.height = 0
      BY BlankTypes DEF FollowerInv, WatchInv
    <2>4. Reported(t)' = 0
      BY <2>1, <2>3 DEF Reported, Included
    <2>5. \A u \in Txs \ {t} : Reported(u)' = Reported(u)
      BY <2>1, <2>2, <2>3 DEF Reported, Included
    <2>6. Reports' = [Reports EXCEPT ![t] = 0]
      BY <2>4, <2>5 DEF Reports
    <2>7. UNCHANGED Depths
      BY <2>2 DEF Depths, Depth
    <2> QED
      BY <2>6, <2>7 DEF C!Forget
  <1>3. CASE Grow \/ Fork
    <2>1. PICK n \in 0..MaxRollback, T \in SUBSET submitted, gap \in {0, 1} : Adopt(n, T, gap)
      <3>1. 0 \in 0..MaxRollback /\ 1..MaxRollback \subseteq 0..MaxRollback
        BY FollowerAssumption
      <3> QED
        BY <1>3, <3>1 DEF Grow, Fork
    <2>2. Switch(Len(chain) - n) /\ Linked(chain)'
      BY <2>1, AdoptIs DEF FollowerInv
    <2>3. UNCHANGED Reports
      BY <2>1 DEF Adopt, stateVars, Reports, Reported, Included
    <2>4. C!ChainMoves(n)
      BY <2>2, <2>3, SwitchDepths DEF FollowerInv
    <2> QED
      BY <2>4 DEF C!Next
  <1>4. CASE Backward
    <2>1. /\ session' = session /\ session = "up" /\ fresh' = FALSE /\ tip' = Len(chain) /\ UNCHANGED chain
          /\ cursor' = SubSeq(chain, 1, Shared)
      BY <1>4 DEF Backward, SteppingBack, nodeVars
    <2>2. Shared \in 0..Len(chain) /\ chain \in Seq(Blocks)
      <3>1. Shared \in 0..Len(cursor)
        BY SharedIs DEF FollowerInv
      <3>2. chain \in Seq(Blocks) /\ cursor \in Seq(Blocks) /\ Len(cursor) <= Len(chain)
        BY DEF FollowerInv, NodeInv, CursorInv, Linked
      <3> QED
        BY <3>1, <3>2
    <2>3. \A i \in 1..Len(cursor') : cursor'[i] = chain'[i]
      BY <2>1, <2>2, Prefix
    <2> QED
      BY <2>1, <2>3, ReportExact DEF Sync, C!Next
  <1>5. CASE Forward
    <2>1. /\ Unread /\ cursor' = Append(cursor, chain[Len(cursor) + 1])
          /\ tip' = Len(chain) /\ UNCHANGED <<fresh, session, asked, chain, made, submitted>>
      BY <1>5 DEF Forward, nodeVars
    <2>2. Sync /\ \A i \in 1..Len(cursor') : cursor'[i] = chain[i]
      BY <2>1, ReadOn DEF FollowerInv
    <2>3. Sync' /\ tip' = Len(chain') /\ \A i \in 1..Len(cursor') : cursor'[i] = chain'[i]
      BY <2>1, <2>2 DEF Sync
    <2> QED
      BY <2>1, <2>3, ReportExact DEF C!Next
  <1>6. CASE \/ \E t \in Txs : Submit(t)
             \/ Connect \/ Intersect \/ GarbledForward \/ GarbledBackward \/ Disconnect \/ UNCHANGED vars
    BY <1>1, <1>6 DEF Submit, Connect, Intersect, GarbledForward, GarbledBackward, Disconnect, vars, nodeVars, stateVars
  <1> QED
    BY <1>2, <1>3, <1>4, <1>5, <1>6 DEF Next, FollowStep, C!Next

\* At first no transaction is on the chain or reported.
LEMMA InitRefines ==
    ASSUME Init, FollowerInv
    PROVE  C!Init
  <1>1. \A t \in Txs : Depth(t) = 0
    <2>1. Linked(chain)
      BY DEF FollowerInv, NodeInv
    <2>2. \A i \in 1..Len(chain) : chain[i].txs = {}
      BY DEF FollowerInv, NodeInv, Linked, Init
    <2> QED
      BY <2>1, <2>2, ChainDepth
  <1>2. \A t \in Txs : Reported(t) = 0
    BY BlankTypes DEF Init, Reported, Included
  <1> QED
    BY <1>1, <1>2 DEF C!Init, Depths, Reports

-----------------------------------------------------------------------------

\* The follower's state keeps its types: what is recorded of a transaction is
\* a height and a slot the chain has had, and, as long as no step back was
\* lost, recent_points never holds more than RECENT_POINTS_CAP.
THEOREM TypeCorrect == Spec => [](TypeOK /\ (Misled \/ Len(points) <= Cap))
  <1>1. LooseInv /\ SmallTypes /\ FreshType => TypeOK
    <2> SUFFICES ASSUME LooseInv, SmallTypes, FreshType PROVE TypeOK
      OBVIOUS
    <2>1. chain \in Seq(Blocks) /\ Len(chain) \in Nat /\ DOMAIN chain = 1..Len(chain)
      BY DEF LooseInv, NodeInv, Linked
    <2>2. Len(chain) \in 1..MaxHeight /\ tip \in 0..MaxHeight
      BY <2>1, FollowerAssumption DEF LooseInv, NodeInv
    <2>3. \A i \in 1..(Len(chain) - 1) : chain[i].slot < chain[i + 1].slot
      <3>1. \A i \in 1..(Len(chain) - 1) : i \in 1..Len(chain) /\ i + 1 \in 1..Len(chain) /\ i < i + 1
        BY <2>1
      <3> QED
        BY <3>1 DEF LooseInv, NodeInv, Linked
    <2>4. \A i \in DOMAIN chain : chain[i].txs \subseteq submitted
      BY <2>1 DEF LooseInv, NodeInv, Linked
    <2>5. fresh \in BOOLEAN
      BY DEF FreshType
    <2>6. submitted \subseteq Txs /\ skipped \subseteq 0..made
      BY DEF LooseInv, NodeInv
    <2>7. watched \in [Txs -> [height : 0..MaxHeight, slot : 0..(2 * MaxHeight), known : BOOLEAN]]
      BY DEF LooseInv, WatchType
    <2> QED
      BY <2>2, <2>3, <2>4, <2>5, <2>6, <2>7 DEF SmallTypes, TypeOK
  <1>2. FollowerInv => Len(points) <= Cap
    BY DEF FollowerInv, PointsInv
  <1> QED
    BY <1>1, <1>2, LooseInvariant, FollowerInvariant, PTL

\* A depth beyond the deepest fork is never taken back: whatever the follower
\* has missed, and in whatever state its connection is, the transaction is
\* that deep on the chain as it is now.  It needs RECENT_POINTS_CAP above the
\* depth of the deepest fork, and nothing about the number of blocks,
\* transactions or faults.
THEOREM BuriedStaysTrue == Spec => []BuriedIsTrue
  <1>1. FollowerInv => BuriedIsTrue
    <2> SUFFICES ASSUME FollowerInv, NEW t \in Txs, Reported(t) > MaxRollback
                 PROVE  Depth(t) > MaxRollback
      BY DEF BuriedIsTrue
    <2> DEFINE h == watched[t].height
               at == {i \in DOMAIN chain : t \in chain[i].txs}
               D == {0} \cup {Len(chain) - i + 1 : i \in at}
    <2>1. /\ MaxRollback \in Nat /\ tip \in 0..Len(chain) /\ h \in Nat
          /\ Len(chain) \in Nat /\ DOMAIN chain = 1..Len(chain)
      BY FollowerAssumption DEF FollowerInv, TipInv, WatchInv, NodeInv, Linked
    <2>2. Included(t)
      BY <2>1 DEF Reported
    <2>3. h > 0 /\ tip - h + 1 > MaxRollback
      BY <2>2 DEF Reported, Included
    <2> HIDE DEF h
    <2>4. h + MaxRollback <= tip
      BY <2>1, <2>3
    <2>5. t \in chain[h].txs
      BY <2>2, <2>4 DEF FollowerInv, TipInv, h
    <2>6. h \in at /\ h \in 1..Len(chain)
      BY <2>1, <2>3, <2>4, <2>5
    <2>7. D \in SUBSET Nat /\ D # {} /\ \A x \in D : x <= Len(chain)
      BY <2>1
    <2>8. Len(chain) - h + 1 \in D
      BY <2>6
    <2> HIDE DEF D
    <2>9. Max(D) \in Nat /\ Max(D) >= Len(chain) - h + 1
      BY <2>1, <2>7, <2>8, MaxIs
    <2>10. Max(D) > MaxRollback
      BY <2>1, <2>3, <2>4, <2>6, <2>9
    <2> QED
      BY <2>10 DEF Depth, D
  <1>2. Misled => BuriedIsTrue
    BY DEF BuriedIsTrue
  <1> QED
    BY <1>1, <1>2, FollowerInvariant, PTL

\* No inclusion is missed in any block the follower read, through forks,
\* re-inclusions and reconnections: what it did not read are the blocks it
\* cannot parse, and those up to the tip when it had no point to start from.
THEOREM InclusionsAreSeen == Spec => [](Misled \/ InclusionSeen)
  <1>1. FollowerInv => InclusionSeen
    <2> SUFFICES ASSUME FollowerInv, NEW t \in Txs, NEW b \in Range(cursor), t \in b.txs, b.id \notin skipped
                 PROVE  Included(t)
      BY DEF InclusionSeen
    <2>1. cursor \in Seq(Blocks) /\ DOMAIN cursor = 1..Len(cursor)
      BY DEF FollowerInv, CursorInv, Linked
    <2>2. PICK i \in 1..Len(cursor) : b = cursor[i]
      BY <2>1 DEF Range
    <2> QED
      BY <2>2 DEF FollowerInv, SeenInv
  <1> QED
    BY <1>1, FollowerInvariant, PTL

\* A list of more points than the deepest fork drops is never forked away as
\* a whole: however long the connection was down, the follower then finds an
\* intersection.
THEOREM OnlyYoungStranded == Spec => []StrandedIsYoung
  <1>1. FollowerInv => StrandedIsYoung
    <2> SUFFICES ASSUME FollowerInv, Stranded, ~(Len(points) <= MaxRollback)
                 PROVE  FALSE
      BY DEF StrandedIsYoung
    <2>1. /\ points \in Seq(Blocks) /\ Len(points) \in Nat /\ MaxRollback \in Nat
          /\ DOMAIN points = 1..Len(points) /\ DOMAIN chain = 1..Len(chain)
      BY FollowerAssumption DEF FollowerInv, PointsInv, NodeInv, Linked
    <2>2. 1 \in DOMAIN points /\ Len(points) > MaxRollback
      BY <2>1
    <2>3. chain[points[1].height] = points[1] /\ points[1].height \in DOMAIN chain
      BY <2>1, <2>2 DEF FollowerInv, PointsInv
    <2>4. points[1] \in Range(points) /\ points[1] \in Range(chain)
      BY <2>2, <2>3 DEF Range
    <2> QED
      BY <2>4 DEF Stranded
  <1>2. Misled => StrandedIsYoung
    BY DEF StrandedIsYoung
  <1> QED
    BY <1>1, <1>2, FollowerInvariant, PTL

\* The follower, through disconnects, forks, blocks it cannot parse and blocks
\* it never read, implements Confirmations: apply_forward and apply_backward
\* leave every watched transaction either Pending or at its exact depth on the
\* node's chain, and nothing else but unwatch changes what is reported.
THEOREM FollowerImplementsConfirmations == Spec => ImplementsConfirmations
  <1>1. Init => C!Init
    BY InitInv, InitRefines
  <1>2. (Misled \/ FollowerInv) /\ (Misled \/ FollowerInv)' /\ [Next]_vars
          => [Misled' \/ C!Next]_<<Depths, Reports>>
    BY StepRefines, MisledStays
  <1> QED
    BY <1>1, <1>2, FollowerInvariant, PTL DEF Spec, ImplementsConfirmations

=============================================================================
