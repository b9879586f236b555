--------------------------- MODULE Confirmations ----------------------------
(***************************************************************************)
(* What the node may rely on when it asks how deep a transaction is: the   *)
(* chain drops no more than its last MaxRollback blocks at a time, and     *)
(* what the follower reports of a transaction is nothing, or a depth that  *)
(* was exact when the follower last heard of the tip.                      *)
(***************************************************************************)
EXTENDS Naturals

CONSTANTS Txs,         \* transactions
          MaxRollback, \* deepest fork the chain ever switches away from
          Deepest      \* depths are counted up to this bound

VARIABLES depth,  \* per transaction: confirmations on the chain, 0 = none
          seen    \* per transaction: confirmations reported, 0 = Pending

Init ==
    /\ depth = [t \in Txs |-> 0]
    /\ seen = [t \in Txs |-> 0]

Deeper(d) == IF d < Deepest THEN d + 1 ELSE Deepest

\* A chain is adopted that drops the last n blocks and has n + 1 others: what
\* was below the fork is one deeper, what was not may be in any new block.
ChainMoves(n) ==
    /\ \E new \in [Txs -> 0..(n + 1)] :
          depth' = [t \in Txs |-> IF depth[t] > n THEN Deeper(depth[t]) ELSE new[t]]
    /\ UNCHANGED seen

\* The follower processes a message: it knows the inclusions of these.
Report(known) ==
    /\ seen' = [t \in Txs |-> IF t \in known THEN depth[t] ELSE 0]
    /\ UNCHANGED depth

\* A transaction is taken off the follower's list.
Forget(t) ==
    /\ seen' = [seen EXCEPT ![t] = 0]
    /\ UNCHANGED depth

Next ==
    \/ \E n \in 0..MaxRollback : ChainMoves(n)
    \/ \E known \in SUBSET Txs : Report(known)
    \/ \E t \in Txs : Forget(t)

Spec == Init /\ [][Next]_<<depth, seen>>

\* A depth beyond the deepest fork, once reported, is never untrue again.
Trustworthy == \A t \in Txs : seen[t] > MaxRollback => depth[t] > MaxRollback

=============================================================================
