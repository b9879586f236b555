--------------------------- MODULE ChainFollower ---------------------------
(***************************************************************************)
(* The chain-sync follower of obp-blockchain: the registry of watched      *)
(* transactions, the points kept for reconnecting, the tip, and the        *)
(* connection that is negotiated, read and lost.  The Cardano node behind  *)
(* Ogmios is external: it has a chain that grows and forks, and per        *)
(* session a cursor it rolls back to what the client and the chain share.  *)
(***************************************************************************)
EXTENDS Naturals, Sequences, FiniteSets, SequencesExt, FiniteSetsExt

CONSTANTS
    Txs,         \* transactions the node submits
    Cap,         \* RECENT_POINTS_CAP
    MaxRollback, \* deepest fork the chain ever switches away from
    MaxHeight,   \* blocks the chain may reach
    Faults,      \* fault kinds that may occur
    MaxFaults    \* how many faults may occur in all

FaultKinds == {"disconnect", "fork", "garbled"}

ASSUME FollowerAssumption ==
    /\ Cap \in Nat /\ MaxRollback \in Nat /\ MaxHeight \in Nat /\ MaxFaults \in Nat
    /\ 0 < Cap /\ MaxRollback < Cap /\ Cap < MaxHeight
    /\ Faults \subseteq FaultKinds

VARIABLES
    chain,     \* Cardano node: its blocks, a block's height is its index
    made,      \* Cardano node: blocks made so far, which numbers them
    submitted, \* Cardano node: transactions in its mempool or on a chain
    cursor,    \* Ogmios session: the blocks the client has been sent
    fresh,     \* Ogmios session: the intersection is still to be announced
    session,   \* follow(): "down", "intersect" (has its candidates) or "up"
    asked,     \* follow(): candidates for findIntersection, newest first
    watched,   \* FollowerState: transaction -> Unknown, Pending or where included
    points,    \* FollowerState: recent_points, oldest first
    tip,       \* FollowerState: tip_height, 0 when there is none
    skipped,   \* history: ids of blocks the follower passed without reading,
               \* and 0 for a step back it could not parse
    faults     \* faults so far

nodeVars    == <<chain, made, submitted>>
sessionVars == <<cursor, fresh, session, asked>>
stateVars   == <<watched, points, tip>>
vars == <<nodeVars, sessionVars, stateVars, skipped, faults>>

Unknown == [height |-> 0, slot |-> 0, known |-> FALSE]
Waiting == [height |-> 0, slot |-> 0, known |-> TRUE]
Included(t) == watched[t].height > 0

Block(n, h, s, T) == [id |-> n, height |-> h, slot |-> s, txs |-> T]
Genesis(n) == [i \in 1..n |-> Block(i, i, i, {})]

TypeOK ==
    /\ \A i \in DOMAIN chain : chain[i].txs \subseteq submitted
    /\ \A i \in 1..(Len(chain) - 1) : chain[i].slot < chain[i + 1].slot
    /\ submitted \subseteq Txs
    /\ Len(chain) \in 1..MaxHeight
    /\ fresh \in BOOLEAN
    /\ session \in {"down", "intersect", "up"}
    /\ watched \in [Txs -> [height : 0..MaxHeight, slot : 0..(2 * MaxHeight), known : BOOLEAN]]
    /\ tip \in 0..MaxHeight
    /\ skipped \subseteq 0..made
    /\ faults \in 0..MaxFaults

\* The follower has just been spawned.
Spawned ==
    /\ session = "down" /\ cursor = <<>>
    /\ points = <<>> /\ tip = 0 /\ skipped = {}

\* A follower in sync has processed Cap blocks.
InSync ==
    /\ session = "up" /\ cursor = chain
    /\ points = chain /\ tip = Cap /\ skipped = {}

Init ==
    /\ chain = Genesis(Cap) /\ made = Cap /\ submitted = {}
    /\ Spawned \/ InSync
    /\ fresh = FALSE /\ asked = <<>>
    /\ watched = [t \in Txs |-> Unknown]
    /\ faults = 0

Fault(kind) ==
    /\ kind \in Faults
    /\ faults < MaxFaults
    /\ faults' = faults + 1

-----------------------------------------------------------------------------
(* The writers: watch, submit, and unwatch when the submission failed.     *)

Watch(t) ==
    /\ ~watched[t].known
    /\ watched' = [watched EXCEPT ![t] = Waiting]
    /\ UNCHANGED <<points, tip, nodeVars, sessionVars, skipped, faults>>

Submit(t) ==
    /\ watched[t].known /\ t \notin submitted
    /\ submitted' = submitted \cup {t}
    /\ UNCHANGED <<chain, made, sessionVars, stateVars, skipped, faults>>

Unwatch(t) ==
    /\ watched[t].known /\ t \notin submitted
    /\ watched' = [watched EXCEPT ![t] = Unknown]
    /\ UNCHANGED <<points, tip, nodeVars, sessionVars, skipped, faults>>

-----------------------------------------------------------------------------
(* The Cardano node.                                                       *)

TxsOf(blocks) == UNION {blocks[i].txs : i \in DOMAIN blocks}

\* The node adopts a chain that drops its last n blocks and has n + 1 new
\* ones; pending transactions T are in the first of these or in the last.
Adopt(n, T, gap) ==
    LET kept == SubSeq(chain, 1, Len(chain) - n)
        base == IF kept = <<>> THEN 0 ELSE Last(kept).slot
        new(at) == [i \in 1..(n + 1) |->
                      Block(made + i, Len(kept) + i, base + gap + i, IF i = at THEN T ELSE {})]
    IN
    /\ Len(chain) < MaxHeight
    /\ T \subseteq submitted \ TxsOf(kept)
    /\ \E at \in {1, n + 1} : chain' = kept \o new(at)
    /\ made' = made + n + 1
    /\ UNCHANGED <<submitted, sessionVars, stateVars, skipped>>

Grow == \E T \in SUBSET submitted, gap \in {0, 1} : Adopt(0, T, gap) /\ UNCHANGED faults

Fork ==
    /\ \E n \in 1..MaxRollback, T \in SUBSET submitted, gap \in {0, 1} : Adopt(n, T, gap)
    /\ Fault("fork")

-----------------------------------------------------------------------------
(* follow(): one connection.                                               *)

\* After a reconnect the follower starts over at the tip.
MutantAlwaysTip == <<Last(chain)>>

\* Only the last block read is offered for the intersection.
MutantNewestOnly == <<Last(IF points = <<>> THEN chain ELSE points)>>

\* Recent points newest first, or the tip when there are none.
Candidates == IF points = <<>> THEN <<Last(chain)>> ELSE Reverse(points)

Connect ==
    /\ session = "down"
    /\ session' = "intersect"
    /\ asked' = Candidates
    /\ UNCHANGED <<cursor, fresh, nodeVars, stateVars, skipped, faults>>

\* findIntersection answers with the newest candidate that is on the chain;
\* with none of them there it is an RPC error, which ends the connection.
Intersect ==
    LET common == {i \in DOMAIN chain : chain[i] \in Range(asked)} IN
    /\ session = "intersect"
    /\ \/ /\ common # {}
          /\ cursor' = SubSeq(chain, 1, Max(common))
          /\ fresh' = TRUE
          /\ session' = "up"
          /\ skipped' = IF points = <<>> THEN skipped \cup {b.id : b \in Range(cursor')} ELSE skipped
       \/ /\ common = {}
          /\ session' = "down"
          /\ UNCHANGED <<cursor, fresh, skipped>>
    /\ asked' = <<>>
    /\ UNCHANGED <<nodeVars, stateVars, faults>>

Disconnect ==
    /\ session # "down"
    /\ Fault("disconnect")
    /\ session' = "down" /\ asked' = <<>> /\ fresh' = FALSE
    /\ UNCHANGED <<cursor, nodeVars, stateVars, skipped>>

\* How much of what the session has sent is still on the chain.
Shared == Max({0} \cup {n \in 1..Len(cursor) : n <= Len(chain) /\ cursor[n] = chain[n]})

\* A watched transaction counts as rolled back one slot too late.
MutantCutTooHigh(slot, cut) == slot > cut + 1

RolledBack(slot, cut) == slot > cut

\* Points that were rolled back are kept.
MutantUnpruned(cut) == points

\* retain: the points up to the cut, in their order.
Pruned(cut) ==
    LET kept[i \in 0..Len(points)] ==
            IF i = 0 THEN <<>>
            ELSE IF points[i].slot <= cut THEN Append(kept[i - 1], points[i]) ELSE kept[i - 1]
    IN  kept[Len(points)]

\* The next message tells where the session and the chain part.
SteppingBack == session = "up" /\ (fresh \/ Shared < Len(cursor))

\* apply_backward; slot 0 stands for the origin.
Backward ==
    LET cut == IF Shared = 0 THEN 0 ELSE chain[Shared].slot IN
    /\ SteppingBack
    /\ cursor' = SubSeq(chain, 1, Shared)
    /\ fresh' = FALSE
    /\ watched' = [t \in Txs |-> IF Included(t) /\ RolledBack(watched[t].slot, cut)
                                 THEN Waiting ELSE watched[t]]
    /\ points' = Pruned(cut)
    /\ tip' = Len(chain)
    /\ UNCHANGED <<session, asked, nodeVars, skipped, faults>>

Unread == session = "up" /\ ~fresh /\ Shared = Len(cursor) /\ Len(cursor) < Len(chain)

\* recent_points is cut back to RECENT_POINTS_CAP.
KeepRecent(s) == IF Len(s) > Cap THEN Tail(s) ELSE s

\* apply_forward.
Forward ==
    LET b == chain[Len(cursor) + 1] IN
    /\ Unread
    /\ cursor' = Append(cursor, b)
    /\ watched' = [t \in Txs |-> IF t \in b.txs /\ watched[t].known
                                 THEN [height |-> b.height, slot |-> b.slot, known |-> TRUE]
                                 ELSE watched[t]]
    /\ points' = KeepRecent(Append(points, b))
    /\ tip' = Len(chain)
    /\ UNCHANGED <<fresh, session, asked, nodeVars, skipped, faults>>

\* A message that cannot be parsed is skipped, be it a block ...
GarbledForward ==
    /\ Unread
    /\ Fault("garbled")
    /\ cursor' = Append(cursor, chain[Len(cursor) + 1])
    /\ skipped' = skipped \cup {chain[Len(cursor) + 1].id}
    /\ UNCHANGED <<fresh, session, asked, nodeVars, stateVars>>

\* ... or a step back: what was rolled back stays as it was.
GarbledBackward ==
    /\ SteppingBack
    /\ Fault("garbled")
    /\ cursor' = SubSeq(chain, 1, Shared)
    /\ fresh' = FALSE
    /\ skipped' = skipped \cup {0}
    /\ UNCHANGED <<session, asked, nodeVars, stateVars>>

-----------------------------------------------------------------------------
FollowStep == Connect \/ Intersect \/ Backward \/ Forward \/ GarbledForward \/ GarbledBackward

Next ==
    \/ \E t \in Txs : Watch(t) \/ Submit(t) \/ Unwatch(t)
    \/ Grow \/ Fork
    \/ FollowStep \/ Disconnect

Spec == Init /\ [][Next]_vars

\* run() reconnects for ever, and the node answers a session that is up.
FairSpec == Spec /\ WF_vars(FollowStep)

-----------------------------------------------------------------------------
(* Properties.                                                             *)

\* ChainFollower::status: the depth it reports, 0 for Pending.
Reported(t) == IF Included(t) THEN tip - watched[t].height + 1 ELSE 0

\* The transaction's real depth on the node's chain.
Depth(t) == Max({0} \cup {Len(chain) - i + 1 : i \in {i \in DOMAIN chain : t \in chain[i].txs}})

\* A step back could not be parsed: nothing tells the follower what it missed.
Misled == 0 \in skipped

\* A reported depth beyond the deepest fork is true of the chain as it is now,
\* however far the follower lags and even while it is disconnected, as long as
\* every step back could be parsed.  This is what the finality watcher relies on.
BuriedIsTrue ==
    ~Misled => \A t \in Txs : Reported(t) > MaxRollback => Depth(t) > MaxRollback

\* Through all reconnects, forks and re-inclusions no inclusion of a watched
\* transaction is missed but in a block that could not be parsed, or that was
\* on the chain when the follower had no point left to start from and started
\* at the tip: in its first session, and whenever all the blocks it has read
\* were rolled back before the connection broke.
InclusionSeen ==
    session = "up" /\ ~fresh =>
        \A t \in Txs, b \in Range(cursor) :
            t \in b.txs /\ b.id \notin skipped /\ watched[t].known => Included(t)

Depths  == [t \in Txs |-> Depth(t)]
Reports == [t \in Txs |-> Reported(t)]

\* The follower implements Confirmations as long as every step back could be
\* parsed: whatever it missed, forgot or has not read yet, a depth it reports
\* is the transaction's depth on the node's chain as of the last message read.
C == INSTANCE Confirmations WITH Deepest <- MaxHeight, depth <- Depths, seen <- Reports
ImplementsConfirmations == C!Init /\ [][Misled' \/ C!Next]_<<Depths, Reports>>

CaughtUp == session = "up" /\ ~fresh /\ cursor = chain

\* All the points the follower kept were forked away: it offers them for ever
\* (against follower.rs: "if all are rolled back or unknown we re-intersect at
\* the current tip instead").
Stranded == points # <<>> /\ Range(points) \cap Range(chain) = {}

\* The follower catches up with the chain again and again, through any
\* disconnects and forks, unless it is stranded.
CatchesUp == []<>(CaughtUp \/ Stranded)

\* Only a follower that has not yet read more blocks than the deepest fork
\* drops, or could not parse them or a step back, can be stranded.
StrandedIsYoung == Stranded => Misled \/ Len(points) <= MaxRollback

\* follower.rs:11-12: "Writers register a tx id via ChainFollower::watch before
\* submitting, so the follower cannot miss the inclusion block".  TLC refutes
\* it: the follower may start beyond that block (README, section 6).
CannotMiss ==
    session = "up" /\ ~fresh =>
        \A t \in Txs, b \in Range(cursor) : t \in b.txs /\ watched[t].known => Included(t)

\* follower.rs:14-16: "a rollback past the inclusion point reverts the tx to
\* Pending until it reappears on the new chain".  TLC refutes it: a step back
\* that cannot be parsed is skipped (README, section 6).
RollbackReverts ==
    session = "up" /\ ~fresh =>
        \A t \in Txs : Included(t) => t \in TxsOf(cursor)

=============================================================================
