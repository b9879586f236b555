------------------------------ MODULE PayOnce -------------------------------
(***************************************************************************)
(* What the settlement path promises to OBP-API: every obligation, named   *)
(* by its idempotency key, is discharged by at most one transfer, and only *)
(* a transfer that happened is ever declared final.                        *)
(***************************************************************************)
CONSTANTS Transfers, Obligation(_)

VARIABLES made,   \* transfers that left the wallet
          final   \* transfers declared final

Init == made = {} /\ final = {}

\* A first transfer for an obligation that has none.
Pay(t) ==
    /\ \A u \in made : Obligation(u) # Obligation(t)
    /\ made' = made \cup {t}
    /\ UNCHANGED final

Declare(t) ==
    /\ t \in made
    /\ final' = final \cup {t}
    /\ UNCHANGED made

Next == \E t \in Transfers : Pay(t) \/ Declare(t)

Spec == Init /\ [][Next]_<<made, final>>

=============================================================================
