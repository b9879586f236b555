-------------------------- MODULE MCChainFollower --------------------------
(* Instances of ChainFollower for TLC.                                     *)
EXTENDS ChainFollower

AllFaults == FaultKinds
=============================================================================
