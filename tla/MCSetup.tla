------------------------------- MODULE MCSetup -------------------------------
(* Instances of Setup for TLC.                                             *)
EXTENDS Setup

AllEvents == EventKinds
\* Those that wait for one another.
LinkedItems == {"system roles", "bank roles", "bank", "account", "grant"}

=============================================================================
