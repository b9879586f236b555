------------------------ MODULE MCCreditNotification ------------------------
(* Instances of CreditNotification for TLC.                                *)
EXTENDS CreditNotification

AllFaults == FaultKinds
=============================================================================
