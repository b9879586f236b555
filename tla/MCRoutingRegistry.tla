------------------------- MODULE MCRoutingRegistry -------------------------
EXTENDS RoutingRegistry

AllClientFaults == ClientFaultKinds

=============================================================================
