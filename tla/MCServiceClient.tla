--------------------------- MODULE MCServiceClient ---------------------------
(* A small instance: two slots, two controllers, one client.               *)
EXTENDS ServiceClient

CONSTANTS c1, c2

TwoControllers == {c1, c2}
=============================================================================
