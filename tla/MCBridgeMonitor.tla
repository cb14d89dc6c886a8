--------------------------- MODULE MCBridgeMonitor ---------------------------
(* A small instance of the bridge: one slot two controllers may share.     *)
EXTENDS BridgeMonitor

CONSTANTS s0, c1, c2

OneSlot == {s0}
TwoControllers == {c1, c2}
=============================================================================
