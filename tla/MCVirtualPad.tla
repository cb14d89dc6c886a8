---------------------------- MODULE MCVirtualPad ----------------------------
(* A small instance: controllers of both kinds follow each other on a slot. *)
EXTENDS VirtualPad

\* CROSS fires the trigger, the trigger is CIRCLE
TwoBinds == {<<"CROSS", "R2">>, <<"R2", "CIRCLE">>}

BothKinds == {"ds", "nsw"}
=============================================================================
