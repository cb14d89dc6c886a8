----------------------------- MODULE MCShmMutex -----------------------------
(* A small instance of the shared mutex.                                   *)
EXTENDS ShmMutex

CONSTANTS cli, bridge

OneSafe  == {cli}
Bridge   == {bridge}
=============================================================================
