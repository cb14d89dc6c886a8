-------------------------- MODULE MCSlotLifecycle --------------------------
(***************************************************************************)
(* SlotLifecycle for TLC.  Two slots and two controllers: enough for one   *)
(* worker to release its slot while the main thread is busy with another,  *)
(* and for a controller to be offered twice (scan and hotplug event).      *)
(***************************************************************************)
EXTENDS SlotLifecycle

\* passes of the main loop after which a heartbeat is stale
MCTimeout == 1
\* a 64-bit word in the code; any modulus above the timeout wraps the same way
MCWord == 16
\* the hotplug event of a device found by the scan is pending at the same time
MCEvents == 1
=============================================================================
