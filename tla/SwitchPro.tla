----------------------------- MODULE SwitchPro ------------------------------
(***************************************************************************)
(* The Switch Pro driver of one slot (nsw.c): the context that is kept per *)
(* slot and outlives its worker, made by nsw_init, left by nsw_cleanup,    *)
(* and the rumble it plays as force feedback of the event device.          *)
(*                                                                         *)
(* nsw_init takes the first event device that is a Pro Controller's, which *)
(* need not be the one the slot was registered for, and rewrites the       *)
(* slot's nodes with it, so that the worker opens the same one; with a     *)
(* context that is kept the nodes are those of the slot's controller.      *)
(* Buttons are in VirtualPad.  Both motors are one, its levels small       *)
(* numbers.  A write to an event device that is there does not fail, and   *)
(* the inotify watch is always made; an upload may fail.                   *)
(***************************************************************************)
EXTENDS Naturals

CONSTANTS
  Pads, Own,      \* Pro Controllers; the one the slot is registered for
  Levels,         \* rumble levels, 0 is off
  MaxEvents       \* bound: plugs, commands, effects, failing calls

ASSUME SwitchAssumption ==
  /\ Own \in Pads
  /\ Levels \subseteq Nat /\ 0 \in Levels
  /\ MaxEvents \in Nat

VARIABLES
  present,          \* Pro Controllers that are there
  offered,          \* the scan or inotify has Own for the main loop
  motor,            \* what each of them plays
  \* the slot in shared memory; rumble is rumble_strong and rumble_weak
  rumble, rumble_dirty, rumble_active,
  zeroing,          \* a rumble off has still to clear the level
  \* the worker: "off", "init", "open", "monitor", "poll", "out", "lower"
  pc,
  fd, hup,          \* the device it opened; whether that was removed
  \* the context
  initialized, connected, dev,
  removed,          \* the device of event_fd was removed
  told,             \* inotify has a deletion that is taken for its removal
  effect_id,        \* there is an effect
  last,             \* last_strong, last_weak
  recent,           \* less than 50 ms since last_rumble_time
  events,
  \* history: a level was cached and not sent; one could not be uploaded, or was
  \* stored while rumble was off; a flag was raised after the report and lowered
  swallowed, owed, missed

bus     == <<present, offered>>
slot    == <<rumble, rumble_dirty, rumble_active>>
context == <<initialized, connected, dev, removed, told, effect_id, last, recent>>
worker  == <<pc, fd, hup>>
history == <<swallowed, owed, missed>>
vars    == <<bus, motor, slot, zeroing, worker, context, events, history>>

Event == events < MaxEvents /\ events' = events + 1

\* a new node under /dev is told to the main loop
Plug(p) ==
  /\ Event
  /\ p \notin present
  /\ present' = present \cup {p}
  /\ offered' = (offered \/ p = Own)
  /\ UNCHANGED <<motor, slot, zeroing, worker, context, history>>

Unplug(p) ==
  /\ Event
  /\ p \in present
  /\ present' = present \ {p}
  /\ motor' = [motor EXCEPT ![p] = 0]
  /\ removed' = (removed \/ (initialized /\ dev = p))
  /\ told' = (told \/ (initialized /\ dev = p))
  /\ hup' = (hup \/ fd = p)
  /\ UNCHANGED <<offered, slot, zeroing, pc, fd, initialized, connected, dev, effect_id, last,
                 recent, history>>

\* Some other event device is deleted, whose name is the beginning of the one in
\* use: event1 of event12.
DeleteOther ==
  /\ Event
  /\ initialized /\ ~told
  /\ told' = TRUE
  /\ UNCHANGED <<bus, motor, slot, zeroing, worker, initialized, connected, dev, removed,
                 effect_id, last, recent, history>>

\* A registration zeroes the slot; rumble_active is the profile's.  Only a node that
\* was found by the scan or told by inotify is registered.
Register ==
  /\ offered /\ Own \in present
  /\ pc = "off"
  /\ offered' = FALSE
  /\ pc' = "init"
  /\ rumble' = 0 /\ rumble_dirty' = FALSE
  /\ UNCHANGED <<present, motor, rumble_active, zeroing, fd, hup, context, events, history>>

\* The node is registered in another slot, or cannot be opened.
Decline ==
  /\ offered
  /\ offered' = FALSE
  /\ UNCHANGED <<present, motor, slot, zeroing, worker, context, events, history>>

\* rumble on, and rumble off up to its wait for the mutex
SetActive(on) ==
  /\ Event
  /\ rumble_active # on
  /\ rumble_active' = on
  /\ zeroing' = (zeroing \/ ~on)
  /\ owed' = (owed \/ (on /\ rumble # 0))
  /\ UNCHANGED <<bus, motor, rumble, rumble_dirty, worker, context, swallowed, missed>>

\* rumble off clears the level
Zero ==
  /\ zeroing
  /\ zeroing' = FALSE
  /\ rumble' = 0 /\ rumble_dirty' = TRUE
  /\ missed' = (missed \/ pc = "lower")
  /\ UNCHANGED <<bus, motor, rumble_active, worker, context, events, swallowed, owed>>

\* 50 ms pass
Tick ==
  /\ recent
  /\ recent' = FALSE
  /\ UNCHANGED <<bus, motor, slot, zeroing, worker, initialized, connected, dev, removed, told,
                 effect_id, last, events, history>>

(***************************************************************************)
(* The worker.                                                             *)
(***************************************************************************)

\* The first event device of a Pro Controller in the directory, which may be that of
\* any of them.
nsw_find_evdev_device == present

\* Has a node been deleted whose name is part of the path that was opened?
nsw_check_inotify == told

\* discovery and nsw_init; a context that is initialized is kept.  No device: the
\* slot is given back.
InitContext ==
  /\ pc = "init"
  /\ \/ /\ initialized
        /\ pc' = "open" /\ fd' = Own
        /\ UNCHANGED <<context, history>>
     \/ \E p \in nsw_find_evdev_device :
          /\ ~initialized
          /\ pc' = "open" /\ fd' = p
          /\ initialized' = TRUE /\ connected' = TRUE
          /\ dev' = p /\ removed' = FALSE /\ told' = FALSE
          /\ effect_id' = FALSE /\ last' = 0 /\ recent' = TRUE
          /\ swallowed' = FALSE /\ owed' = FALSE /\ missed' = FALSE
     \/ /\ Own \notin present
        /\ pc' = "off" /\ UNCHANGED fd
        /\ UNCHANGED <<context, history>>
  /\ UNCHANGED <<bus, motor, slot, zeroing, hup, events>>

\* The worker opens an event device of its own.  If it cannot, it ends and leaves
\* the context as it is.
Open ==
  /\ pc = "open"
  /\ \/ fd \in present /\ pc' = "monitor" /\ hup' = FALSE /\ UNCHANGED events
     \/ fd \notin present /\ pc' = "off" /\ UNCHANGED <<hup, events>>
     \/ Event /\ pc' = "off" /\ UNCHANGED hup
  /\ UNCHANGED <<bus, motor, slot, zeroing, fd, context, history>>

\* the effect is stopped and removed
Silence ==
  /\ motor' = IF effect_id THEN [motor EXCEPT ![dev] = 0] ELSE motor
  /\ effect_id' = FALSE

\* Mutant: the context stays initialized.
nsw_cleanup_forgets ==
  /\ Silence
  /\ connected' = FALSE
  /\ UNCHANGED <<initialized, dev, removed, told, last, recent>>

nsw_cleanup ==
  /\ Silence
  /\ initialized' = FALSE /\ connected' = FALSE
  /\ UNCHANGED <<dev, removed, told, last, recent>>

\* nsw_monitor: inotify, or a read that failed
Monitor ==
  /\ pc = "monitor"
  /\ IF nsw_check_inotify \/ ~connected
     THEN nsw_cleanup /\ pc' = "off"
     ELSE pc' = "poll" /\ UNCHANGED <<motor, context>>
  /\ UNCHANGED <<bus, slot, zeroing, fd, hup, events, history>>

\* the watchdog stops the worker
Stop ==
  /\ Event
  /\ pc = "monitor"
  /\ nsw_cleanup
  /\ pc' = "off"
  /\ UNCHANGED <<bus, slot, zeroing, fd, hup, history>>

\* The worker's device hangs up, or a read by nsw_read_events fails, or neither.
Poll ==
  /\ pc = "poll"
  /\ \/ hup /\ nsw_cleanup /\ pc' = "off"
     \/ /\ removed /\ connected' = FALSE /\ pc' = "out"
        /\ UNCHANGED <<motor, initialized, dev, removed, told, effect_id, last, recent>>
     \/ ~hup /\ pc' = "out" /\ UNCHANGED <<motor, context>>
  /\ UNCHANGED <<bus, slot, zeroing, fd, hup, events, history>>

\* The game plays or stops an effect, or the wave of a periodic one moves on; the
\* worker stores its level.  A UHID report is stored also while rumble is off.
Play(level, uhid) ==
  /\ Event
  /\ pc = "poll" /\ ~hup
  /\ rumble_active \/ level = 0 \/ uhid
  /\ rumble' = level /\ rumble_dirty' = TRUE
  /\ pc' = "out"
  /\ UNCHANGED <<bus, motor, rumble_active, zeroing, fd, hup, context, history>>

\* rumble off: an effect that is there is stopped
Off ==
  /\ ~rumble_active
  /\ Silence
  /\ last' = IF effect_id THEN 0 ELSE last
  /\ UNCHANGED <<connected, recent, events, swallowed, owed>>

\* the device hangs up
Hup ==
  /\ rumble_active /\ removed
  /\ connected' = FALSE
  /\ UNCHANGED <<motor, effect_id, last, recent, events, swallowed, owed>>

\* the same level, which also puts off the end of the 50 ms
Same ==
  /\ rumble_active /\ ~removed /\ rumble = last
  /\ recent' = TRUE
  /\ UNCHANGED <<motor, connected, effect_id, last, events, swallowed, owed>>

\* Mutant: the id is forgotten and the effect goes on.
StopForgetsEffect ==
  /\ rumble_active /\ ~removed /\ rumble # last /\ rumble = 0
  /\ effect_id' = FALSE
  /\ last' = 0 /\ recent' = TRUE
  /\ swallowed' = FALSE /\ owed' = FALSE
  /\ UNCHANGED <<motor, connected, events>>

StopEffect ==
  /\ rumble_active /\ ~removed /\ rumble # last /\ rumble = 0
  /\ Silence
  /\ last' = 0 /\ recent' = TRUE
  /\ swallowed' = FALSE /\ owed' = FALSE
  /\ UNCHANGED <<connected, events>>

\* Within 50 ms the level is cached as if it had been sent.
Limit ==
  /\ rumble_active /\ ~removed /\ rumble # last /\ rumble # 0
  /\ recent
  /\ last' = rumble
  /\ swallowed' = TRUE
  /\ UNCHANGED <<motor, connected, effect_id, recent, events, owed>>

\* Mutant: the level is cached before the upload, as in Limit, and not after it.
NewEffectCachesFirst ==
  /\ rumble_active /\ ~removed /\ rumble # last /\ rumble # 0
  /\ ~recent
  /\ last' = rumble
  /\ \/ /\ motor' = [motor EXCEPT ![dev] = rumble]
        /\ effect_id' = TRUE /\ recent' = TRUE
        /\ swallowed' = FALSE /\ owed' = FALSE
        /\ UNCHANGED events
     \/ /\ Event
        /\ Silence
        /\ UNCHANGED <<recent, swallowed, owed>>
  /\ UNCHANGED connected

\* The old effect is removed, a new one uploaded and played.  The upload may fail.
NewEffect ==
  /\ rumble_active /\ ~removed /\ rumble # last /\ rumble # 0
  /\ ~recent
  /\ \/ /\ motor' = [motor EXCEPT ![dev] = rumble]
        /\ effect_id' = TRUE
        /\ last' = rumble /\ recent' = TRUE
        /\ swallowed' = FALSE /\ owed' = FALSE
        /\ UNCHANGED events
     \/ /\ Event
        /\ Silence
        /\ owed' = TRUE
        /\ UNCHANGED <<last, recent, swallowed>>
  /\ UNCHANGED connected

nsw_send_rumble ==
  \/ ~connected /\ UNCHANGED <<motor, connected, effect_id, last, recent, events, swallowed, owed>>
  \/ connected /\ (Off \/ Hup \/ Same \/ StopEffect \/ Limit \/ NewEffect)

\* rumble_process_pipeline: with the flag after 5 ms, without it every 20 ms for as
\* long as there is a level
Send ==
  /\ pc = "out"
  /\ rumble_dirty \/ rumble # 0
  /\ nsw_send_rumble
  /\ missed' = FALSE
  /\ pc' = "lower"
  /\ UNCHANGED <<bus, slot, zeroing, fd, hup, initialized, dev, removed, told>>

\* the flag is lowered in a critical section of its own, also one raised since
Lower ==
  /\ pc = "lower"
  /\ rumble_dirty' = FALSE
  /\ pc' = "monitor"
  /\ UNCHANGED <<bus, motor, rumble, rumble_active, zeroing, fd, hup, context, events, history>>

Wait ==
  /\ pc = "out"
  /\ pc' = "monitor"
  /\ UNCHANGED <<bus, motor, slot, zeroing, fd, hup, context, events, history>>

Init ==
  /\ present \in SUBSET Pads /\ offered = (Own \in present)
  /\ motor = [p \in Pads |-> 0]
  /\ rumble = 0 /\ rumble_dirty = FALSE /\ rumble_active = TRUE /\ zeroing = FALSE
  /\ pc = "off" /\ fd = Own /\ hup = FALSE
  /\ initialized = FALSE /\ connected = FALSE /\ dev = Own /\ removed = FALSE /\ told = FALSE
  /\ effect_id = FALSE /\ last = 0 /\ recent = FALSE
  /\ events = 0
  /\ swallowed = FALSE /\ owed = FALSE /\ missed = FALSE

Worker == InitContext \/ Open \/ Monitor \/ Poll \/ Send \/ Lower \/ Wait

Next ==
  \/ \E p \in Pads : Plug(p) \/ Unplug(p)
  \/ DeleteOther
  \/ Register \/ Decline \/ Stop \/ Tick
  \/ \E on \in BOOLEAN : SetActive(on)
  \/ Zero
  \/ \E level \in Levels, uhid \in BOOLEAN : Play(level, uhid)
  \/ Worker

Spec == Init /\ [][Next]_vars

\* The worker runs on, and the 5 ms of a flag pass.  Nobody promises a registration.
FairSpec ==
  /\ Spec
  /\ WF_vars(Worker) /\ SF_vars(Send)

(***************************************************************************)
(* Properties.                                                             *)
(***************************************************************************)
Running == {"monitor", "poll", "out", "lower"}

\* The variables keep their types; a worker that passes its loop has a context,
\* and so has an effect.
TypeOK ==
  /\ present \subseteq Pads /\ offered \in BOOLEAN /\ motor \in [Pads -> Levels]
  /\ rumble \in Levels /\ rumble_dirty \in BOOLEAN /\ rumble_active \in BOOLEAN
  /\ zeroing \in BOOLEAN /\ fd \in Pads /\ hup \in BOOLEAN /\ told \in BOOLEAN
  /\ pc \in {"off", "init", "open"} \cup Running
  /\ initialized \in BOOLEAN /\ connected \in BOOLEAN /\ dev \in Pads /\ removed \in BOOLEAN
  /\ effect_id \in BOOLEAN /\ last \in Levels /\ recent \in BOOLEAN
  /\ events \in Nat /\ swallowed \in BOOLEAN /\ owed \in BOOLEAN /\ missed \in BOOLEAN
  /\ pc \in Running \cup {"open"} => initialized
  /\ effect_id => initialized

\* A controller plays only what its context has an effect for, so that the end of
\* the worker, rumble off and stop can end it; nothing plays on for a slot without
\* worker (nsw.c:884-899, 938-960, 1043-1053).
NothingPlaysUnowned ==
  /\ \A p \in Pads : motor[p] # 0 => effect_id /\ initialized /\ dev = p
  /\ pc = "off" => \A p \in Pads : motor[p] = 0

\* Once its flag is lowered the motor plays the level that is set.  Not so after the
\* 50 ms have swallowed a level, which the cache then takes for sent, after a failed
\* upload, after rumble is switched on again (nsw.c:932-967), or when rumble off came
\* between the report and the lowering (output.c:483-491).
MotorAsAsked ==
  pc = "monitor" /\ connected /\ ~removed /\ rumble_active /\ ~rumble_dirty
    /\ ~swallowed /\ ~owed /\ ~missed
    => motor[dev] = rumble

\* When rumble stays off, by command or because the game asks for none, the motor
\* stops, whatever levels were cached, swallowed or refused before; only a rumble off
\* whose flag was lowered with the previous report is not heard of again.
SilenceComes ==
  <>[](rumble = 0 /\ ~missed) => <>[](\A p \in Pads : motor[p] = 0)

\* A worker in its loop whose device, context's device or watch is lost ends and takes
\* the context with it, also one that an earlier worker without event device had left
\* behind (daemon.c:514-521, nsw.c:414-418): the next worker of the slot starts afresh.
ContextRecovers ==
  pc \in Running /\ (removed \/ told \/ hup \/ ~connected) ~> ~initialized
=============================================================================
