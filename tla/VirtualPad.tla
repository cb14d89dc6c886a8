----------------------------- MODULE VirtualPad -----------------------------
(***************************************************************************)
(* From the controller to the game: the part of a slot's worker that makes *)
(* and drops the virtual device (daemon.c), translates what the controller *)
(* reports (drivers.c, keys.c; nsw.c for the Switch Pro) and hands it to   *)
(* the game through uinput or UHID (uhid.c).  Controllers follow each      *)
(* other on the slot; what is kept per slot and not per worker outlives    *)
(* them: the debounce table, which is never reset.                         *)
(*                                                                         *)
(* Buttons are the two that the layouts exchange and one trigger, which is *)
(* a button in digital mode and an axis in analog mode; the others are     *)
(* like one of these, except that only the right trigger's byte of a UHID  *)
(* report is left unset in digital mode.  Sticks are left out: they are    *)
(* sent with every report as they are.  emit to a UHID descriptor is       *)
(* refused by the kernel and changes nothing.  A write to the device may   *)
(* fail where that is cached (nsw.c); elsewhere the next report, which has *)
(* everything, makes up for it, and it is left out.                        *)
(***************************************************************************)
EXTENDS Naturals

CONSTANTS
  Kinds,          \* kinds of controllers: among "ds" and "nsw"
  Binds,          \* keybinds that users make: pairs of a button and a meaning
  MaxEvents,      \* bound: buttons, commands, plugs, failures to create or write
  ClockSteps      \* BOOLEAN: the clock may be set back, which makes 4 ms last

Buttons == {"CROSS", "CIRCLE", "R2"}
\* what the game sees of a device: keys, and the trigger's axis
Outputs == {"CROSS", "CIRCLE", "TR2", "RZ"}
None    == "NONE"
Keymaps == [Buttons -> Buttons \cup {None}]

ASSUME PadAssumption ==
  /\ Kinds \subseteq {"ds", "nsw"}
  /\ Binds \subseteq Buttons \X (Buttons \cup {None})
  /\ MaxEvents \in Nat
  /\ ClockSteps \in BOOLEAN

VARIABLES
  \* shared memory
  emulate_active, is_uhid, is_trigger_digital, debounce_enabled,
  keymap, requests,
  logical,              \* cross, circle, R2 of the slot
  \* the controller: its kind, whether it is there, its buttons
  kind, present, held,
  changed,              \* buttons with events nobody has read
  \* g_phy_debounce
  pending, stable,
  \* the worker
  pc, emu_req, use_uhid, ufd, uhid_fd,
  polled,               \* fds[1]: "none", "own", "stale"
  \* nsw context, which outlives the worker: raw buttons, cache of what was
  \* sent, its own copy of the UHID descriptor ("none", "own", "stale")
  phy_raw, last, nsw_uhid,
  \* the virtual device as the game sees it
  shown,
  events,
  \* history
  failed,               \* a device could not be created
  unsent,               \* what the cache has of before the device was made anew,
                        \* or of a write that failed
  skipped               \* the last events that were read were not passed on

settings == <<emulate_active, is_uhid, is_trigger_digital, debounce_enabled>>
table    == <<keymap, requests>>
pad      == <<kind, present, held, changed>>
debounce == <<pending, stable>>
worker   == <<pc, emu_req, use_uhid, ufd, uhid_fd, polled>>
cache    == <<phy_raw, last, nsw_uhid>>
history  == <<failed, unsent, skipped>>
vars     == <<settings, table, logical, pad, debounce, worker, cache, shown, events, history>>

Event == events < MaxEvents /\ events' = events + 1

(***************************************************************************)
(* Clients and the player.                                                 *)
(***************************************************************************)
Set(var, on) == var # on /\ var' = on

\* one of the switches of a slot
SetEmulate(on) ==
  /\ Event /\ Set(emulate_active, on)
  /\ UNCHANGED <<is_uhid, is_trigger_digital, debounce_enabled, table, logical, pad, debounce,
                 worker, cache, shown, history>>

\* uhid on, uhid off: emulation is switched on as well; the store of false before
\* it is inside the same critical section
SetUhid(on) ==
  /\ Event /\ Set(is_uhid, on)
  /\ emulate_active' = TRUE
  /\ UNCHANGED <<is_trigger_digital, debounce_enabled, table, logical, pad, debounce,
                 worker, cache, shown, history>>

SetDigital(on) ==
  /\ Event /\ Set(is_trigger_digital, on)
  /\ UNCHANGED <<emulate_active, is_uhid, debounce_enabled, table, logical, pad, debounce,
                 worker, cache, shown, history>>

SetDebounce(on) ==
  /\ Event /\ Set(debounce_enabled, on)
  /\ UNCHANGED <<emulate_active, is_uhid, is_trigger_digital, table, logical, pad, debounce,
                 worker, cache, shown, history>>

\* a layout or the reset of all keybinds is asked of the worker
Ask(what) ==
  /\ Event
  /\ what \notin requests
  /\ requests' = requests \cup {what}
  /\ UNCHANGED <<settings, keymap, logical, pad, debounce, worker, cache, shown, history>>

Keybind(b, l) ==
  /\ Event
  /\ keymap[b] # l
  /\ keymap' = [keymap EXCEPT ![b] = l]
  /\ UNCHANGED <<settings, requests, logical, pad, debounce, worker, cache, shown, history>>

Press(b) ==
  /\ Event
  /\ present
  /\ held' = IF b \in held THEN held \ {b} ELSE held \cup {b}
  /\ changed' = changed \cup {b}
  /\ UNCHANGED <<settings, table, logical, kind, present, debounce, worker, cache, shown, history>>

\* Registration zeroes the slot and applies the profile's settings.
Plug(k) ==
  /\ Event
  /\ kind = "none"
  /\ kind' = k /\ present' = TRUE
  /\ held' = {} /\ changed' = {}
  /\ logical' = {} /\ requests' = {}
  /\ pc' = "start"
  /\ UNCHANGED <<settings, keymap, debounce, emu_req, use_uhid, ufd, uhid_fd, polled, cache, shown,
                 history>>

Unplug ==
  /\ Event
  /\ present
  /\ present' = FALSE
  /\ held' = {} /\ changed' = {}
  /\ UNCHANGED <<settings, table, logical, kind, debounce, worker, cache, shown, history>>

(***************************************************************************)
(* The worker's passes.                                                    *)
(***************************************************************************)

\* nsw_init, of a Switch Pro: nothing is known of the buttons, nothing was sent
Start ==
  /\ pc = "start"
  /\ pc' = "top"
  /\ ufd' = FALSE /\ uhid_fd' = FALSE /\ polled' = "none"
  /\ phy_raw' = {} /\ last' = {}
  /\ nsw_uhid' = IF kind = "nsw" THEN "none" ELSE nsw_uhid
  /\ failed' = FALSE /\ unsent' = {} /\ skipped' = FALSE
  /\ UNCHANGED <<settings, table, logical, pad, debounce, emu_req, use_uhid, shown, events>>

\* under the mutex
Top ==
  /\ pc = "top"
  /\ pc' = "requests"
  /\ emu_req' = emulate_active /\ use_uhid' = is_uhid
  /\ UNCHANGED <<settings, table, logical, pad, debounce, ufd, uhid_fd, polled, cache, shown, events,
                 history>>

Identity == [b \in Buttons |-> b]
Faces(map, cross, circle) == [map EXCEPT !["CROSS"] = cross, !["CIRCLE"] = circle]

\* keys_set_switch_layout, keys_set_xbox_layout, keys_reset_all_keybinds, in this
\* order, under the mutex once more
Requests ==
  /\ pc = "requests"
  /\ pc' = "manage"
  /\ LET switched == IF "switch" \in requests THEN Faces(keymap, "CIRCLE", "CROSS") ELSE keymap
         xboxed   == IF "xbox" \in requests THEN Faces(switched, "CROSS", "CIRCLE") ELSE switched
     IN keymap' = IF "reset" \in requests THEN Identity ELSE xboxed
  /\ requests' = {}
  /\ UNCHANGED <<settings, logical, pad, debounce, emu_req, use_uhid, ufd, uhid_fd, polled, cache,
                 shown, events, history>>

\* The device's descriptor is closed; its number stays in fds[1] for now.
Left == IF polled = "own" THEN "stale" ELSE polled

\* A device that is made anew shows nothing, whatever the cache says was sent.
Anew ==
  /\ shown' = {}
  /\ unsent' = last

\* nsw_set_uhid_fd, which only a Switch Pro's worker calls
nsw_set_uhid_fd(fd) == nsw_uhid' = IF kind = "nsw" THEN fd ELSE nsw_uhid

\* one step of the management; nsw_monitor lets go of a controller that is gone
Manage(from, to) ==
  /\ pc = from
  /\ pc = "manage" /\ kind = "nsw" => present
  /\ pc' = to
  /\ UNCHANGED <<settings, table, logical, pad, debounce, emu_req, use_uhid, phy_raw, last,
                 skipped>>

\* UHID is asked for
DestroyUinput ==
  /\ Manage("manage", "create")
  /\ emu_req /\ use_uhid /\ ufd
  /\ ufd' = FALSE
  /\ polled' = Left
  /\ Anew
  /\ UNCHANGED <<uhid_fd, nsw_uhid, events, failed>>

\* Mutant: the context keeps the descriptor that is closed.
DestroyUhidUntold ==
  /\ Manage("manage", "create")
  /\ emu_req /\ ~use_uhid /\ uhid_fd
  /\ uhid_fd' = FALSE
  /\ nsw_uhid' = IF nsw_uhid = "own" THEN "stale" ELSE nsw_uhid
  /\ polled' = Left
  /\ Anew
  /\ UNCHANGED <<ufd, events, failed>>

\* uinput is asked for
DestroyUhid ==
  /\ Manage("manage", "create")
  /\ emu_req /\ ~use_uhid /\ uhid_fd
  /\ nsw_set_uhid_fd("none")
  /\ uhid_fd' = FALSE
  /\ polled' = Left
  /\ Anew
  /\ UNCHANGED <<ufd, events, failed>>

NoOther ==
  /\ Manage("manage", "create")
  /\ emu_req /\ ~IF use_uhid THEN ufd ELSE uhid_fd
  /\ UNCHANGED <<ufd, uhid_fd, polled, nsw_uhid, shown, unsent, events, failed>>

\* Mutant: the new descriptor is not polled.
CreateUnpolled ==
  /\ Manage("create", "poll")
  /\ use_uhid /\ ~uhid_fd
  /\ uhid_fd' = TRUE
  /\ nsw_set_uhid_fd("own")
  /\ UNCHANGED <<ufd, polled, shown, unsent, events, failed>>

CreateUhid ==
  /\ Manage("create", "poll")
  /\ use_uhid /\ ~uhid_fd
  /\ uhid_fd' = TRUE
  /\ polled' = "own"
  /\ nsw_set_uhid_fd("own")
  /\ UNCHANGED <<ufd, shown, unsent, events, failed>>

CreateUinput ==
  /\ Manage("create", "poll")
  /\ ~use_uhid /\ ~ufd
  /\ ufd' = TRUE
  /\ polled' = "own"
  /\ UNCHANGED <<uhid_fd, nsw_uhid, shown, unsent, events, failed>>

\* uhid_create or setup_uinput_indexed fails; it is tried again in the next pass
CreateFails ==
  /\ Manage("create", "poll")
  /\ ~IF use_uhid THEN uhid_fd ELSE ufd
  /\ Event
  /\ failed' = TRUE
  /\ UNCHANGED <<ufd, uhid_fd, polled, nsw_uhid, shown, unsent>>

Keep ==
  /\ Manage("create", "poll")
  /\ IF use_uhid THEN uhid_fd ELSE ufd
  /\ UNCHANGED <<ufd, uhid_fd, polled, nsw_uhid, shown, unsent, events, failed>>

\* Mutant: a device is not dropped when emulation is switched off.
DropNothing ==
  /\ Manage("manage", "poll")
  /\ ~emu_req
  /\ UNCHANGED <<ufd, uhid_fd, polled, nsw_uhid, shown, unsent, events, failed>>

\* emulation is off: whatever there is is destroyed
Drop ==
  /\ Manage("manage", "poll")
  /\ ~emu_req
  /\ ufd' = FALSE /\ uhid_fd' = FALSE
  /\ IF uhid_fd THEN nsw_set_uhid_fd("none") ELSE UNCHANGED nsw_uhid
  /\ polled' = IF ufd \/ uhid_fd THEN "none" ELSE polled
  /\ IF ufd \/ uhid_fd THEN Anew ELSE UNCHANGED <<shown, unsent>>
  /\ UNCHANGED <<events, failed>>

\* nsw_monitor, or a read that fails: the worker ends.  nsw_cleanup leaves the
\* number of the UHID descriptor in the context.
Gone ==
  /\ ~present
  /\ pc = "poll" \/ (pc = "manage" /\ kind = "nsw")
  /\ pc' = "off"
  /\ kind' = "none"
  /\ ufd' = FALSE /\ uhid_fd' = FALSE /\ polled' = "none"
  /\ nsw_uhid' = IF nsw_uhid = "own" THEN "stale" ELSE nsw_uhid
  /\ shown' = {}
  /\ UNCHANGED <<settings, table, logical, present, held, changed, debounce, emu_req, use_uhid,
                 phy_raw, last, events, history>>

\* poll times out
Quiet ==
  /\ pc = "poll" /\ kind = "ds" /\ present
  /\ pc' = "top"
  /\ UNCHANGED <<settings, table, logical, pad, debounce, emu_req, use_uhid, ufd, uhid_fd, polled,
                 cache, shown, events, history>>

(***************************************************************************)
(* Translation.                                                            *)
(***************************************************************************)
keys_apply_map(map, pressed) == {map[b] : b \in pressed} \ {None}

\* Mutant: a change that is seen first is not noted.
DebounceForgetsPending(raw, done) ==
  /\ stable' = {b \in Buttons : IF (b \in raw) = (b \in pending) /\ b \in done
                                THEN b \in raw ELSE b \in stable}
  /\ UNCHANGED pending

\* A state that differs from the stable one and is seen again at least 15 ms after
\* it was seen first becomes the stable one; done are those with their 15 ms.
debounce_physical(raw, done) ==
  /\ stable' = {b \in Buttons : IF (b \in raw) = (b \in pending) /\ b \in done
                                THEN b \in raw ELSE b \in stable}
  /\ pending' = raw

\* the trigger's axis, for the slot and for uinput on a DualShock 4 or DualSense
get_trigger_axis_value(map, raw, on) ==
  IF "R2" \in raw THEN map["R2"] = "R2" ELSE "R2" \in on
trigger_val(map, raw, settled, on) ==
  IF "R2" \in settled THEN map["R2"] = "R2" /\ "R2" \in raw ELSE "R2" \in on

Faced(on) == on \cap {"CROSS", "CIRCLE"}
Keyed(yes, o) == IF yes THEN {o} ELSE {}

\* Everything is sent with every report, except that the trigger is not sent the
\* way that is not selected.
Emit(raw, settled, on) ==
  Faced(on) \cup
    IF is_trigger_digital THEN (shown \cap {"RZ"}) \cup Keyed("R2" \in on, "TR2")
    ELSE (shown \cap {"TR2"}) \cup Keyed(trigger_val(keymap, raw, settled, on), "RZ")

\* translate_ds4, translate_dualsense; a UHID report follows outside the mutex
Report(done) ==
  /\ pc = "poll" /\ kind = "ds" /\ present
  /\ IF debounce_enabled THEN debounce_physical(held, done) ELSE UNCHANGED debounce
  /\ LET settled == IF debounce_enabled THEN stable' ELSE held
         on      == keys_apply_map(keymap, settled)
     IN /\ logical' = on
        /\ shown' = IF ufd /\ ~use_uhid THEN Emit(held, settled, on) ELSE shown
  /\ phy_raw' = held
  /\ changed' = {}
  /\ pc' = IF use_uhid /\ uhid_fd THEN "build" ELSE "top"
  /\ UNCHANGED <<settings, table, kind, present, held, emu_req, use_uhid, ufd, uhid_fd, polled, last,
                 nsw_uhid, events, history>>

\* A UHID report has everything; the axis byte is not set in digital mode.
uhid_build_input_report(raw, on, byte) ==
  Faced(on) \cup
    IF is_trigger_digital THEN Keyed("R2" \in on, "TR2") \cup Keyed(byte, "RZ")
    ELSE Keyed(get_trigger_axis_value(keymap, raw, on), "RZ")

Build(byte) ==
  /\ pc = "build"
  /\ byte => is_trigger_digital
  /\ shown' = uhid_build_input_report(phy_raw, logical, byte)
  /\ pc' = "top"
  /\ UNCHANGED <<settings, table, logical, pad, debounce, emu_req, use_uhid, ufd, uhid_fd, polled,
                 cache, events, history>>

\* what the slot has of an output
Now(on, raw) ==
  Faced(on) \cup Keyed("R2" \in on, "TR2") \cup Keyed(get_trigger_axis_value(keymap, raw, on), "RZ")

\* the outputs that are compared with the cache
Compared == {"CROSS", "CIRCLE", IF is_trigger_digital THEN "TR2" ELSE "RZ"}

Differ(on, raw) == {o \in Compared : (o \in Now(on, raw)) # (o \in last)}

\* Mutant: the cache takes what was not sent as well.
ForwardCachesAll(on, raw) ==
  LET differ == Differ(on, raw)
  IN /\ last' = Now(on, raw)
     /\ shown' = (shown \ differ) \cup (Now(on, raw) \cap differ)
     /\ unsent' = unsent \ differ
     /\ UNCHANGED events

\* uinput: only what differs from the cache is sent, and cached although the write
\* failed
Forward(on, raw) ==
  LET differ == Differ(on, raw)
  IN \E lost \in SUBSET differ :
       /\ last' = (last \ differ) \cup (Now(on, raw) \cap differ)
       /\ shown' = (shown \ (differ \ lost)) \cup (Now(on, raw) \cap (differ \ lost))
       /\ unsent' = (unsent \ differ) \cup lost
       /\ IF lost = {} THEN UNCHANGED events ELSE Event

\* nsw_read_events, in every pass; sent only with an event, and not again within
\* 4 ms; to the UHID descriptor of the context when it has one
Read(limited, byte) ==
  /\ pc = "poll" /\ kind = "nsw" /\ present
  /\ limited => ClockSteps /\ changed # {}
  /\ byte => is_trigger_digital /\ nsw_uhid = "own" /\ changed # {} /\ ~limited
  /\ phy_raw' = (phy_raw \ changed) \cup (held \cap changed)
  /\ logical' = keys_apply_map(keymap, phy_raw')
  /\ changed' = {}
  /\ skipped' = IF changed = {} THEN skipped ELSE limited \/ ~(ufd \/ uhid_fd)
  /\ IF changed # {} /\ ~limited /\ nsw_uhid = "own"
     THEN /\ shown' = uhid_build_input_report(phy_raw', logical', byte)
          /\ UNCHANGED <<last, unsent, events>>
     ELSE IF changed # {} /\ ~limited /\ nsw_uhid = "none" /\ ~use_uhid /\ ufd
     THEN Forward(logical', phy_raw')
     ELSE UNCHANGED <<last, shown, unsent, events>>
  /\ pc' = "top"
  /\ UNCHANGED <<settings, table, kind, present, held, debounce, emu_req, use_uhid, ufd, uhid_fd,
                 polled, nsw_uhid, failed>>

Init ==
  /\ emulate_active \in BOOLEAN /\ is_uhid \in BOOLEAN
  /\ is_trigger_digital \in BOOLEAN /\ debounce_enabled \in BOOLEAN
  /\ keymap = Identity /\ requests = {} /\ logical = {}
  /\ kind = "none" /\ present = FALSE /\ held = {} /\ changed = {}
  /\ pending = {} /\ stable = {}
  /\ pc = "off" /\ emu_req = FALSE /\ use_uhid = FALSE
  /\ ufd = FALSE /\ uhid_fd = FALSE /\ polled = "none"
  /\ phy_raw = {} /\ last = {} /\ nsw_uhid = "none" /\ shown = {}
  /\ events = 0
  /\ failed = FALSE /\ unsent = {} /\ skipped = FALSE

Client ==
  \/ \E on \in BOOLEAN : SetEmulate(on) \/ SetUhid(on) \/ SetDigital(on) \/ SetDebounce(on)
  \/ \E what \in {"switch", "xbox", "reset"} : Ask(what)
  \/ \E bind \in Binds : Keybind(bind[1], bind[2])

Player ==
  \/ \E b \in Buttons : Press(b)
  \/ \E k \in Kinds : Plug(k)
  \/ Unplug

Translate ==
  \/ \E done \in SUBSET Buttons : Report(done)
  \/ \E byte \in BOOLEAN : Build(byte)
  \/ \E limited, byte \in BOOLEAN : Read(limited, byte)

Manages ==
  \/ DestroyUinput
  \/ DestroyUhid
  \/ NoOther
  \/ CreateUhid
  \/ CreateUinput
  \/ CreateFails
  \/ Keep
  \/ Drop

Worker == Start \/ Top \/ Requests \/ Manages \/ Gone \/ Quiet \/ Translate

Next == Client \/ Player \/ Worker

Spec == Init /\ [][Next]_vars

\* The worker runs on, its controller goes on reporting, and a state that lasts is
\* seen again after 15 ms.
FairSpec == Spec /\ WF_vars(Worker) /\ SF_vars(Report(Buttons))

(***************************************************************************)
(* Properties.                                                             *)
(***************************************************************************)

\* The variables keep their types.
TypeOK ==
  /\ emulate_active \in BOOLEAN /\ is_uhid \in BOOLEAN
  /\ is_trigger_digital \in BOOLEAN /\ debounce_enabled \in BOOLEAN
  /\ keymap \in Keymaps
  /\ requests \subseteq {"switch", "xbox", "reset"}
  /\ logical \subseteq Buttons
  /\ kind \in Kinds \cup {"none"} /\ present \in BOOLEAN
  /\ held \subseteq Buttons /\ changed \subseteq Buttons
  /\ pending \subseteq Buttons /\ stable \subseteq Buttons
  /\ pc \in {"off", "start", "top", "requests", "manage", "create", "poll", "build"}
  /\ emu_req \in BOOLEAN /\ use_uhid \in BOOLEAN
  /\ ufd \in BOOLEAN /\ uhid_fd \in BOOLEAN
  /\ polled \in {"none", "own", "stale"} /\ nsw_uhid \in {"none", "own", "stale"}
  /\ phy_raw \subseteq Buttons
  /\ last \subseteq Outputs /\ shown \subseteq Outputs
  /\ events \in Nat
  /\ failed \in BOOLEAN /\ unsent \subseteq Outputs /\ skipped \in BOOLEAN

\* A controller has one device at most, none that no worker serves, and a Switch
\* Pro's events are never written to a descriptor that is closed: the two
\* descriptors are made and destroyed in branches of their own (daemon.c:726-802,
\* 1009-1015), and the context has a copy of the UHID one that outlives the worker
\* and is set and cleared apart (nsw.c:426, 513-518, 542, 1038-1064).
OneServedDevice ==
  /\ ~(ufd /\ uhid_fd)
  /\ pc \in {"off", "start"} => ~ufd /\ ~uhid_fd
  /\ kind = "nsw" /\ pc # "start" => nsw_uhid = IF uhid_fd THEN "own" ELSE "none"

\* The rumble commands of a device are polled for as long as it exists, although
\* fds[1] is set in other branches than the descriptors; a number that is closed
\* is polled, and makes the loop spin, only after a device could not be created
\* (daemon.c:736-747, 829-834).
DeviceIsPolled ==
  /\ (ufd \/ uhid_fd) <=> polled = "own"
  /\ polled = "stale" => failed \/ pc = "create"

\* Whatever was held back of a Switch Pro's buttons (read without a device, within
\* the 4 ms, by a key table since changed), the next event brings all of it to the
\* game, except what the cache has from before the device was made anew or from a
\* write that failed (nsw.c:646-812).
NextEventRepairs ==
  [][kind = "nsw" /\ ufd /\ changed # {} /\ changed' = {} /\ present' /\ ~skipped' =>
       \A o \in Compared \ unsent' : o \in shown' <=> o \in Now(logical', phy_raw')]_vars

\* what the game ought to see, from the buttons that are held
Selected == {"CROSS", "CIRCLE", IF is_trigger_digital THEN "TR2" ELSE "RZ"}
Bound(l) == \E b \in held : keymap[b] = l
Ought(o) ==
  CASE o = "RZ"  -> IF "R2" \in held THEN keymap["R2"] = "R2" ELSE Bound("R2")
    [] o = "TR2" -> Bound("R2")
    [] OTHER     -> Bound(o)

\* When the player holds still, the game sees the buttons of a DualShock 4 or
\* DualSense as the key table has them: nothing stays pressed from the controller
\* that had the slot before, from a debounce that was switched off and on, or from
\* a device that was exchanged.  Not so the trigger in the mode that is not
\* selected, which keeps what it had (drivers.c:192-215, 297-370).
PadFollowed ==
  <>[](kind = "ds" /\ present /\ emulate_active) =>
    <>[](\A o \in Selected : o \in shown <=> Ought(o))

\* The device becomes the one that is set, and none when emulation is off, whatever
\* sequence of switches and failures came before.
DeviceFollowsSetting ==
  <>[]present =>
    <>[](/\ uhid_fd <=> (emulate_active /\ is_uhid)
         /\ ufd <=> (emulate_active /\ ~is_uhid))
=============================================================================
