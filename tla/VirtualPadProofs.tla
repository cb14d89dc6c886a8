------------------------- MODULE VirtualPadProofs --------------------------
(***************************************************************************)
(* Proofs about the virtual device of a slot: types, one device at most    *)
(* and only under a worker, the copy of its descriptor in the context of a *)
(* Switch Pro, and its descriptor polled.                                  *)
(***************************************************************************)
EXTENDS VirtualPad, TLAPS

\* The types that are sets and tables, apart from those that are Booleans.
SetsOK ==
  /\ keymap \in Keymaps
  /\ requests \subseteq {"switch", "xbox", "reset"}
  /\ logical \subseteq Buttons
  /\ held \subseteq Buttons /\ changed \subseteq Buttons
  /\ pending \subseteq Buttons /\ stable \subseteq Buttons
  /\ phy_raw \subseteq Buttons
  /\ last \subseteq Outputs /\ shown \subseteq Outputs /\ unsent \subseteq Outputs

FlagsOK ==
  /\ emulate_active \in BOOLEAN /\ is_uhid \in BOOLEAN
  /\ is_trigger_digital \in BOOLEAN /\ debounce_enabled \in BOOLEAN
  /\ kind \in Kinds \cup {"none"} /\ present \in BOOLEAN
  /\ pc \in {"off", "start", "top", "requests", "manage", "create", "poll", "build"}
  /\ emu_req \in BOOLEAN /\ use_uhid \in BOOLEAN
  /\ ufd \in BOOLEAN /\ uhid_fd \in BOOLEAN
  /\ polled \in {"none", "own", "stale"} /\ nsw_uhid \in {"none", "own", "stale"}
  /\ failed \in BOOLEAN /\ skipped \in BOOLEAN

CountOK == events \in Nat

\* What the device rests on: a slot without controller has no worker; the report
\* of a UHID device that is built apart is not a Switch Pro's; a device is created,
\* and events are read, only after the other device was destroyed.
DeviceInv ==
  /\ kind = "none" <=> pc = "off"
  /\ pc = "build" => kind = "ds" /\ uhid_fd
  /\ pc \in {"create", "poll"} => ~IF use_uhid THEN ufd ELSE uhid_fd
  /\ OneServedDevice
  /\ DeviceIsPolled

\* The cache of a Switch Pro tells what its uinput device shows, but for what was
\* cached before the device was made anew and what could not be written; all of it
\* was cached before while there is no such device.
CacheInv ==
  /\ ~ufd /\ ~uhid_fd => shown = {}
  /\ kind = "nsw" /\ pc # "start" =>
       IF ufd THEN \A o \in Outputs \ unsent : o \in shown <=> o \in last
              ELSE last \subseteq unsent

LEMMA InitHolds == Init => SetsOK /\ FlagsOK /\ CountOK /\ DeviceInv
<1> SUFFICES ASSUME Init PROVE SetsOK /\ FlagsOK /\ CountOK /\ DeviceInv
  OBVIOUS
<1>1. SetsOK
  BY DEF Init, SetsOK, Keymaps, Identity
<1>2. FlagsOK /\ CountOK
  BY DEF Init, FlagsOK, CountOK
<1>3. DeviceInv
  BY DEF Init, DeviceInv, OneServedDevice, DeviceIsPolled
<1> QED BY <1>1, <1>2, <1>3

\* Buttons, outputs and the key table stay what they are.
LEMMA SetsStep ==
  ASSUME SetsOK, FlagsOK, [Next]_vars
  PROVE  SetsOK'
<1> USE PadAssumption DEF SetsOK, FlagsOK, Keymaps, Buttons, Outputs, None
<1>1. ASSUME NEW on \in BOOLEAN, SetEmulate(on) PROVE SetsOK'
  BY <1>1 DEF SetEmulate, table, pad, debounce, cache, history
<1>2. ASSUME NEW on \in BOOLEAN, SetUhid(on) PROVE SetsOK'
  BY <1>2 DEF SetUhid, table, pad, debounce, cache, history
<1>3. ASSUME NEW on \in BOOLEAN, SetDigital(on) PROVE SetsOK'
  BY <1>3 DEF SetDigital, table, pad, debounce, cache, history
<1>4. ASSUME NEW on \in BOOLEAN, SetDebounce(on) PROVE SetsOK'
  BY <1>4 DEF SetDebounce, table, pad, debounce, cache, history
<1>5. ASSUME NEW what \in {"switch", "xbox", "reset"}, Ask(what) PROVE SetsOK'
  BY <1>5 DEF Ask, pad, debounce, cache, history
<1>6. ASSUME NEW bind \in Binds, Keybind(bind[1], bind[2]) PROVE SetsOK'
  BY <1>6 DEF Keybind, pad, debounce, cache, history
<1>7. ASSUME NEW b \in Buttons, Press(b) PROVE SetsOK'
  BY <1>7 DEF Press, table, debounce, cache, history
<1>8. ASSUME NEW k \in Kinds, Plug(k) PROVE SetsOK'
  BY <1>8 DEF Plug, debounce, cache, history
<1>9. CASE Unplug
  BY <1>9 DEF Unplug, table, debounce, cache, history
<1>10. CASE Start
  BY <1>10 DEF Start, table, pad, debounce
<1>11. CASE Top
  BY <1>11 DEF Top, table, pad, debounce, cache, history
<1>12. CASE Requests
  BY <1>12 DEF Requests, Identity, Faces, pad, debounce, cache, history
<1>13. CASE Manages
  <2>1. /\ UNCHANGED <<keymap, requests, logical, held, changed, pending, stable, phy_raw, last>>
        /\ Anew \/ UNCHANGED <<shown, unsent>>
    BY <1>13 DEF Manages, DestroyUinput, DestroyUhid, NoOther, CreateUhid, CreateUinput, CreateFails,
       Keep, Drop, Manage, table, pad, debounce
  <2> QED BY <2>1 DEF Anew
<1>14. CASE Gone
  BY <1>14 DEF Gone, table, debounce, cache, history
<1>15. CASE Quiet
  BY <1>15 DEF Quiet, table, pad, debounce, cache, history
<1>16. ASSUME NEW done \in SUBSET Buttons, Report(done) PROVE SetsOK'
  BY <1>16 DEF Report, debounce_physical, keys_apply_map, Emit, Faced, Keyed, table, debounce,
     history
<1>17. ASSUME NEW byte \in BOOLEAN, Build(byte) PROVE SetsOK'
  BY <1>17 DEF Build, uhid_build_input_report, Faced, Keyed, table, pad, debounce, cache, history
<1>18. ASSUME NEW limited \in BOOLEAN, NEW byte \in BOOLEAN, Read(limited, byte) PROVE SetsOK'
  <2>1. phy_raw' \subseteq Buttons /\ changed' \subseteq Buttons
    BY <1>18 DEF Read
  <2>2. logical' \subseteq Buttons
    BY <1>18, <2>1 DEF Read, keys_apply_map
  <2>3. \A byt \in BOOLEAN : uhid_build_input_report(phy_raw', logical', byt) \subseteq Outputs
    BY DEF uhid_build_input_report, Faced, Keyed
  <2>4. Now(logical', phy_raw') \subseteq Outputs
    BY DEF Now, Faced, Keyed
  <2>5. last' \subseteq Outputs /\ shown' \subseteq Outputs /\ unsent' \subseteq Outputs
    <3>1. CASE Forward(logical', phy_raw')
      BY <2>4, <3>1 DEF Forward, Differ, Compared
    <3>2. CASE shown' = uhid_build_input_report(phy_raw', logical', byte)
               /\ UNCHANGED <<last, unsent>>
      BY <2>3, <3>2
    <3>3. CASE UNCHANGED <<last, shown, unsent>>
      BY <3>3
    <3> QED BY <1>18, <3>1, <3>2, <3>3 DEF Read
  <2>6. UNCHANGED <<keymap, requests, held, pending, stable>>
    BY <1>18 DEF Read, table, debounce
  <2> QED BY <2>1, <2>2, <2>5, <2>6
<1>19. CASE UNCHANGED vars
  BY <1>19 DEF vars, table, pad, debounce, cache, history
<1> QED
  BY <1>1, <1>2, <1>3, <1>4, <1>5, <1>6, <1>7, <1>8, <1>9, <1>10, <1>11, <1>12, <1>13, <1>14, <1>15,
     <1>16, <1>17, <1>18, <1>19
  DEF Next, Client, Player, Worker, Translate

\* Flags, descriptors and places stay what they are.
LEMMA FlagsStep ==
  ASSUME FlagsOK, [Next]_vars
  PROVE  FlagsOK'
<1> USE PadAssumption DEF FlagsOK
<1>1. ASSUME NEW on \in BOOLEAN, SetEmulate(on) PROVE FlagsOK'
  BY <1>1 DEF SetEmulate, Set, pad, worker, cache, history
<1>2. ASSUME NEW on \in BOOLEAN, SetUhid(on) PROVE FlagsOK'
  BY <1>2 DEF SetUhid, Set, pad, worker, cache, history
<1>3. ASSUME NEW on \in BOOLEAN, SetDigital(on) PROVE FlagsOK'
  BY <1>3 DEF SetDigital, Set, pad, worker, cache, history
<1>4. ASSUME NEW on \in BOOLEAN, SetDebounce(on) PROVE FlagsOK'
  BY <1>4 DEF SetDebounce, Set, pad, worker, cache, history
<1>5. ASSUME NEW what \in {"switch", "xbox", "reset"}, Ask(what) PROVE FlagsOK'
  BY <1>5 DEF Ask, settings, pad, worker, cache, history
<1>6. ASSUME NEW bind \in Binds, Keybind(bind[1], bind[2]) PROVE FlagsOK'
  BY <1>6 DEF Keybind, settings, pad, worker, cache, history
<1>7. ASSUME NEW b \in Buttons, Press(b) PROVE FlagsOK'
  BY <1>7 DEF Press, settings, worker, cache, history
<1>8. ASSUME NEW k \in Kinds, Plug(k) PROVE FlagsOK'
  <2>1. kind' \in Kinds \cup {"none"} /\ present' \in BOOLEAN /\ pc' = "start"
    BY <1>8 DEF Plug
  <2>2. UNCHANGED <<settings, emu_req, use_uhid, ufd, uhid_fd, polled, nsw_uhid, history>>
    BY <1>8 DEF Plug, cache
  <2> QED BY <2>1, <2>2 DEF settings, history
<1>9. CASE Unplug
  <2>1. present' \in BOOLEAN
    BY <1>9 DEF Unplug
  <2>2. UNCHANGED <<settings, kind, worker, cache, history>>
    BY <1>9 DEF Unplug
  <2> QED BY <2>1, <2>2 DEF settings, worker, cache, history
<1>10. CASE Start
  BY <1>10 DEF Start, settings, pad
<1>11. CASE Top
  BY <1>11 DEF Top, settings, pad, cache, history
<1>12. CASE Requests
  BY <1>12 DEF Requests, settings, pad, cache, history
<1>13. CASE Manages
  <2>1. Manage("manage", "create") \/ Manage("manage", "poll") \/ Manage("create", "poll")
    BY <1>13 DEF Manages, DestroyUinput, DestroyUhid, NoOther, CreateUhid, CreateUinput, CreateFails,
       Keep, Drop
  <2>2. ufd' \in BOOLEAN /\ uhid_fd' \in BOOLEAN
    BY <1>13 DEF Manages, DestroyUinput, DestroyUhid, NoOther, CreateUhid, CreateUinput, CreateFails,
       Keep, Drop
  <2>3. polled' \in {"none", "own", "stale"} /\ nsw_uhid' \in {"none", "own", "stale"}
    BY <1>13 DEF Manages, DestroyUinput, DestroyUhid, NoOther, CreateUhid, CreateUinput, CreateFails,
       Keep, Drop, Left, nsw_set_uhid_fd
  <2>4. failed' \in BOOLEAN
    BY <1>13, Zenon DEF Manages, DestroyUinput, DestroyUhid, NoOther, CreateUhid, CreateUinput,
       CreateFails, Keep, Drop
  <2> QED BY <2>1, <2>2, <2>3, <2>4 DEF Manage, settings, pad
<1>14. CASE Gone
  BY <1>14 DEF Gone, settings, history
<1>15. CASE Quiet
  BY <1>15 DEF Quiet, settings, pad, cache, history
<1>16. ASSUME NEW done \in SUBSET Buttons, Report(done) PROVE FlagsOK'
  BY <1>16 DEF Report, settings, history
<1>17. ASSUME NEW byte \in BOOLEAN, Build(byte) PROVE FlagsOK'
  BY <1>17 DEF Build, settings, pad, cache, history
<1>18. ASSUME NEW limited \in BOOLEAN, NEW byte \in BOOLEAN, Read(limited, byte) PROVE FlagsOK'
  <2>1. pc' = "top" /\ skipped' \in BOOLEAN
    BY <1>18 DEF Read
  <2>2. UNCHANGED <<settings, kind, present, emu_req, use_uhid, ufd, uhid_fd, polled, nsw_uhid, failed>>
    BY <1>18 DEF Read
  <2> QED BY <2>1, <2>2 DEF settings
<1>19. CASE UNCHANGED vars
  BY <1>19 DEF vars, settings, pad, worker, cache, history
<1> QED
  BY <1>1, <1>2, <1>3, <1>4, <1>5, <1>6, <1>7, <1>8, <1>9, <1>10, <1>11, <1>12, <1>13, <1>14, <1>15,
     <1>16, <1>17, <1>18, <1>19
  DEF Next, Client, Player, Worker, Translate

\* The device stays one, polled and with its worker.
LEMMA DeviceStep ==
  ASSUME FlagsOK, DeviceInv, [Next]_vars
  PROVE  DeviceInv'
<1> USE PadAssumption DEF FlagsOK, DeviceInv, OneServedDevice, DeviceIsPolled
<1>1. ASSUME NEW on \in BOOLEAN, SetEmulate(on) PROVE DeviceInv'
  BY <1>1 DEF SetEmulate, pad, worker, cache, history
<1>2. ASSUME NEW on \in BOOLEAN, SetUhid(on) PROVE DeviceInv'
  BY <1>2 DEF SetUhid, pad, worker, cache, history
<1>3. ASSUME NEW on \in BOOLEAN, SetDigital(on) PROVE DeviceInv'
  BY <1>3 DEF SetDigital, pad, worker, cache, history
<1>4. ASSUME NEW on \in BOOLEAN, SetDebounce(on) PROVE DeviceInv'
  BY <1>4 DEF SetDebounce, pad, worker, cache, history
<1>5. ASSUME NEW what \in {"switch", "xbox", "reset"}, Ask(what) PROVE DeviceInv'
  BY <1>5 DEF Ask, pad, worker, cache, history
<1>6. ASSUME NEW bind \in Binds, Keybind(bind[1], bind[2]) PROVE DeviceInv'
  BY <1>6 DEF Keybind, pad, worker, cache, history
<1>7. ASSUME NEW b \in Buttons, Press(b) PROVE DeviceInv'
  BY <1>7 DEF Press, worker, cache, history
<1>8. ASSUME NEW k \in Kinds, Plug(k) PROVE DeviceInv'
  BY <1>8 DEF Plug, cache, history
<1>9. CASE Unplug
  BY <1>9 DEF Unplug, worker, cache, history
<1>10. CASE Start
  BY <1>10 DEF Start, pad
<1>11. CASE Top
  BY <1>11 DEF Top, pad, cache, history
<1>12. CASE Requests
  BY <1>12 DEF Requests, pad, cache, history
<1>13. CASE Manages
  <2> USE DEF Manage, pad
  <2>1. CASE DestroyUinput
    BY <2>1 DEF DestroyUinput, Left
  <2>2. CASE DestroyUhid
    BY <2>2 DEF DestroyUhid, Left, nsw_set_uhid_fd
  <2>3. CASE NoOther
    BY <2>3 DEF NoOther
  <2>4. CASE CreateUhid
    BY <2>4 DEF CreateUhid, nsw_set_uhid_fd
  <2>5. CASE CreateUinput
    BY <2>5 DEF CreateUinput
  <2>6. CASE CreateFails
    BY <2>6 DEF CreateFails
  <2>7. CASE Keep
    BY <2>7 DEF Keep
  <2>8. CASE Drop
    BY <2>8 DEF Drop, nsw_set_uhid_fd
  <2> QED BY <1>13, <2>1, <2>2, <2>3, <2>4, <2>5, <2>6, <2>7, <2>8 DEF Manages
<1>14. CASE Gone
  BY <1>14 DEF Gone, history
<1>15. CASE Quiet
  BY <1>15 DEF Quiet, pad, cache, history
<1>16. ASSUME NEW done \in SUBSET Buttons, Report(done) PROVE DeviceInv'
  BY <1>16 DEF Report, history
<1>17. ASSUME NEW byte \in BOOLEAN, Build(byte) PROVE DeviceInv'
  BY <1>17 DEF Build, pad, cache, history
<1>18. ASSUME NEW limited \in BOOLEAN, NEW byte \in BOOLEAN, Read(limited, byte) PROVE DeviceInv'
  BY <1>18 DEF Read
<1>19. CASE UNCHANGED vars
  BY <1>19 DEF vars, pad, worker, cache, history
<1> QED
  BY <1>1, <1>2, <1>3, <1>4, <1>5, <1>6, <1>7, <1>8, <1>9, <1>10, <1>11, <1>12, <1>13, <1>14, <1>15,
     <1>16, <1>17, <1>18, <1>19
  DEF Next, Client, Player, Worker, Translate

\* The variables keep their types, for any keybinds and kinds of controllers
\* (drivers.c, keys.c, nsw.c: the tables that are indexed by buttons).
THEOREM TypeCorrect == Spec => []TypeOK
<1>1. CountOK /\ [Next]_vars => CountOK'
  <2>1. Client \/ Player => Event
    BY DEF Client, Player, SetEmulate, SetUhid, SetDigital, SetDebounce, Ask, Keybind, Press, Plug,
           Unplug
  <2>2. Manages => Event \/ UNCHANGED events
    BY DEF Manages, DestroyUinput, DestroyUhid, NoOther, CreateUhid, CreateUinput, CreateFails, Keep,
           Drop
  <2>3. Worker \/ UNCHANGED vars => Event \/ UNCHANGED events
    BY <2>2 DEF Worker, Translate, vars, Start, Top, Requests, Gone, Quiet, Report, Build, Read,
           Forward
  <2>4. CountOK /\ (Event \/ UNCHANGED events) => CountOK'
    BY DEF CountOK, Event
  <2> QED BY <2>1, <2>3, <2>4 DEF Next
<1>2. SetsOK /\ FlagsOK /\ [Next]_vars => SetsOK' /\ FlagsOK'
  BY SetsStep, FlagsStep
<1>3. SetsOK /\ FlagsOK /\ CountOK => TypeOK
  BY DEF SetsOK, FlagsOK, CountOK, TypeOK
<1> QED BY InitHolds, <1>1, <1>2, <1>3, PTL DEF Spec

LEMMA DeviceInvHolds == Spec => []DeviceInv
<1>1. FlagsOK /\ DeviceInv /\ [Next]_vars => FlagsOK' /\ DeviceInv'
  BY FlagsStep, DeviceStep
<1> QED BY InitHolds, <1>1, PTL DEF Spec

\* A controller has one device at most and none without worker, and a Switch Pro's
\* events go to that device or nowhere, never to a descriptor that is closed
\* (slot_monitor_loop's branches and its end, nsw_set_uhid_fd, nsw_cleanup).
THEOREM OneDevice == Spec => []OneServedDevice
<1>1. DeviceInv => OneServedDevice
  BY DEF DeviceInv
<1> QED BY DeviceInvHolds, <1>1, PTL

\* A device's descriptor is polled while it exists, and a closed one only after a
\* failure to create one (slot_monitor_loop).
THEOREM DevicePolled == Spec => []DeviceIsPolled
<1>1. DeviceInv => DeviceIsPolled
  BY DEF DeviceInv
<1> QED BY DeviceInvHolds, <1>1, PTL

\* The cache keeps its agreement with the device.
LEMMA CacheStep ==
  ASSUME FlagsOK, DeviceInv, CacheInv, [Next]_vars
  PROVE  CacheInv'
<1> USE PadAssumption DEF FlagsOK, DeviceInv, OneServedDevice, CacheInv
<1>1. CASE Client
  BY <1>1 DEF Client, SetEmulate, SetUhid, SetDigital, SetDebounce, Ask, Keybind, pad, worker,
     cache, history
<1>2. ASSUME NEW b \in Buttons, Press(b) PROVE CacheInv'
  BY <1>2 DEF Press, worker, cache, history
<1>3. ASSUME NEW k \in Kinds, Plug(k) PROVE CacheInv'
  BY <1>3 DEF Plug, cache, history
<1>4. CASE Unplug
  BY <1>4 DEF Unplug, worker, cache, history
<1>5. CASE Start
  BY <1>5 DEF Start
<1>6. CASE Top
  BY <1>6 DEF Top, pad, cache, history
<1>7. CASE Requests
  BY <1>7 DEF Requests, pad, cache, history
<1>8. CASE Manages
  <2> USE DEF Manage, pad
  <2>1. CASE DestroyUinput \/ Drop
    BY <2>1 DEF DestroyUinput, Drop, Anew
  <2>2. CASE DestroyUhid \/ NoOther \/ CreateUhid \/ CreateFails \/ Keep
    BY <2>2 DEF DestroyUhid, NoOther, CreateUhid, CreateFails, Keep, Anew
  <2>3. CASE CreateUinput
    BY <2>3 DEF CreateUinput
  <2> QED BY <1>8, <2>1, <2>2, <2>3 DEF Manages
<1>9. CASE Gone
  BY <1>9 DEF Gone
<1>10. CASE Quiet
  BY <1>10 DEF Quiet, pad, cache, history
<1>11. ASSUME NEW done \in SUBSET Buttons, Report(done) PROVE CacheInv'
  BY <1>11 DEF Report, history
<1>12. ASSUME NEW byte \in BOOLEAN, Build(byte) PROVE CacheInv'
  BY <1>12 DEF Build, pad, cache, history
<1>13. ASSUME NEW limited \in BOOLEAN, NEW byte \in BOOLEAN, Read(limited, byte) PROVE CacheInv'
  <2>1. UNCHANGED <<kind, ufd, uhid_fd>> /\ pc = "poll" /\ pc' = "top" /\ kind = "nsw"
    BY <1>13 DEF Read
  <2>2. CASE ufd /\ Forward(logical', phy_raw')
    BY <2>1, <2>2 DEF Forward
  <2>3. CASE nsw_uhid = "own" /\ UNCHANGED <<last, unsent>>
    BY <2>1, <2>3
  <2>4. CASE UNCHANGED <<last, shown, unsent>>
    BY <2>1, <2>4
  <2> QED BY <1>13, <2>2, <2>3, <2>4 DEF Read
<1>14. CASE UNCHANGED vars
  BY <1>14 DEF vars, pad, worker, cache, history
<1> QED
  BY <1>1, <1>2, <1>3, <1>4, <1>5, <1>6, <1>7, <1>8, <1>9, <1>10, <1>11, <1>12, <1>13, <1>14
  DEF Next, Player, Worker, Translate

\* An event that is read and passed on brings everything to the game.
LEMMA ReadRepairs ==
  ASSUME FlagsOK, DeviceInv, CacheInv, NEW limited \in BOOLEAN, NEW byte \in BOOLEAN,
         Read(limited, byte), ufd, changed # {}, ~skipped'
  PROVE  \A o \in Compared \ unsent' : o \in shown' <=> o \in Now(logical', phy_raw')
<1>1. kind = "nsw" /\ ~limited /\ ~uhid_fd /\ ~use_uhid /\ nsw_uhid = "none"
  BY DEF Read, DeviceInv, OneServedDevice
<1>2. Forward(logical', phy_raw')
  BY <1>1 DEF Read
<1>3. Compared \subseteq Outputs
  BY DEF Compared, Outputs
<1>4. \A o \in Outputs \ unsent : o \in shown <=> o \in last
  BY <1>1 DEF CacheInv, Read
<1>5. PICK lost \in SUBSET Differ(logical', phy_raw') :
        LET differ == Differ(logical', phy_raw')
        IN /\ shown' = (shown \ (differ \ lost))
                        \cup (Now(logical', phy_raw') \cap (differ \ lost))
           /\ unsent' = (unsent \ differ) \cup lost
  BY <1>2 DEF Forward
<1> TAKE o \in Compared \ unsent'
<1>6. CASE o \in Differ(logical', phy_raw')
  BY <1>5, <1>6
<1>7. CASE o \notin Differ(logical', phy_raw')
  BY <1>3, <1>4, <1>5, <1>7 DEF Differ
<1> QED BY <1>6, <1>7

\* Whatever was held back of a Switch Pro's buttons, the next event that is passed
\* on brings all of it to the game (nsw_read_events), for any key table and any
\* order of switches, failures and controllers.
THEOREM EventRepairs == Spec => NextEventRepairs
<1> DEFINE Repairs ==
      kind = "nsw" /\ ufd /\ changed # {} /\ changed' = {} /\ present' /\ ~skipped' =>
        \A o \in Compared \ unsent' : o \in shown' <=> o \in Now(logical', phy_raw')
<1>1. Init => FlagsOK /\ DeviceInv /\ CacheInv
  <2>1. Init => CacheInv
    BY DEF Init, CacheInv
  <2> QED BY <2>1, InitHolds
<1>2. FlagsOK /\ DeviceInv /\ CacheInv /\ [Next]_vars => FlagsOK' /\ DeviceInv' /\ CacheInv'
  BY FlagsStep, DeviceStep, CacheStep
<1>3. FlagsOK /\ DeviceInv /\ CacheInv /\ [Next]_vars => [Repairs]_vars
  <2> SUFFICES ASSUME FlagsOK, DeviceInv, CacheInv, Next,
                      kind = "nsw", ufd, changed # {}, changed' = {}, present', ~skipped'
               PROVE  \A o \in Compared \ unsent' : o \in shown' <=> o \in Now(logical', phy_raw')
    OBVIOUS
  <2>1. \E limited, byte \in BOOLEAN : Read(limited, byte)
    BY DEF Next, Client, Player, Worker, Translate, SetEmulate, SetUhid, SetDigital, SetDebounce,
           Ask, Keybind, Press, Plug, Unplug, Start, Top, Requests, Manages, DestroyUinput, DestroyUhid,
           NoOther, CreateUhid, CreateUinput, CreateFails, Keep, Drop, Manage, Gone, Quiet, Report,
           Build, pad, FlagsOK
  <2> QED BY <2>1, ReadRepairs
<1> QED BY <1>1, <1>2, <1>3, PTL DEF Spec, NextEventRepairs
=============================================================================
