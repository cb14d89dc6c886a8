---------------------------- MODULE BridgeMonitor ----------------------------
(***************************************************************************)
(* The D-Bus bridge: the thread of dbus-monitor.c that polls the daemon's  *)
(* shared memory and tells subscribers what changed, and the main thread   *)
(* (dbus-main.c, dbus-handlers.c) that keeps the bus connection and        *)
(* answers calls.  Around them: the daemon, which comes, hangs, dies and   *)
(* comes back, and a subscriber that follows the signals.                  *)
(*                                                                         *)
(* Starting the unit removes the segment first (data/dstx-daemon.service), *)
(* so a process may hold a mapping of a segment that has no name any more; *)
(* a daemon run by hand takes over the one it finds.  Segments are         *)
(* numbered in the order of their creation.                                *)
(*                                                                         *)
(* A pass takes at least 100 ms.  AGE passes without a new heartbeat may   *)
(* fit into the 1000 ms the monitor allows; fewer may exceed them already. *)
(***************************************************************************)
EXTENDS Integers, Sequences

CONSTANTS
  Slots,
  Controllers,
  Nobody,         \* in a slot that has had no controller
  NoCall,
  ProfileCall,    \* a profile call that has found the daemon alive
  Highest,        \* value of a group of fields; 0 is what memset leaves
  AGE,            \* most passes that fit into the allowed 1000 ms
  FDS,            \* file descriptors for segments a bridge may have open
  MaxSegments,    \* bound: segments ever created
  MaxEvents,      \* bound: starts, deaths, plugs, changes, calls, losses
  ClockSteps      \* BOOLEAN: the wall clock may run behind the pass

Values == 0..Highest

\* controller_t; config stands for the fields config_changed compares
Pads ==
  [connected : BOOLEAN, who : Controllers \cup {Nobody},
   config : Values, buttons : Values, axes : Values]

Zeroed ==
  [connected |-> FALSE, who |-> Nobody, config |-> 0, buttons |-> 0, axes |-> 0]

\* registration keeps the slot's configuration
Fresh(c, p) ==
  [connected |-> TRUE, who |-> c, config |-> p.config, buttons |-> 0, axes |-> 0]

Defaults(p) ==
  [connected |-> FALSE, who |-> Nobody, config |-> 1, buttons |-> p.buttons, axes |-> p.axes]

Segments == 1..MaxSegments
Calls    == [slot : Slots, segment : 0..MaxSegments]   \* 0: none opened yet
Signals  == {"update", "telemetry", "button", "axis"}
Items    == (Signals \cup {"presence"}) \X Slots

ASSUME BridgeAssumption ==
  /\ Nobody \notin Controllers
  /\ NoCall \notin Calls /\ ProfileCall \notin Calls /\ NoCall # ProfileCall
  /\ Highest \in Nat \ {0}
  /\ AGE \in Nat /\ FDS \in Nat \ {0, 1} /\ MaxSegments \in Nat /\ MaxEvents \in Nat
  /\ ClockSteps \in BOOLEAN

VARIABLES
  \* shared memory, the daemon
  cur,          \* the segment with the name SHM_PATH, 0: none
  shm,          \* shm[g][s]: slots[s] of segment g
  pid,          \* daemon_pid of segment g: "zero", "own" (the daemon runs),
                \* "none" (no such process), "other" (another process has it)
  daemon,       \* "down", "boot", "up", "hung"
  \* monitor thread
  mpc, mapped, read_from, beaten, age,   \* beaten: heartbeat # last_heartbeat
  last_alive_state, g_prev_daemon_alive,
  daemon_alive, slots, prev,             \* g_state, g_prev_state
  stamped,                               \* rate_limit: times that are not 0
  \* main thread
  dbus_conn, leaked,
  call,         \* a call that has found the daemon alive, with the segment it opened
  events,
  \* a subscriber, and history
  heard,        \* status; present[s]; who[s]; told[s]: content of the last signals
  lost,         \* signals that were due and not sent
  lost_status,  \* the same of DaemonStatusChanged
  overtaken,    \* the monitor let go its descriptor under a profile call, which may
                \* take the last one, or has
  swapped,      \* slots that changed hands before a pass could tell
  unseen        \* no pass has begun since the daemon died

memory  == <<cur, shm, pid, daemon>>
cache   == <<daemon_alive, slots, prev, stamped>>
liveness == <<last_alive_state, g_prev_daemon_alive>>
monitor == <<mpc, mapped, read_from, beaten, age>>
main    == <<dbus_conn, call, leaked>>
history == <<heard, lost, lost_status, swapped, unseen, overtaken>>
vars    == <<memory, cache, liveness, monitor, main, events, history>>

Event == events < MaxEvents /\ events' = events + 1

\* descriptors of segments: leaked ones, the monitor's, a handler's
Opened == call \notin {NoCall, ProfileCall} /\ call.segment # 0
Open == leaked + (IF mapped # 0 THEN 1 ELSE 0) + (IF Opened THEN 1 ELSE 0)

\* what a signal tells, and when it is due
Content(signal, p) ==
  CASE signal = "update"    -> <<p.config>>
    [] signal = "telemetry" -> <<p.buttons, p.axes>>
    [] signal = "button"    -> <<p.buttons>>
    [] signal = "axis"      -> <<p.buttons, p.axes>>

config_changed(a, b) == a.config # b.config
telemetry_changed(a, b) == a.axes # b.axes \/ a.buttons # b.buttons

Due(signal, a, b) ==
  CASE signal = "update" -> config_changed(a, b)
    [] signal = "button" -> a.buttons # b.buttons
    [] OTHER             -> telemetry_changed(a, b)

(***************************************************************************)
(* The daemon and the controllers.                                         *)
(***************************************************************************)
BridgeRests == UNCHANGED <<cache, liveness, main>>

\* main.c: a new segment, or the one that is there.  It is zeroed when the process
\* that used it is gone; a number that belongs to another process, or to none,
\* leaves everything as it is.
Boot(g) ==
  /\ daemon = "down"
  /\ cur' = g
  /\ shm' = [shm EXCEPT ![g] = IF pid[g] = "none" THEN [s \in Slots |-> Zeroed] ELSE @]
  /\ pid' = [pid EXCEPT ![g] = IF @ = "none" THEN "zero" ELSE @]
  /\ daemon' = "boot"
  /\ beaten' \in IF read_from = g THEN BOOLEAN ELSE {beaten}

StartDaemon ==
  /\ Event
  /\ \E g \in Segments \cap {cur, cur + 1} : Boot(g)
  /\ BridgeRests
  /\ UNCHANGED <<mpc, mapped, read_from, age, history>>

\* slots without controller and with their defaults, heartbeat 1, the process id
Publish ==
  /\ daemon = "boot"
  /\ daemon' = "up"
  /\ shm' = [shm EXCEPT ![cur] = [s \in Slots |-> Defaults(shm[cur][s])]]
  /\ pid' = [pid EXCEPT ![cur] = "own"]
  /\ beaten' \in IF read_from = cur THEN BOOLEAN ELSE {beaten}
  /\ BridgeRests
  /\ UNCHANGED <<cur, mpc, mapped, read_from, age, events, history>>

Beat ==
  /\ daemon = "up"
  /\ beaten' = (beaten \/ read_from = cur)
  /\ BridgeRests
  /\ UNCHANGED <<memory, mpc, mapped, read_from, age, events, history>>

\* The main loop waits for a worker it joins, or goes on.
Hang ==
  /\ Event
  /\ daemon \in {"up", "hung"}
  /\ daemon' = IF daemon = "up" THEN "hung" ELSE "up"
  /\ BridgeRests
  /\ UNCHANGED <<cur, shm, pid, monitor, history>>

Dies ==
  /\ daemon # "down"
  /\ daemon' = "down"
  /\ pid' = [pid EXCEPT ![cur] = IF @ = "own" THEN "none" ELSE @]
  /\ unseen' = TRUE
  /\ UNCHANGED <<cur, shm>>

Die ==
  /\ Event
  /\ Dies
  /\ BridgeRests
  /\ UNCHANGED <<monitor, heard, lost, lost_status, swapped, overtaken>>

\* The number of a dead process is given to another one.
ReusePid(g) ==
  /\ Event
  /\ pid[g] = "none"
  /\ pid' = [pid EXCEPT ![g] = "other"]
  /\ BridgeRests
  /\ UNCHANGED <<cur, shm, daemon, monitor, history>>

Plug(s, c) ==
  /\ Event
  /\ daemon = "up"
  /\ ~shm[cur][s].connected
  /\ shm' = [shm EXCEPT ![cur][s] = Fresh(c, shm[cur][s])]
  /\ swapped' = IF prev[s].connected THEN swapped \cup {s} ELSE swapped
  /\ BridgeRests
  /\ UNCHANGED <<cur, pid, daemon, monitor, heard, lost, lost_status, unseen, overtaken>>

Change(s, p) ==
  /\ Event
  /\ daemon \in {"up", "hung"}
  /\ shm[cur][s].connected
  /\ shm' = [shm EXCEPT ![cur][s] = p]
  /\ BridgeRests
  /\ UNCHANGED <<cur, pid, daemon, monitor, history>>

Unplug(s) == Change(s, [shm[cur][s] EXCEPT !.connected = FALSE])

\* A group of fields gets a new value: by the controller, the CLI, the TUI.
Adjust(s) ==
  \E v \in Values :
    \/ v # 0 /\ Change(s, [shm[cur][s] EXCEPT !.config = v])
    \/ Change(s, [shm[cur][s] EXCEPT !.buttons = v])
    \/ Change(s, [shm[cur][s] EXCEPT !.axes = v])

(***************************************************************************)
(* The monitor thread.                                                     *)
(***************************************************************************)
Nothing ==
  [status  |-> FALSE,
   present |-> [s \in Slots |-> FALSE],
   who     |-> [s \in Slots |-> Nobody],
   told    |-> [s \in Slots |-> [k \in Signals |-> Content(k, Zeroed)]]]

\* emit_daemon_status_signal(false); the subscriber drops its controllers
TellOffline ==
  IF dbus_conn
  THEN /\ heard' = Nothing
       /\ lost' = {} /\ lost_status' = FALSE /\ swapped' = {}
  ELSE /\ lost' = Items /\ lost_status' = TRUE
       /\ UNCHANGED <<heard, swapped>>

\* Mutant: what was last signalled is not forgotten.
OfflineKeepsPrev ==
  /\ IF last_alive_state
     THEN /\ IF g_prev_daemon_alive THEN TellOffline
             ELSE UNCHANGED <<heard, lost, lost_status, swapped>>
          /\ g_prev_daemon_alive' = FALSE
          /\ UNCHANGED prev
          /\ stamped' = {}
     ELSE UNCHANGED <<g_prev_daemon_alive, prev, stamped, heard, lost, lost_status, swapped>>
  /\ daemon_alive' = FALSE
  /\ last_alive_state' = FALSE
  /\ mapped' = 0
  /\ overtaken' = (overtaken \/ (mapped # 0 /\ call = ProfileCall))
  /\ UNCHANGED <<mpc, slots>>

\* Mutant: the old segment stays mapped.
OfflineKeepsMapping ==
  /\ IF last_alive_state
     THEN /\ IF g_prev_daemon_alive THEN TellOffline
             ELSE UNCHANGED <<heard, lost, lost_status, swapped>>
          /\ g_prev_daemon_alive' = FALSE
          /\ prev' = [s \in Slots |-> Zeroed]
          /\ stamped' = {}
     ELSE UNCHANGED <<g_prev_daemon_alive, prev, stamped, heard, lost, lost_status, swapped>>
  /\ daemon_alive' = FALSE
  /\ last_alive_state' = FALSE
  /\ overtaken' = (overtaken \/ (mapped # 0 /\ call = ProfileCall))
  /\ UNCHANGED <<mapped, mpc, slots>>

\* No segment, a heartbeat that stands still, or no such process.  Without a
\* segment mapped last_alive_state is false already (TypeOK).
Offline ==
  /\ IF last_alive_state
     THEN /\ IF g_prev_daemon_alive THEN TellOffline
             ELSE UNCHANGED <<heard, lost, lost_status, swapped>>
          /\ g_prev_daemon_alive' = FALSE
          /\ prev' = [s \in Slots |-> Zeroed]
          /\ stamped' = {}
     ELSE UNCHANGED <<g_prev_daemon_alive, prev, stamped, heard, lost, lost_status, swapped>>
  /\ daemon_alive' = FALSE
  /\ last_alive_state' = FALSE
  /\ mapped' = 0
  /\ overtaken' = (overtaken \/ (mapped # 0 /\ call = ProfileCall))
  /\ UNCHANGED <<mpc, slots>>

\* Mutant: the process is looked for, the age of the heartbeat is not.
CheckIgnoresAge ==
  LET target == IF mapped # 0 THEN mapped ELSE IF Open < FDS THEN cur ELSE 0 IN
  /\ mpc = "sleep"
  /\ unseen' = FALSE
  /\ IF target = 0
     THEN Offline /\ UNCHANGED <<read_from, beaten, age>>
     ELSE \E changed \in (IF target = read_from THEN {beaten} ELSE BOOLEAN), within \in BOOLEAN :
            /\ read_from' = target
            /\ beaten' = FALSE
            /\ age' = IF changed THEN 0 ELSE IF age < AGE THEN age + 1 ELSE AGE
            /\ IF pid[target] \in {"own", "other"}
               THEN /\ mpc' = "copy" /\ mapped' = target
                    /\ UNCHANGED <<cache, liveness, heard, lost, lost_status, swapped, overtaken>>
               ELSE Offline
  /\ UNCHANGED <<memory, main, events>>

\* A pass begins: map the segment, compare the heartbeat, look for the process.
Check ==
  LET target == IF mapped # 0 THEN mapped ELSE IF Open < FDS THEN cur ELSE 0 IN
  /\ mpc = "sleep"
  /\ unseen' = FALSE
  /\ IF target = 0
     THEN Offline /\ UNCHANGED <<read_from, beaten, age>>
     ELSE \E changed \in (IF target = read_from THEN {beaten} ELSE BOOLEAN), within \in BOOLEAN :
            /\ read_from' = target
            /\ beaten' = FALSE
            /\ age' = IF changed THEN 0 ELSE IF age < AGE THEN age + 1 ELSE AGE
            /\ IF /\ changed \/ (age < AGE /\ within)
                  /\ pid[target] \in {"own", "other"}
               THEN /\ mpc' = "copy" /\ mapped' = target
                    /\ UNCHANGED <<cache, liveness, heard, lost, lost_status, swapped, overtaken>>
               ELSE Offline
  /\ UNCHANGED <<memory, main, events>>

\* what the subscriber knows after the signals of a pass
Told(dst, came, went, sent) ==
  [heard EXCEPT
     !.present = [s \in Slots |-> (@[s] \/ s \in came) /\ s \notin went],
     !.who     = [s \in Slots |-> IF s \in came THEN dst[s].who ELSE @[s]],
     !.told    = [s \in Slots |-> [k \in Signals |->
                    IF s \in came \/ <<k, s>> \in sent THEN Content(k, dst[s]) ELSE @[s][k]]]]

\* Copy with the state a slot is compared with the next time as a parameter
CopySlots(dst, next_prev) ==
  LET came == {s \in Slots : dst[s].connected /\ ~prev[s].connected}
      went == {s \in Slots : ~dst[s].connected /\ prev[s].connected}
      due  == {i \in Signals \X Slots :
                 dst[i[2]].connected /\ Due(i[1], dst[i[2]], prev[i[2]])}
  IN \E limited \in SUBSET (IF ClockSteps THEN due \cap stamped ELSE {}) :
       /\ mpc = "copy"
       /\ daemon_alive' = TRUE
       /\ slots' = dst
       /\ prev' = next_prev
       /\ stamped' = stamped \cup (due \ limited)
       /\ IF dbus_conn
          THEN /\ heard' = Told(dst, came, went, due \ limited)
               /\ lost' = {i \in (lost \cup limited) \ (due \ limited) : i[2] \notin came \cup went}
               /\ swapped' = swapped \ (came \cup went)
          ELSE /\ lost' = lost \cup due \cup ({"presence"} \X (came \cup went))
               /\ UNCHANGED <<heard, swapped>>
       /\ mpc' = "report"
       /\ UNCHANGED <<memory, liveness, mapped, read_from, beaten, age, main, events,
                      lost_status, unseen, overtaken>>

\* Mutant: the last state of a slot is kept while nothing is connected to it.
CopyKeepsGone ==
  CopySlots(shm[mapped],
            [s \in Slots |-> IF shm[mapped][s].connected THEN shm[mapped][s] ELSE prev[s]])

\* Inside both mutexes: copy the slots, tell what differs from the last pass.
\* The interval of a signal is never longer than a pass, so its rate limit
\* bites only when the wall clock runs behind.
Copy == CopySlots(shm[mapped], shm[mapped])

\* after the mutexes are released
Report ==
  /\ mpc = "report"
  /\ IF ~last_alive_state /\ ~g_prev_daemon_alive
     THEN /\ g_prev_daemon_alive' = TRUE
          /\ heard' = IF dbus_conn THEN [heard EXCEPT !.status = TRUE] ELSE heard
          /\ lost_status' = ~dbus_conn
     ELSE UNCHANGED <<g_prev_daemon_alive, heard, lost_status>>
  /\ last_alive_state' = TRUE
  /\ mpc' = "sleep"
  /\ UNCHANGED <<memory, cache, mapped, read_from, beaten, age, main, events,
                 lost, swapped, unseen, overtaken>>

(***************************************************************************)
(* The main thread.                                                        *)
(***************************************************************************)
MonitorRests == UNCHANGED <<cache, liveness, monitor, history>>

SetupDbus ==
  /\ ~dbus_conn
  /\ dbus_conn' = TRUE
  /\ MonitorRests
  /\ UNCHANGED <<memory, call, leaked, events>>

LoseDbus ==
  /\ Event
  /\ dbus_conn /\ call = NoCall
  /\ dbus_conn' = FALSE
  /\ MonitorRests
  /\ UNCHANGED <<memory, call, leaked>>

\* GetControllers, GetControllerInfo, GetTelemetry, GetDetailedInfo,
\* GetInvertStatus and GetSensitivityPreset answer from the copy of the last
\* pass; an error otherwise.
Readable(s) == daemon_alive /\ slots[s].connected

\* the main thread takes a call from the bus
Dispatch == Event /\ dbus_conn /\ call = NoCall

\* A getter or setter looks whether the daemon is alive.  If not the getters answer
\* with an error, the setters not at all.
Ask(s) ==
  /\ Dispatch
  /\ call' = IF daemon_alive THEN [slot |-> s, segment |-> 0] ELSE NoCall
  /\ MonitorRests
  /\ UNCHANGED <<memory, dbus_conn, leaked>>

\* open_shm_handle after that, up to the mutex; as in Ask without a segment or a
\* descriptor
OpenHandle ==
  /\ call \notin {NoCall, ProfileCall} /\ call.segment = 0
  /\ call' = IF cur # 0 /\ Open < FDS THEN [call EXCEPT !.segment = cur] ELSE NoCall
  /\ MonitorRests
  /\ UNCHANGED <<memory, dbus_conn, leaked, events>>

\* What the setters may leave in a slot, for all arguments a caller may give; one
\* is too high.  Where the mutex is taken every setting has a value above 0.
Arguments == 1..(Highest + 1)

\* SetLED, SetGain, SetDeadzone, SetGlobalBrightness, SetPlayerLEDs: limited
SetLevel(p) ==
  {[p EXCEPT !.config = IF v > Highest THEN Highest ELSE v] : v \in Arguments}

\* SetEmulate, SetUHID, SetDebounce, SetInvertLY, SetInvertRY, SetLEDReapply,
\* SetRumbleActive, SetTriggersDigital: off or on
SetSwitch(p) == {[p EXCEPT !.config = v] : v \in {1, Highest}}

\* SetSensitivityPresetLeft and Right, SetKeybind, ResetKeybinds: an argument
\* out of range is refused before the segment is opened
SetTable(p) == {[p EXCEPT !.config = v] : v \in Arguments \cap Values}

\* SetEffect, ResetAllKeybinds, ApplySwitchLayout, ApplyXboxLayout,
\* SetSwitchLayout raise requests for the worker and change nothing compared; the
\* getters change nothing
Request(p) == {p}

\* The rest of the call, under the mutex of the segment that had the name when
\* it was opened: a controller that is there gets its setting and the caller an
\* answer; otherwise as in Ask.
Store ==
  /\ Opened
  /\ LET p == shm[call.segment][call.slot]
         stored == IF p.connected
                   THEN SetLevel(p) \cup SetSwitch(p) \cup SetTable(p) \cup Request(p)
                   ELSE {p}
     IN \E q \in stored : shm' = [shm EXCEPT ![call.segment][call.slot] = q]
  /\ call' = NoCall
  /\ MonitorRests
  /\ UNCHANGED <<cur, pid, daemon, dbus_conn, leaked, events>>

\* Mutant: a profile call does not look whether the daemon is alive.
AskProfileAlways ==
  /\ Dispatch
  /\ call' = ProfileCall
  /\ MonitorRests
  /\ UNCHANGED <<memory, dbus_conn, leaked>>

\* GetAutoSaveStatus, GetCurrentProfile and the commands of the profile channel
AskProfile ==
  /\ Dispatch
  /\ call' = IF daemon_alive THEN ProfileCall ELSE NoCall
  /\ MonitorRests
  /\ UNCHANGED <<memory, dbus_conn, leaked>>

\* They open a segment of their own, later, and never close its descriptor.  The
\* exchange itself is ProfileChannel's.
OpenProfile ==
  /\ call = ProfileCall
  /\ call' = NoCall
  /\ leaked' = IF cur # 0 /\ Open < FDS THEN leaked + 1 ELSE leaked
  /\ overtaken' = (overtaken /\ leaked' = FDS)
  /\ UNCHANGED <<memory, cache, liveness, monitor, dbus_conn, events,
                 heard, lost, lost_status, swapped, unseen>>

\* StartCoreService, StopCoreService, RestartCoreService: systemd carries out
\* the job, or finds nothing to do
HandleService ==
  /\ Dispatch
  /\ \/ /\ cur + 1 \in Segments
        /\ Boot(cur + 1)
        /\ UNCHANGED unseen
     \/ Dies /\ UNCHANGED beaten
  /\ UNCHANGED <<cache, liveness, mpc, mapped, read_from, age, main,
                 heard, lost, lost_status, swapped, overtaken>>

\* A signal, or a bus that does not come back: the process ends, systemd starts
\* it again (Restart=always).  A subscriber sees the name go.
RestartBridge ==
  /\ Event
  /\ mpc' = "sleep" /\ mapped' = 0 /\ read_from' = 0 /\ beaten' = FALSE /\ age' = AGE
  /\ last_alive_state' = FALSE /\ g_prev_daemon_alive' = FALSE
  /\ daemon_alive' = FALSE
  /\ slots' = [s \in Slots |-> Zeroed] /\ prev' = [s \in Slots |-> Zeroed]
  /\ stamped' = {}
  /\ dbus_conn' = FALSE /\ call' = NoCall /\ leaked' = 0
  /\ heard' = Nothing /\ lost' = {} /\ lost_status' = FALSE /\ swapped' = {}
  /\ overtaken' = FALSE
  /\ UNCHANGED <<memory, unseen>>

Init ==
  /\ cur = 0
  /\ shm = [g \in Segments |-> [s \in Slots |-> Zeroed]]
  /\ pid = [g \in Segments |-> "zero"]
  /\ daemon = "down"
  /\ mpc = "sleep" /\ mapped = 0 /\ read_from = 0 /\ beaten = FALSE /\ age = AGE
  /\ last_alive_state = FALSE /\ g_prev_daemon_alive = FALSE
  /\ daemon_alive = FALSE
  /\ slots = [s \in Slots |-> Zeroed] /\ prev = [s \in Slots |-> Zeroed]
  /\ stamped = {}
  /\ dbus_conn = FALSE /\ call = NoCall /\ leaked = 0
  /\ events = 0
  /\ heard = Nothing /\ lost = {} /\ lost_status = FALSE /\ swapped = {}
  /\ unseen = FALSE /\ overtaken = FALSE

MonitorStep == Check \/ Copy \/ Report
MainStep    == OpenHandle \/ OpenProfile \/ Store

Next ==
  \/ StartDaemon \/ Publish \/ Beat \/ Hang \/ Die
  \/ \E g \in Segments : ReusePid(g)
  \/ \E s \in Slots :
       \/ \E c \in Controllers : Plug(s, c)
       \/ Unplug(s) \/ Adjust(s)
       \/ Ask(s)
  \/ MonitorStep
  \/ MainStep
  \/ SetupDbus \/ LoseDbus \/ AskProfile \/ HandleService \/ RestartBridge

Spec == Init /\ [][Next]_vars

\* The monitor's thread runs on; the daemon's loop beats unless it hangs; the
\* bridge carries a call to its end and connects to the bus again.
FairSpec ==
  /\ Spec
  /\ WF_vars(MonitorStep) /\ WF_vars(MainStep)
  /\ WF_vars(Publish) /\ WF_vars(Beat)
  /\ WF_vars(SetupDbus)

(***************************************************************************)
(* Properties.                                                             *)
(***************************************************************************)
Heard ==
  [status : BOOLEAN, present : [Slots -> BOOLEAN], who : [Slots -> Controllers \cup {Nobody}],
   told : [Slots -> [Signals -> Seq(Values)]]]

FlagsTyped ==
  /\ beaten \in BOOLEAN
  /\ last_alive_state \in BOOLEAN /\ g_prev_daemon_alive \in BOOLEAN /\ daemon_alive \in BOOLEAN
  /\ dbus_conn \in BOOLEAN
  /\ lost_status \in BOOLEAN /\ unseen \in BOOLEAN /\ overtaken \in BOOLEAN

DataTyped ==
  /\ cur \in 0..MaxSegments
  /\ shm \in [Segments -> [Slots -> Pads]]
  /\ pid \in [Segments -> {"zero", "own", "none", "other"}]
  /\ daemon \in {"down", "boot", "up", "hung"}
  /\ mpc \in {"sleep", "copy", "report"}
  /\ mapped \in 0..MaxSegments /\ read_from \in 0..MaxSegments
  /\ age \in 0..AGE
  /\ slots \in [Slots -> Pads] /\ prev \in [Slots -> Pads]
  /\ stamped \subseteq Signals \X Slots
  /\ call \in Calls \cup {NoCall, ProfileCall}
  /\ leaked \in Nat
  /\ events \in Nat
  /\ heard \in Heard
  /\ lost \subseteq Items
  /\ swapped \subseteq Slots

\* The variables keep their types; there is a segment while there is a daemon, and
\* the monitor has one mapped while it copies or has reported the daemon alive.
TypeOK ==
  /\ FlagsTyped
  /\ DataTyped
  /\ daemon # "down" => cur # 0
  /\ mpc # "sleep" \/ last_alive_state => mapped # 0

\* After any history of restarts, lost bus connections and controllers that come
\* and go, what a subscriber concludes from the signals is what the last pass
\* saw (dbus-monitor.c:119-185), unless the signal that would have told it was
\* not sent: no bus connection, or a rate limit under a clock that runs behind.
SubscriberInStep ==
  /\ ~lost_status => (heard.status <=> g_prev_daemon_alive)
  /\ \A s \in Slots :
       <<"presence", s>> \notin lost =>
         /\ heard.present[s] <=> prev[s].connected
         /\ \A k \in Signals :
              prev[s].connected /\ <<k, s>> \notin lost =>
                heard.told[s][k] = Content(k, prev[s])

\* A slot a subscriber has been told of can be read: what the getters answer and
\* what the signals said do not contradict each other, across restarts and
\* whatever the two threads do (dbus-handlers.c:117-128, dbus-monitor.c:109-127).
SignalledSlotReadable ==
  \A s \in Slots :
    heard.present[s] /\ <<"presence", s>> \notin lost => Readable(s)

\* A subscriber takes one controller for another only when the slot changed
\* hands between two passes: connected stays true and nothing is signalled
\* (dbus-monitor.c:126).
IdentityKnownUnlessSwapped ==
  \A s \in Slots :
    /\ prev[s].connected
    /\ <<"presence", s>> \notin lost
    /\ heard.who[s] # prev[s].who
    => s \in swapped

\* The bridge calls a daemon alive whose process is gone only until the next
\* pass begins (dbus-monitor.c:101-104); so late may a setter be acknowledged
\* that nobody will carry out.
DeathNoticed ==
  mpc = "sleep" /\ daemon_alive /\ pid[mapped] = "none" => unseen

\* However many profile calls leave a descriptor open (dbus-utils.c:302), the
\* monitor has one left to map the segment of the next daemon: they open one only
\* while the monitor has its own.  Not so when the monitor lets it go between the
\* look at daemon_alive and shm_open (dbus-utils.c:299-302, dbus-monitor.c:210-221).
MonitorKeepsDescriptor ==
  mapped = 0 /\ ~overtaken => leaked < FDS

\* A daemon that is dead or hangs for good is reported offline and stays so,
\* even when another process gets its number.
DeadDaemonReported ==
  <>[](daemon \in {"down", "hung"}) =>
    <>[](~daemon_alive /\ (heard.status => lost_status))

\* A daemon that runs is seen again and again, also after it was restarted under
\* the monitor's mapping of the old segment; but not once a profile call that was
\* overtaken has the monitor's last descriptor.
RunningDaemonSeen ==
  <>[](daemon = "up" /\ ~overtaken) => []<>daemon_alive
=============================================================================
