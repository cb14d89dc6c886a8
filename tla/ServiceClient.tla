--------------------------- MODULE ServiceClient ---------------------------
(***************************************************************************)
(* How a TUI or CLI process finds the daemon, notices its end, starts and  *)
(* stops it (utils.c), and how the daemon sets up the segment they meet in *)
(* (main.c, daemon.c); the TUI's loop with its snapshot, its selection and *)
(* its commands (ui.c, display.c), and the CLI's entry (commands.c).       *)
(*                                                                         *)
(* Either the unit manages the daemon (managed): systemctl works, and a    *)
(* start removes the segment first, so that a process may keep a mapping   *)
(* of one that has no name any more.  Or the daemon is run by hand and     *)
(* takes over the segment it finds; systemctl fails.  There is at most one *)
(* daemon at a time.  Process ids are the numbers of the starts.           *)
(***************************************************************************)
EXTENDS Integers

CONSTANTS
  MAX_SLOTS,
  Controllers,
  Nobody,
  Stray,          \* what is found at an index that is none
  AGE,            \* most passes that fit into the 1000 ms without a heartbeat
  MaxSegments,    \* bound: segments ever created
  MaxStarts,      \* bound: daemons ever started
  MaxEvents       \* bound: plugs, user's actions, deaths, reused numbers

Slots    == 0..(MAX_SLOTS - 1)
Segments == 1..MaxSegments
Pids     == 1..MaxStarts

ASSUME ClientAssumption ==
  /\ Nobody \notin Controllers /\ Stray \notin Controllers \cup {Nobody}
  /\ MAX_SLOTS \in Nat \ {0} /\ AGE \in Nat
  /\ MaxSegments \in Nat /\ MaxStarts \in Nat /\ MaxEvents \in Nat

VARIABLES
  \* the daemon and shared memory
  managed,
  daemon,       \* "down", "forked", "opened", "ready", "up"
  starts, made, cur,        \* daemons started, segments made, the one with the name
  proc,         \* proc[n]: "unborn", "daemon", "gone", "other" (the number is reused)
  ready,        \* segments with magic
  pid, hb,      \* of segment g: daemon_pid, heartbeat > 0
  who, tuned,   \* of slot s in segment g: its controller; a command has changed it
  remade,       \* the mutex that the client holds in is_daemon_alive was made anew
  \* the client
  tpc, goal,    \* where it is; what try_connect_shm was called for
  mapped, known,            \* shm_ptr; the process id read before a wait
  read_from, beaten, age,   \* beaten: the heartbeat differs from last_heartbeat
  hb_is_moving, shown,      \* shown: alive
  snap, current_idx, selected,
  \* bounds and history
  events,
  wiped,        \* a stop has cleared the process id of a running daemon
  late,         \* snapshots in a row that showed the last daemon after its end
  replaced,     \* slots that changed hands since the snapshot
  asked, misdirected        \* controllers commands were meant for; hit instead

shm     == <<ready, pid, hb, who, tuned, remade>>
system  == <<managed, daemon, starts, made, cur, proc>>
beat    == <<read_from, beaten, age, hb_is_moving>>
view    == <<shown, snap, current_idx, selected>>
history == <<wiped, late, replaced, asked, misdirected>>
client  == <<tpc, goal, mapped, known, beat, view>>
vars    == <<shm, system, client, events, history>>

Event == events < MaxEvents /\ events' = events + 1

Empty == [s \in Slots |-> Nobody]
\* kill(n, 0)
Alive(n) == n # 0 /\ proc[n] \in {"daemon", "other"}

(***************************************************************************)
(* The daemon.                                                             *)
(***************************************************************************)

\* The unit removes the segment's name before it starts the daemon.
Fork ==
  /\ daemon = "down"
  /\ starts < MaxStarts /\ made < MaxSegments
  /\ daemon' = "forked"
  /\ starts' = starts + 1
  /\ proc' = [proc EXCEPT ![starts + 1] = "daemon"]
  /\ cur' = IF managed THEN 0 ELSE cur
  /\ UNCHANGED <<managed, made>>

StartDaemon ==
  /\ Fork
  /\ UNCHANGED <<shm, client, events, history>>

\* shm_open, ftruncate, mmap; a segment is created when there is none
OpenSegment ==
  /\ daemon = "forked"
  /\ daemon' = "opened"
  /\ IF cur = 0
     THEN made' = made + 1 /\ cur' = made + 1
     ELSE UNCHANGED <<made, cur>>
  /\ UNCHANGED <<shm, managed, starts, proc, client, events, history>>

\* The client is between the comparison of is_daemon_alive and its unlock.
Inside == tpc \in {"forget", "still"}

\* An invalid magic, or the process id of a process that is gone: memset, and the
\* mutex is made anew whoever holds it.  A number that was cleared or reused leaves
\* everything as it is.
InitSegment ==
  /\ daemon = "opened"
  /\ daemon' = "ready"
  /\ IF cur \notin ready \/ (pid[cur] # 0 /\ ~Alive(pid[cur]))
     THEN /\ ready' = ready \cup {cur}
          /\ pid' = [pid EXCEPT ![cur] = 0]
          /\ hb' = [hb EXCEPT ![cur] = FALSE]
          /\ who' = [who EXCEPT ![cur] = Empty]
          /\ tuned' = [tuned EXCEPT ![cur] = {}]
          /\ remade' = (remade \/ (Inside /\ mapped = cur))
          /\ beaten' \in IF read_from = cur THEN BOOLEAN ELSE {beaten}
     ELSE UNCHANGED <<shm, beaten>>
  /\ UNCHANGED <<managed, starts, made, cur, proc, tpc, goal, mapped, known, read_from, age,
                 hb_is_moving, view, events, history>>

\* slots without controller, heartbeat 1, the process id, under the mutex;
\* run_daemon_loop does the same once more
Publish ==
  /\ daemon = "ready"
  /\ Inside /\ mapped = cur => remade
  /\ daemon' = "up"
  /\ pid' = [pid EXCEPT ![cur] = starts]
  /\ hb' = [hb EXCEPT ![cur] = TRUE]
  /\ who' = [who EXCEPT ![cur] = Empty]
  /\ replaced' = Slots
  /\ remade' = (remade /\ Inside)
  /\ wiped' = FALSE /\ late' = 0
  /\ beaten' \in IF read_from = cur THEN BOOLEAN ELSE {beaten}
  /\ UNCHANGED <<ready, tuned, managed, starts, made, cur, proc, tpc, goal, mapped, known,
                 read_from, age, hb_is_moving, view, events, asked, misdirected>>

Beat ==
  /\ daemon = "up"
  /\ hb' = [hb EXCEPT ![cur] = TRUE]
  /\ beaten' = (beaten \/ read_from = cur)
  /\ UNCHANGED <<ready, pid, who, tuned, remade, system, tpc, goal, mapped, known, read_from, age,
                 hb_is_moving, view, events, history>>

\* killed, or ended by a signal: cleanup leaves shared memory as it is
Dies ==
  /\ daemon # "down"
  /\ daemon' = "down"
  /\ proc' = [proc EXCEPT ![starts] = "gone"]
  /\ UNCHANGED <<managed, starts, made, cur>>

Die ==
  /\ Event /\ Dies
  /\ UNCHANGED <<shm, client, history>>

ReusePid(n) ==
  /\ Event
  /\ proc[n] = "gone"
  /\ n = known \/ \E g \in Segments : n = pid[g]
  /\ proc' = [proc EXCEPT ![n] = "other"]
  /\ UNCHANGED <<shm, managed, daemon, starts, made, cur, client, history>>

\* registration zeroes the slot
Plug(s, c) ==
  /\ Event
  /\ daemon = "up"
  /\ who[cur][s] = Nobody
  /\ \A t \in Slots : who[cur][t] # c
  /\ who' = [who EXCEPT ![cur][s] = c]
  /\ tuned' = [tuned EXCEPT ![cur] = @ \ {s}]
  /\ replaced' = replaced \cup {s}
  /\ UNCHANGED <<ready, pid, hb, remade, system, client, wiped, late, asked, misdirected>>

Unplug(s) ==
  /\ Event
  /\ daemon = "up"
  /\ who[cur][s] # Nobody
  /\ who' = [who EXCEPT ![cur][s] = Nobody]
  /\ replaced' = replaced \cup {s}
  /\ UNCHANGED <<ready, pid, hb, tuned, remade, system, client, wiped, late, asked, misdirected>>

(***************************************************************************)
(* Attaching, and what the callers do with the result.                     *)
(***************************************************************************)
SystemRests == UNCHANGED <<shm, system, events>>

\* where the client goes after try_connect_shm, and the next purpose of a call
After(ok) ==
  CASE goal = "main"   -> IF ok THEN {<<"greet", "loop">>} ELSE {<<"start", "launch">>}
    [] goal = "launch" -> {<<"connect", g>> : g \in {"retry"} \cup IF ok THEN {} ELSE {"launch"}}
    [] goal = "retry"  -> IF ok THEN {<<"greet", "loop">>} ELSE {<<"off", "main">>}
    [] goal = "start"  -> {<<"top", "loop">>} \cup IF ok THEN {} ELSE {<<"connect", "start">>}
    [] goal = "loop"   -> {<<"look", "loop">>}
    [] goal = "cli"    -> IF ok THEN {<<"cli", "cli">>} ELSE {<<"off", "main">>}

Return(ok) == \E next \in After(ok) : tpc' = next[1] /\ goal' = next[2]

\* A process begins with nothing mapped.
Launch(purpose) ==
  /\ Event
  /\ tpc = "off"
  /\ tpc' = "connect" /\ goal' = purpose
  /\ mapped' = 0 /\ known' = 0
  /\ read_from' = 0 /\ beaten' = FALSE /\ age' = 0 /\ hb_is_moving' = TRUE
  /\ shown' = FALSE /\ snap' = Empty /\ current_idx' = -1 /\ selected' = Nobody
  /\ late' = 0
  /\ UNCHANGED <<shm, system, wiped, replaced, asked, misdirected>>

\* try_connect_shm up to its wait.  A segment without process id stays mapped
\* although the call fails.
Connect ==
  /\ tpc = "connect"
  /\ \/ /\ cur = 0 \/ cur \notin ready
        /\ mapped' = 0 /\ known' = 0
        /\ Return(FALSE)
     \/ /\ cur # 0 /\ cur \in ready /\ pid[cur] = 0
        /\ mapped' = cur /\ known' = 0
        /\ Return(FALSE)
     \/ /\ cur # 0 /\ cur \in ready /\ pid[cur] # 0
        /\ mapped' = cur /\ known' = pid[cur]
        /\ tpc' = "probe" /\ UNCHANGED goal
  /\ SystemRests
  /\ UNCHANGED <<beat, view, history>>

\* the wait for a heartbeat, and whether the process exists
Probe ==
  /\ tpc = "probe"
  /\ IF hb[mapped] /\ Alive(known)
     THEN UNCHANGED mapped /\ Return(TRUE)
     ELSE mapped' = 0 /\ Return(FALSE)
  /\ UNCHANGED known
  /\ SystemRests
  /\ UNCHANGED <<beat, view, history>>

\* start_service takes a process id and a heartbeat for a running daemon, and
\* clears that of one that has ended without a heartbeat (is_daemon_alive).
\* Otherwise systemctl start, which fails when the daemon is run by hand.
StartService ==
  /\ tpc = "start"
  /\ IF mapped # 0 /\ pid[mapped] # 0 /\ hb[mapped]
     THEN Return(TRUE) /\ UNCHANGED <<system, known>>
     ELSE IF mapped # 0 /\ pid[mapped] # 0 /\ ~Alive(pid[mapped])
     THEN tpc' = "clear" /\ known' = pid[mapped] /\ UNCHANGED <<goal, system>>
     ELSE /\ tpc' = "connect" /\ UNCHANGED <<goal, known>>
          /\ \/ managed /\ Fork
             \/ ~(managed /\ daemon = "down") /\ UNCHANGED system
  /\ UNCHANGED <<shm, mapped, beat, view, events, history>>

\* stop_service: systemctl stop ends a managed daemon ...
StopService ==
  /\ Event
  /\ tpc = "input" /\ goal = "loop"
  /\ tpc' = "wipe"
  /\ IF managed /\ daemon # "down" THEN Dies ELSE UNCHANGED system
  /\ UNCHANGED <<shm, goal, mapped, known, beat, view, history>>

\* ... then the segment the client has mapped is cleared under the mutex, whoever
\* uses it, and the selection forgotten.  Its stores are one step.
Wipe ==
  /\ tpc = "wipe"
  /\ IF mapped # 0
     THEN /\ pid' = [pid EXCEPT ![mapped] = 0]
          /\ hb' = [hb EXCEPT ![mapped] = FALSE]
          /\ who' = [who EXCEPT ![mapped] = Empty]
          /\ wiped' = (wiped \/ (daemon = "up" /\ mapped = cur))
          /\ beaten' \in IF mapped = read_from THEN BOOLEAN ELSE {beaten}
     ELSE UNCHANGED <<pid, hb, who, wiped, beaten>>
  /\ mapped' = 0
  /\ selected' = Nobody
  /\ tpc' = "top"
  /\ UNCHANGED <<ready, tuned, remade, system, goal, known, read_from, age, hb_is_moving, shown,
                 snap, current_idx, events, late, replaced, asked, misdirected>>

(***************************************************************************)
(* The TUI's loop.                                                         *)
(***************************************************************************)

\* Without a segment it tries to attach, not more often than every 500 ms.
Reconnect ==
  /\ tpc = "top" /\ mapped = 0
  /\ tpc' = "connect"
  /\ SystemRests
  /\ UNCHANGED <<goal, mapped, known, beat, view, history>>

Proceed ==
  /\ tpc = "top"
  /\ tpc' = "look"
  /\ SystemRests
  /\ UNCHANGED <<goal, mapped, known, beat, view, history>>

\* Mutant: the mapping is kept.
OfflineKeepsMapping ==
  /\ UNCHANGED mapped
  /\ shown' = FALSE /\ current_idx' = -1
  /\ late' = 0
  /\ tpc' = "input"
  /\ UNCHANGED <<goal, snap, selected, wiped, replaced, asked, misdirected>>

\* Mutant: the index of the last snapshot is kept.
OfflineKeepsIndex ==
  /\ mapped' = 0
  /\ shown' = FALSE
  /\ late' = 0
  /\ tpc' = "input"
  /\ UNCHANGED <<current_idx, goal, snap, selected, wiped, replaced, asked, misdirected>>

Offline ==
  /\ mapped' = 0
  /\ shown' = FALSE /\ current_idx' = -1
  /\ late' = 0
  /\ tpc' = "input"
  /\ UNCHANGED <<goal, snap, selected, wiped, replaced, asked, misdirected>>

\* main asks is_daemon_alive once before the loop, for its log
Greet ==
  /\ tpc = "greet"
  /\ IF pid[mapped] # 0 /\ ~Alive(pid[mapped])
     THEN tpc' = "clear" /\ goal' = "greet" /\ known' = pid[mapped]
     ELSE tpc' = "top" /\ UNCHANGED <<goal, known>>
  /\ SystemRests
  /\ UNCHANGED <<mapped, beat, view, history>>

\* Mutant: a heartbeat that has moved once counts for ever.
LookOnce ==
  /\ tpc = "look"
  /\ IF mapped = 0
     THEN Offline /\ UNCHANGED <<known, beat>>
     ELSE /\ read_from' = mapped
          /\ beaten' = FALSE
          /\ UNCHANGED <<age, hb_is_moving>>
          /\ tpc' = "snap"
          /\ UNCHANGED <<known, goal, mapped, view, history>>
  /\ SystemRests

\* The heartbeat is compared; one that stands still makes the loop ask for the
\* process (is_daemon_alive; a process that may not be signalled is alive
\* whatever its heartbeat).
Look ==
  /\ tpc = "look"
  /\ IF mapped = 0
     THEN Offline /\ UNCHANGED <<known, beat>>
     ELSE \E changed \in (IF mapped = read_from THEN {beaten} ELSE BOOLEAN), within \in BOOLEAN :
            /\ read_from' = mapped
            /\ beaten' = FALSE
            /\ age' = IF changed THEN 0 ELSE IF age < AGE THEN age + 1 ELSE AGE
            /\ hb_is_moving' = (changed \/ (hb_is_moving /\ age < AGE /\ within))
            /\ known' = pid[mapped]
            /\ \/ /\ hb_is_moving' \/ Alive(pid[mapped])
                  /\ tpc' = "snap"
                  /\ UNCHANGED <<goal, mapped, view, history>>
               \/ /\ ~hb_is_moving' /\ pid[mapped] # 0 /\ ~Alive(pid[mapped])
                  /\ tpc' = "clear"
                  /\ UNCHANGED <<goal, mapped, view, history>>
               \/ /\ ~hb_is_moving'
                  /\ pid[mapped] = 0 \/ (Alive(pid[mapped]) /\ ~hb[mapped])
                  /\ Offline
  /\ SystemRests

\* What the caller of is_daemon_alive does with "not alive".  Only a daemon run by
\* hand has a number without a heartbeat, so start_service's systemctl fails.
Cleared ==
  \/ goal = "loop" /\ Offline
  \/ goal = "greet" /\ tpc' = "top" /\ goal' = "loop" /\ UNCHANGED <<mapped, view, history>>
  \/ goal = "cli" /\ tpc' = "off" /\ goal' = "main" /\ UNCHANGED <<mapped, view, history>>
  \/ goal \in {"start", "launch"} /\ tpc' = "connect" /\ UNCHANGED <<goal, mapped, view, history>>

\* Mutant: is_daemon_alive clears what it finds now.
ClearWithoutCompare ==
  /\ tpc = "clear"
  /\ tpc' = "forget" /\ remade' = FALSE
  /\ UNCHANGED <<ready, pid, hb, who, tuned, goal, mapped, known, beat, view, history>>
  /\ UNCHANGED <<system, events>>

\* The process was gone: under the mutex its number is compared with the one that
\* was read ...
Clear ==
  /\ tpc = "clear"
  /\ IF pid[mapped] = known
     THEN /\ tpc' = "forget" /\ remade' = FALSE
          /\ UNCHANGED <<ready, pid, hb, who, tuned, goal, mapped, view, history>>
     ELSE Cleared /\ UNCHANGED shm
  /\ UNCHANGED <<system, events, known, beat>>

\* ... and cleared if it is the same ...
Forget ==
  /\ tpc = "forget"
  /\ tpc' = "still"
  /\ pid' = [pid EXCEPT ![mapped] = 0]
  /\ UNCHANGED <<ready, hb, who, tuned, remade, system, events, goal, mapped, known, beat, view,
                 history>>

\* ... and the heartbeat with it.
Still ==
  /\ tpc = "still"
  /\ hb' = [hb EXCEPT ![mapped] = FALSE]
  /\ beaten' \in IF mapped = read_from THEN BOOLEAN ELSE {beaten}
  /\ Cleared
  /\ UNCHANGED <<ready, pid, who, tuned, remade, system, events, known, read_from, age,
                 hb_is_moving>>

\* Mutant: a selection is kept as long as some controller is there.
SlotIdxKept ==
  LET there == {s \in Slots : who[mapped][s] # Nobody} IN
  /\ current_idx' = IF there = {} THEN -1
                    ELSE IF current_idx # -1 THEN current_idx
                    ELSE CHOOSE s \in there : \A t \in there : s <= t
  /\ UNCHANGED selected

\* The slot of the selected controller, or the first one in use, which is then
\* selected.
update_and_get_slot_idx ==
  LET there == {s \in Slots : who[mapped][s] # Nobody}
      same  == {s \in there : who[mapped][s] = selected}
      first == CHOOSE s \in there : \A t \in there : s <= t
  IN CASE same # {}  -> /\ current_idx' = (CHOOSE s \in same : \A t \in same : s <= t)
                        /\ UNCHANGED selected
       [] same = {} /\ there # {} -> current_idx' = first /\ selected' = who[mapped][first]
       [] there = {} -> current_idx' = -1 /\ UNCHANGED selected

\* The whole segment is copied under the mutex.  The daemon counts as alive when
\* its process exists or its heartbeat moved not long ago.
Snap ==
  /\ tpc = "snap"
  /\ snap' = who[mapped]
  /\ replaced' = {}
  /\ LET n == pid[mapped] IN
     IF n # 0 /\ (Alive(n) \/ hb_is_moving)
     THEN /\ shown' = TRUE
          /\ update_and_get_slot_idx
          /\ late' = IF Alive(n) THEN 0 ELSE IF late > AGE + 2 THEN late ELSE late + 1
     ELSE /\ shown' = FALSE /\ current_idx' = -1
          /\ late' = 0
          /\ UNCHANGED selected
  /\ tpc' = "input"
  /\ SystemRests
  /\ UNCHANGED <<goal, mapped, known, beat, wiped, asked, misdirected>>

Idle ==
  /\ tpc = "input" /\ goal = "loop"
  /\ tpc' = "top"
  /\ SystemRests
  /\ UNCHANGED <<goal, mapped, known, beat, view, history>>

\* remainder as C computes it
Rem(a, n) == IF a >= 0 THEN a % n ELSE -((-a) % n)

\* the slots an arrow key looks at, nearest first; step is 1 or -1
SeekAt(step, i) == Rem(current_idx + step * i + MAX_SLOTS, MAX_SLOTS)

\* A left arrow while nothing is shown comes to slots[-1], where anything may be
\* found.
Arrow(step) ==
  /\ Event
  /\ tpc = "input" /\ goal = "loop" /\ mapped # 0
  /\ LET at(i)    == SeekAt(step, i)
         taken(i) == IF at(i) \in Slots THEN snap[at(i)] # Nobody ELSE FALSE
     IN \/ \E i \in 1..MAX_SLOTS :
             /\ taken(i) \/ at(i) \notin Slots
             /\ \A j \in 1..(i - 1) : ~taken(j)
             /\ selected' = IF at(i) \in Slots THEN snap[at(i)] ELSE Stray
        \/ /\ \A i \in 1..MAX_SLOTS : ~taken(i)
           /\ UNCHANGED selected
  /\ tpc' = "top"
  /\ UNCHANGED <<shm, system, goal, mapped, known, beat, shown, snap, current_idx, history>>

\* A slot command, under the mutex, for the index of the last snapshot; c is the
\* controller it is meant for.
Tune(c) ==
  /\ tuned' = [tuned EXCEPT ![mapped] = @ \cup {current_idx}]
  /\ asked' = asked \cup {c}
  /\ misdirected' = IF current_idx \in replaced
                    THEN misdirected \cup {who[mapped][current_idx]} ELSE misdirected
  /\ UNCHANGED <<ready, pid, hb, who, remade, system, mapped, known, beat, view, wiped, late, replaced>>

Command ==
  /\ Event
  /\ tpc = "input" /\ goal = "loop" /\ current_idx # -1
  /\ Tune(selected)
  /\ tpc' = "top" /\ UNCHANGED goal

\* start
AskStart ==
  /\ Event
  /\ tpc = "input" /\ goal = "loop"
  /\ tpc' = "start" /\ goal' = "start"
  /\ UNCHANGED <<shm, system, mapped, known, beat, view, history>>

Exit ==
  /\ Event
  /\ tpc = "input" /\ goal = "loop"
  /\ tpc' = "off" /\ goal' = "main"
  /\ shown' = FALSE
  /\ UNCHANGED <<shm, system, mapped, known, beat, snap, current_idx, selected, history>>

\* process_cli_command: the daemon's process and the slot are looked at once more;
\* a slot in use gets the command
CliSlot(s) ==
  /\ tpc = "cli"
  /\ known' = pid[mapped]
  /\ \/ /\ pid[mapped] # 0 /\ ~Alive(pid[mapped])
        /\ tpc' = "clear" /\ UNCHANGED <<goal, current_idx, snap, replaced>>
     \/ /\ pid[mapped] = 0 \/ (Alive(pid[mapped]) /\ (~hb[mapped] \/ who[mapped][s] = Nobody))
        /\ tpc' = "off" /\ goal' = "main" /\ UNCHANGED <<current_idx, snap, replaced>>
     \/ /\ Alive(pid[mapped]) /\ hb[mapped] /\ who[mapped][s] # Nobody
        /\ tpc' = "clicommand" /\ current_idx' = s
        /\ snap' = who[mapped] /\ replaced' = {}
        /\ UNCHANGED goal
  /\ SystemRests
  /\ UNCHANGED <<mapped, beat, shown, selected, wiped, late, asked, misdirected>>

CliCommand ==
  /\ tpc = "clicommand"
  /\ Tune(snap[current_idx])
  /\ tpc' = "off" /\ goal' = "main"
  /\ UNCHANGED events

Init ==
  /\ managed \in BOOLEAN
  /\ daemon = "down" /\ starts = 0 /\ made = 0 /\ cur = 0
  /\ proc = [n \in Pids |-> "unborn"]
  /\ ready = {}
  /\ pid = [g \in Segments |-> 0] /\ hb = [g \in Segments |-> FALSE]
  /\ who = [g \in Segments |-> Empty] /\ tuned = [g \in Segments |-> {}]
  /\ remade = FALSE
  /\ tpc = "off" /\ goal = "main" /\ mapped = 0 /\ known = 0
  /\ read_from = 0 /\ beaten = FALSE /\ age = 0 /\ hb_is_moving = TRUE
  /\ shown = FALSE /\ snap = Empty /\ current_idx = -1 /\ selected = Nobody
  /\ events = 0
  /\ wiped = FALSE /\ late = 0 /\ replaced = {} /\ asked = {} /\ misdirected = {}

DaemonStep == OpenSegment \/ InitSegment \/ Publish

ClientStep ==
  \/ Connect \/ Probe \/ StartService \/ Wipe
  \/ Greet \/ Reconnect \/ Proceed \/ Look \/ Clear \/ Forget \/ Still \/ Snap \/ Idle
  \/ CliCommand \/ \E s \in Slots : CliSlot(s)

Next ==
  \/ StartDaemon \/ DaemonStep \/ Beat \/ Die
  \/ \E n \in Pids : ReusePid(n)
  \/ \E s \in Slots : (\E c \in Controllers : Plug(s, c)) \/ Unplug(s)
  \/ \E purpose \in {"main", "cli"} : Launch(purpose)
  \/ ClientStep
  \/ StopService \/ Command \/ AskStart \/ Exit
  \/ \E step \in {1, -1} : Arrow(step)

Spec == Init /\ [][Next]_vars

\* after the last of the 30 attempts of start_service
GiveUp == ClientStep /\ goal \in {"start", "launch"} /\ goal' # goal

\* A daemon that is started gets on with it and its loop beats; the client runs
\* on, ends its attempts and attaches again when its 500 ms are over.
FairSpec ==
  /\ Spec
  /\ WF_vars(DaemonStep) /\ WF_vars(Beat)
  /\ WF_vars(ClientStep) /\ SF_vars(GiveUp) /\ SF_vars(Reconnect)

(***************************************************************************)
(* Properties.                                                             *)
(***************************************************************************)
Places ==
  {"off", "connect", "probe", "start", "wipe", "greet", "top", "look", "clear", "forget", "still",
   "snap", "input", "cli", "clicommand"}

\* The variables keep their types; the index a command is written to is that of a
\* slot, and a client looks and writes only into a segment it has mapped.
TypeOK ==
  /\ managed \in BOOLEAN
  /\ daemon \in {"down", "forked", "opened", "ready", "up"}
  /\ starts \in 0..MaxStarts /\ made \in 0..MaxSegments /\ cur \in 0..made
  /\ daemon \in {"opened", "ready", "up"} => cur # 0
  /\ proc \in [Pids -> {"unborn", "daemon", "gone", "other"}]
  /\ daemon # "down" => starts # 0
  /\ ready \subseteq Segments
  /\ pid \in [Segments -> 0..MaxStarts] /\ hb \in [Segments -> BOOLEAN]
  /\ who \in [Segments -> [Slots -> Controllers \cup {Nobody}]]
  /\ tuned \in [Segments -> SUBSET Slots] /\ remade \in BOOLEAN
  /\ tpc \in Places
  /\ goal \in {"main", "launch", "retry", "start", "loop", "greet", "cli"}
  /\ mapped \in 0..MaxSegments /\ known \in 0..MaxStarts
  /\ tpc \in {"probe", "greet", "clear", "forget", "still", "snap", "cli", "clicommand"} =>
       mapped # 0
  /\ current_idx # -1 /\ tpc = "input" => mapped # 0
  /\ read_from \in 0..MaxSegments /\ beaten \in BOOLEAN /\ age \in 0..AGE
  /\ hb_is_moving \in BOOLEAN /\ shown \in BOOLEAN
  /\ snap \in [Slots -> Controllers \cup {Nobody}]
  /\ current_idx \in Slots \cup {-1}
  /\ selected \in Controllers \cup {Nobody, Stray}
  /\ events \in Nat /\ late \in Nat /\ wiped \in BOOLEAN
  /\ replaced \subseteq Slots
  /\ asked \subseteq Controllers /\ misdirected \subseteq Controllers \cup {Nobody}

\* A daemon that is up can be found: its process id stays in its segment whatever
\* clients that saw an earlier one die still do (utils.c:325-331).  Only one that
\* the unit does not manage loses it: by stop, as systemctl does not end it
\* (utils.c:220-228), or when it has taken over the segment and made the mutex anew
\* (main.c:131-132) while a client was between the comparison and the unlock.
RunningDaemonVisible ==
  daemon = "up" /\ pid[cur] # starts => ~managed /\ (wiped \/ remade)

\* The TUI shows a daemon whose process is gone, and acknowledges commands for it,
\* for two passes and those that fit into the second its heartbeat may rest
\* (ui.c:174-209).
DeadShownBriefly == late <= AGE + 2

\* A command reaches another controller than the one selected on the screen, or
\* seen by the CLI, only when the slot changed hands after the snapshot or the
\* CLI's check (display.c:143-157, ui.c:430, commands.c:684-692).
TunedWasAsked ==
  \A g \in Segments, s \in Slots :
    s \in tuned[g] /\ who[g][s] # Nobody => who[g][s] \in asked \cup misdirected

\* A daemon that runs and has its number in its segment is found by every TUI that
\* runs on, unless that one is caught in an old segment by a reused number.
RunningDaemonShown ==
  <>[](daemon = "up" /\ pid[cur] = starts /\ tpc # "off" /\ goal # "cli") =>
    \/ []<>(mapped = cur /\ shown)
    \/ <>[](mapped # 0 /\ pid[mapped] # 0 /\ proc[pid[mapped]] = "other")
=============================================================================
