--------------------------- MODULE SlotLifecycle ---------------------------
(***************************************************************************)
(* The controller slots of the DSTX daemon (src/dstx/src/daemon.c): the    *)
(* main thread (run_daemon_loop) registers controllers into slots, watches *)
(* the heartbeat of one worker thread per slot and reaps the ones that     *)
(* ended; a worker (controller_worker) owns its slot from pthread_create   *)
(* until it puts the slot's bit back into free_slots_bitmap.               *)
(*                                                                         *)
(* proc_mutex is a variable only because of one pair of steps: the         *)
(* bitmap update of a worker is a read and a write under the mutex, the    *)
(* watchdog's is a read and a write without it.  Every other critical      *)
(* section is one step that needs the mutex free.                          *)
(***************************************************************************)
EXTENDS Integers, Sequences

CONSTANTS
  MAX_SLOTS,        \* slots in shared memory (4 in dstx.h)
  Devices,          \* names of /dev/hidraw nodes of supported controllers
  NswDevices,       \* those whose controller is a Nintendo Switch Pro
  Bluetooth,        \* those connected over Bluetooth
  TIMEOUT,          \* WORKER_HEARTBEAT_TIMEOUT_US, in passes of the main loop
  WORD,             \* modulus of the unsigned subtraction now_us - hb
  MaxEvents,        \* bound: unread inotify events
  AllocFailures,    \* which of "malloc", "pthread_create" may fail
  NoDevice          \* no device: an empty dev_path, a thread never created

Slots == 0 .. MAX_SLOTS - 1

ASSUME SlotAssumption ==
  /\ MAX_SLOTS \in Nat \ {0}
  /\ TIMEOUT \in Nat \ {0}
  /\ WORD \in Nat /\ WORD > TIMEOUT + 1
  /\ MaxEvents \in Nat \ {0}

ASSUME DeviceAssumption ==
  /\ NswDevices \subseteq Devices
  /\ Bluetooth \subseteq Devices
  /\ NoDevice \notin Devices
  /\ AllocFailures \subseteq {"malloc", "pthread_create"}

VARIABLES
  \* the environment: the nodes of /dev and the inotify queue on /dev
  plugged, events,
  \* shared memory
  free_slots_bitmap,  \* the set of slots whose bit is 1
  connected, dev_path, worker_stop,
  hb_lag,             \* now_us - worker_heartbeat, NoBeat when it is 0
  proc_mutex,         \* who holds it across a step: Main, a slot, or Unlocked
  \* the main thread: pc, loop index, threads[], locals of its calls
  mpc, idx, threads, todo, batch, reg_dev, reg_slot, ret, m_bitmap,
  \* the workers: pc, the path argument, the device fd, a local of the holder
  wpc, wdev, fd, w_bitmap

env   == <<plugged, events>>
shm   == <<free_slots_bitmap, connected, dev_path, worker_stop, hb_lag, proc_mutex>>
main  == <<mpc, idx, threads, todo, batch, reg_dev, reg_slot, ret, m_bitmap>>
work  == <<wpc, wdev, fd, w_bitmap>>
vars  == <<env, shm, main, work>>

Main     == -1
Unlocked == -2
NoBeat   == -2
NoPath   == [node |-> "none", dev |-> NoDevice]
Hidraw(d) == [node |-> "hidraw", dev |-> d]
Event(d)  == [node |-> "event", dev |-> d]
Paths == {NoPath} \cup [node : {"hidraw", "event"}, dev : Devices]

(***************************************************************************)
(* The environment.  hidraw keeps a minor number in use while a file       *)
(* descriptor on it is open, so a node cannot reappear before its worker   *)
(* has closed it; a Switch Pro worker closes the hidraw node when it       *)
(* moves on to the event node.                                             *)
(***************************************************************************)
HidrawOpen(s, d) ==
  wdev[s] = d /\ fd[s] # "closed" /\ (d \in NswDevices => wpc[s] = "setup")

Plug(d) ==
  /\ d \notin plugged
  /\ \A s \in Slots : ~HidrawOpen(s, d)
  /\ Len(events) < MaxEvents
  /\ plugged' = plugged \cup {d}
  /\ events' = Append(events, d)
  /\ UNCHANGED <<shm, main, work>>

Unplug(d) ==
  /\ d \in plugged
  /\ plugged' = plugged \ {d}
  /\ fd' = [s \in Slots |-> IF wdev[s] = d /\ fd[s] = "live" THEN "dead" ELSE fd[s]]
  /\ UNCHANGED <<events, shm, main, wpc, wdev, w_bitmap>>

(***************************************************************************)
(* Main thread: start-up.  The watch on /dev exists before the scan.       *)
(***************************************************************************)
ScanOpen ==
  /\ mpc = "opendir"
  /\ todo' = plugged
  /\ mpc' = "scan"
  /\ UNCHANGED <<env, shm, idx, threads, batch, reg_dev, reg_slot, ret, m_bitmap, work>>

CallRegister(d, back) ==
  /\ reg_dev' = d
  /\ ret' = back
  /\ mpc' = "reg_open"

\* try_register_control returns; its locals end
Return ==
  /\ mpc' = ret
  /\ reg_dev' = NoDevice
  /\ reg_slot' = 0
  /\ ret' = "scan"

ScanNext(d) ==
  /\ mpc = "scan"
  /\ d \in todo
  /\ todo' = todo \ {d}
  /\ CallRegister(d, "scan")
  /\ UNCHANGED <<env, shm, idx, threads, batch, reg_slot, m_bitmap, work>>

ScanDone ==
  /\ mpc = "scan"
  /\ todo = {}
  /\ mpc' = "top"
  /\ UNCHANGED <<env, shm, idx, threads, todo, batch, reg_dev, reg_slot, ret, m_bitmap, work>>

(***************************************************************************)
(* Main thread: one pass of the loop.  LoopTop reads the clock once; the   *)
(* heartbeats written after that are later than now_us, so their lag is    *)
(* negative, and the unsigned subtraction of the test wraps.  TIMEOUT and  *)
(* the lag count in passes, and a pass may take longer than one unit.      *)
(***************************************************************************)
Later(lag, elapsed) ==
  IF lag = NoBeat THEN NoBeat
  ELSE IF lag + elapsed > TIMEOUT THEN TIMEOUT + 1 ELSE lag + elapsed

LoopTop ==
  /\ mpc = "top"
  /\ \E elapsed \in 1 .. TIMEOUT + 1 :
       hb_lag' = [s \in Slots |-> Later(hb_lag[s], elapsed)]
  /\ mpc' = "watch"
  /\ idx' = 0
  /\ UNCHANGED <<env, free_slots_bitmap, connected, dev_path, worker_stop, proc_mutex,
                 threads, todo, batch, reg_dev, reg_slot, ret, m_bitmap, work>>

Expired(s) == hb_lag[s] # NoBeat /\ hb_lag[s] % WORD > TIMEOUT

WatchdogPass ==
  /\ mpc = "watch"
  /\ idx \in Slots
  /\ ~(threads[idx] /\ Expired(idx))
  /\ idx' = idx + 1
  /\ UNCHANGED <<env, shm, mpc, threads, todo, batch, reg_dev, reg_slot, ret, m_bitmap, work>>

WatchdogStop ==
  /\ mpc = "watch"
  /\ idx \in Slots
  /\ threads[idx] /\ Expired(idx)
  /\ worker_stop' = [worker_stop EXCEPT ![idx] = TRUE]
  /\ mpc' = "wjoin"
  /\ UNCHANGED <<env, free_slots_bitmap, connected, dev_path, hb_lag, proc_mutex,
                 idx, threads, todo, batch, reg_dev, reg_slot, ret, m_bitmap, work>>

\* pthread_join returns only once the thread has ended
Join(s) ==
  /\ wpc[s] = "exited"
  /\ wpc' = [wpc EXCEPT ![s] = "none"]
  /\ threads' = [threads EXCEPT ![s] = FALSE]
  /\ wdev' = [wdev EXCEPT ![s] = NoDevice]

WatchdogJoin ==
  /\ mpc = "wjoin"
  /\ Join(idx)
  /\ worker_stop' = [worker_stop EXCEPT ![idx] = FALSE]
  /\ connected' = [connected EXCEPT ![idx] = FALSE]
  /\ m_bitmap' = free_slots_bitmap
  /\ mpc' = "wfree"
  /\ UNCHANGED <<env, free_slots_bitmap, dev_path, hb_lag, proc_mutex,
                 idx, todo, batch, reg_dev, reg_slot, ret, fd, w_bitmap>>

\* mark_slot_free outside the mutex, then the test of dev_path
WatchdogFree ==
  /\ mpc = "wfree"
  /\ free_slots_bitmap' = m_bitmap \cup {idx}
  /\ m_bitmap' = {}
  /\ idx' = idx + 1
  /\ IF dev_path[idx] # NoPath /\ dev_path[idx].dev \in plugged
     THEN CallRegister(dev_path[idx].dev, "watch")
     ELSE mpc' = "watch" /\ UNCHANGED <<reg_dev, ret>>
  /\ UNCHANGED <<env, connected, dev_path, worker_stop, hb_lag, proc_mutex,
                 threads, todo, batch, reg_slot, work>>

WatchdogDone ==
  /\ mpc = "watch"
  /\ idx = MAX_SLOTS
  /\ mpc' = "reap"
  /\ idx' = 0
  /\ UNCHANGED <<env, shm, threads, todo, batch, reg_dev, reg_slot, ret, m_bitmap, work>>

ReapPass ==
  /\ mpc = "reap"
  /\ idx \in Slots
  /\ threads[idx] => (proc_mutex = Unlocked /\ connected[idx])
  /\ idx' = idx + 1
  /\ UNCHANGED <<env, shm, mpc, threads, todo, batch, reg_dev, reg_slot, ret, m_bitmap, work>>

ReapLost ==
  /\ mpc = "reap"
  /\ idx \in Slots
  /\ threads[idx] /\ proc_mutex = Unlocked /\ ~connected[idx]
  /\ mpc' = "rjoin"
  /\ UNCHANGED <<env, shm, idx, threads, todo, batch, reg_dev, reg_slot, ret, m_bitmap, work>>

ReapJoin ==
  /\ mpc = "rjoin"
  /\ Join(idx)
  /\ idx' = idx + 1
  /\ mpc' = "reap"
  /\ UNCHANGED <<env, shm, todo, batch, reg_dev, reg_slot, ret, m_bitmap, fd, w_bitmap>>

\* poll() and read(): everything queued so far is one batch
PollHotplug ==
  /\ mpc = "reap"
  /\ idx = MAX_SLOTS
  /\ batch' = Len(events)
  /\ mpc' = "drain"
  /\ idx' = 0
  /\ UNCHANGED <<env, shm, threads, todo, reg_dev, reg_slot, ret, m_bitmap, work>>

\* HOTPLUG_MAX_RETRIES failed opens: the device of the event is gone
HotplugEvent ==
  /\ mpc = "drain"
  /\ batch > 0
  /\ events' = Tail(events)
  /\ batch' = batch - 1
  /\ IF Head(events) \in plugged
     THEN CallRegister(Head(events), "drain")
     ELSE UNCHANGED <<mpc, reg_dev, ret>>
  /\ UNCHANGED <<plugged, shm, idx, threads, todo, reg_slot, m_bitmap, work>>

HotplugDone ==
  /\ mpc = "drain"
  /\ batch = 0
  /\ mpc' = "top"
  /\ UNCHANGED <<env, shm, idx, threads, todo, batch, reg_dev, reg_slot, ret, m_bitmap, work>>

(***************************************************************************)
(* Main thread: try_register_control(reg_dev), returning to ret.           *)
(***************************************************************************)
RegOpen ==
  /\ mpc = "reg_open"
  /\ IF reg_dev \in plugged
     THEN mpc' = "reg_lock" /\ UNCHANGED <<reg_dev, reg_slot, ret>>
     ELSE Return
  /\ UNCHANGED <<env, shm, idx, threads, todo, batch, m_bitmap, work>>

\* Mutant: no anti-ghost test.
NoAntiGhost(d) == {}

\* Slots connected under this path; they are ghosts when the path is gone.
SamePath(d) == {s \in Slots : connected[s] /\ dev_path[s] = Hidraw(d)}

RegSkip ==
  /\ mpc = "reg_lock"
  /\ proc_mutex = Unlocked
  /\ SamePath(reg_dev) # {} /\ reg_dev \in plugged
  /\ Return
  /\ UNCHANGED <<env, shm, idx, threads, todo, batch, m_bitmap, work>>

\* Mutant: the slot's previous thread is not joined.
RegFindSlotNoJoin ==
  LET freed == free_slots_bitmap \cup SamePath(reg_dev)
  IN  /\ mpc = "reg_lock"
      /\ proc_mutex = Unlocked
      /\ SamePath(reg_dev) = {} \/ reg_dev \notin plugged
      /\ connected' = [s \in Slots |-> connected[s] /\ s \notin SamePath(reg_dev)]
      /\ free_slots_bitmap' = freed
      /\ \/ freed = {} /\ Return /\ UNCHANGED proc_mutex
         \/ \E s \in freed :
              /\ \A t \in freed : s <= t
              /\ reg_slot' = s
              /\ mpc' = "reg_conf" /\ proc_mutex' = Main
              /\ UNCHANGED <<reg_dev, ret>>
      /\ UNCHANGED <<env, dev_path, worker_stop, hb_lag,
                     idx, threads, todo, batch, m_bitmap, work>>

\* Ghosts are released; then find_free_slot; the mutex is kept only when no
\* thread is left to join.
RegFindSlot ==
  LET freed == free_slots_bitmap \cup SamePath(reg_dev)
  IN  /\ mpc = "reg_lock"
      /\ proc_mutex = Unlocked
      /\ SamePath(reg_dev) = {} \/ reg_dev \notin plugged
      /\ connected' = [s \in Slots |-> connected[s] /\ s \notin SamePath(reg_dev)]
      /\ free_slots_bitmap' = freed
      /\ \/ /\ freed = {}
            /\ Return
            /\ UNCHANGED proc_mutex
         \/ \E s \in freed :
              /\ \A t \in freed : s <= t
              /\ reg_slot' = s
              /\ IF threads[s]
                 THEN mpc' = "reg_join" /\ UNCHANGED proc_mutex
                 ELSE mpc' = "reg_conf" /\ proc_mutex' = Main
              /\ UNCHANGED <<reg_dev, ret>>
      /\ UNCHANGED <<env, dev_path, worker_stop, hb_lag,
                     idx, threads, todo, batch, m_bitmap, work>>

RegJoin ==
  /\ mpc = "reg_join"
  /\ Join(reg_slot)
  /\ mpc' = "reg_relock"
  /\ UNCHANGED <<env, shm, idx, todo, batch, reg_dev, reg_slot, ret, m_bitmap, fd, w_bitmap>>

RegRelock ==
  /\ mpc = "reg_relock"
  /\ proc_mutex = Unlocked
  /\ proc_mutex' = Main
  /\ mpc' = "reg_conf"
  /\ UNCHANGED <<env, free_slots_bitmap, connected, dev_path, worker_stop, hb_lag,
                 idx, threads, todo, batch, reg_dev, reg_slot, ret, m_bitmap, work>>

\* Mutant: mark_slot_busy is forgotten.
RegConfigureNotBusy ==
  /\ mpc = "reg_conf"
  /\ dev_path' = [dev_path EXCEPT ![reg_slot] = Hidraw(reg_dev)]
  /\ connected' = [connected EXCEPT ![reg_slot] = TRUE]
  /\ hb_lag' = [hb_lag EXCEPT ![reg_slot] = NoBeat]
  /\ worker_stop' = [worker_stop EXCEPT ![reg_slot] = FALSE]
  /\ proc_mutex' = Unlocked
  /\ mpc' = "reg_create"
  /\ UNCHANGED <<env, free_slots_bitmap, idx, threads, todo, batch,
                 reg_dev, reg_slot, ret, m_bitmap, work>>

\* memset of the slot, the fields of this connection, mark_slot_busy, unlock
RegConfigure ==
  /\ mpc = "reg_conf"
  /\ dev_path' = [dev_path EXCEPT ![reg_slot] = Hidraw(reg_dev)]
  /\ connected' = [connected EXCEPT ![reg_slot] = TRUE]
  /\ hb_lag' = [hb_lag EXCEPT ![reg_slot] = NoBeat]
  /\ worker_stop' = [worker_stop EXCEPT ![reg_slot] = FALSE]
  /\ free_slots_bitmap' = free_slots_bitmap \ {reg_slot}
  /\ proc_mutex' = Unlocked
  /\ mpc' = "reg_create"
  /\ UNCHANGED <<env, idx, threads, todo, batch, reg_dev, reg_slot, ret, m_bitmap, work>>

RegCreate ==
  /\ mpc = "reg_create"
  /\ threads' = [threads EXCEPT ![reg_slot] = TRUE]
  /\ wpc' = [wpc EXCEPT ![reg_slot] = "open"]
  /\ wdev' = [wdev EXCEPT ![reg_slot] = reg_dev]
  /\ Return
  /\ UNCHANGED <<env, shm, idx, todo, batch, m_bitmap, fd, w_bitmap>>

\* Mutant: the failed creation does not give the slot back.
RegCreateFailsKeepsBit ==
  /\ mpc = "reg_create"
  /\ "pthread_create" \in AllocFailures
  /\ proc_mutex = Unlocked
  /\ connected' = [connected EXCEPT ![reg_slot] = FALSE]
  /\ Return
  /\ UNCHANGED <<env, free_slots_bitmap, dev_path, worker_stop, hb_lag, proc_mutex,
                 idx, threads, todo, batch, m_bitmap, work>>

RegCreateFails ==
  /\ mpc = "reg_create"
  /\ "pthread_create" \in AllocFailures
  /\ proc_mutex = Unlocked
  /\ connected' = [connected EXCEPT ![reg_slot] = FALSE]
  /\ free_slots_bitmap' = free_slots_bitmap \cup {reg_slot}
  /\ Return
  /\ UNCHANGED <<env, dev_path, worker_stop, hb_lag, proc_mutex,
                 idx, threads, todo, batch, m_bitmap, work>>

\* the thread arguments could not be allocated: nothing is undone
RegMallocFails ==
  /\ mpc = "reg_create"
  /\ "malloc" \in AllocFailures
  /\ Return
  /\ UNCHANGED <<env, shm, idx, threads, todo, batch, m_bitmap, work>>

(***************************************************************************)
(* Worker threads: controller_worker for slot s.                           *)
(***************************************************************************)
At(s, from, to) == wpc[s] = from /\ wpc' = [wpc EXCEPT ![s] = to]

OpenDevice(s) ==
  /\ At(s, "open", IF wdev[s] \in plugged THEN "setup" ELSE "fail")
  /\ fd' = [fd EXCEPT ![s] = IF wdev[s] \in plugged THEN "live" ELSE "closed"]
  /\ UNCHANGED <<env, shm, main, wdev, w_bitmap>>

\* Bluetooth handshake, metadata, input nodes; a Switch Pro moves to its
\* event node and rewrites dev_path
SetUp(s) ==
  /\ At(s, "setup", "beat")
  /\ wdev[s] \in NswDevices \cup Bluetooth => fd[s] = "live"
  /\ dev_path' = IF wdev[s] \in NswDevices
                 THEN [dev_path EXCEPT ![s] = Event(wdev[s])] ELSE dev_path
  /\ UNCHANGED <<env, free_slots_bitmap, connected, worker_stop, hb_lag, proc_mutex,
                 main, wdev, fd, w_bitmap>>

\* no handshake, no input node, nsw_init or the event node failed
SetUpFails(s) ==
  /\ At(s, "setup", "fail")
  /\ wdev[s] \in NswDevices \cup Bluetooth
  /\ fd' = [fd EXCEPT ![s] = "closed"]
  /\ UNCHANGED <<env, shm, main, wdev, w_bitmap>>

Beat(s) ==
  /\ At(s, "beat", "check")
  /\ hb_lag' = [hb_lag EXCEPT ![s] = -1]
  /\ UNCHANGED <<env, free_slots_bitmap, connected, dev_path, worker_stop, proc_mutex,
                 main, wdev, fd, w_bitmap>>

\* Mutant: the stop flag is not looked at.
CheckStopIgnored(s) ==
  /\ proc_mutex = Unlocked
  /\ At(s, "check", IF connected[s] THEN "body" ELSE "cleanup")
  /\ UNCHANGED <<env, shm, main, wdev, fd, w_bitmap>>

CheckStop(s) ==
  /\ \/ worker_stop[s] /\ At(s, "check", "cleanup")
     \/ /\ ~worker_stop[s]
        /\ proc_mutex = Unlocked
        /\ At(s, "check", IF connected[s] THEN "body" ELSE "cleanup")
  /\ UNCHANGED <<env, shm, main, wdev, fd, w_bitmap>>

\* Mutant: a failed read is taken for an empty one.
LoopBodyIgnoresError(s) ==
  /\ At(s, "body", "beat")
  /\ UNCHANGED <<env, shm, main, wdev, fd, w_bitmap>>

\* virtual device, effects, poll, pipelines; a dead descriptor ends the loop
LoopBody(s) ==
  /\ At(s, "body", IF fd[s] = "live" THEN "beat" ELSE "cleanup")
  /\ UNCHANGED <<env, shm, main, wdev, fd, w_bitmap>>

CloseDevice(s) ==
  /\ At(s, "cleanup", "release")
  /\ fd' = [fd EXCEPT ![s] = "closed"]
  /\ UNCHANGED <<env, shm, main, wdev, w_bitmap>>

\* Mutant: a worker leaves the slot shown as connected.
ReleaseLockConnected(s) ==
  /\ wpc[s] \in {"fail", "release"}
  /\ proc_mutex = Unlocked
  /\ proc_mutex' = s
  /\ dev_path' = IF wpc[s] = "release" THEN [dev_path EXCEPT ![s] = NoPath] ELSE dev_path
  /\ w_bitmap' = free_slots_bitmap
  /\ wpc' = [wpc EXCEPT ![s] = "free"]
  /\ UNCHANGED <<env, free_slots_bitmap, connected, worker_stop, hb_lag, main, wdev, fd>>

\* The failure exits leave dev_path alone, the cleanup clears it.
ReleaseLock(s) ==
  /\ wpc[s] \in {"fail", "release"}
  /\ proc_mutex = Unlocked
  /\ proc_mutex' = s
  /\ connected' = [connected EXCEPT ![s] = FALSE]
  /\ dev_path' = IF wpc[s] = "release" THEN [dev_path EXCEPT ![s] = NoPath] ELSE dev_path
  /\ w_bitmap' = free_slots_bitmap
  /\ wpc' = [wpc EXCEPT ![s] = "free"]
  /\ UNCHANGED <<env, free_slots_bitmap, worker_stop, hb_lag, main, wdev, fd>>

ReleaseFree(s) ==
  /\ At(s, "free", "exited")
  /\ free_slots_bitmap' = w_bitmap \cup {s}
  /\ w_bitmap' = {}
  /\ proc_mutex' = Unlocked
  /\ UNCHANGED <<env, connected, dev_path, worker_stop, hb_lag, main, wdev, fd>>

(***************************************************************************)
(* The specification.                                                      *)
(***************************************************************************)
Init ==
  /\ plugged \in SUBSET Devices
  /\ events = <<>>
  /\ free_slots_bitmap = Slots
  /\ connected = [s \in Slots |-> FALSE]
  /\ dev_path = [s \in Slots |-> NoPath]
  /\ worker_stop = [s \in Slots |-> FALSE]
  /\ hb_lag = [s \in Slots |-> NoBeat]
  /\ proc_mutex = Unlocked
  /\ mpc = "opendir"
  /\ idx = 0
  /\ threads = [s \in Slots |-> FALSE]
  /\ todo = {}
  /\ batch = 0
  /\ reg_dev = NoDevice
  /\ reg_slot = 0
  /\ ret = "scan"
  /\ m_bitmap = {}
  /\ wpc = [s \in Slots |-> "none"]
  /\ wdev = [s \in Slots |-> NoDevice]
  /\ fd = [s \in Slots |-> "closed"]
  /\ w_bitmap = {}

Register ==
  \/ RegOpen
  \/ RegSkip
  \/ RegFindSlot
  \/ RegJoin
  \/ RegRelock
  \/ RegConfigure
  \/ RegCreate
  \/ RegCreateFails
  \/ RegMallocFails

MainThread ==
  \/ ScanOpen
  \/ \E d \in Devices : ScanNext(d)
  \/ ScanDone
  \/ LoopTop
  \/ WatchdogPass
  \/ WatchdogStop
  \/ WatchdogJoin
  \/ WatchdogFree
  \/ WatchdogDone
  \/ ReapPass
  \/ ReapLost
  \/ ReapJoin
  \/ PollHotplug
  \/ HotplugEvent
  \/ HotplugDone
  \/ Register

Worker(s) ==
  \/ OpenDevice(s)
  \/ SetUp(s)
  \/ SetUpFails(s)
  \/ Beat(s)
  \/ CheckStop(s)
  \/ LoopBody(s)
  \/ CloseDevice(s)
  \/ ReleaseLock(s)
  \/ ReleaseFree(s)

Environment == \E d \in Devices : Plug(d) \/ Unplug(d)

Next ==
  \/ Environment
  \/ MainThread
  \/ \E s \in Slots : Worker(s)

Spec == Init /\ [][Next]_vars

\* Threads are scheduled; a thread that waits for proc_mutex gets it in the
\* end (every holder leaves after a bounded critical section and sleeps in
\* poll() before the next); controllers need not be plugged or unplugged.
FairSpec ==
  /\ Spec
  /\ WF_vars(MainThread)
  /\ \A s \in Slots : WF_vars(Worker(s)) /\ SF_vars(CheckStop(s)) /\ SF_vars(ReleaseLock(s))

MainPc == {"opendir", "scan", "top", "watch", "wjoin", "wfree", "reap", "rjoin", "drain",
           "reg_open", "reg_lock", "reg_join", "reg_relock", "reg_conf", "reg_create"}
WorkerPc == {"none", "open", "setup", "beat", "check", "body", "cleanup",
             "fail", "release", "free", "exited"}

(***************************************************************************)
(* Properties.                                                             *)
(***************************************************************************)

\* Every variable of the daemon's slot management keeps its type.
TypeOK ==
  /\ plugged \subseteq Devices
  /\ events \in Seq(Devices) /\ Len(events) <= MaxEvents
  /\ free_slots_bitmap \subseteq Slots
  /\ connected \in [Slots -> BOOLEAN]
  /\ dev_path \in [Slots -> Paths]
  /\ worker_stop \in [Slots -> BOOLEAN]
  /\ hb_lag \in [Slots -> NoBeat .. TIMEOUT + 1]
  /\ proc_mutex \in Slots \cup {Main, Unlocked}
  /\ mpc \in MainPc
  /\ idx \in 0 .. MAX_SLOTS
  /\ threads \in [Slots -> BOOLEAN]
  /\ todo \subseteq Devices
  /\ batch \in 0 .. MaxEvents /\ batch <= Len(events)
  /\ reg_dev \in Devices \cup {NoDevice}
  /\ reg_slot \in Slots
  /\ ret \in {"scan", "watch", "drain"}
  /\ m_bitmap \subseteq Slots
  /\ wpc \in [Slots -> WorkerPc]
  /\ wdev \in [Slots -> Devices \cup {NoDevice}]
  /\ fd \in [Slots -> {"closed", "live", "dead"}]
  /\ w_bitmap \subseteq Slots

\* Registration zeroes and refills a slot (memset, daemon.c:185) and starts a
\* thread on it only when the slot's previous thread has been joined: two
\* workers never share a slot.
RegisteredSlotHasNoWorker ==
  mpc \in {"reg_conf", "reg_create"} => ~threads[reg_slot] /\ wpc[reg_slot] = "none"

\* A connected slot's bit is never free, so find_free_slot cannot hand out a
\* slot in use, whatever the unlocked and the locked bitmap updates overlap.
ConnectedSlotIsReserved ==
  \A s \in Slots : connected[s] => s \notin free_slots_bitmap

\* A worker that has not reached its loop has neither an old heartbeat nor an
\* old stop flag: a Bluetooth handshake longer than the timeout is not
\* mistaken for a stuck worker.
FreshWorkerIsClean ==
  \A s \in Slots : wpc[s] \in {"open", "setup"} => hb_lag[s] = NoBeat /\ ~worker_stop[s]

\* The anti-ghost test keeps a controller read through its hidraw node out of
\* a second slot, although a device plugged between the watch and the scan is
\* offered twice.
HidrawRegisteredOnce ==
  \A s, t \in Slots :
    s # t /\ connected[s] /\ connected[t] /\ dev_path[s].node = "hidraw"
      => dev_path[s] # dev_path[t]

\* A slot that is neither free nor in anybody's hands.
InUse(s) == wpc[s] \notin {"none", "exited"} \/ (mpc = "reg_create" /\ reg_slot = s)
Leaked(s) == s \notin free_slots_bitmap /\ ~InUse(s)

\* The daemon loses a slot in exactly three places: the watchdog's unlocked
\* mark_slot_free (daemon.c:1102) writes back a copy that misses a bit set
\* since; a worker's mark_slot_free writes back a copy that misses the bit the
\* watchdog set since, of a slot nobody runs on; and a failed malloc
\* (daemon.c:240).  No other exit of a registration or of a worker forgets
\* the bit.
SlotLostOnlyInKnownPlaces ==
  [][\A s \in Slots : ~Leaked(s) /\ Leaked(s)' =>
       \/ mpc = "wfree" /\ mpc' # "wfree" /\ s \notin m_bitmap
       \/ proc_mutex \in Slots /\ s \notin w_bitmap /\ ~threads[s]
       \/ mpc = "reg_create" /\ connected'[s]]_vars

\* The main thread always comes back to the top of its loop: no join waits
\* for a worker that waits for the main thread or for proc_mutex.
MainLoopTurns == []<>(mpc = "top")

\* A worker whose controller is gone leaves, and its slot stops being shown
\* as connected.
LostControllerIsReleased ==
  \A s \in Slots : fd[s] = "dead" ~> ~connected[s]

\* What docs/dstx.txt:98 and :326 say of the watchdog: the device of a worker
\* it stopped is registered again when it is still present.
WatchdogRecreatesDevice ==
  [][mpc = "wfree" /\ mpc' # "wfree" /\ plugged = Devices => mpc' = "reg_open"]_vars

\* What docs/dstx.txt:97 and :326 say: only a worker whose heartbeat is older
\* than the timeout is stopped.
OnlyStaleWorkersAreStopped ==
  [][\A s \in Slots : worker_stop'[s] /\ ~worker_stop[s] => hb_lag[s] > TIMEOUT]_vars

\* What the bitmap is for, and docs/dstx.txt:363 demands of its updates: no
\* slot is lost.
NoSlotLeaked == \A s \in Slots : ~Leaked(s)

\* What the anti-ghost comment (daemon.c:137) says, for every controller: a
\* device that is connected and accessible is not registered again.
ControllerRegisteredOnce ==
  \A s, t \in Slots :
    s # t /\ connected[s] /\ connected[t] => dev_path[s].dev # dev_path[t].dev

\* The abstract promise: a pool that gives slots to controllers.
Pool == INSTANCE SlotPool WITH
          Controllers <- Devices, None <- NoDevice,
          holder <- [s \in Slots |-> IF connected[s] THEN dev_path[s].dev ELSE NoDevice]

\* The daemon's registration and release implement the slot pool, for the
\* controllers that keep their hidraw path.
ImplementsSlotPool == Pool!Spec
=============================================================================
