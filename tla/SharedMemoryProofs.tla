------------------------- MODULE SharedMemoryProofs -------------------------
(***************************************************************************)
(* Proofs about what the processes share: the robust mutex (ShmMutex), for *)
(* any set of clients, and the attachment of a client to the segment       *)
(* (ServiceClient), for any number of slots, controllers, segments and     *)
(* starts.  The two specifications have no variable in common.             *)
(***************************************************************************)
EXTENDS ShmMutex, ServiceClient, WellFoundedInduction, TLAPS

(***************************************************************************)
(* The mutex.                                                              *)
(***************************************************************************)

\* Whoever is inside owns the mutex, unless a fault let it in.
InsideOwns ==
  \A p \in Processes : pc[p] = "in" => owner = p \/ mstate = "notrecoverable" \/ reset

\* Only a lock that ignored EOWNERDEAD holds a mutex that is not consistent.
HolderMadeConsistent ==
  owner # NoOwner /\ mstate = "ownerdead" => owner \in PlainClients

SpoiltIsFree == mstate = "notrecoverable" => owner = NoOwner

MutexInv == MutexTypeOK /\ InsideOwns /\ HolderMadeConsistent /\ SpoiltIsFree

\* The inductive invariant holds when the daemon has initialised the mutex.
LEMMA MutexInvInit == MutexInit => MutexInv
  BY MutexAssumption
  DEF MutexInit, MutexInv, MutexTypeOK, InsideOwns, HolderMadeConsistent, SpoiltIsFree,
      Processes, Clients

\* Every lock, unlock, death and start keeps the inductive invariant.
LEMMA MutexInvStep == MutexInv /\ [MutexNext]_mutex_vars => MutexInv'
<1> SUFFICES ASSUME MutexInv, [MutexNext]_mutex_vars
             PROVE  MutexInv'
  OBVIOUS
<1> USE MutexAssumption
    DEF MutexInv, MutexTypeOK, InsideOwns, HolderMadeConsistent, SpoiltIsFree, Goto,
        Processes, Clients
<1>1. ASSUME NEW p \in Processes, Want(p)
      PROVE  MutexInv'
  BY <1>1 DEF Want
<1>2. ASSUME NEW p \in Processes, Lock(p)
      PROVE  MutexInv'
  BY <1>2 DEF Lock
<1>3. ASSUME NEW p \in Processes, LockFails(p)
      PROVE  MutexInv'
  BY <1>3 DEF LockFails
<1>4. ASSUME NEW p \in Processes, Unlock(p)
      PROVE  MutexInv'
  BY <1>4 DEF Unlock
<1>5. ASSUME NEW p \in Processes, Kill(p)
      PROVE  MutexInv'
  BY <1>5 DEF Kill
<1>6. ASSUME NEW c \in Clients, Restart(c)
      PROVE  MutexInv'
  BY <1>6 DEF Restart
<1>7. CASE Boot
  BY <1>7 DEF Boot
<1>8. ASSUME NEW c \in SafeClients, ClearPid(c)
      PROVE  MutexInv'
  BY <1>8 DEF ClearPid
<1>9. CASE ReuseDaemonPid
  BY <1>9 DEF ReuseDaemonPid
<1>10. CASE UNCHANGED mutex_vars
  BY <1>10 DEF mutex_vars
<1>11. QED
  BY <1>1, <1>2, <1>3, <1>4, <1>5, <1>6, <1>7, <1>8, <1>9, <1>10 DEF MutexNext

\* The inductive invariant holds for ever.
LEMMA MutexInvariant == MutexSpec => []MutexInv
  BY MutexInvInit, MutexInvStep, PTL DEF MutexSpec

\* The mutex keeps its type, and records as its owner only a live process that
\* is between its lock and its unlock.
THEOREM MutexTypeCorrect == MutexSpec => []MutexTypeOK
<1>1. MutexInv => MutexTypeOK
  BY DEF MutexInv
<1>2. QED
  BY <1>1, MutexInvariant, PTL

\* With any number of clients killed anywhere, two processes are inside
\* together only after an ignored EOWNERDEAD or a mutex initialised in use.
THEOREM ExclusionKept == MutexSpec => []ExclusionUnlessFault
<1>1. MutexInv => ExclusionUnlessFault
  BY DEF MutexInv, InsideOwns, ExclusionUnlessFault, MutualExclusion
<1>2. QED
  BY <1>1, MutexInvariant, PTL

\* Without a client that ignores EOWNERDEAD (without a D-Bus bridge) the mutex
\* is never spoilt: safe_shm_lock suffices.
THEOREM SpoiltByPlainOnly == MutexSpec => OnlyPlainUnlockSpoils
<1>1. ASSUME MutexInv, MutexNext,
             mstate' = "notrecoverable", mstate # "notrecoverable"
      PROVE  owner \in PlainClients
  <2>1. PICK p \in Processes : Unlock(p)
    BY <1>1 DEF MutexNext, Want, Lock, LockFails, Kill, Restart, ClearPid, ReuseDaemonPid, Boot, MutexInv,
                MutexTypeOK, Clients, Processes
  <2>2. QED
    BY <1>1, <2>1, MutexAssumption
    DEF Unlock, MutexInv, HolderMadeConsistent, Processes, Clients
<1>2. MutexInv /\ [MutexNext]_mutex_vars =>
        [mstate' = "notrecoverable" /\ mstate # "notrecoverable"
           => owner \in PlainClients]_mutex_vars
  BY <1>1
<1>3. QED
  BY <1>2, MutexInvariant, PTL DEF MutexSpec, OnlyPlainUnlockSpoils

Unspoilt == mstate # "notrecoverable" /\ pc[Daemon] # "dead" /\ ~reset

\* Where every process takes the mutex with safe_shm_lock and the daemon is not
\* killed, any number of clients may die anywhere and exclusion still holds.
THEOREM SafeLockExcludes ==
  ASSUME PlainClients = {}, DaemonDies = FALSE
  PROVE  MutexSpec => []MutualExclusion
<1>1. MutexInit => Unspoilt
  BY DEF MutexInit, Unspoilt, Processes
<1>2. MutexInv /\ Unspoilt /\ [MutexNext]_mutex_vars => Unspoilt'
  BY MutexAssumption
  DEF MutexInv, MutexTypeOK, HolderMadeConsistent, Unspoilt, MutexNext, mutex_vars, Want, Lock,
      LockFails, Unlock, Kill, Restart, ClearPid, ReuseDaemonPid, Boot, Goto, Processes, Clients
<1>3. MutexInv /\ Unspoilt => MutualExclusion
  BY DEF MutexInv, InsideOwns, Unspoilt, MutualExclusion
<1>4. QED
  BY <1>1, <1>2, <1>3, MutexInvariant, PTL DEF MutexSpec

-----------------------------------------------------------------------------
(***************************************************************************)
(* The client.  SystemInv says whose number a segment can hold: only the   *)
(* segment with the name holds that of the running daemon.  AttachInv says *)
(* what a mapping and a number read before a wait still mean when they are *)
(* used; ClearInv that a client which clears a number still finds the one  *)
(* it has compared, unless the mutex it holds was made anew, and that only *)
(* a daemon run by hand does that, for the unit gives each daemon a        *)
(* segment nobody has mapped.  LoopInv says what the TUI's loop has done   *)
(* before it takes its snapshot.  SelectionInv ties the index of a command *)
(* to the snapshot it was chosen in.  LateInv bounds the snapshots that    *)
(* show a daemon after its end: the heartbeat of its segment rests, and    *)
(* grows old (Aging), or the client looks for another daemon, which there  *)
(* is not: Publish resets the count.                                       *)
(***************************************************************************)
Reachable == daemon = "up" /\ pid[cur] = starts

SystemInv ==
  /\ daemon = "forked" => made < MaxSegments
  /\ managed /\ daemon = "forked" => cur = 0
  /\ \A g \in Segments : pid[g] <= starts /\ (g > made => pid[g] = 0)
  /\ daemon # "down" => proc[starts] = "daemon"
  /\ \A n \in Pids : proc[n] = "daemon" => n = starts /\ daemon # "down"
  /\ \A g \in Segments : starts # 0 /\ pid[g] = starts /\ daemon # "down" => daemon = "up" /\ g = cur
  /\ daemon = "up" => pid[cur] \in {0, starts}

AttachInv ==
  /\ goal = "greet" => tpc \in {"clear", "forget", "still"}
  /\ known <= starts /\ mapped <= made
  /\ ~managed /\ mapped # 0 => mapped = cur
  /\ tpc = "wipe" /\ managed /\ mapped # 0 => daemon = "down" \/ cur # mapped
  /\ tpc \in {"clear", "forget", "still"} => known # 0 /\ proc[known] # "daemon"

ClearInv ==
  /\ \A g \in ready : g <= made
  /\ managed /\ daemon = "opened" => cur \notin ready /\ mapped # cur
  /\ managed => \A g \in Segments : pid[g] # 0 => hb[g]
  /\ remade => ~managed
  /\ tpc = "forget" /\ ~remade => pid[mapped] = known
  /\ tpc = "still" /\ ~remade => pid[mapped] = 0

LoopInv ==
  /\ tpc \in {"greet", "top", "look", "snap", "input", "wipe"} => goal = "loop"
  /\ tpc \in {"cli", "clicommand"} => goal = "cli"
  /\ tpc = "snap" => read_from = mapped

SelectionInv ==
  /\ tpc = "input" /\ current_idx # -1 =>
       selected = snap[current_idx] /\ snap[current_idx] # Nobody
  /\ tpc = "clicommand" => current_idx # -1 /\ snap[current_idx] # Nobody
  /\ tpc \in {"input", "clicommand"} /\ current_idx # -1 /\ current_idx \notin replaced =>
       who[mapped][current_idx] \in {snap[current_idx], Nobody}

Aging ==
  /\ read_from = mapped
  /\ proc[pid[mapped]] # "daemon"
  /\ beaten => late <= 1 /\ tpc # "snap"
  /\ hb_is_moving /\ tpc # "snap" => late <= age + 2
  /\ hb_is_moving /\ tpc = "snap" => late <= age + 1

Lingering ==
  /\ goal \in {"loop", "start"} /\ tpc # "greet"
  /\ tpc \in {"connect", "probe"} \/ (tpc # "still" /\ (mapped = 0 \/ pid[mapped] = 0)) =>
       ~Reachable
  /\ tpc = "still" => pid[mapped] = 0
  /\ managed => goal # "start" \/ tpc \notin {"clear", "forget", "still"}
  /\ tpc = "probe" => pid[mapped] \in {0, known} /\ known # 0 /\ proc[known] # "daemon"
  /\ tpc = "wipe" /\ managed => daemon # "up"
  /\ tpc # "probe" /\ mapped # 0 /\ pid[mapped] # 0 => proc[pid[mapped]] = "other" \/ Aging

LateInv ==
  /\ late <= AGE + 2
  /\ late > 0 /\ tpc # "off" => Lingering

ClientInv ==
  /\ TypeOK /\ SystemInv /\ AttachInv /\ ClearInv /\ LoopInv /\ SelectionInv /\ LateInv
  /\ RunningDaemonVisible /\ TunedWasAsked

\* The conjuncts of TypeOK, by what they are about.
SystemType ==
  /\ managed \in BOOLEAN
  /\ daemon \in {"down", "forked", "opened", "ready", "up"}
  /\ starts \in 0..MaxStarts /\ made \in 0..MaxSegments /\ cur \in 0..made
  /\ daemon \in {"opened", "ready", "up"} => cur # 0
  /\ proc \in [Pids -> {"unborn", "daemon", "gone", "other"}]
  /\ daemon # "down" => starts # 0

SegmentType ==
  /\ ready \subseteq Segments
  /\ pid \in [Segments -> 0..MaxStarts] /\ hb \in [Segments -> BOOLEAN]
  /\ who \in [Segments -> [Slots -> Controllers \cup {Nobody}]]
  /\ tuned \in [Segments -> SUBSET Slots] /\ remade \in BOOLEAN

PlaceType ==
  /\ tpc \in Places
  /\ goal \in {"main", "launch", "retry", "start", "loop", "greet", "cli"}
  /\ mapped \in 0..MaxSegments /\ known \in 0..MaxStarts
  /\ tpc \in {"probe", "greet", "clear", "forget", "still", "snap", "cli", "clicommand"} =>
       mapped # 0
  /\ current_idx # -1 /\ tpc = "input" => mapped # 0
  /\ current_idx \in Slots \cup {-1}

BeatType ==
  read_from \in 0..MaxSegments /\ beaten \in BOOLEAN /\ age \in 0..AGE /\ hb_is_moving \in BOOLEAN

ViewType ==
  /\ shown \in BOOLEAN
  /\ snap \in [Slots -> Controllers \cup {Nobody}]
  /\ selected \in Controllers \cup {Nobody, Stray}

HistoryType ==
  /\ events \in Nat /\ late \in Nat /\ wiped \in BOOLEAN
  /\ replaced \subseteq Slots
  /\ asked \subseteq Controllers /\ misdirected \subseteq Controllers \cup {Nobody}

LEMMA TypeParts ==
  /\ TypeOK <=> SystemType /\ SegmentType /\ PlaceType /\ BeatType /\ ViewType /\ HistoryType
  /\ TypeOK' <=> /\ SystemType' /\ SegmentType' /\ PlaceType' /\ BeatType' /\ ViewType'
                 /\ HistoryType'
BY DEF TypeOK, SystemType, SegmentType, PlaceType, BeatType, ViewType, HistoryType

Purposes == {"main", "launch", "retry", "start", "loop", "cli"}

USE DEF shm, system, beat, view, history, client, vars, SystemRests

LEMMA ClientBasics ==
  /\ Empty \in [Slots -> Controllers \cup {Nobody}]
  /\ -1 \notin Slots /\ 0 \notin Segments /\ 0 \notin Pids
  /\ \A g \in 0..MaxSegments : g # 0 => g \in Segments
  /\ \A n \in 0..MaxStarts : n # 0 => n \in Pids
BY ClientAssumption DEF Empty, Slots, Segments, Pids

\* Where try_connect_shm may return to.
LEMMA ReturnPlaces ==
  ASSUME NEW ok \in BOOLEAN, goal \in Purposes, Return(ok)
  PROVE  /\ tpc' \in {"greet", "start", "connect", "off", "top", "look", "cli"}
         /\ goal' \in Purposes
         /\ tpc' \in {"greet", "cli"} => ok
         /\ tpc' \in {"greet", "top", "look"} => goal' = "loop"
         /\ tpc' = "cli" => goal' = "cli"
         /\ goal \in {"loop", "start"} => /\ goal' \in {"loop", "start"}
                                         /\ tpc' \in {"connect", "top", "look"}
<1>1. PICK next \in After(ok) : tpc' = next[1] /\ goal' = next[2]
  BY DEF Return
<1>2. CASE goal = "main"
  BY <1>1, <1>2 DEF After, Purposes
<1>3. CASE goal = "launch"
  BY <1>1, <1>3 DEF After, Purposes
<1>4. CASE goal = "retry"
  BY <1>1, <1>4 DEF After, Purposes
<1>5. CASE goal = "start"
  BY <1>1, <1>5 DEF After, Purposes
<1>6. CASE goal = "loop"
  BY <1>1, <1>6 DEF After, Purposes
<1>7. CASE goal = "cli"
  BY <1>1, <1>7 DEF After, Purposes
<1> QED BY <1>2, <1>3, <1>4, <1>5, <1>6, <1>7 DEF Purposes

\* A set of slots that is not empty has a first one.
LEMMA FirstExists ==
  ASSUME NEW S \in SUBSET Slots, S # {}
  PROVE  (CHOOSE s \in S : \A t \in S : s <= t) \in S
<1>1. S \subseteq Nat
  BY DEF Slots
<1>2. PICK x \in S : \A y \in S : ~(<<y, x>> \in OpToRel(<, Nat))
  BY <1>1, NatLessThanWellFounded, WFMin, Zenon
<1>3. \A y \in S : ~(y < x)
  BY <1>1, <1>2 DEF OpToRel
<1>4. \A y \in S : x <= y
  BY <1>1, <1>3
<1> QED BY <1>4

\* The index and the controller that a snapshot selects.
LEMMA SelectionOfSnapshot ==
  ASSUME TypeOK, mapped # 0, update_and_get_slot_idx
  PROVE  /\ current_idx' \in Slots \cup {-1}
         /\ selected' \in Controllers \cup {Nobody, Stray}
         /\ current_idx' # -1 =>
              selected' = who[mapped][current_idx'] /\ who[mapped][current_idx'] # Nobody
<1> DEFINE there == {s \in Slots : who[mapped][s] # Nobody}
           same  == {s \in there : who[mapped][s] = selected}
           first == CHOOSE s \in there : \A t \in there : s <= t
           kept  == CHOOSE s \in same : \A t \in same : s <= t
<1>1. mapped \in Segments /\ selected \in Controllers \cup {Nobody, Stray}
      /\ \A s \in Slots : who[mapped][s] \in Controllers \cup {Nobody}
  BY ClientBasics DEF TypeOK
<1>2. CASE same # {}
  <2>1. kept \in same
    BY <1>2, FirstExists
  <2>2. current_idx' = kept /\ selected' = selected
    BY <1>2 DEF update_and_get_slot_idx
  <2> QED BY <1>1, <2>1, <2>2
<1>3. CASE same = {} /\ there # {}
  <2>1. first \in there
    BY <1>3, FirstExists
  <2>2. current_idx' = first /\ selected' = who[mapped][first]
    BY <1>3 DEF update_and_get_slot_idx
  <2> QED BY <1>1, <2>1, <2>2
<1>4. CASE there = {}
  <2>1. current_idx' = -1 /\ selected' = selected
    BY <1>4 DEF update_and_get_slot_idx
  <2> QED BY <1>1, <2>1
<1> QED BY <1>2, <1>3, <1>4

LEMMA InitClient == Init => ClientInv
<1> SUFFICES ASSUME Init PROVE ClientInv
  OBVIOUS
<1> USE ClientAssumption, ClientBasics
<1>1. TypeOK
  <2>1. SystemType
    BY DEF Init, SystemType
  <2>2. SegmentType
    <3>1. remade \in BOOLEAN
      BY DEF Init
    <3> QED BY <3>1 DEF Init, SegmentType
  <2>3. PlaceType
    BY DEF Init, PlaceType, Places
  <2>4. BeatType
    <3>1. beaten \in BOOLEAN /\ hb_is_moving \in BOOLEAN
      BY DEF Init
    <3> QED BY <3>1 DEF Init, BeatType
  <2>5. ViewType
    BY DEF Init, ViewType
  <2>6. HistoryType
    BY DEF Init, HistoryType
  <2> QED BY <2>1, <2>2, <2>3, <2>4, <2>5, <2>6, TypeParts
<1>2. SystemInv
  BY DEF Init, SystemInv, Segments
<1>3. AttachInv /\ ClearInv /\ LoopInv /\ SelectionInv /\ RunningDaemonVisible /\ LateInv
  BY ClientAssumption
  DEF Init, AttachInv, ClearInv, LoopInv, SelectionInv, RunningDaemonVisible, LateInv
<1>4. TunedWasAsked
  BY DEF Init, TunedWasAsked
<1> QED BY <1>1, <1>2, <1>3, <1>4 DEF ClientInv

(***************************************************************************)
(* Types.                                                                  *)
(***************************************************************************)

LEMMA DaemonType ==
  ASSUME ClientInv,
         \/ StartDaemon \/ DaemonStep \/ Beat \/ Die
         \/ \E n \in Pids : ReusePid(n)
         \/ \E s \in Slots : (\E c \in Controllers : Plug(s, c)) \/ Unplug(s)
  PROVE  TypeOK'
<1> DEFINE Parts == /\ SystemType /\ SegmentType /\ PlaceType /\ BeatType /\ ViewType
                    /\ HistoryType
<1> SUFFICES ASSUME Parts PROVE Parts'
  BY TypeParts DEF ClientInv
<1> USE ClientAssumption, ClientBasics
    DEF SystemType, SegmentType, PlaceType, BeatType, ViewType, HistoryType
<1>1. CASE StartDaemon BY <1>1 DEF StartDaemon, Fork, Pids
<1>2. CASE OpenSegment BY <1>2 DEF OpenSegment, SystemInv, ClientInv
<1>3. CASE InitSegment
  <2>1. cur \in Segments
    BY <1>3 DEF InitSegment
  <2>2. SegmentType'
    <3>1. CASE UNCHANGED shm
      BY <3>1
    <3>2. CASE /\ ready' = ready \cup {cur}
               /\ pid' = [pid EXCEPT ![cur] = 0] /\ hb' = [hb EXCEPT ![cur] = FALSE]
               /\ who' = [who EXCEPT ![cur] = Empty] /\ tuned' = [tuned EXCEPT ![cur] = {}]
               /\ remade' = (remade \/ (Inside /\ mapped = cur))
      <4>1. pid' \in [Segments -> 0..MaxStarts]
        BY <2>1, <3>2
      <4>2. hb' \in [Segments -> BOOLEAN] /\ remade' \in BOOLEAN
        BY <2>1, <3>2
      <4> QED BY <2>1, <3>2, <4>1, <4>2
    <3> QED BY <1>3, <3>1, <3>2 DEF InitSegment
  <2>3. SystemType' /\ PlaceType' /\ BeatType' /\ ViewType' /\ HistoryType'
    BY <1>3 DEF InitSegment
  <2> QED BY <2>2, <2>3
<1>4. CASE Publish
  <2>1. cur \in Segments
    BY <1>4 DEF Publish
  <2>2. SegmentType'
    <3>1. pid' \in [Segments -> 0..MaxStarts] /\ hb' \in [Segments -> BOOLEAN]
      BY <1>4, <2>1 DEF Publish
    <3>2. remade' \in BOOLEAN
      BY <1>4 DEF Publish
    <3> QED BY <1>4, <2>1, <3>1, <3>2 DEF Publish
  <2>3. SystemType' /\ PlaceType' /\ BeatType' /\ ViewType'
    BY <1>4 DEF Publish
  <2>4. HistoryType'
    BY <1>4 DEF Publish
  <2> QED BY <2>2, <2>3, <2>4
<1>5. CASE Beat
  <2>1. cur \in Segments
    BY <1>5 DEF Beat
  <2> QED BY <1>5, <2>1 DEF Beat
<1>6. CASE Die BY <1>6 DEF Die, Dies, Event
<1>7. ASSUME NEW n \in Pids, ReusePid(n) PROVE Parts'
  BY <1>7 DEF ReusePid, Event
<1>8. ASSUME NEW s \in Slots, NEW c \in Controllers, Plug(s, c) PROVE Parts'
  <2>1. cur \in Segments
    BY <1>8 DEF Plug
  <2> QED BY <1>8, <2>1 DEF Plug, Event
<1>9. ASSUME NEW s \in Slots, Unplug(s) PROVE Parts'
  <2>1. cur \in Segments
    BY <1>9 DEF Unplug
  <2> QED BY <1>9, <2>1 DEF Unplug, Event
<1> QED BY <1>1, <1>2, <1>3, <1>4, <1>5, <1>6, <1>7, <1>8, <1>9 DEF DaemonStep

LEMMA AttachType ==
  ASSUME ClientInv,
         \/ Connect \/ Probe \/ StartService \/ Wipe \/ StopService
         \/ \E purpose \in {"main", "cli"} : Launch(purpose)
  PROVE  TypeOK'
<1> DEFINE Parts == /\ SystemType /\ SegmentType /\ PlaceType /\ BeatType /\ ViewType
                    /\ HistoryType
<1> SUFFICES ASSUME Parts PROVE Parts'
  BY TypeParts DEF ClientInv
<1> USE ClientAssumption, ClientBasics
    DEF SystemType, SegmentType, PlaceType, BeatType, ViewType, HistoryType, Places
<1>1. CASE Connect
  <2>1. goal \in Purposes
    BY <1>1 DEF Connect, AttachInv, ClientInv, Purposes
  <2>2. SystemType' /\ SegmentType' /\ BeatType' /\ ViewType' /\ HistoryType'
    BY <1>1 DEF Connect
  <2>3. mapped' \in 0..MaxSegments /\ known' \in 0..MaxStarts /\ current_idx' = current_idx
    <3>1. cur \in 0..MaxSegments /\ (cur # 0 => pid[cur] \in 0..MaxStarts)
      OBVIOUS
    <3>2. current_idx' = current_idx /\ mapped' \in {0, cur} /\ (known' = 0 \/ (cur # 0 /\ known' = pid[cur]))
      BY <1>1 DEF Connect
    <3> QED BY <3>1, <3>2
  <2>4. CASE Return(FALSE)
    <3>1. tpc' \in {"start", "connect", "off", "top", "look"} /\ goal' \in Purposes
      BY <2>1, <2>4, ReturnPlaces
    <3> QED BY <2>2, <2>3, <3>1 DEF Purposes
  <2>5. CASE tpc' = "probe" /\ goal' = goal /\ cur # 0 /\ mapped' = cur
    BY <2>2, <2>3, <2>5
  <2> QED BY <1>1, <2>4, <2>5 DEF Connect
<1>2. CASE Probe
  <2>1. goal \in Purposes
    BY <1>2 DEF Probe, AttachInv, ClientInv, Purposes
  <2>2. CASE mapped' = mapped /\ Return(TRUE)
    <3>1. tpc' \in {"greet", "start", "connect", "off", "top", "look", "cli"} /\ goal' \in Purposes
      BY <2>1, <2>2, ReturnPlaces
    <3> QED BY <1>2, <2>2, <3>1 DEF Probe, Purposes
  <2>3. CASE mapped' = 0 /\ Return(FALSE)
    <3>1. tpc' \in {"start", "connect", "off", "top", "look"} /\ goal' \in Purposes
      BY <2>1, <2>3, ReturnPlaces
    <3> QED BY <1>2, <2>3, <3>1 DEF Probe, Purposes
  <2> QED BY <1>2, <2>2, <2>3 DEF Probe
<1>3. CASE StartService
  <2>1. goal \in Purposes
    BY <1>3 DEF StartService, AttachInv, ClientInv, Purposes
  <2>2. CASE mapped # 0 /\ Return(TRUE) /\ UNCHANGED <<system, known>>
    <3>1. tpc' \in {"greet", "start", "connect", "off", "top", "look", "cli"} /\ goal' \in Purposes
      BY <2>1, <2>2, ReturnPlaces
    <3> QED BY <1>3, <2>2, <3>1 DEF StartService, Purposes
  <2>3. CASE tpc' = "connect" /\ goal' = goal /\ UNCHANGED <<system, known>>
    BY <1>3, <2>3 DEF StartService
  <2>4. CASE tpc' = "connect" /\ goal' = goal /\ known' = known /\ Fork
    BY <1>3, <2>4 DEF StartService, Fork, Pids
  <2>5. CASE tpc' = "clear" /\ goal' = goal /\ mapped # 0 /\ known' = pid[mapped] /\ UNCHANGED system
    BY <1>3, <2>5 DEF StartService
  <2> QED BY <1>3, <2>2, <2>3, <2>4, <2>5 DEF StartService
<1>4. CASE Wipe
  <2>1. SystemType' /\ PlaceType' /\ ViewType'
    BY <1>4 DEF Wipe
  <2>2. CASE mapped # 0
    <3>1. mapped \in Segments
      BY <2>2
    <3>2. SegmentType'
      <4>1. pid' \in [Segments -> 0..MaxStarts]
        BY <1>4, <2>2, <3>1 DEF Wipe
      <4>2. hb' \in [Segments -> BOOLEAN]
        BY <1>4, <2>2, <3>1 DEF Wipe
      <4> QED BY <1>4, <3>1, <2>2, <4>1, <4>2 DEF Wipe
    <3>3. BeatType'
      BY <1>4, <2>2 DEF Wipe
    <3>4. HistoryType'
      <4>1. wiped' \in BOOLEAN
        BY <1>4, <2>2 DEF Wipe
      <4> QED BY <1>4, <4>1 DEF Wipe
    <3> QED BY <2>1, <3>2, <3>3, <3>4
  <2>3. CASE mapped = 0
    BY <1>4, <2>1, <2>3 DEF Wipe
  <2> QED BY <2>2, <2>3
<1>5. CASE StopService BY <1>5 DEF StopService, Dies, Event
<1>6. ASSUME NEW purpose \in {"main", "cli"}, Launch(purpose) PROVE Parts'
  <2>1. SystemType' /\ SegmentType' /\ PlaceType'
    BY <1>6 DEF Launch
  <2>2. BeatType'
    <3>1. beaten' \in BOOLEAN /\ hb_is_moving' \in BOOLEAN
      BY <1>6 DEF Launch
    <3> QED BY <1>6, <3>1 DEF Launch
  <2>3. ViewType'
    BY <1>6 DEF Launch
  <2>4. HistoryType'
    BY <1>6 DEF Launch, Event
  <2> QED BY <2>1, <2>2, <2>3, <2>4
<1> QED BY <1>1, <1>2, <1>3, <1>4, <1>5, <1>6

LEMMA LoopType ==
  ASSUME ClientInv,
         \/ Greet \/ Reconnect \/ Proceed \/ Look \/ Clear \/ Forget \/ Still \/ Snap
         \/ Idle \/ CliCommand \/ (\E s \in Slots : CliSlot(s))
         \/ Command \/ AskStart \/ Exit \/ (\E step \in {1, -1} : Arrow(step))
  PROVE  TypeOK'
<1> DEFINE Parts == /\ SystemType /\ SegmentType /\ PlaceType /\ BeatType /\ ViewType
                    /\ HistoryType
<1> SUFFICES ASSUME Parts PROVE Parts'
  BY TypeParts DEF ClientInv
<1> USE ClientAssumption, ClientBasics
    DEF SystemType, SegmentType, PlaceType, BeatType, ViewType, HistoryType, Places
<1>1. CASE Greet BY <1>1 DEF Greet
<1>2. CASE Reconnect BY <1>2 DEF Reconnect
<1>3. CASE Proceed BY <1>3 DEF Proceed
<1>4. CASE Look
  <2>1. SystemType' /\ SegmentType'
    BY <1>4 DEF Look
  <2>2. ASSUME Offline PROVE ViewType' /\ HistoryType'
    <3>1. shown' \in BOOLEAN
      BY <2>2 DEF Offline
    <3> QED BY <1>4, <2>2, <3>1 DEF Offline, Look
  <2>3. CASE mapped = 0
    <3>1. PlaceType' /\ BeatType'
      BY <1>4, <2>3 DEF Look, Offline
    <3> QED BY <1>4, <2>1, <2>2, <2>3, <3>1 DEF Look
  <2>4. CASE mapped # 0
    <3>1. BeatType'
      <4>1. PICK changed \in BOOLEAN, within \in BOOLEAN :
              /\ read_from' = mapped
              /\ beaten' = FALSE
              /\ age' = IF changed THEN 0 ELSE IF age < AGE THEN age + 1 ELSE AGE
              /\ hb_is_moving' = (changed \/ (hb_is_moving /\ age < AGE /\ within))
        BY <1>4, <2>4 DEF Look
      <4>2. beaten' \in BOOLEAN /\ hb_is_moving' \in BOOLEAN
        BY <4>1
      <4>3. age' \in 0..AGE
        BY <4>1
      <4> QED BY <4>1, <4>2, <4>3
    <3>2. known' = pid[mapped] /\ known' \in 0..MaxStarts
      BY <1>4, <2>4 DEF Look
    <3>3. CASE tpc' \in {"snap", "clear"} /\ UNCHANGED <<goal, mapped, view, history, events>>
      BY <2>1, <2>4, <3>1, <3>2, <3>3
    <3>4. CASE Offline
      <4>1. PlaceType'
        BY <3>2, <3>4 DEF Offline
      <4> QED BY <2>1, <2>2, <3>1, <3>4, <4>1
    <3> QED BY <1>4, <2>4, <3>3, <3>4 DEF Look
  <2> QED BY <2>3, <2>4
<1>5. CASE Clear \/ Still
  <2>1. mapped \in Segments
    BY <1>5 DEF Clear, Still
  <2>2. SystemType' /\ BeatType'
    BY <1>5 DEF Clear, Still
  <2>3. SegmentType'
    <3>1. remade' \in BOOLEAN /\ hb' \in [Segments -> BOOLEAN]
      BY <1>5, <2>1 DEF Clear, Still
    <3> QED BY <1>5, <3>1 DEF Clear, Still
  <2>4. UNCHANGED events /\ (Cleared \/ (tpc' = "forget" /\ UNCHANGED <<goal, mapped, view, history>>))
    BY <1>5 DEF Clear, Still
  <2>5. PlaceType'
    BY <1>5, <2>1, <2>4 DEF Clear, Still, Cleared, Offline
  <2>6. ViewType' /\ HistoryType'
    <3>1. CASE Offline
      <4>1. shown' \in BOOLEAN
        BY <3>1 DEF Offline
      <4> QED BY <2>4, <3>1, <4>1 DEF Offline
    <3>2. CASE UNCHANGED <<view, history, events>>
      BY <3>2
    <3> QED BY <2>4, <3>1, <3>2 DEF Cleared
  <2> QED BY <2>2, <2>3, <2>5, <2>6
<1>14. CASE Forget
  <2>1. mapped \in Segments
    BY <1>14 DEF Forget
  <2>2. pid' \in [Segments -> 0..MaxStarts]
    BY <1>14, <2>1 DEF Forget
  <2> QED BY <1>14, <2>1, <2>2 DEF Forget
<1>6. CASE Snap
  <2>1. mapped \in Segments
    BY <1>6 DEF Snap
  <2>2. current_idx' \in Slots \cup {-1} /\ selected' \in Controllers \cup {Nobody, Stray}
    <3>1. CASE update_and_get_slot_idx
      BY <2>1, <3>1, SelectionOfSnapshot DEF ClientInv
    <3>2. CASE current_idx' = -1 /\ UNCHANGED selected
      BY <3>2
    <3> QED BY <1>6, <3>1, <3>2 DEF Snap
  <2>3. shown' \in BOOLEAN
    BY <1>6 DEF Snap
  <2>4. late' \in Nat
    BY <1>6 DEF Snap
  <2>5. SystemType' /\ SegmentType' /\ BeatType' /\ PlaceType'
    BY <1>6, <2>1, <2>2 DEF Snap
  <2> QED BY <1>6, <2>1, <2>2, <2>3, <2>4, <2>5 DEF Snap
<1>7. CASE Idle BY <1>7 DEF Idle
<1>8. CASE CliCommand BY <1>8 DEF CliCommand, Tune, SelectionInv, ClientInv
<1>9. ASSUME NEW s \in Slots, CliSlot(s) PROVE Parts'
  BY <1>9 DEF CliSlot
<1>10. CASE Command BY <1>10 DEF Command, Tune, SelectionInv, Event, ClientInv
<1>11. CASE AskStart BY <1>11 DEF AskStart, Event
<1>12. CASE Exit
  <2>1. shown' \in BOOLEAN
    BY <1>12 DEF Exit
  <2> QED BY <1>12, <2>1 DEF Exit, Event
<1>13. ASSUME NEW step \in {1, -1}, Arrow(step) PROVE Parts'
  <2>1. selected' \in Controllers \cup {Nobody, Stray}
    BY <1>13 DEF Arrow
  <2> QED BY <1>13, <2>1 DEF Arrow, Event
<1> QED BY <1>1, <1>2, <1>3, <1>4, <1>5, <1>6, <1>7, <1>8, <1>9, <1>10, <1>11, <1>12, <1>13,
         <1>14

(***************************************************************************)
(* Whose number a segment holds.                                           *)
(***************************************************************************)
LEMMA TypeFacts ==
  ASSUME TypeOK
  PROVE  /\ daemon \in {"opened", "ready", "up"} => cur \in Segments
         /\ daemon # "down" => starts \in Pids
         /\ starts \in Nat /\ made \in Nat /\ cur \in Nat /\ mapped \in Nat /\ known \in Nat
         /\ \A g \in Segments : pid[g] \in Nat /\ (pid[g] # 0 => pid[g] \in Pids)
         /\ mapped # 0 => mapped \in Segments
         /\ cur # 0 => cur \in Segments
         /\ known # 0 => known \in Pids
BY ClientAssumption, ClientBasics DEF TypeOK

LEMMA ForkKeepsSystem ==
  ASSUME TypeOK, SystemInv, Fork, UNCHANGED pid
  PROVE  SystemInv'
<1> USE ClientAssumption, TypeFacts DEF SystemInv, Fork
<1>1. starts + 1 \in Pids /\ starts' = starts + 1
  BY DEF Pids
<1>2. \A n \in Pids : proc'[n] = IF n = starts + 1 THEN "daemon" ELSE proc[n]
  BY DEF TypeOK
<1>3. \A g \in Segments : pid'[g] <= starts
  OBVIOUS
<1> QED BY <1>1, <1>2, <1>3

LEMMA DiesKeepsSystem ==
  ASSUME TypeOK, SystemInv, Dies, UNCHANGED pid
  PROVE  SystemInv'
<1>1. \A n \in Pids : proc'[n] = IF n = starts THEN "gone" ELSE proc[n]
  BY DEF TypeOK, Dies
<1> QED BY <1>1, TypeFacts DEF SystemInv, Dies

LEMMA ClearKeepsSystem ==
  ASSUME TypeOK, SystemInv, NEW g \in Segments, pid' = [pid EXCEPT ![g] = 0], UNCHANGED system
  PROVE  SystemInv'
<1>1. \A f \in Segments : pid'[f] = IF f = g THEN 0 ELSE pid[f]
  BY DEF TypeOK
<1> QED BY <1>1, TypeFacts DEF SystemInv

\* The number of a running process is in the segment with the name, or nowhere.
LEMMA NumberOfDaemon ==
  ASSUME TypeOK, SystemInv, NEW g \in Segments, pid[g] # 0, proc[pid[g]] = "daemon"
  PROVE  pid[g] = starts /\ daemon = "up" /\ g = cur
BY TypeFacts DEF SystemInv

SystemFrame == UNCHANGED <<managed, daemon, starts, made, cur, proc, pid>>

\* The steps that leave the daemon and the numbers in the segments alone.
LEMMA SystemRestsOtherwise ==
  ASSUME Beat \/ (\E s \in Slots : (\E c \in Controllers : Plug(s, c)) \/ Unplug(s))
         \/ (\E purpose \in {"main", "cli"} : Launch(purpose))
         \/ Connect \/ Probe \/ Greet \/ Reconnect \/ Proceed \/ Look \/ Clear \/ Still \/ Snap
         \/ Idle \/ CliCommand \/ (\E s \in Slots : CliSlot(s)) \/ Command \/ AskStart \/ Exit
         \/ (\E step \in {1, -1} : Arrow(step)) \/ UNCHANGED vars
  PROVE  SystemFrame
BY DEF SystemFrame, Beat, Plug, Unplug, Launch, Connect, Probe, Greet, Reconnect, Proceed, Look,
       Clear, Still, Snap, Idle, CliCommand, CliSlot, Command, Tune, AskStart, Exit, Arrow

LEMMA SystemStep ==
  ASSUME ClientInv, [Next]_vars PROVE SystemInv'
<1> USE TypeFacts DEF ClientInv
<1>1. CASE StartDaemon \/ (StartService /\ Fork)
  BY <1>1, ForkKeepsSystem DEF StartDaemon, StartService
<1>2. CASE Die \/ (StopService /\ Dies)
  BY <1>2, DiesKeepsSystem DEF Die, StopService
<1>3. CASE OpenSegment
  BY <1>3, ClientAssumption, ClientBasics DEF OpenSegment, SystemInv, TypeOK, Segments
<1>4. CASE InitSegment
  <2>1. PICK g \in Segments : g = cur
    BY <1>4 DEF InitSegment
  <2>2. daemon = "opened" /\ daemon' = "ready" /\ UNCHANGED <<managed, starts, made, cur, proc>>
    BY <1>4 DEF InitSegment
  <2>3. CASE pid' = [pid EXCEPT ![g] = 0]
    <3>1. \A f \in Segments : pid'[f] = IF f = g THEN 0 ELSE pid[f]
      BY <2>3 DEF TypeOK
    <3> QED BY <2>2, <3>1 DEF SystemInv
  <2>4. CASE pid' = pid
    BY <2>2, <2>4 DEF SystemInv
  <2> QED BY <1>4, <2>1, <2>3, <2>4 DEF InitSegment
<1>5. CASE Publish
  <2>1. cur \in Segments
    BY <1>5 DEF Publish
  <2>2. \A f \in Segments : pid'[f] = IF f = cur THEN starts ELSE pid[f]
    BY <1>5, <2>1 DEF Publish, TypeOK
  <2>3. daemon = "ready" /\ daemon' = "up" /\ UNCHANGED <<managed, starts, made, cur, proc>>
    BY <1>5 DEF Publish
  <2>4. cur <= made
    BY DEF TypeOK
  <2> QED BY <2>1, <2>2, <2>3, <2>4 DEF SystemInv
<1>6. ASSUME NEW n \in Pids, ReusePid(n) PROVE SystemInv'
  <2>1. \A m \in Pids : proc'[m] = IF m = n THEN "other" ELSE proc[m]
    BY <1>6 DEF ReusePid, TypeOK
  <2>2. proc[n] = "gone" /\ UNCHANGED <<managed, daemon, starts, made, cur, pid>>
    BY <1>6 DEF ReusePid
  <2> QED BY <2>1, <2>2 DEF SystemInv
<1>7. CASE Wipe
  <2>1. CASE mapped # 0
    <3>1. PICK g \in Segments : g = mapped
      BY <2>1
    <3>2. pid' = [pid EXCEPT ![g] = 0] /\ UNCHANGED system
      BY <1>7, <2>1, <3>1 DEF Wipe
    <3> QED BY <3>2, ClearKeepsSystem
  <2>2. CASE mapped = 0
    BY <1>7, <2>2 DEF Wipe, SystemInv
  <2> QED BY <2>1, <2>2
<1>8. CASE Forget
  <2>1. PICK g \in Segments : g = mapped
    BY <1>8 DEF Forget, TypeOK
  <2>2. pid' = [pid EXCEPT ![g] = 0] /\ UNCHANGED system
    BY <1>8, <2>1 DEF Forget
  <2> QED BY <2>2, ClearKeepsSystem
<1>9. CASE (StartService \/ StopService) /\ UNCHANGED system
  BY <1>9 DEF StartService, StopService, SystemInv
<1>10. CASE SystemFrame
  BY <1>10 DEF SystemFrame, SystemInv
<1>11. ASSUME StartService PROVE Fork \/ UNCHANGED system
  BY <1>11 DEF StartService
<1>12. ASSUME StopService PROVE Dies \/ UNCHANGED system
  BY <1>12 DEF StopService
<1> QED
  BY <1>1, <1>2, <1>3, <1>4, <1>5, <1>6, <1>7, <1>8, <1>9, <1>10, <1>11, <1>12,
     SystemRestsOtherwise
  DEF Next, DaemonStep, ClientStep

(***************************************************************************)
(* What a mapping and a remembered number mean.                            *)
(***************************************************************************)
LEMMA ForkKeepsAttach ==
  ASSUME ClientInv, Fork, UNCHANGED <<tpc, goal, mapped, known>> \/
         (tpc' = "connect" /\ goal # "greet" /\ UNCHANGED <<goal, mapped, known>>)
  PROVE  AttachInv'
<1> USE TypeFacts DEF ClientInv, AttachInv, Fork
<1>1. known # 0 => proc'[known] = proc[known]
  BY DEF TypeOK
<1> QED BY <1>1

LEMMA DiesKeepsAttach ==
  ASSUME ClientInv, Dies, UNCHANGED <<mapped, known, goal>>,
         tpc' = tpc \/ (goal # "greet" /\ tpc' = "wipe")
  PROVE  AttachInv'
<1> USE TypeFacts DEF ClientInv, AttachInv, Dies
<1>1. known # 0 /\ proc[known] # "daemon" => proc'[known] # "daemon"
  BY DEF TypeOK
<1> QED BY <1>1

LEMMA DaemonAttach ==
  ASSUME ClientInv, StartDaemon \/ DaemonStep \/ Beat \/ Die
                    \/ (\E n \in Pids : ReusePid(n))
                    \/ \E s \in Slots : (\E c \in Controllers : Plug(s, c)) \/ Unplug(s)
  PROVE  AttachInv'
<1> USE TypeFacts DEF ClientInv
<1>1. CASE StartDaemon BY <1>1, ForkKeepsAttach DEF StartDaemon
<1>2. CASE OpenSegment BY <1>2 DEF OpenSegment, AttachInv, SystemInv
<1>3. CASE InitSegment BY <1>3 DEF InitSegment, AttachInv
<1>4. CASE Publish BY <1>4 DEF Publish, AttachInv
<1>5. CASE Die BY <1>5, DiesKeepsAttach DEF Die
<1>6. ASSUME NEW n \in Pids, ReusePid(n) PROVE AttachInv'
  <2>1. known # 0 /\ proc[known] # "daemon" => proc'[known] # "daemon"
    BY <1>6 DEF ReusePid, TypeOK
  <2> QED BY <1>6, <2>1 DEF ReusePid, AttachInv
<1>7. CASE Beat \/ \E s \in Slots : (\E c \in Controllers : Plug(s, c)) \/ Unplug(s)
  <2>1. UNCHANGED <<tpc, goal, mapped, known, system>>
    BY <1>7 DEF Beat, Plug, Unplug
  <2> QED BY <2>1 DEF AttachInv
<1> QED BY <1>1, <1>2, <1>3, <1>4, <1>5, <1>6, <1>7 DEF DaemonStep

LEMMA ClientAttach ==
  ASSUME ClientInv, ClientStep \/ StopService \/ Command \/ AskStart \/ Exit
                    \/ (\E purpose \in {"main", "cli"} : Launch(purpose))
                    \/ \E step \in {1, -1} : Arrow(step)
  PROVE  AttachInv'
<1> USE TypeFacts DEF ClientInv
<1>1. CASE Connect
  <2>1. goal \in Purposes
    BY <1>1 DEF Connect, AttachInv, Purposes, TypeOK
  <2>2. cur <= made /\ (cur # 0 => pid[cur] <= starts)
    BY DEF TypeOK, SystemInv
  <2>3. UNCHANGED system
    BY <1>1 DEF Connect
  <2>4. mapped' \in {0, cur} /\ (known' = 0 \/ (cur # 0 /\ known' = pid[cur]))
    BY <1>1 DEF Connect
  <2>5. tpc' \in {"probe", "start", "connect", "off", "top", "look"} /\ goal' \in Purposes
    BY <1>1, <2>1, ReturnPlaces DEF Connect
  <2> QED BY <2>2, <2>3, <2>4, <2>5 DEF AttachInv, Purposes
<1>2. CASE Probe
  <2>1. goal \in Purposes
    BY <1>2 DEF Probe, AttachInv, Purposes, TypeOK
  <2>2. tpc' \in {"greet", "start", "connect", "off", "top", "look", "cli"} /\ goal' \in Purposes
    BY <1>2, <2>1, ReturnPlaces DEF Probe
  <2>3. UNCHANGED system /\ known' = known /\ mapped' \in {0, mapped}
    BY <1>2 DEF Probe
  <2> QED BY <2>2, <2>3 DEF AttachInv, Purposes
<1>3. CASE StartService
  <2>1. goal \in Purposes
    BY <1>3 DEF StartService, AttachInv, Purposes, TypeOK
  <2>2. UNCHANGED mapped
    BY <1>3 DEF StartService
  <2>3. CASE Return(TRUE) /\ UNCHANGED <<system, known>>
    <3>1. tpc' \in {"greet", "start", "connect", "off", "top", "look", "cli"} /\ goal' \in Purposes
      BY <2>1, <2>3, ReturnPlaces
    <3> QED BY <2>2, <2>3, <3>1 DEF AttachInv, Purposes
  <2>4. CASE tpc' = "connect" /\ goal' = goal /\ UNCHANGED <<system, known>>
    BY <2>1, <2>2, <2>4 DEF AttachInv, Purposes
  <2>5. CASE tpc' = "connect" /\ goal' = goal /\ known' = known /\ Fork
    BY <2>1, <2>2, <2>5, ForkKeepsAttach DEF Purposes
  <2>6. CASE tpc' = "clear" /\ goal' = goal /\ mapped # 0 /\ pid[mapped] # 0 /\ ~Alive(pid[mapped])
             /\ known' = pid[mapped] /\ UNCHANGED system
    <3>1. pid[mapped] <= starts
      BY <2>6 DEF SystemInv
    <3> QED BY <2>1, <2>2, <2>6, <3>1 DEF AttachInv, Alive, Purposes
  <2> QED BY <1>3, <2>3, <2>4, <2>5, <2>6 DEF StartService
<1>4. CASE Wipe
  BY <1>4 DEF Wipe, AttachInv
<1>5. CASE StopService
  <2>1. goal = "loop" /\ tpc' = "wipe" /\ UNCHANGED <<goal, mapped, known>>
    BY <1>5 DEF StopService
  <2>2. CASE Dies
    BY <2>1, <2>2, DiesKeepsAttach
  <2>3. CASE UNCHANGED system /\ (managed => daemon = "down")
    BY <2>1, <2>3 DEF AttachInv
  <2> QED BY <1>5, <2>2, <2>3 DEF StopService
<1>6. ASSUME NEW purpose \in {"main", "cli"}, Launch(purpose) PROVE AttachInv'
  BY <1>6 DEF Launch, AttachInv
<1>7. CASE Greet
  <2>1. mapped \in Segments /\ pid[mapped] <= starts
    BY <1>7 DEF Greet, SystemInv, TypeOK
  <2> QED BY <1>7, <2>1 DEF Greet, AttachInv, Alive
<1>8. CASE Look
  <2>1. CASE mapped = 0
    BY <1>8, <2>1 DEF Look, Offline, AttachInv
  <2>2. CASE mapped # 0
    <3>1. UNCHANGED system /\ known' = pid[mapped] /\ pid[mapped] <= starts /\ tpc = "look"
      BY <1>8, <2>2 DEF Look, SystemInv
    <3>2. CASE tpc' = "snap" /\ UNCHANGED <<goal, mapped>>
      BY <3>1, <3>2 DEF AttachInv
    <3>3. CASE tpc' = "clear" /\ pid[mapped] # 0 /\ ~Alive(pid[mapped]) /\ UNCHANGED <<goal, mapped>>
      BY <3>1, <3>3 DEF AttachInv, Alive
    <3>4. CASE Offline
      BY <3>1, <3>4 DEF Offline, AttachInv
    <3> QED BY <1>8, <2>2, <3>2, <3>3, <3>4 DEF Look
  <2> QED BY <2>1, <2>2
<1>9. CASE Clear \/ Still \/ Forget
  BY <1>9 DEF Clear, Still, Forget, Cleared, Offline, AttachInv
<1>10. ASSUME NEW s \in Slots, CliSlot(s) PROVE AttachInv'
  BY <1>10 DEF CliSlot, AttachInv, SystemInv, Alive, TypeOK
<1>11. CASE Reconnect \/ Proceed \/ Snap \/ Idle \/ CliCommand \/ Command \/ AskStart \/ Exit
            \/ \E step \in {1, -1} : Arrow(step)
  <2>1. UNCHANGED <<system, mapped, known>> /\ tpc \notin {"clear", "forget", "still"}
        /\ tpc' \in {"connect", "look", "input", "top", "off", "start"}
        /\ (goal' = goal \/ goal' \in {"main", "start"})
    BY <1>11 DEF Reconnect, Proceed, Snap, Idle, CliCommand, Command, Tune, AskStart, Exit, Arrow
  <2> QED BY <2>1 DEF AttachInv
<1> QED
  BY <1>1, <1>2, <1>3, <1>4, <1>5, <1>6, <1>7, <1>8, <1>9, <1>10, <1>11 DEF ClientStep

(***************************************************************************)
(* What a client that clears a number finds.                               *)
(***************************************************************************)

\* A new daemon has a segment of its own, or one without a manager.
LEMMA DaemonClear ==
  ASSUME ClientInv,
         \/ OpenSegment \/ InitSegment \/ Publish \/ Beat
         \/ (StartDaemon \/ StartService) /\ Fork
         \/ (Die \/ StopService) /\ Dies
  PROVE  ClearInv'
<1> USE TypeFacts DEF ClientInv
<1>1. CASE OpenSegment
  <2>1. cur # 0 => ~managed
    BY <1>1 DEF OpenSegment, SystemInv
  <2>2. UNCHANGED <<shm, managed, tpc, mapped, known>>
    BY <1>1 DEF OpenSegment
  <2>3. \A g \in ready : g \in Nat /\ g <= made
    BY DEF ClearInv, TypeOK, Segments
  <2>4. CASE cur = 0
    <3>1. made' = made + 1 /\ cur' = made + 1
      BY <1>1, <2>4 DEF OpenSegment
    <3>2. cur' \notin ready /\ mapped # cur' /\ \A g \in ready : g <= made'
      BY <2>3, <3>1 DEF AttachInv
    <3> QED BY <2>2, <3>2 DEF ClearInv
  <2>5. CASE cur # 0
    <3>1. UNCHANGED made
      BY <1>1, <2>5 DEF OpenSegment
    <3> QED BY <2>1, <2>2, <2>5, <3>1 DEF ClearInv
  <2> QED BY <2>4, <2>5
<1>2. CASE InitSegment
  <2>1. cur \in Segments /\ cur <= made /\ daemon = "opened" /\ daemon' = "ready"
        /\ UNCHANGED <<managed, made, cur, tpc, mapped, known>>
    BY <1>2 DEF InitSegment, TypeOK
  <2>2. CASE UNCHANGED shm
    BY <2>1, <2>2 DEF ClearInv
  <2>3. CASE ready' = ready \cup {cur} /\ pid' = [pid EXCEPT ![cur] = 0]
             /\ hb' = [hb EXCEPT ![cur] = FALSE] /\ remade' = (remade \/ (Inside /\ mapped = cur))
    <3>1. \A g \in Segments : pid'[g] = IF g = cur THEN 0 ELSE pid[g]
      BY <2>1, <2>3 DEF TypeOK
    <3>6. \A g \in Segments : g # cur => hb'[g] = hb[g]
      BY <2>1, <2>3 DEF TypeOK
    <3>2. \A g \in ready' : g <= made'
      BY <2>1, <2>3 DEF ClearInv
    <3>3. managed' => \A g \in Segments : pid'[g] # 0 => hb'[g]
      BY <2>1, <3>1, <3>6 DEF ClearInv
    <3>4. remade' => ~managed'
      BY <2>1, <2>3 DEF ClearInv
    <3>5. /\ tpc' = "forget" /\ ~remade' => pid'[mapped'] = known'
          /\ tpc' = "still" /\ ~remade' => pid'[mapped'] = 0
      <4>1. Inside /\ ~remade' => ~remade /\ mapped # cur /\ mapped \in Segments
        BY <2>3 DEF TypeOK, Inside
      <4> QED BY <2>1, <3>1, <4>1 DEF ClearInv, Inside
    <3> QED BY <2>1, <3>2, <3>3, <3>4, <3>5 DEF ClearInv
  <2> QED BY <1>2, <2>2, <2>3 DEF InitSegment
<1>3. CASE Publish
  <2>1. cur \in Segments /\ daemon' = "up" /\ (Inside /\ mapped = cur => remade)
        /\ UNCHANGED <<managed, made, cur, ready, tpc, mapped, known>>
        /\ remade' = (remade /\ Inside)
    BY <1>3 DEF Publish
  <2>2. \A g \in Segments : g # cur => pid'[g] = pid[g] /\ hb'[g] = hb[g]
    BY <1>3, <2>1 DEF Publish, TypeOK
  <2>3. hb'[cur]
    BY <1>3, <2>1 DEF Publish, TypeOK
  <2>4. Inside /\ ~remade' => ~remade /\ mapped # cur /\ mapped \in Segments
    BY <2>1 DEF TypeOK, Inside
  <2>5. managed' => \A g \in Segments : pid'[g] # 0 => hb'[g]
    BY <2>1, <2>2, <2>3 DEF ClearInv
  <2>6. /\ tpc' = "forget" /\ ~remade' => pid'[mapped'] = known'
        /\ tpc' = "still" /\ ~remade' => pid'[mapped'] = 0
    BY <2>1, <2>2, <2>4 DEF ClearInv, Inside
  <2> QED BY <2>1, <2>5, <2>6 DEF ClearInv
<1>4. CASE Beat
  <2>1. \A g \in Segments : hb[g] => hb'[g]
    BY <1>4 DEF Beat, TypeOK
  <2> QED BY <1>4, <2>1 DEF Beat, ClearInv
<1>5. CASE (StartDaemon \/ StartService) /\ Fork
  <2>1. UNCHANGED <<shm, made, managed, mapped>> /\ daemon' = "forked"
        /\ (UNCHANGED <<tpc, known>> \/ tpc' = "connect")
    BY <1>5 DEF StartDaemon, StartService, Fork
  <2> QED BY <2>1 DEF ClearInv
<1>6. CASE (Die \/ StopService) /\ Dies
  <2>1. UNCHANGED <<shm, made, managed, mapped, known>> /\ daemon' = "down" /\ tpc' \in {tpc, "wipe"}
    BY <1>6 DEF Die, StopService, Dies
  <2> QED BY <2>1 DEF ClearInv
<1> QED BY <1>1, <1>2, <1>3, <1>4, <1>5, <1>6

LEMMA ClearStep ==
  ASSUME ClientInv, [Next]_vars PROVE ClearInv'
<1> USE TypeFacts DEF ClientInv
<1>1. CASE OpenSegment \/ InitSegment \/ Publish \/ Beat \/ StartDaemon \/ Die
  BY <1>1, DaemonClear DEF StartDaemon, Die
<1>2. CASE (StartService /\ Fork) \/ (StopService /\ Dies)
  BY <1>2, DaemonClear
<1>3. CASE Wipe /\ mapped # 0
  <2>1. \A g \in Segments : pid'[g] # 0 => pid'[g] = pid[g] /\ hb'[g] = hb[g]
    BY <1>3 DEF Wipe, TypeOK
  <2> QED BY <1>3, <2>1 DEF Wipe, ClearInv, TypeOK
<1>4. CASE Clear
  BY <1>4 DEF Clear, Cleared, Offline, ClearInv, TypeOK
<1>5. CASE Forget
  <2>1. \A g \in Segments : pid'[g] = IF g = mapped THEN 0 ELSE pid[g]
    BY <1>5 DEF Forget, TypeOK
  <2>2. mapped \in Segments
    BY <1>5 DEF Forget, TypeOK
  <2> QED BY <1>5, <2>1, <2>2 DEF Forget, ClearInv
<1>6. CASE Still
  <2>1. managed => pid[mapped] = 0
    BY <1>6 DEF Still, ClearInv
  <2>2. \A g \in Segments : g # mapped => hb'[g] = hb[g]
    BY <1>6 DEF Still, TypeOK
  <2>3. UNCHANGED <<system, ready, pid, remade>> /\ tpc' \notin {"forget", "still"} /\ mapped' \in {0, mapped}
    BY <1>6 DEF Still, Cleared, Offline
  <2> QED BY <2>1, <2>2, <2>3 DEF ClearInv, TypeOK
<1>7. ASSUME UNCHANGED <<managed, daemon, made, cur, ready, pid, hb, remade>>,
             mapped' \in {0, mapped} \/ (cur \in ready /\ mapped' = cur),
             tpc' \notin {"forget", "still"} \/ UNCHANGED <<tpc, mapped, known>>
      PROVE  ClearInv'
  BY <1>7 DEF ClearInv, TypeOK
<1>8. CASE Connect \/ Probe \/ (StartService /\ UNCHANGED system)
  <2>1. goal \in Purposes
    BY <1>8 DEF Connect, Probe, StartService, AttachInv, Purposes, TypeOK
  <2>2. tpc' \notin {"forget", "still"}
    BY <1>8, <2>1, ReturnPlaces DEF Connect, Probe, StartService
  <2>3. mapped' \in {0, mapped} \/ (cur \in ready /\ mapped' = cur)
    BY <1>8 DEF Connect, Probe, StartService
  <2>4. UNCHANGED <<managed, daemon, made, cur, ready, pid, hb, remade>>
    BY <1>8 DEF Connect, Probe, StartService
  <2> QED BY <1>7, <2>2, <2>3, <2>4
<1>9. CASE Greet \/ Look \/ (Wipe /\ mapped = 0) \/ Reconnect \/ Proceed \/ Snap \/ Idle \/ CliCommand
           \/ (\E s \in Slots : CliSlot(s)) \/ (StopService /\ UNCHANGED system) \/ Command
           \/ AskStart \/ Exit \/ (\E purpose \in {"main", "cli"} : Launch(purpose))
           \/ (\E step \in {1, -1} : Arrow(step))
  <2>1. mapped' \in {0, mapped} /\ tpc' \notin {"forget", "still"}
        /\ UNCHANGED <<managed, daemon, made, cur, ready, pid, hb, remade>>
    BY <1>9
    DEF Greet, Look, Offline, Wipe, Reconnect, Proceed, Snap, Idle, CliCommand, CliSlot,
        StopService, Command, Tune, AskStart, Exit, Launch, Arrow
  <2> QED BY <1>7, <2>1
<1>10. CASE (\E n \in Pids : ReusePid(n)) \/ UNCHANGED vars
            \/ \E s \in Slots : (\E c \in Controllers : Plug(s, c)) \/ Unplug(s)
  <2>1. UNCHANGED <<managed, daemon, made, cur, ready, pid, hb, remade, tpc, mapped, known>>
    BY <1>10 DEF ReusePid, Plug, Unplug
  <2> QED BY <1>7, <2>1
<1>11. (StartService => Fork \/ UNCHANGED system) /\ (StopService => Dies \/ UNCHANGED system)
  BY DEF StartService, StopService
<1> QED
  BY <1>1, <1>2, <1>3, <1>4, <1>5, <1>6, <1>8, <1>9, <1>10, <1>11 DEF Next, DaemonStep, ClientStep

(***************************************************************************)
(* A running daemon keeps its number.                                      *)
(***************************************************************************)
LEMMA VisibleStep ==
  ASSUME ClientInv, [Next]_vars PROVE RunningDaemonVisible'
<1> USE TypeFacts DEF ClientInv
<1>1. CASE daemon' # "up"
  BY <1>1 DEF RunningDaemonVisible
<1>2. CASE Publish
  <2>1. pid'[cur'] = starts'
    BY <1>2 DEF Publish, TypeOK
  <2> QED BY <2>1 DEF RunningDaemonVisible
<1>3. CASE Wipe
  <2>1. CASE mapped # 0
    <3>1. \A g \in Segments : g # mapped => pid'[g] = pid[g]
      BY <1>3, <2>1 DEF Wipe, TypeOK
    <3>2. UNCHANGED system /\ tpc = "wipe" /\ wiped' = (wiped \/ (daemon = "up" /\ mapped = cur))
      BY <1>3, <2>1 DEF Wipe
    <3> QED BY <2>1, <3>1, <3>2 DEF AttachInv, RunningDaemonVisible
  <2>2. CASE mapped = 0
    BY <1>3, <2>2 DEF Wipe, RunningDaemonVisible
  <2> QED BY <2>1, <2>2
<1>4. CASE Forget
  <2>1. UNCHANGED <<system, wiped, remade>> /\ tpc = "forget"
    BY <1>4 DEF Forget
  <2>2. daemon = "up" /\ pid[cur] = starts => pid'[cur] = starts \/ remade
    BY <1>4, <2>1 DEF Forget, AttachInv, ClearInv, SystemInv, TypeOK
  <2> QED BY <2>1, <2>2 DEF RunningDaemonVisible, ClearInv
<1>6. CASE Clear
  <2>1. UNCHANGED <<system, wiped, pid>> /\ (UNCHANGED remade \/ pid[mapped] = known)
    BY <1>6 DEF Clear, Cleared, Offline
  <2>2. daemon = "up" /\ pid[cur] # starts => pid[mapped] # known \/ ~remade
    BY <1>6 DEF Clear, AttachInv, ClearInv, SystemInv, TypeOK
  <2> QED BY <2>1, <2>2 DEF RunningDaemonVisible, TypeOK
<1>5. CASE daemon' = "up" /\ ~Publish /\ ~Wipe /\ ~Forget /\ ~Clear
  <2>1. UNCHANGED <<managed, daemon, starts, cur, pid, wiped, remade>>
    <3>1. ~Fork /\ ~Dies
      BY <1>5 DEF Fork, Dies
    <3>2. ~StartDaemon /\ ~Die /\ ~OpenSegment /\ ~InitSegment
      BY <1>5, <3>1 DEF StartDaemon, Die, OpenSegment, InitSegment
    <3> QED
      BY <1>5, <3>1, <3>2
      DEF Next, DaemonStep, ClientStep, ReusePid, Beat, Plug, Unplug, Launch, Connect, Probe,
          StartService, StopService, Greet, Reconnect, Proceed, Look, Offline, Still, Cleared, Snap,
          Idle, CliCommand, CliSlot, Command, Tune, AskStart, Exit, Arrow
  <2> QED BY <2>1 DEF RunningDaemonVisible
<1> QED BY <1>1, <1>2, <1>3, <1>4, <1>5, <1>6

(***************************************************************************)
(* The controller a command is meant for.                                  *)
(***************************************************************************)
LEMMA SelectionStep ==
  ASSUME ClientInv, [Next]_vars PROVE SelectionInv'
<1> USE TypeFacts, ClientBasics DEF ClientInv
<1>1. CASE Snap
  <2>1. /\ mapped \in Segments /\ snap' = who[mapped] /\ tpc' = "input" /\ UNCHANGED <<mapped, who>>
    BY <1>1 DEF Snap, TypeOK
  <2>2. CASE update_and_get_slot_idx
    BY <2>1, <2>2, SelectionOfSnapshot DEF SelectionInv
  <2>3. CASE current_idx' = -1
    BY <2>1, <2>3 DEF SelectionInv
  <2> QED BY <1>1, <2>2, <2>3 DEF Snap
<1>2. ASSUME NEW s \in Slots, CliSlot(s) PROVE SelectionInv'
  <2>1. CASE tpc' # "clicommand"
    BY <1>2, <2>1 DEF CliSlot, SelectionInv
  <2>2. CASE tpc' = "clicommand"
    <3>1. current_idx' = s /\ snap' = who[mapped] /\ who[mapped][s] # Nobody
          /\ UNCHANGED <<who, mapped>> /\ s # -1
      BY <1>2, <2>2 DEF CliSlot
    <3> QED BY <2>2, <3>1 DEF SelectionInv
  <2> QED BY <2>1, <2>2
<1>3. CASE InitSegment
  <2>1. UNCHANGED <<tpc, mapped, current_idx, selected, snap, replaced>>
    BY <1>3 DEF InitSegment
  <2>2. \A g \in Segments, s \in Slots : who'[g][s] \in {who[g][s], Nobody}
    BY <1>3 DEF InitSegment, TypeOK, Empty
  <2>3. tpc \in {"input", "clicommand"} /\ current_idx # -1 => mapped \in Segments /\ current_idx \in Slots
    BY DEF TypeOK
  <2> QED BY <2>1, <2>2, <2>3 DEF SelectionInv
<1>4. CASE Publish
  <2>1. UNCHANGED <<tpc, mapped, current_idx, selected, snap>> /\ replaced' = Slots
    BY <1>4 DEF Publish
  <2>2. current_idx # -1 => current_idx \in Slots
    BY DEF TypeOK
  <2> QED BY <2>1, <2>2 DEF SelectionInv
<1>5. ASSUME NEW s \in Slots, (\E c \in Controllers : Plug(s, c)) \/ Unplug(s) PROVE SelectionInv'
  <2>1. UNCHANGED <<tpc, mapped, current_idx, selected, snap>> /\ replaced' = replaced \cup {s}
    BY <1>5 DEF Plug, Unplug
  <2>2. \A g \in Segments, t \in Slots : t # s => who'[g][t] = who[g][t]
    BY <1>5 DEF Plug, Unplug, TypeOK
  <2>3. tpc \in {"input", "clicommand"} /\ current_idx # -1 => mapped \in Segments /\ current_idx \in Slots
    BY DEF TypeOK
  <2> QED BY <2>1, <2>2, <2>3 DEF SelectionInv
<1>6. CASE Look
  BY <1>6 DEF Look, Offline, SelectionInv
<1>7. CASE Clear \/ Forget \/ Still
  BY <1>7 DEF Clear, Forget, Still, Cleared, Offline, SelectionInv
<1>8. CASE Connect \/ Probe \/ StartService \/ Wipe \/ Greet \/ Reconnect \/ Proceed \/ Idle
           \/ CliCommand \/ StopService \/ Command \/ AskStart \/ Exit
           \/ (\E purpose \in {"main", "cli"} : Launch(purpose)) \/ \E step \in {1, -1} : Arrow(step)
  <2>1. tpc' \notin {"input", "clicommand"}
    <3>1. CASE Connect \/ Probe \/ StartService
      <4>1. goal \in Purposes
        BY <3>1 DEF Connect, Probe, StartService, AttachInv, Purposes, TypeOK
      <4> QED BY <3>1, <4>1, ReturnPlaces DEF Connect, Probe, StartService
    <3>2. CASE ~(Connect \/ Probe \/ StartService)
      BY <1>8, <3>2 DEF Wipe, Greet, Reconnect, Proceed, Idle, CliCommand, StopService, Command,
                        AskStart, Exit, Launch, Arrow
    <3> QED BY <3>1, <3>2
  <2> QED BY <2>1 DEF SelectionInv
<1>9. CASE StartDaemon \/ OpenSegment \/ Beat \/ Die \/ (\E n \in Pids : ReusePid(n)) \/ UNCHANGED vars
  <2>1. UNCHANGED <<tpc, mapped, current_idx, selected, snap, who, replaced>>
    BY <1>9 DEF StartDaemon, OpenSegment, Beat, Die, ReusePid
  <2> QED BY <2>1 DEF SelectionInv
<1> QED
  BY <1>1, <1>2, <1>3, <1>4, <1>5, <1>6, <1>7, <1>8, <1>9 DEF Next, DaemonStep, ClientStep

\* A command marks the slot of the snapshot; who is there was asked for, has
\* left, or came after the snapshot.
LEMMA TuneKeepsAsked ==
  ASSUME ClientInv, NEW c, Tune(c), tpc \in {"input", "clicommand"}, current_idx # -1,
         c = snap[current_idx]
  PROVE  TunedWasAsked'
<1> USE DEF ClientInv
<1>1. mapped \in Segments /\ current_idx \in Slots
  BY TypeFacts DEF TypeOK
<1>2. \A g \in Segments, s \in Slots :
        s \in tuned'[g] => s \in tuned[g] \/ (g = mapped /\ s = current_idx)
  BY <1>1 DEF Tune, TypeOK
<1>3. who[mapped][current_idx] = Nobody \/ who[mapped][current_idx] \in asked' \cup misdirected'
  BY DEF Tune, SelectionInv
<1>4. asked \subseteq asked' /\ misdirected \subseteq misdirected' /\ who' = who
  BY DEF Tune
<1> QED BY <1>2, <1>3, <1>4 DEF TunedWasAsked

LEMMA TunedStep ==
  ASSUME ClientInv, [Next]_vars PROVE TunedWasAsked'
<1> USE TypeFacts, ClientBasics DEF ClientInv
<1>1. CASE Command
  BY <1>1, TuneKeepsAsked DEF Command, SelectionInv
<1>2. CASE CliCommand
  BY <1>2, TuneKeepsAsked DEF CliCommand, SelectionInv
<1>3. CASE InitSegment \/ Publish \/ Wipe
  <2>1. \A g \in Segments, s \in Slots : who'[g][s] \in {who[g][s], Nobody}
    <3>1. CASE InitSegment
      BY <3>1 DEF InitSegment, TypeOK, Empty
    <3>2. CASE Publish
      BY <3>2 DEF Publish, TypeOK, Empty
    <3>3. CASE Wipe /\ mapped # 0
      BY <3>3 DEF Wipe, TypeOK, Empty
    <3>4. CASE Wipe /\ mapped = 0
      BY <3>4 DEF Wipe
    <3> QED BY <1>3, <3>1, <3>2, <3>3, <3>4
  <2>2. \A g \in Segments : tuned'[g] \subseteq tuned[g]
    BY <1>3 DEF InitSegment, Publish, Wipe, TypeOK
  <2>3. UNCHANGED <<asked, misdirected>>
    BY <1>3 DEF InitSegment, Publish, Wipe
  <2> QED BY <2>1, <2>2, <2>3 DEF TunedWasAsked
<1>4. ASSUME NEW s \in Slots, NEW c \in Controllers, Plug(s, c) PROVE TunedWasAsked'
  <2>1. cur \in Segments /\ UNCHANGED <<asked, misdirected>>
    BY <1>4 DEF Plug
  <2>2. \A g \in Segments, t \in Slots : t \in tuned'[g] =>
          t \in tuned[g] /\ who'[g][t] = who[g][t]
    BY <1>4, <2>1 DEF Plug, TypeOK
  <2> QED BY <2>1, <2>2 DEF TunedWasAsked
<1>5. ASSUME NEW s \in Slots, Unplug(s) PROVE TunedWasAsked'
  <2>1. \A g \in Segments, t \in Slots : who'[g][t] \in {who[g][t], Nobody}
    BY <1>5 DEF Unplug, TypeOK
  <2> QED BY <1>5, <2>1 DEF Unplug, TunedWasAsked
<1>6. CASE ~Command /\ ~CliCommand /\ ~InitSegment /\ ~Publish /\ ~Wipe
           /\ ~\E s \in Slots : (\E c \in Controllers : Plug(s, c)) \/ Unplug(s)
  <2>1. UNCHANGED <<who, tuned, asked, misdirected>>
    BY <1>6
    DEF Next, DaemonStep, ClientStep, StartDaemon, OpenSegment, Beat, Die, ReusePid, Launch,
        Connect, Probe, StartService, StopService, Greet, Reconnect, Proceed, Look, Offline,
        Clear, Forget, Still, Cleared, Snap, Idle, CliSlot, AskStart, Exit, Arrow
  <2> QED BY <2>1 DEF TunedWasAsked
<1> QED BY <1>1, <1>2, <1>3, <1>4, <1>5, <1>6

(***************************************************************************)
(* The snapshots that show a daemon after its end.                         *)
(***************************************************************************)
LEMMA LoopStep ==
  ASSUME ClientInv, [Next]_vars PROVE LoopInv'
<1> USE DEF ClientInv, LoopInv
<1>1. CASE Connect \/ Probe \/ StartService
  <2>1. goal \in Purposes
    BY <1>1 DEF Connect, Probe, StartService, AttachInv, Purposes, TypeOK
  <2>2. CASE Return(TRUE) \/ Return(FALSE)
    BY <2>1, <2>2, ReturnPlaces
  <2>3. CASE tpc' \in {"probe", "connect", "clear"}
    BY <2>3
  <2> QED BY <1>1, <2>2, <2>3 DEF Connect, Probe, StartService
<1>2. CASE Look
  BY <1>2 DEF Look, Offline
<1>3. CASE Clear \/ Forget \/ Still
  BY <1>3 DEF Clear, Forget, Still, Cleared, Offline
<1>4. CASE Greet \/ Wipe \/ StopService \/ Snap \/ Idle \/ Reconnect \/ Proceed \/ Command
           \/ AskStart \/ Exit \/ CliCommand \/ (\E s \in Slots : CliSlot(s))
           \/ (\E purpose \in {"main", "cli"} : Launch(purpose))
           \/ \E step \in {1, -1} : Arrow(step)
  BY <1>4 DEF Greet, Wipe, StopService, Snap, Idle, Reconnect, Proceed, Command, AskStart, Exit,
              CliCommand, CliSlot, Launch, Arrow
<1>5. CASE UNCHANGED <<tpc, goal, mapped, read_from>>
  BY <1>5
<1> QED
  BY <1>1, <1>2, <1>3, <1>4, <1>5
  DEF Next, DaemonStep, ClientStep, StartDaemon, OpenSegment, InitSegment, Publish, Beat, Die,
      ReusePid, Plug, Unplug

LEMMA SnapKeepsLate ==
  ASSUME ClientInv, Snap PROVE LateInv'
<1> USE ClientAssumption, ClientBasics, TypeFacts DEF ClientInv
<1>1. mapped \in Segments /\ read_from = mapped /\ goal = "loop" /\ late \in Nat /\ age \in Nat
      /\ age <= AGE
  BY DEF Snap, LoopInv, TypeOK
<1>2. tpc = "snap" /\ tpc' = "input"
      /\ UNCHANGED <<system, shm, goal, mapped, known, read_from, beaten, age, hb_is_moving>>
  BY DEF Snap
<1>3. CASE late' = 0
  BY <1>3 DEF LateInv
<1>4. CASE late' # 0
  <2>1. pid[mapped] # 0 /\ ~Alive(pid[mapped]) /\ hb_is_moving
    BY <1>4 DEF Snap
  <2>2. late <= AGE + 2
    BY DEF LateInv
  <2>3. late' = late + 1
    BY <1>1, <1>4, <2>1, <2>2 DEF Snap
  <2>4. proc[pid[mapped]] \notin {"daemon", "other"}
    BY <2>1 DEF Alive
  <2>5. late > 0 => Aging
    BY <1>1, <1>2, <2>1, <2>4 DEF LateInv, Lingering
  <2>6. late <= age + 1
    BY <1>1, <1>2, <2>1, <2>5 DEF Aging
  <2>7. beaten => late = 0
    BY <1>1, <1>2, <2>5 DEF Aging
  <2>8. Aging'
    BY <1>1, <1>2, <2>3, <2>4, <2>6, <2>7 DEF Aging
  <2>9. Lingering'
    BY <1>1, <1>2, <2>1, <2>8 DEF Lingering
  <2>10. late' <= AGE + 2
    BY <1>1, <2>3, <2>6
  <2> QED BY <2>9, <2>10 DEF LateInv
<1> QED BY <1>3, <1>4

\* The processes and the segments change behind a lingering client.
LEMMA DaemonLingers ==
  ASSUME ClientInv, Lingering, late > 0, UNCHANGED late, tpc # "off",
         StartDaemon \/ OpenSegment \/ InitSegment \/ Beat \/ Die
         \/ (\E n \in Pids : ReusePid(n))
         \/ \E s \in Slots : (\E c \in Controllers : Plug(s, c)) \/ Unplug(s)
  PROVE  Lingering'
<1> USE ClientAssumption, TypeFacts DEF ClientInv
<1> DEFINE Frame == UNCHANGED <<tpc, goal, mapped, known, read_from, age, hb_is_moving, late, managed>>
<1>1. ASSUME Frame, daemon' # "up", UNCHANGED <<pid, beaten>>,
             \A n \in Pids : n <= starts => proc'[n] = proc[n] \/ (proc[n] # "other" /\ proc'[n] # "daemon")
      PROVE  Lingering'
  <2>1. ~Reachable'
    BY <1>1 DEF Reachable
  <2>2. mapped # 0 /\ pid[mapped] # 0 => pid[mapped] \in Pids /\ pid[mapped] <= starts
    BY DEF SystemInv
  <2>3. known # 0 => known \in Pids /\ known <= starts
    BY DEF AttachInv
  <2>4. mapped # 0 /\ pid[mapped] # 0 /\ Aging => Aging'
    BY <1>1, <2>2 DEF Aging
  <2> QED BY <1>1, <2>1, <2>2, <2>3, <2>4 DEF Lingering
<1>2. CASE StartDaemon
  <2>1. \A n \in Pids : n <= starts => proc'[n] = proc[n]
    BY <1>2 DEF StartDaemon, Fork, TypeOK
  <2> QED BY <1>1, <1>2, <2>1 DEF StartDaemon, Fork
<1>3. CASE OpenSegment
  BY <1>1, <1>3 DEF OpenSegment
<1>4. CASE Die
  <2>1. \A n \in Pids : proc'[n] = proc[n] \/ (proc[n] # "other" /\ proc'[n] # "daemon")
    BY <1>4 DEF Die, Dies, TypeOK, SystemInv
  <2> QED BY <1>1, <1>4, <2>1 DEF Die, Dies
<1>5. CASE InitSegment
  <2>1. cur \in Segments /\ daemon' # "up" /\ Frame /\ UNCHANGED <<cur, proc>>
    BY <1>5 DEF InitSegment
  <2>2. CASE pid' = [pid EXCEPT ![cur] = 0] /\ beaten' \in (IF read_from = cur THEN BOOLEAN ELSE {beaten})
    <3>1. mapped # 0 => pid'[mapped] = IF mapped = cur THEN 0 ELSE pid[mapped]
      BY <2>1, <2>2 DEF TypeOK
    <3>2. mapped # 0 /\ mapped # cur /\ Aging => Aging'
      BY <2>1, <2>2, <3>1 DEF Aging
    <3>3. ~Reachable'
      BY <2>1 DEF Reachable
    <3> QED BY <2>1, <3>1, <3>2, <3>3, ClientBasics DEF Lingering, TypeOK
  <2>3. CASE UNCHANGED <<pid, beaten>>
    BY <1>1, <2>1, <2>3
  <2> QED BY <1>5, <2>2, <2>3 DEF InitSegment
<1>6. CASE Beat
  <2>1. Frame /\ UNCHANGED <<daemon, starts, cur, pid, proc>> /\ daemon = "up" /\ cur \in Segments
        /\ beaten' = (beaten \/ read_from = cur)
    BY <1>6 DEF Beat
  <2>2. pid[cur] \in {0, starts} /\ proc[starts] = "daemon"
    BY <2>1 DEF SystemInv
  <2>3. mapped # 0 /\ pid[mapped] # 0 /\ Aging => read_from # cur
    BY <2>1, <2>2 DEF Aging
  <2>4. mapped # 0 /\ pid[mapped] # 0 /\ Aging => beaten' = beaten
    <3>1. beaten \in BOOLEAN
      BY DEF TypeOK
    <3> QED BY <2>1, <2>3, <3>1
  <2>5. mapped # 0 /\ pid[mapped] # 0 /\ Aging => Aging'
    BY <2>1, <2>4 DEF Aging
  <2> QED BY <2>1, <2>5 DEF Lingering, Reachable
<1>7. ASSUME NEW n \in Pids, ReusePid(n) PROVE Lingering'
  <2>1. Frame /\ UNCHANGED <<daemon, starts, cur, pid, beaten>> /\ proc[n] = "gone"
    BY <1>7 DEF ReusePid
  <2>2. \A m \in Pids : proc'[m] = IF m = n THEN "other" ELSE proc[m]
    BY <1>7 DEF ReusePid, TypeOK
  <2>3. mapped # 0 /\ pid[mapped] # 0 /\ Aging => Aging'
    BY <2>1, <2>2 DEF Aging
  <2> QED BY <2>1, <2>2, <2>3 DEF Lingering, Reachable
<1>8. CASE \E s \in Slots : (\E c \in Controllers : Plug(s, c)) \/ Unplug(s)
  <2>1. Frame /\ UNCHANGED <<daemon, starts, cur, proc, pid, beaten>>
    BY <1>8 DEF Plug, Unplug
  <2> QED BY <2>1 DEF Lingering, Reachable, Aging
<1> QED BY <1>2, <1>3, <1>4, <1>5, <1>6, <1>7, <1>8

LEMMA LoopReturns ==
  ASSUME goal \in {"loop", "start"}
  PROVE  /\ Return(TRUE) => goal' \in {"loop", "start"} /\ tpc' \in {"top", "look"}
         /\ Return(FALSE) => goal' \in {"loop", "start"} /\ tpc' \in {"connect", "top", "look"}
<1>1. goal \in Purposes
  BY DEF Purposes
<1>2. ASSUME Return(TRUE) PROVE goal' \in {"loop", "start"} /\ tpc' \in {"top", "look"}
  <2>1. PICK next \in After(TRUE) : tpc' = next[1] /\ goal' = next[2]
    BY <1>2 DEF Return
  <2>2. next \in {<<"top", "loop">>, <<"look", "loop">>}
    BY <2>1 DEF After
  <2> QED BY <2>1, <2>2
<1>3. ASSUME Return(FALSE) PROVE goal' \in {"loop", "start"} /\ tpc' \in {"connect", "top", "look"}
  BY <1>1, <1>3, ReturnPlaces
<1> QED BY <1>2, <1>3

\* What a client does after the daemon it shows has ended.
LEMMA AttachLingers ==
  ASSUME ClientInv, Lingering, late > 0, tpc # "off",
         Connect \/ Probe \/ StartService \/ StopService \/ Wipe \/ Reconnect
  PROVE  Lingering'
<1> USE ClientAssumption, ClientBasics, TypeFacts DEF ClientInv
<1>1. goal \in {"loop", "start"}
  BY DEF Lingering
<1>2. CASE Connect
  <2>1. UNCHANGED <<system, pid>> /\ tpc = "connect"
    BY <1>2 DEF Connect
  <2>2. ~Reachable /\ ~Reachable'
    BY <2>1 DEF Lingering, Reachable
  <2>3. CASE Return(FALSE) /\ (mapped' = 0 \/ (mapped' \in Segments /\ pid[mapped'] = 0))
    BY <1>1, <2>1, <2>2, <2>3, LoopReturns DEF Lingering
  <2>4. CASE cur # 0 /\ pid[cur] # 0 /\ mapped' = cur /\ known' = pid[cur] /\ tpc' = "probe" /\ goal' = goal
    <3>1. proc[pid[cur]] # "daemon"
      BY <2>2, <2>4, NumberOfDaemon DEF Reachable
    <3> QED BY <1>1, <2>1, <2>2, <2>4, <3>1 DEF Lingering
  <2> QED BY <1>2, <2>3, <2>4 DEF Connect
<1>3. CASE Probe
  <2>1. UNCHANGED <<system, pid>> /\ tpc = "probe"
    BY <1>3 DEF Probe
  <2>2. ~Reachable /\ ~Reachable'
    BY <2>1 DEF Lingering, Reachable
  <2>3. CASE Alive(known) /\ mapped' = mapped /\ Return(TRUE)
    <3>1. proc[known] = "other" /\ pid[mapped] \in {0, known}
      BY <2>1, <2>3 DEF Alive, Lingering
    <3> QED BY <1>1, <2>1, <2>2, <2>3, <3>1, LoopReturns DEF Lingering
  <2>4. CASE mapped' = 0 /\ Return(FALSE)
    BY <1>1, <2>1, <2>2, <2>4, LoopReturns DEF Lingering
  <2> QED BY <1>3, <2>3, <2>4 DEF Probe
<1>4. CASE StartService
  <2>1. UNCHANGED <<pid, mapped, read_from, beaten, age, hb_is_moving, late>> /\ tpc = "start"
    BY <1>4 DEF StartService
  <2>2. CASE mapped # 0 /\ pid[mapped] # 0 /\ hb[mapped]
    <3>1. Return(TRUE) /\ UNCHANGED system
      BY <1>4, <2>2 DEF StartService
    <3>2. goal' \in {"loop", "start"} /\ tpc' \in {"top", "look"}
      BY <1>1, <3>1, LoopReturns
    <3>3. Aging => Aging'
      BY <2>1, <3>1, <3>2 DEF Aging
    <3> QED BY <2>1, <2>2, <3>1, <3>2, <3>3 DEF Lingering
  <2>3. ASSUME mapped # 0, pid[mapped] # 0, ~hb[mapped]
        PROVE  ~managed /\ mapped = cur /\ ~Reachable
    <3>1. ~managed /\ mapped = cur
      BY <2>3 DEF ClearInv, AttachInv
    <3>2. proc[pid[cur]] # "daemon"
      BY <2>1, <2>3, <3>1 DEF Lingering, Aging
    <3> QED BY <3>1, <3>2 DEF Reachable, SystemInv
  <2>4. CASE tpc' = "clear" /\ goal' = goal /\ UNCHANGED system /\ mapped # 0 /\ pid[mapped] # 0
             /\ ~hb[mapped]
    <3>1. Aging => Aging'
      BY <2>1, <2>4 DEF Aging
    <3> QED BY <1>1, <2>1, <2>3, <2>4, <3>1 DEF Lingering
  <2>5. CASE tpc' = "connect" /\ goal' = goal /\ (Fork \/ UNCHANGED system)
             /\ ~(mapped # 0 /\ pid[mapped] # 0 /\ hb[mapped])
    <3>1. ~Reachable
      BY <2>1, <2>3, <2>5 DEF Lingering
    <3>2. ~Reachable'
      BY <2>1, <2>5, <3>1 DEF Reachable, Fork
    <3>3. mapped # 0 /\ pid[mapped] # 0 => UNCHANGED system
      BY <1>4, <2>3, <2>5 DEF StartService, Fork
    <3>4. mapped # 0 /\ pid[mapped] # 0 /\ Aging => Aging'
      BY <2>1, <2>5, <3>3 DEF Aging
    <3> QED BY <1>1, <2>1, <2>5, <3>2, <3>3, <3>4 DEF Lingering
  <2> QED BY <1>4, <2>2, <2>4, <2>5 DEF StartService
<1>5. CASE StopService
  <2>1. UNCHANGED <<goal, pid, mapped, known, read_from, beaten, age, hb_is_moving, late, managed>>
        /\ tpc = "input" /\ tpc' = "wipe"
    BY <1>5 DEF StopService, Dies
  <2>2. CASE Dies
    <3>1. \A n \in Pids : proc'[n] = proc[n] \/ (proc[n] # "other" /\ proc'[n] # "daemon")
      BY <2>2 DEF Dies, TypeOK, SystemInv
    <3>2. mapped # 0 /\ pid[mapped] # 0 /\ Aging => Aging'
      BY <2>1, <3>1 DEF Aging
    <3>3. ~Reachable' /\ daemon' # "up"
      BY <2>2 DEF Dies, Reachable
    <3> QED BY <1>1, <2>1, <3>1, <3>2, <3>3 DEF Lingering
  <2>3. CASE UNCHANGED system /\ (managed => daemon = "down")
    BY <1>1, <2>1, <2>3 DEF Lingering, Reachable, Aging
  <2> QED BY <1>5, <2>2, <2>3 DEF StopService
<1>6. CASE Wipe
  <2>1. UNCHANGED <<system, goal>> /\ tpc = "wipe" /\ tpc' = "top" /\ mapped' = 0
    BY <1>6 DEF Wipe
  <2>2. ~Reachable'
    <3>1. CASE mapped = 0
      BY <1>6, <3>1 DEF Wipe, Lingering, Reachable
    <3>2. CASE managed
      BY <2>1, <3>2 DEF Lingering, Reachable
    <3>3. CASE mapped # 0 /\ ~managed
      <4>1. mapped = cur /\ pid'[cur] = 0
        BY <1>6, <3>3 DEF Wipe, AttachInv, TypeOK
      <4> QED BY <2>1, <4>1 DEF Reachable, TypeOK
    <3> QED BY <3>1, <3>2, <3>3 DEF TypeOK
  <2> QED BY <1>1, <2>1, <2>2 DEF Lingering
<1>7. CASE Reconnect
  BY <1>7 DEF Reconnect, Lingering, Reachable
<1> QED BY <1>2, <1>3, <1>4, <1>5, <1>6, <1>7

LEMMA LookLingers ==
  ASSUME ClientInv, Lingering, late > 0, UNCHANGED late, Look
  PROVE  Lingering'
<1> USE ClientAssumption, ClientBasics, TypeFacts DEF ClientInv
<1>1. mapped # 0 /\ late \in Nat /\ age \in Nat
  BY DEF Look, Offline, TypeOK
<1>2. UNCHANGED <<system, pid, goal, mapped>> /\ tpc' \in {"snap", "clear"} /\ tpc = "look"
  BY <1>1 DEF Look, Offline
<1>3. PICK changed \in (IF mapped = read_from THEN {beaten} ELSE BOOLEAN), within \in BOOLEAN :
        /\ read_from' = mapped
        /\ beaten' = FALSE
        /\ age' = IF changed THEN 0 ELSE IF age < AGE THEN age + 1 ELSE AGE
        /\ hb_is_moving' = (changed \/ (hb_is_moving /\ age < AGE /\ within))
        /\ tpc' = "clear" => ~hb_is_moving'
  BY <1>1, <1>2 DEF Look, Offline
<1>4. ASSUME Aging PROVE Aging'
  <2>1. changed = beaten
    BY <1>3, <1>4 DEF Aging
  <2>2. hb_is_moving' => late <= age' + 1
    <3>1. CASE changed
      BY <1>1, <1>2, <1>3, <1>4, <2>1, <3>1 DEF Aging
    <3>2. CASE ~changed
      <4>1. hb_is_moving' => hb_is_moving /\ age < AGE
        BY <1>3, <3>2
      <4> QED BY <1>1, <1>2, <1>3, <1>4, <3>2, <4>1 DEF Aging
    <3> QED BY <3>1, <3>2
  <2> QED BY <1>1, <1>2, <1>3, <1>4, <2>2 DEF Aging
<1> QED BY <1>1, <1>2, <1>4 DEF Lingering, Reachable, LoopInv

LEMMA ClearLingers ==
  ASSUME ClientInv, Lingering, late > 0, late' # 0, Clear \/ Forget \/ Still
  PROVE  Lingering'
<1> USE ClientAssumption, ClientBasics, TypeFacts DEF ClientInv
<1>1. goal \in {"loop", "start"} /\ mapped \in Segments
  BY DEF Lingering, Clear, Forget, Still, TypeOK
<1>2. ASSUME Cleared PROVE goal = "start" /\ tpc' = "connect" /\ UNCHANGED <<goal, mapped, late>>
  BY <1>1, <1>2 DEF Cleared, Offline
<1>3. goal = "start" => ~managed /\ mapped = cur
  BY <1>1 DEF Lingering, AttachInv, Clear, Forget, Still
<1>4. goal = "start" /\ tpc # "forget" => ~Reachable
  <2>1. SUFFICES ASSUME goal = "start", tpc \in {"clear", "still"}, daemon = "up" PROVE pid[cur] # starts
    BY DEF Reachable, Clear, Forget, Still
  <2>2. CASE pid[cur] = 0
    BY <2>1, <2>2 DEF TypeOK
  <2>3. CASE pid[cur] # 0
    <3>1. proc[pid[cur]] # "daemon"
      BY <1>1, <1>3, <2>1, <2>3 DEF Lingering, Aging
    <3> QED BY <2>1, <3>1 DEF SystemInv
  <2> QED BY <2>2, <2>3
<1>5. CASE Clear
  <2>1. UNCHANGED <<system, pid, read_from, beaten, age, hb_is_moving, late, mapped, goal>> /\ tpc = "clear"
        /\ (tpc' = "forget" \/ Cleared)
    BY <1>2, <1>5 DEF Clear
  <2>2. tpc' = "forget" \/ (goal = "start" /\ tpc' = "connect")
    BY <1>2, <2>1
  <2>3. Aging => Aging'
    BY <2>1, <2>2 DEF Aging
  <2> QED BY <1>1, <1>4, <2>1, <2>2, <2>3 DEF Lingering, Reachable
<1>6. CASE Forget
  <2>1. pid'[mapped] = 0 /\ UNCHANGED <<system, mapped, goal>> /\ tpc = "forget" /\ tpc' = "still"
    BY <1>1, <1>6 DEF Forget, TypeOK
  <2> QED BY <1>1, <2>1 DEF Lingering
<1>7. CASE Still
  <2>1. UNCHANGED <<system, pid, mapped, goal>> /\ tpc = "still" /\ tpc' = "connect" /\ goal = "start"
    BY <1>2, <1>7 DEF Still
  <2>2. pid[mapped] = 0
    BY <2>1 DEF Lingering
  <2> QED BY <1>1, <1>4, <2>1, <2>2 DEF Lingering, Reachable
<1> QED BY <1>5, <1>6, <1>7

\* Only a snapshot counts, and a client that is off stays so or begins anew.
LEMMA OnlySnapCounts ==
  ASSUME [Next]_vars, ~Snap
  PROVE  late' = 0 \/ (late' = late /\ (tpc = "off" => tpc' = "off"))
BY DEF Next, DaemonStep, ClientStep, StartDaemon, OpenSegment, InitSegment, Publish, Beat, Die,
       ReusePid, Plug, Unplug, Launch, Connect, Probe, StartService, StopService, Wipe, Greet,
       Reconnect, Proceed, Look, Offline, Clear, Forget, Still, Cleared, Idle, CliCommand, CliSlot, Command,
       Tune, AskStart, Exit, Arrow

LEMMA LateStep ==
  ASSUME ClientInv, [Next]_vars PROVE LateInv'
<1> USE ClientAssumption DEF ClientInv
<1>1. CASE Snap
  BY <1>1, SnapKeepsLate
<1>2. CASE late' = 0
  BY <1>2 DEF LateInv
<1>3. CASE UNCHANGED late /\ (late = 0 \/ tpc' = "off")
  BY <1>3 DEF LateInv, TypeOK
<1>4. ASSUME late > 0, tpc' # "off", late' # 0, ~Snap PROVE LateInv'
  <2>1. UNCHANGED late /\ tpc # "off"
    BY <1>4, OnlySnapCounts
  <2>2. Lingering
    BY <1>4, <2>1 DEF LateInv
  <2>3. SUFFICES Lingering'
    BY <2>1 DEF LateInv
  <2>4. CASE StartDaemon \/ OpenSegment \/ InitSegment \/ Beat \/ Die
             \/ (\E n \in Pids : ReusePid(n))
             \/ \E s \in Slots : (\E c \in Controllers : Plug(s, c)) \/ Unplug(s)
    BY <1>4, <2>1, <2>2, <2>4, DaemonLingers
  <2>5. CASE Connect \/ Probe \/ StartService \/ StopService \/ Wipe \/ Reconnect
    BY <1>4, <2>1, <2>2, <2>5, AttachLingers
  <2>6. CASE Look
    BY <1>4, <2>1, <2>2, <2>6, LookLingers
  <2>7. CASE Proceed \/ Idle \/ Command \/ AskStart \/ (\E step \in {1, -1} : Arrow(step))
             \/ UNCHANGED vars
    <3>1. /\ UNCHANGED <<system, pid, mapped, read_from, beaten, age, hb_is_moving, late>>
          /\ \/ UNCHANGED <<tpc, goal, known>>
             \/ /\ goal' \in {goal, "start"} /\ tpc' \in {"look", "top", "start"}
                /\ tpc \notin {"snap", "probe", "still"}
      BY <1>4, <2>7 DEF Proceed, Idle, Command, Tune, AskStart, Arrow
    <3>2. Aging => Aging'
      BY <3>1 DEF Aging
    <3> QED BY <2>2, <3>1, <3>2 DEF Lingering, Reachable
  <2>8. ~Publish /\ ~Greet /\ ~Exit /\ ~CliCommand /\ ~(\E s \in Slots : CliSlot(s))
        /\ ~(\E purpose \in {"main", "cli"} : Launch(purpose))
    BY <1>4, <2>2 DEF Publish, Greet, Exit, CliCommand, CliSlot, Launch, Lingering, LoopInv
  <2>9. CASE Clear \/ Forget \/ Still
    BY <1>4, <2>2, <2>9, ClearLingers
  <2> QED BY <1>4, <2>4, <2>5, <2>6, <2>7, <2>8, <2>9 DEF Next, DaemonStep, ClientStep
<1> QED BY <1>1, <1>2, <1>3, <1>4, OnlySnapCounts DEF TypeOK

LEMMA ClientInvariant == Spec => []ClientInv
<1>1. Init => ClientInv
  BY InitClient
<1>2. ClientInv /\ [Next]_vars => ClientInv'
  <2> SUFFICES ASSUME ClientInv, [Next]_vars PROVE ClientInv'
    OBVIOUS
  <2>1. TypeOK'
    <3>1. CASE UNCHANGED vars
      BY <3>1 DEF ClientInv, TypeOK
    <3>2. CASE Next
      BY <3>2, DaemonType, AttachType, LoopType DEF Next, ClientStep
    <3> QED BY <3>1, <3>2
  <2>2. AttachInv'
    <3>1. CASE UNCHANGED vars
      BY <3>1 DEF ClientInv, AttachInv
    <3>2. CASE Next
      BY <3>2, DaemonAttach, ClientAttach DEF Next
    <3> QED BY <3>1, <3>2
  <2> QED
    BY <2>1, <2>2, SystemStep, ClearStep, LoopStep, SelectionStep, LateStep, VisibleStep, TunedStep
    DEF ClientInv
<1> QED BY <1>1, <1>2, PTL DEF Spec

\* The variables of the client, the daemon and the segments keep their types: a
\* command is written to a slot of a segment that is mapped (ui.c:430,
\* commands.c:684-692), whatever attaching, losing and clearing came before.
THEOREM ClientTypeCorrect == Spec => []TypeOK
BY ClientInvariant, PTL DEF ClientInv

\* A running daemon keeps its process id in its segment for any number of segments,
\* restarts and reused numbers: what is_daemon_alive clears is the number of a
\* process that had ended when it was read (utils.c:325-331).  A daemon run by hand
\* loses it by stop_service (utils.c:220-228), or when it has made the mutex anew
\* under a client that clears its predecessor's (main.c:131-132); a managed one never.
THEOREM DaemonStaysVisible == Spec => []RunningDaemonVisible
BY ClientInvariant, PTL DEF ClientInv

\* However often daemons end and start, the TUI shows one that has ended for at most
\* two passes more than fit into the second its heartbeat may rest (ui.c:174-209).
THEOREM DeadNotShownForLong == Spec => []DeadShownBriefly
<1>1. ClientInv => DeadShownBriefly
  BY DEF ClientInv, LateInv, DeadShownBriefly
<1> QED BY <1>1, ClientInvariant, PTL

\* With any number of slots and controllers, a controller that a command changed is
\* the one it was meant for, or came into the slot after the snapshot or the CLI's
\* check (display.c:143-157, ui.c:430, commands.c:684-692).
THEOREM CommandsReachTheAsked == Spec => []TunedWasAsked
BY ClientInvariant, PTL DEF ClientInv
=============================================================================
