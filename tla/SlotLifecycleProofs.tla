------------------------ MODULE SlotLifecycleProofs ------------------------
(***************************************************************************)
(* Proofs about SlotLifecycle for every number of slots, every set of      *)
(* controllers and every timeout.                                          *)
(***************************************************************************)
EXTENDS SlotLifecycle, TLAPS

RegPc == {"reg_open", "reg_lock", "reg_join", "reg_relock", "reg_conf", "reg_create"}

\* Where the main thread's locals are meaningful.
LocalsInv ==
  /\ mpc \in {"wjoin", "wfree", "rjoin"} => idx \in Slots
  /\ mpc \in RegPc => reg_dev \in Devices

\* TypeOK is inductive together with the ranges of the locals.
TypeInv == TypeOK /\ LocalsInv

USE SlotAssumption, DeviceAssumption

LEMMA PathTypes ==
  /\ NoPath \in Paths
  /\ \A d \in Devices : Hidraw(d) \in Paths /\ Event(d) \in Paths
  /\ \A p \in Paths : p.dev \in Devices \cup {NoDevice}
BY DEF Paths, NoPath, Hidraw, Event

LEMMA LaterType ==
  ASSUME NEW lag \in NoBeat .. TIMEOUT + 1, NEW elapsed \in 1 .. TIMEOUT + 1
  PROVE  Later(lag, elapsed) \in NoBeat .. TIMEOUT + 1
BY DEF Later, NoBeat

LEMMA InitType == Init => TypeInv
BY PathTypes DEF Init, TypeInv, TypeOK, LocalsInv, RegPc, Slots, NoBeat, Main, Unlocked, MainPc, WorkerPc

USE DEF TypeInv, TypeOK, LocalsInv, RegPc, vars, env, shm, main, work, MainPc, WorkerPc

LEMMA EnvironmentType == TypeInv /\ Environment => TypeInv'
<1> SUFFICES ASSUME TypeInv, NEW d \in Devices, Plug(d) \/ Unplug(d)
             PROVE  TypeInv'
  BY DEF Environment
<1>1. CASE Plug(d)
  <2>1. events' \in Seq(Devices) /\ Len(events') = Len(events) + 1
    BY <1>1 DEF Plug
  <2> QED BY <1>1, <2>1 DEF Plug
<1>2. CASE Unplug(d)
  BY <1>2 DEF Unplug
<1> QED BY <1>1, <1>2

LEMMA WorkerType == ASSUME NEW s \in Slots PROVE TypeInv /\ Worker(s) => TypeInv'
<1> SUFFICES ASSUME TypeInv, Worker(s) PROVE TypeInv'
  OBVIOUS
<1>1. CASE OpenDevice(s) BY <1>1 DEF OpenDevice, At
<1>2. CASE SetUp(s) BY <1>2, PathTypes DEF SetUp, At
<1>3. CASE SetUpFails(s) BY <1>3 DEF SetUpFails, At
<1>4. CASE Beat(s) BY <1>4 DEF Beat, At, NoBeat
<1>5. CASE CheckStop(s) BY <1>5 DEF CheckStop, At
<1>6. CASE LoopBody(s) BY <1>6 DEF LoopBody, At
<1>7. CASE CloseDevice(s) BY <1>7 DEF CloseDevice, At
<1>8. CASE ReleaseLock(s) BY <1>8, PathTypes DEF ReleaseLock
<1>9. CASE ReleaseFree(s) BY <1>9 DEF ReleaseFree, At
<1> QED BY <1>1, <1>2, <1>3, <1>4, <1>5, <1>6, <1>7, <1>8, <1>9 DEF Worker

LEMMA MainType == TypeInv /\ MainThread => TypeInv'
<1> SUFFICES ASSUME TypeInv, MainThread PROVE TypeInv'
  OBVIOUS
<1>1. CASE ScanOpen BY <1>1 DEF ScanOpen
<1>2. ASSUME NEW d \in Devices, ScanNext(d) PROVE TypeInv'
  BY <1>2 DEF ScanNext, CallRegister
<1>3. CASE ScanDone BY <1>3 DEF ScanDone
<1>4. CASE LoopTop
  <2>1. hb_lag' \in [Slots -> NoBeat .. TIMEOUT + 1]
    BY <1>4, LaterType DEF LoopTop
  <2> QED BY <1>4, <2>1 DEF LoopTop
<1>5. CASE WatchdogPass BY <1>5 DEF WatchdogPass, Slots
<1>6. CASE WatchdogStop BY <1>6 DEF WatchdogStop
<1>7. CASE WatchdogJoin BY <1>7 DEF WatchdogJoin, Join
<1>8. CASE WatchdogFree
  <2>1. idx \in Slots /\ idx' = idx + 1 /\ idx' \in 0 .. MAX_SLOTS
    BY <1>8 DEF WatchdogFree, Slots
  <2> QED BY <1>8, <2>1, PathTypes DEF WatchdogFree, CallRegister
<1>9. CASE WatchdogDone BY <1>9 DEF WatchdogDone
<1>10. CASE ReapPass BY <1>10 DEF ReapPass, Slots
<1>11. CASE ReapLost BY <1>11 DEF ReapLost
<1>12. CASE ReapJoin
  <2>1. idx' \in 0 .. MAX_SLOTS
    BY <1>12 DEF ReapJoin, Slots
  <2> QED BY <1>12, <2>1 DEF ReapJoin, Join
<1>13. CASE PollHotplug BY <1>13 DEF PollHotplug
<1>14. CASE HotplugEvent
  <2>1. events # <<>> /\ Len(events) \in Nat
    BY <1>14 DEF HotplugEvent
  <2>2. Head(events) \in Devices /\ events' \in Seq(Devices) /\ Len(events') = Len(events) - 1
    BY <1>14, <2>1 DEF HotplugEvent
  <2> QED BY <1>14, <2>1, <2>2 DEF HotplugEvent, CallRegister
<1>15. CASE HotplugDone BY <1>15 DEF HotplugDone
<1>16. CASE RegOpen BY <1>16 DEF RegOpen, Return, Slots
<1>17. CASE RegSkip BY <1>17 DEF RegSkip, Return, Slots
<1>18. CASE RegFindSlot
  <2>1. free_slots_bitmap \cup SamePath(reg_dev) \subseteq Slots
    BY DEF SamePath
  <2>2. 0 \in Slots
    BY DEF Slots
  <2> QED BY <1>18, <2>1, <2>2 DEF RegFindSlot, Return
<1>19. CASE RegJoin BY <1>19 DEF RegJoin, Join
<1>20. CASE RegRelock BY <1>20 DEF RegRelock
<1>21. CASE RegConfigure
  <2>1. NoBeat \in NoBeat .. TIMEOUT + 1
    BY DEF NoBeat
  <2> QED BY <1>21, <2>1, PathTypes DEF RegConfigure
<1>22. CASE RegCreate BY <1>22 DEF RegCreate, Return, Slots
<1>23. CASE RegCreateFails BY <1>23 DEF RegCreateFails, Return, Slots
<1>24. CASE RegMallocFails BY <1>24 DEF RegMallocFails, Return, Slots
<1> QED
  BY <1>1, <1>2, <1>3, <1>4, <1>5, <1>6, <1>7, <1>8, <1>9, <1>10, <1>11, <1>12, <1>13,
     <1>14, <1>15, <1>16, <1>17, <1>18, <1>19, <1>20, <1>21, <1>22, <1>23, <1>24
     DEF MainThread, Register

LEMMA TypeStep == TypeInv /\ [Next]_vars => TypeInv'
<1> SUFFICES ASSUME TypeInv, [Next]_vars PROVE TypeInv'
  OBVIOUS
<1>1. CASE Environment BY <1>1, EnvironmentType
<1>2. CASE MainThread BY <1>2, MainType
<1>3. ASSUME NEW s \in Slots, Worker(s) PROVE TypeInv'
  BY <1>3, WorkerType
<1>4. CASE UNCHANGED vars BY <1>4
<1> QED BY <1>1, <1>2, <1>3, <1>4 DEF Next

\* Every reachable state of the slot management is well typed.
THEOREM TypeCorrect == Spec => []TypeOK
<1>1. TypeInv => TypeOK
  OBVIOUS
<1> QED BY <1>1, InitType, TypeStep, PTL DEF Spec

-----------------------------------------------------------------------------
(***************************************************************************)
(* Ownership of the slots.  RegisteredSlotHasNoWorker needs to know where  *)
(* a slot without a thread is (ThreadInv); ConnectedSlotIsReserved needs   *)
(* the two copies of the bitmap that are waiting to be written back        *)
(* (BitmapInv) and who may be between reading and writing (MutexInv).      *)
(***************************************************************************)
ThreadInv ==
  /\ \A s \in Slots : threads[s] <=> wpc[s] # "none"
  /\ mpc \in {"reg_relock", "reg_conf", "reg_create"} => ~threads[reg_slot]

MutexInv ==
  /\ \A s \in Slots : wpc[s] = "free" <=> proc_mutex = s
  /\ mpc = "reg_conf" <=> proc_mutex = Main

BitmapInv ==
  /\ \A s \in Slots : connected[s] => s \notin free_slots_bitmap
  /\ proc_mutex \in Slots => ~connected[proc_mutex] /\ \A s \in w_bitmap : ~connected[s]
  /\ mpc = "wfree" => ~connected[idx] /\ \A s \in m_bitmap : ~connected[s]

FreshInv ==
  /\ \A s \in Slots : wpc[s] \in {"open", "setup"} => hb_lag[s] = NoBeat /\ ~worker_stop[s]
  /\ mpc = "reg_create" => hb_lag[reg_slot] = NoBeat /\ ~worker_stop[reg_slot]

\* The inductive invariant of the slot ownership.
OwnershipInv == TypeInv /\ ThreadInv /\ MutexInv /\ BitmapInv /\ FreshInv

LEMMA MutexValues ==
  /\ Main \notin Slots /\ Unlocked \notin Slots /\ Main # Unlocked
  /\ 0 \in Slots
BY DEF Main, Unlocked, Slots

LEMMA InitOwnership == Init => OwnershipInv
<1> SUFFICES ASSUME Init PROVE OwnershipInv
  OBVIOUS
<1>1. TypeInv
  BY InitType
<1>2. ThreadInv /\ MutexInv /\ BitmapInv /\ FreshInv
  BY MutexValues DEF Init, ThreadInv, MutexInv, BitmapInv, FreshInv
<1> QED BY <1>1, <1>2 DEF OwnershipInv

USE DEF ThreadInv, MutexInv, BitmapInv, FreshInv

LEMMA EnvironmentOwnership == OwnershipInv /\ Environment => OwnershipInv'
<1> SUFFICES ASSUME OwnershipInv, NEW d \in Devices, Plug(d) \/ Unplug(d)
             PROVE  ThreadInv' /\ MutexInv' /\ BitmapInv' /\ FreshInv'
  BY EnvironmentType DEF Environment, OwnershipInv
<1> QED BY DEF OwnershipInv, Plug, Unplug

LEMMA WorkerOwnership ==
  ASSUME NEW s \in Slots, OwnershipInv, Worker(s) PROVE OwnershipInv'
<1> SUFFICES ThreadInv' /\ MutexInv' /\ BitmapInv' /\ FreshInv'
  BY WorkerType DEF OwnershipInv
<1> USE MutexValues DEF OwnershipInv
<1>1. CASE OpenDevice(s) BY <1>1 DEF OpenDevice, At
<1>2. CASE SetUp(s) BY <1>2 DEF SetUp, At
<1>3. CASE SetUpFails(s) BY <1>3 DEF SetUpFails, At
<1>4. CASE Beat(s) BY <1>4 DEF Beat, At
<1>5. CASE CheckStop(s) BY <1>5 DEF CheckStop, At
<1>6. CASE LoopBody(s) BY <1>6 DEF LoopBody, At
<1>7. CASE CloseDevice(s) BY <1>7 DEF CloseDevice, At
<1>8. CASE ReleaseLock(s) BY <1>8 DEF ReleaseLock
<1>9. CASE ReleaseFree(s) BY <1>9 DEF ReleaseFree, At
<1> QED BY <1>1, <1>2, <1>3, <1>4, <1>5, <1>6, <1>7, <1>8, <1>9 DEF Worker

LEMMA MainOwnership ==
  ASSUME OwnershipInv, MainThread PROVE OwnershipInv'
<1> SUFFICES ThreadInv' /\ MutexInv' /\ BitmapInv' /\ FreshInv'
  BY MainType DEF OwnershipInv
<1> USE MutexValues DEF OwnershipInv
<1>1. CASE ScanOpen BY <1>1 DEF ScanOpen
<1>2. ASSUME NEW d \in Devices, ScanNext(d) PROVE ThreadInv' /\ MutexInv' /\ BitmapInv' /\ FreshInv'
  BY <1>2 DEF ScanNext, CallRegister
<1>3. CASE ScanDone BY <1>3 DEF ScanDone
<1>4. CASE LoopTop
  <2>1. \A t \in Slots : hb_lag[t] = NoBeat => hb_lag'[t] = NoBeat
    BY <1>4 DEF LoopTop, Later
  <2> QED BY <1>4, <2>1 DEF LoopTop
<1>5. CASE WatchdogPass BY <1>5 DEF WatchdogPass
<1>6. CASE WatchdogStop
  <2>1. hb_lag[idx] # NoBeat
    BY <1>6 DEF WatchdogStop, Expired
  <2> QED BY <1>6, <2>1 DEF WatchdogStop
<1>7. CASE WatchdogJoin BY <1>7 DEF WatchdogJoin, Join
<1>8. CASE WatchdogFree BY <1>8 DEF WatchdogFree, CallRegister
<1>9. CASE WatchdogDone BY <1>9 DEF WatchdogDone
<1>10. CASE ReapPass BY <1>10 DEF ReapPass
<1>11. CASE ReapLost BY <1>11 DEF ReapLost
<1>12. CASE ReapJoin BY <1>12 DEF ReapJoin, Join
<1>13. CASE PollHotplug BY <1>13 DEF PollHotplug
<1>14. CASE HotplugEvent BY <1>14 DEF HotplugEvent, CallRegister
<1>15. CASE HotplugDone BY <1>15 DEF HotplugDone
<1>16. CASE RegOpen BY <1>16 DEF RegOpen, Return
<1>17. CASE RegSkip BY <1>17 DEF RegSkip, Return
<1>18. CASE RegFindSlot
  <2> DEFINE freed == free_slots_bitmap \cup SamePath(reg_dev)
  <2>1. freed \subseteq Slots
    BY DEF SamePath
  <2>2. BitmapInv'
    BY <1>18 DEF RegFindSlot, Return
  <2>3. CASE freed = {} /\ Return /\ UNCHANGED proc_mutex
    BY <1>18, <2>2, <2>3 DEF RegFindSlot, Return
  <2>4. ASSUME NEW t \in freed, reg_slot' = t,
               IF threads[t] THEN mpc' = "reg_join" /\ UNCHANGED proc_mutex
                             ELSE mpc' = "reg_conf" /\ proc_mutex' = Main
        PROVE  ThreadInv' /\ MutexInv' /\ BitmapInv' /\ FreshInv'
    BY <1>18, <2>1, <2>2, <2>4 DEF RegFindSlot
  <2> QED BY <1>18, <2>3, <2>4 DEF RegFindSlot
<1>19. CASE RegJoin BY <1>19 DEF RegJoin, Join
<1>20. CASE RegRelock BY <1>20 DEF RegRelock
<1>21. CASE RegConfigure BY <1>21 DEF RegConfigure
<1>22. CASE RegCreate BY <1>22 DEF RegCreate, Return
<1>23. CASE RegCreateFails BY <1>23 DEF RegCreateFails, Return
<1>24. CASE RegMallocFails BY <1>24 DEF RegMallocFails, Return
<1> QED
  BY <1>1, <1>2, <1>3, <1>4, <1>5, <1>6, <1>7, <1>8, <1>9, <1>10, <1>11, <1>12, <1>13,
     <1>14, <1>15, <1>16, <1>17, <1>18, <1>19, <1>20, <1>21, <1>22, <1>23, <1>24
     DEF MainThread, Register

LEMMA OwnershipStep == OwnershipInv /\ [Next]_vars => OwnershipInv'
<1> SUFFICES ASSUME OwnershipInv, [Next]_vars PROVE OwnershipInv'
  OBVIOUS
<1>1. CASE Environment BY <1>1, EnvironmentOwnership
<1>2. CASE MainThread BY <1>2, MainOwnership
<1>3. ASSUME NEW s \in Slots, Worker(s) PROVE OwnershipInv'
  BY <1>3, WorkerOwnership
<1>4. CASE UNCHANGED vars BY <1>4 DEF OwnershipInv
<1> QED BY <1>1, <1>2, <1>3, <1>4 DEF Next

LEMMA Ownership == Spec => []OwnershipInv
BY InitOwnership, OwnershipStep, PTL DEF Spec

\* Registration never writes into, nor starts a thread on, a slot whose
\* previous worker has not been joined.
THEOREM NoSharedSlot == Spec => []RegisteredSlotHasNoWorker
<1>1. OwnershipInv => RegisteredSlotHasNoWorker
  BY DEF OwnershipInv, RegisteredSlotHasNoWorker
<1> QED BY <1>1, Ownership, PTL

\* find_free_slot never returns the slot of a connected controller, although
\* the watchdog updates the bitmap without the mutex.
THEOREM ConnectedSlotReserved == Spec => []ConnectedSlotIsReserved
<1>1. OwnershipInv => ConnectedSlotIsReserved
  BY DEF OwnershipInv, ConnectedSlotIsReserved
<1> QED BY <1>1, Ownership, PTL

\* A worker still connecting has no heartbeat to expire and no stop flag.
THEOREM FreshWorkerClean == Spec => []FreshWorkerIsClean
<1>1. OwnershipInv => FreshWorkerIsClean
  BY DEF OwnershipInv, FreshWorkerIsClean
<1> QED BY <1>1, Ownership, PTL

-----------------------------------------------------------------------------
(***************************************************************************)
(* One registration per hidraw path, and where bits of the bitmap are      *)
(* lost.  GhostInv carries what find_free_slot and the anti-ghost test     *)
(* established under the mutex through the join and the second lock.       *)
(* CopyInv says of the copies of the bitmap that wait to be written back   *)
(* what they may miss: a bit of a slot on which no thread runs.            *)
(***************************************************************************)
GhostInv ==
  /\ mpc \in {"reg_join", "reg_relock", "reg_conf"} =>
       SamePath(reg_dev) = {} /\ ~connected[reg_slot]
  /\ mpc = "reg_create" => connected[reg_slot]
  /\ \A s \in Slots : connected[s] => dev_path[s] # NoPath
  /\ HidrawRegisteredOnce

CopyInv ==
  /\ proc_mutex \in Slots => \A s \in free_slots_bitmap \ w_bitmap : ~threads[s]
  /\ mpc = "wfree" => /\ \A s \in m_bitmap \ free_slots_bitmap : ~threads[s]
                      /\ ~threads[idx]
  /\ mpc = "wfree" /\ proc_mutex \in Slots => \A s \in m_bitmap \ w_bitmap : ~threads[s]

\* The inductive invariant of the registrations.
RegistrationInv == OwnershipInv /\ GhostInv /\ CopyInv

LEMMA HidrawInjective ==
  \A d, e : /\ Hidraw(d).node = "hidraw" /\ Hidraw(d).dev = d
            /\ Event(e).node = "event" /\ Event(e).dev = e
            /\ Hidraw(d) # NoPath /\ Event(e) # NoPath /\ Hidraw(d) # Event(e)
            /\ (Hidraw(d) = Hidraw(e) => d = e)
BY DEF Hidraw, Event, NoPath

LEMMA InitRegistration == Init => RegistrationInv
<1> SUFFICES ASSUME Init PROVE GhostInv /\ CopyInv
  BY InitOwnership DEF RegistrationInv
<1> QED BY MutexValues DEF Init, GhostInv, CopyInv, HidrawRegisteredOnce

USE DEF GhostInv, CopyInv, HidrawRegisteredOnce, SamePath

LEMMA EnvironmentRegistration == RegistrationInv /\ Environment => RegistrationInv'
<1> SUFFICES ASSUME RegistrationInv, NEW d \in Devices, Plug(d) \/ Unplug(d)
             PROVE  GhostInv' /\ CopyInv'
  BY EnvironmentOwnership DEF Environment, RegistrationInv
<1> QED BY DEF RegistrationInv, OwnershipInv, Plug, Unplug

LEMMA WorkerRegistration ==
  ASSUME NEW s \in Slots, RegistrationInv, Worker(s) PROVE RegistrationInv'
<1> SUFFICES GhostInv' /\ CopyInv'
  BY WorkerOwnership DEF RegistrationInv
<1> USE MutexValues, HidrawInjective DEF RegistrationInv, OwnershipInv
<1>1. CASE OpenDevice(s) BY <1>1 DEF OpenDevice, At
<1>2. CASE SetUp(s)
  <2>1. CopyInv'
    BY <1>2 DEF SetUp, At
  <2>2. dev_path' = dev_path \/ dev_path' = [dev_path EXCEPT ![s] = Event(wdev[s])]
    BY <1>2 DEF SetUp
  <2>3. UNCHANGED <<connected, mpc, reg_dev, reg_slot>>
    BY <1>2 DEF SetUp
  <2>4. CASE dev_path' = dev_path
    BY <2>1, <2>3, <2>4
  <2>5. CASE dev_path' = [dev_path EXCEPT ![s] = Event(wdev[s])]
    <3>1. /\ dev_path'[s] = Event(wdev[s])
          /\ \A t \in Slots : t # s => dev_path'[t] = dev_path[t]
      BY <2>5
    <3>2. HidrawRegisteredOnce'
      <4> SUFFICES ASSUME NEW a \in Slots, NEW b \in Slots, a # b, connected[a], connected[b],
                          dev_path'[a].node = "hidraw"
                   PROVE  dev_path'[a] # dev_path'[b]
        BY <2>3
      <4>1. a # s
        BY <3>1
      <4>2. CASE b = s
        BY <3>1, <4>1, <4>2
      <4>3. CASE b # s
        BY <3>1, <4>1, <4>3
      <4> QED BY <4>2, <4>3
    <3>3. \A t \in Slots : connected'[t] => dev_path'[t] # NoPath
      <4>1. Event(wdev[s]) # NoPath
        BY DEF Event, NoPath
      <4> QED BY <2>3, <3>1, <4>1
    <3>4. SamePath(reg_dev)' \subseteq SamePath(reg_dev)
      BY <2>3, <3>1
    <3> QED BY <2>1, <2>3, <3>2, <3>3, <3>4
  <2> QED BY <2>2, <2>4, <2>5
<1>3. CASE SetUpFails(s) BY <1>3 DEF SetUpFails, At
<1>4. CASE Beat(s) BY <1>4 DEF Beat, At
<1>5. CASE CheckStop(s) BY <1>5 DEF CheckStop, At
<1>6. CASE LoopBody(s) BY <1>6 DEF LoopBody, At
<1>7. CASE CloseDevice(s) BY <1>7 DEF CloseDevice, At
<1>8. CASE ReleaseLock(s)
  <2>1. CopyInv'
    BY <1>8 DEF ReleaseLock
  <2>2. \A t \in Slots : connected'[t] => t # s /\ connected[t] /\ dev_path'[t] = dev_path[t]
    BY <1>8 DEF ReleaseLock
  <2>3. \A t \in Slots : t # s => connected'[t] = connected[t]
    BY <1>8 DEF ReleaseLock
  <2>4. mpc = "reg_create" => wpc[reg_slot] = "none" /\ reg_slot # s
    BY <1>8 DEF ReleaseLock
  <2>5. UNCHANGED <<mpc, reg_dev, reg_slot>>
    BY <1>8 DEF ReleaseLock
  <2> QED BY <2>1, <2>2, <2>3, <2>4, <2>5
<1>9. CASE ReleaseFree(s) BY <1>9 DEF ReleaseFree, At
<1> QED BY <1>1, <1>2, <1>3, <1>4, <1>5, <1>6, <1>7, <1>8, <1>9 DEF Worker

LEMMA MainRegistration ==
  ASSUME RegistrationInv, MainThread PROVE RegistrationInv'
<1> SUFFICES GhostInv' /\ CopyInv'
  BY MainOwnership DEF RegistrationInv
<1> USE MutexValues, HidrawInjective DEF RegistrationInv, OwnershipInv
<1>1. CASE ScanOpen BY <1>1 DEF ScanOpen
<1>2. ASSUME NEW d \in Devices, ScanNext(d) PROVE GhostInv' /\ CopyInv'
  BY <1>2 DEF ScanNext, CallRegister
<1>3. CASE ScanDone BY <1>3 DEF ScanDone
<1>4. CASE LoopTop BY <1>4 DEF LoopTop
<1>5. CASE WatchdogPass BY <1>5 DEF WatchdogPass
<1>6. CASE WatchdogStop BY <1>6 DEF WatchdogStop
<1>7. CASE WatchdogJoin BY <1>7 DEF WatchdogJoin, Join
<1>8. CASE WatchdogFree BY <1>8 DEF WatchdogFree, CallRegister
<1>9. CASE WatchdogDone BY <1>9 DEF WatchdogDone
<1>10. CASE ReapPass BY <1>10 DEF ReapPass
<1>11. CASE ReapLost BY <1>11 DEF ReapLost
<1>12. CASE ReapJoin BY <1>12 DEF ReapJoin, Join
<1>13. CASE PollHotplug BY <1>13 DEF PollHotplug
<1>14. CASE HotplugEvent BY <1>14 DEF HotplugEvent, CallRegister
<1>15. CASE HotplugDone BY <1>15 DEF HotplugDone
<1>16. CASE RegOpen BY <1>16 DEF RegOpen, Return
<1>17. CASE RegSkip BY <1>17 DEF RegSkip, Return
<1>18. CASE RegFindSlot
  <2> DEFINE freed == free_slots_bitmap \cup SamePath(reg_dev)
  <2>1. \A t \in Slots : connected'[t] => connected[t] /\ t \notin freed
    BY <1>18 DEF RegFindSlot
  <2>2. UNCHANGED <<dev_path, threads>> /\ proc_mutex = Unlocked /\ mpc = "reg_lock"
    BY <1>18 DEF RegFindSlot
  <2>3. mpc' \in {"scan", "watch", "drain", "reg_join", "reg_conf"} /\ proc_mutex' \in {Main, Unlocked}
    BY <1>18 DEF RegFindSlot, Return
  <2>4. mpc' \in {"reg_join", "reg_conf"} => reg_dev' = reg_dev /\ reg_slot' \in freed
    BY <1>18 DEF RegFindSlot, Return
  <2> QED BY <2>1, <2>2, <2>3, <2>4
<1>19. CASE RegJoin BY <1>19 DEF RegJoin, Join
<1>20. CASE RegRelock BY <1>20 DEF RegRelock
<1>21. CASE RegConfigure
  <2>1. CopyInv'
    BY <1>21 DEF RegConfigure
  <2>2. /\ dev_path'[reg_slot] = Hidraw(reg_dev) /\ connected'[reg_slot]
        /\ \A t \in Slots : t # reg_slot => /\ dev_path'[t] = dev_path[t]
                                            /\ connected'[t] <=> connected[t]
    BY <1>21 DEF RegConfigure
  <2>3. \A t \in Slots : connected[t] => dev_path[t] # Hidraw(reg_dev)
    BY <1>21 DEF RegConfigure
  <2>4. mpc' = "reg_create" /\ reg_slot' = reg_slot
    BY <1>21 DEF RegConfigure
  <2>5. HidrawRegisteredOnce'
    <3> SUFFICES ASSUME NEW a \in Slots, NEW b \in Slots, a # b, connected'[a], connected'[b],
                        dev_path'[a].node = "hidraw"
                 PROVE  dev_path'[a] # dev_path'[b]
      OBVIOUS
    <3>1. CASE a = reg_slot
      BY <2>2, <2>3, <3>1
    <3>2. CASE b = reg_slot
      BY <2>2, <2>3, <3>2
    <3>3. CASE a # reg_slot /\ b # reg_slot
      BY <2>2, <3>3
    <3> QED BY <3>1, <3>2, <3>3
  <2>6. \A t \in Slots : connected'[t] => dev_path'[t] # NoPath
    <3>1. Hidraw(reg_dev) # NoPath
      BY DEF Hidraw, NoPath
    <3> QED BY <2>2, <3>1
  <2> QED BY <2>1, <2>2, <2>4, <2>5, <2>6
<1>22. CASE RegCreate BY <1>22 DEF RegCreate, Return
<1>23. CASE RegCreateFails BY <1>23 DEF RegCreateFails, Return
<1>24. CASE RegMallocFails BY <1>24 DEF RegMallocFails, Return
<1> QED
  BY <1>1, <1>2, <1>3, <1>4, <1>5, <1>6, <1>7, <1>8, <1>9, <1>10, <1>11, <1>12, <1>13,
     <1>14, <1>15, <1>16, <1>17, <1>18, <1>19, <1>20, <1>21, <1>22, <1>23, <1>24
     DEF MainThread, Register

LEMMA RegistrationStep == RegistrationInv /\ [Next]_vars => RegistrationInv'
<1> SUFFICES ASSUME RegistrationInv, [Next]_vars PROVE RegistrationInv'
  OBVIOUS
<1>1. CASE Environment BY <1>1, EnvironmentRegistration
<1>2. CASE MainThread BY <1>2, MainRegistration
<1>3. ASSUME NEW s \in Slots, Worker(s) PROVE RegistrationInv'
  BY <1>3, WorkerRegistration
<1>4. CASE UNCHANGED vars BY <1>4 DEF RegistrationInv, OwnershipInv
<1> QED BY <1>1, <1>2, <1>3, <1>4 DEF Next

LEMMA Registration == Spec => []RegistrationInv
BY InitRegistration, RegistrationStep, PTL DEF Spec

\* A hidraw path is never connected in two slots, although the same device may
\* be offered by the scan, by an inotify event and by the watchdog.
THEOREM RegisteredOnce == Spec => []HidrawRegisteredOnce
<1>1. RegistrationInv => HidrawRegisteredOnce
  BY DEF RegistrationInv
<1> QED BY <1>1, Registration, PTL

-----------------------------------------------------------------------------
(***************************************************************************)
(* The bits that get lost.  A slot stops being free by the three writes to *)
(* the bitmap (the watchdog's, the registration's, a worker's) and stops   *)
(* being in use where a worker exits or a registration returns.            *)
(***************************************************************************)
LossIsKnown ==
  \A s \in Slots : ~Leaked(s) /\ Leaked(s)' =>
    \/ mpc = "wfree" /\ mpc' # "wfree" /\ s \notin m_bitmap
    \/ proc_mutex \in Slots /\ s \notin w_bitmap /\ ~threads[s]
    \/ mpc = "reg_create" /\ connected'[s]

LEMMA NothingLost ==
  ASSUME free_slots_bitmap \subseteq free_slots_bitmap',
         \A s \in Slots : InUse(s) => InUse(s)' \/ s \in free_slots_bitmap'
  PROVE  LossIsKnown
BY DEF LossIsKnown, Leaked

LEMMA WorkerLoss ==
  ASSUME NEW s \in Slots, RegistrationInv, Worker(s) PROVE LossIsKnown
<1> USE MutexValues DEF RegistrationInv, OwnershipInv
<1>1. CASE ReleaseFree(s)
  <2> SUFFICES ASSUME NEW t \in Slots, ~Leaked(t), Leaked(t)'
               PROVE  proc_mutex \in Slots /\ t \notin w_bitmap /\ ~threads[t]
    BY DEF LossIsKnown
  <2>1. proc_mutex = s /\ t \notin w_bitmap /\ t # s
    BY <1>1 DEF ReleaseFree, At, Leaked
  <2>2. InUse(t)' <=> InUse(t)
    BY <1>1, <2>1 DEF ReleaseFree, At, InUse
  <2>3. t \in free_slots_bitmap
    BY <2>2 DEF Leaked
  <2> QED BY <2>1, <2>3
<1>2. CASE ~ReleaseFree(s)
  <2>1. free_slots_bitmap' = free_slots_bitmap /\ UNCHANGED <<mpc, reg_slot>>
    BY <1>2 DEF Worker, OpenDevice, SetUp, SetUpFails, Beat, CheckStop, LoopBody, CloseDevice,
                ReleaseLock
  <2>2. \E to \in WorkerPc \ {"none", "exited"} : wpc' = [wpc EXCEPT ![s] = to]
    BY <1>2 DEF Worker, OpenDevice, SetUp, SetUpFails, Beat, CheckStop, LoopBody, CloseDevice,
                ReleaseLock, At
  <2>3. \A t \in Slots : InUse(t) => InUse(t)'
    BY <2>1, <2>2 DEF InUse
  <2> QED BY <2>1, <2>3, NothingLost
<1> QED BY <1>1, <1>2

LEMMA MainLoss ==
  ASSUME RegistrationInv, MainThread PROVE LossIsKnown
<1> USE MutexValues DEF RegistrationInv, OwnershipInv
<1>1. CASE WatchdogFree
  <2> SUFFICES ASSUME NEW t \in Slots, ~Leaked(t), Leaked(t)'
               PROVE  mpc = "wfree" /\ mpc' # "wfree" /\ t \notin m_bitmap
    BY DEF LossIsKnown
  <2> QED BY <1>1 DEF WatchdogFree, CallRegister, Leaked
<1>2. CASE RegConfigure
  <2> SUFFICES ASSUME NEW t \in Slots, ~Leaked(t) PROVE ~Leaked(t)'
    BY DEF LossIsKnown
  <2> QED BY <1>2 DEF RegConfigure, Leaked, InUse
<1>3. CASE RegMallocFails
  <2> SUFFICES ASSUME NEW t \in Slots, ~Leaked(t), Leaked(t)'
               PROVE  mpc = "reg_create" /\ connected'[t]
    BY DEF LossIsKnown
  <2> QED BY <1>3 DEF RegMallocFails, Leaked, InUse
<1>4. CASE RegCreate
  <2>1. \A t \in Slots : InUse(t) => InUse(t)'
    BY <1>4 DEF RegCreate, InUse
  <2> QED BY <1>4, <2>1, NothingLost DEF RegCreate
<1>5. CASE RegCreateFails
  <2>1. \A t \in Slots : InUse(t) => InUse(t)' \/ t = reg_slot
    BY <1>5 DEF RegCreateFails, InUse
  <2> QED BY <1>5, <2>1, NothingLost DEF RegCreateFails
<1>6. CASE WatchdogJoin \/ ReapJoin \/ RegJoin
  <2>1. free_slots_bitmap' = free_slots_bitmap /\ mpc # "reg_create"
    BY <1>6 DEF WatchdogJoin, ReapJoin, RegJoin
  <2>2. \A t \in Slots : InUse(t) => InUse(t)'
    BY <1>6, <2>1 DEF WatchdogJoin, ReapJoin, RegJoin, Join, InUse
  <2> QED BY <2>1, <2>2, NothingLost
<1>7. CASE \/ ScanOpen \/ (\E d \in Devices : ScanNext(d)) \/ ScanDone \/ LoopTop
           \/ WatchdogPass \/ WatchdogStop \/ WatchdogDone \/ ReapPass \/ ReapLost
           \/ PollHotplug \/ HotplugEvent \/ HotplugDone
           \/ RegOpen \/ RegSkip \/ RegFindSlot \/ RegRelock
  <2>1. free_slots_bitmap \subseteq free_slots_bitmap' /\ wpc' = wpc /\ mpc # "reg_create"
    BY <1>7 DEF ScanOpen, ScanNext, ScanDone, LoopTop, WatchdogPass, WatchdogStop, WatchdogDone,
                ReapPass, ReapLost, PollHotplug, HotplugEvent, HotplugDone,
                RegOpen, RegSkip, RegFindSlot, RegRelock
  <2>2. \A t \in Slots : InUse(t) => InUse(t)'
    BY <2>1 DEF InUse
  <2> QED BY <2>1, <2>2, NothingLost
<1> QED BY <1>1, <1>2, <1>3, <1>4, <1>5, <1>6, <1>7 DEF MainThread, Register

\* A slot's bit gets lost only where the unlocked and the locked mark_slot_free
\* overwrite each other and where the thread arguments cannot be allocated,
\* whatever the number of slots.
THEOREM SlotsLostInKnownPlaces == Spec => SlotLostOnlyInKnownPlaces
<1>1. RegistrationInv /\ [Next]_vars => LossIsKnown
  <2> SUFFICES ASSUME RegistrationInv, [Next]_vars PROVE LossIsKnown
    OBVIOUS
  <2>1. CASE Environment
    BY <2>1, NothingLost DEF Environment, Plug, Unplug, InUse
  <2>2. CASE MainThread BY <2>2, MainLoss
  <2>3. ASSUME NEW s \in Slots, Worker(s) PROVE LossIsKnown
    BY <2>3, WorkerLoss
  <2>4. CASE UNCHANGED vars
    BY <2>4, NothingLost DEF InUse
  <2> QED BY <2>1, <2>2, <2>3, <2>4 DEF Next
<1> QED BY <1>1, Registration, PTL DEF Spec, SlotLostOnlyInKnownPlaces, LossIsKnown

-----------------------------------------------------------------------------
(***************************************************************************)
(* The slots implement SlotPool when every controller keeps its hidraw     *)
(* path.  A registration that finds a ghost is the abstract GiveUp (there  *)
(* is at most one ghost of a path, by HidrawRegisteredOnce), the second    *)
(* critical section of a registration is the abstract Give.                *)
(***************************************************************************)
Holder == [s \in Slots |-> IF connected[s] THEN dev_path[s].dev ELSE NoDevice]

\* Without a Switch Pro, dev_path is never rewritten to an event node.
HidrawInv == \A s \in Slots : dev_path[s] = NoPath \/ \E d \in Devices : dev_path[s] = Hidraw(d)

LEMMA HidrawStep ==
  ASSUME NswDevices = {}, TypeInv, HidrawInv, [Next]_vars PROVE HidrawInv'
<1>1. ASSUME NEW s \in Slots, Worker(s) PROVE HidrawInv'
  <2>1. CASE ReleaseLock(s)
    BY <2>1 DEF ReleaseLock, HidrawInv
  <2>2. CASE ~ReleaseLock(s)
    <3>1. dev_path' = dev_path
      BY <1>1, <2>2 DEF Worker, OpenDevice, SetUp, SetUpFails, Beat, CheckStop, LoopBody,
                        CloseDevice, ReleaseFree
    <3> QED BY <3>1 DEF HidrawInv
  <2> QED BY <2>1, <2>2
<1>2. CASE RegConfigure
  BY <1>2 DEF RegConfigure, HidrawInv
<1>3. ASSUME MainThread, ~RegConfigure PROVE HidrawInv'
  <2>1. dev_path' = dev_path
    BY <1>3 DEF MainThread, Register, ScanOpen, ScanNext, ScanDone, LoopTop, WatchdogPass,
                WatchdogStop, WatchdogJoin, WatchdogFree, WatchdogDone, ReapPass, ReapLost, ReapJoin,
                PollHotplug, HotplugEvent, HotplugDone, RegOpen, RegSkip, RegFindSlot, RegJoin,
                RegRelock, RegCreate, RegCreateFails, RegMallocFails
  <2> QED BY <2>1 DEF HidrawInv
<1>4. CASE Environment \/ UNCHANGED vars
  BY <1>4 DEF Environment, Plug, Unplug, HidrawInv
<1> QED BY <1>1, <1>2, <1>3, <1>4 DEF Next

PoolStep == Pool!Next \/ UNCHANGED Holder

LEMMA HolderValue ==
  ASSUME TypeInv, HidrawInv, GhostInv
  PROVE  \A s \in Slots : connected[s] <=> Holder[s] # NoDevice
<1> SUFFICES ASSUME NEW s \in Slots, connected[s] PROVE dev_path[s].dev \in Devices
  BY DEF Holder
<1>1. PICK d \in Devices : dev_path[s] = Hidraw(d)
  BY DEF HidrawInv
<1> QED BY <1>1 DEF Hidraw

LEMMA HolderChanged ==
  ASSUME NEW s \in Slots, NEW c, Holder'[s] = c, \A t \in Slots \ {s} : Holder'[t] = Holder[t]
  PROVE  Holder' = [Holder EXCEPT ![s] = c]
BY DEF Holder

LEMMA HolderKept ==
  ASSUME TypeInv, TypeInv',
         \A s \in Slots : /\ connected'[s] <=> connected[s]
                          /\ connected[s] => dev_path'[s] = dev_path[s]
  PROVE  PoolStep
BY DEF PoolStep, Holder

LEMMA HolderGivenUp ==
  ASSUME TypeInv, TypeInv', HidrawInv, GhostInv, NEW s \in Slots, ~connected'[s],
         \A t \in Slots \ {s} : /\ connected'[t] <=> connected[t]
                               /\ dev_path'[t] = dev_path[t]
  PROVE  PoolStep
<1>1. CASE ~connected[s]
  BY <1>1, HolderKept
<1>2. CASE connected[s]
  <2>1. Holder[s] # NoDevice
    BY <1>2, HolderValue
  <2>2. Holder' = [Holder EXCEPT ![s] = NoDevice]
    <3>1. Holder'[s] = NoDevice /\ \A t \in Slots \ {s} : Holder'[t] = Holder[t]
      BY DEF Holder
    <3> QED BY <3>1, HolderChanged
  <2>3. Pool!GiveUp(s)
    BY <2>1, <2>2 DEF Pool!GiveUp, Holder
  <2> QED BY <2>3 DEF PoolStep, Pool!Next
<1> QED BY <1>1, <1>2

LEMMA ConfigureGives ==
  ASSUME RegistrationInv, HidrawInv, TypeInv', RegConfigure
  PROVE  PoolStep
<1> USE DEF RegistrationInv, OwnershipInv
<1>1. reg_dev \in Devices /\ reg_slot \in Slots /\ ~connected[reg_slot] /\ SamePath(reg_dev) = {}
  BY DEF RegConfigure
<1>2. \A t \in Slots : Holder[t] # reg_dev
  <2> SUFFICES ASSUME NEW t \in Slots, connected[t], dev_path[t].dev = reg_dev PROVE FALSE
    BY <1>1 DEF Holder
  <2>1. PICK d \in Devices : dev_path[t] = Hidraw(d)
    BY DEF HidrawInv
  <2>2. d = reg_dev
    BY <2>1 DEF Hidraw
  <2> QED BY <1>1, <2>1, <2>2
<1>3. PICK s \in Slots, c \in Devices : s = reg_slot /\ c = reg_dev
  BY <1>1
<1>4. Holder' = [Holder EXCEPT ![s] = c]
  <2>1. connected'[s] /\ dev_path'[s].dev = c
    BY <1>3 DEF RegConfigure, Hidraw
  <2>2. \A t \in Slots \ {s} : (connected'[t] <=> connected[t]) /\ dev_path'[t] = dev_path[t]
    BY <1>3 DEF RegConfigure
  <2>3. Holder'[s] = c /\ \A t \in Slots \ {s} : Holder'[t] = Holder[t]
    BY <2>1, <2>2 DEF Holder
  <2> QED BY <2>3, HolderChanged
<1>5. Pool!Give(s, c)
  BY <1>1, <1>2, <1>3, <1>4 DEF Pool!Give, Holder
<1> QED BY <1>5 DEF PoolStep, Pool!Next

LEMMA FindSlotGivesUp ==
  ASSUME RegistrationInv, HidrawInv, TypeInv', RegFindSlot
  PROVE  PoolStep
<1> USE DEF RegistrationInv, OwnershipInv
<1>1. dev_path' = dev_path /\ reg_dev \in Devices
      /\ \A t \in Slots : connected'[t] <=> connected[t] /\ t \notin SamePath(reg_dev)
  BY DEF RegFindSlot
<1>2. CASE SamePath(reg_dev) = {}
  BY <1>1, <1>2, HolderKept
<1>3. CASE SamePath(reg_dev) # {}
  <2>1. PICK s \in SamePath(reg_dev) : TRUE
    BY <1>3
  <2>2. s \in Slots /\ connected[s] /\ dev_path[s] = Hidraw(reg_dev)
    BY <2>1
  <2>3. dev_path[s].node = "hidraw"
    BY <2>2 DEF Hidraw
  <2>4. \A t \in Slots \ {s} : t \notin SamePath(reg_dev)
    BY <2>2, <2>3
  <2> QED BY <1>1, <2>1, <2>2, <2>4, HolderGivenUp
<1> QED BY <1>2, <1>3

LEMMA PoolRefined ==
  ASSUME NswDevices = {}, RegistrationInv, HidrawInv, TypeInv', [Next]_vars
  PROVE  PoolStep
<1> USE DEF RegistrationInv, OwnershipInv
<1>1. ASSUME NEW s \in Slots, Worker(s) PROVE PoolStep
  <2>1. CASE ReleaseLock(s)
    <3>1. ~connected'[s] /\ \A t \in Slots \ {s} : /\ connected'[t] <=> connected[t]
                                                   /\ dev_path'[t] = dev_path[t]
      BY <2>1 DEF ReleaseLock
    <3> QED BY <3>1, HolderGivenUp
  <2>2. CASE ~ReleaseLock(s)
    <3>1. UNCHANGED <<connected, dev_path>>
      BY <1>1, <2>2 DEF Worker, OpenDevice, SetUp, SetUpFails, Beat, CheckStop, LoopBody,
                        CloseDevice, ReleaseFree
    <3> QED BY <3>1, HolderKept
  <2> QED BY <2>1, <2>2
<1>2. CASE RegConfigure BY <1>2, ConfigureGives
<1>3. CASE RegFindSlot BY <1>3, FindSlotGivesUp
<1>4. CASE WatchdogJoin
  <2>1. idx \in Slots /\ ~connected'[idx]
        /\ \A t \in Slots \ {idx} : (connected'[t] <=> connected[t]) /\ dev_path'[t] = dev_path[t]
    BY <1>4 DEF WatchdogJoin
  <2> QED BY <2>1, HolderGivenUp
<1>5. CASE RegCreateFails
  <2>1. reg_slot \in Slots /\ ~connected'[reg_slot]
        /\ \A t \in Slots \ {reg_slot} : (connected'[t] <=> connected[t]) /\ dev_path'[t] = dev_path[t]
    BY <1>5 DEF RegCreateFails
  <2> QED BY <2>1, HolderGivenUp
<1>6. ASSUME MainThread, ~RegConfigure, ~RegFindSlot, ~WatchdogJoin, ~RegCreateFails PROVE PoolStep
  <2>1. UNCHANGED <<connected, dev_path>>
    BY <1>6 DEF MainThread, Register, ScanOpen, ScanNext, ScanDone, LoopTop, WatchdogPass,
                WatchdogStop, WatchdogFree, WatchdogDone, ReapPass, ReapLost, ReapJoin,
                PollHotplug, HotplugEvent, HotplugDone, RegOpen, RegSkip, RegJoin,
                RegRelock, RegCreate, RegMallocFails
  <2> QED BY <2>1, HolderKept
<1>7. CASE Environment \/ UNCHANGED vars
  <2>1. UNCHANGED <<connected, dev_path>>
    BY <1>7 DEF Environment, Plug, Unplug
  <2> QED BY <2>1, HolderKept
<1> QED BY <1>1, <1>2, <1>3, <1>4, <1>5, <1>6, <1>7 DEF Next

\* Registration, release, watchdog and the failed creation of a thread
\* implement the pool of slots: a controller holds at most one slot, a slot has
\* at most one holder and changes hands only through being given up.
THEOREM SlotPoolImplemented ==
  ASSUME NswDevices = {} PROVE Spec => ImplementsSlotPool
<1>1. Init => Pool!Init /\ HidrawInv
  BY DEF Init, Pool!Init, HidrawInv
<1>2. RegistrationInv /\ HidrawInv /\ [Next]_vars => HidrawInv'
  BY HidrawStep DEF RegistrationInv, OwnershipInv
<1>3. RegistrationInv /\ RegistrationInv' /\ HidrawInv /\ [Next]_vars => [Pool!Next]_Holder
  BY PoolRefined DEF RegistrationInv, OwnershipInv, PoolStep
<1> QED BY <1>1, <1>2, <1>3, Registration, PTL DEF Spec, ImplementsSlotPool, Pool!Spec, Holder
=============================================================================
