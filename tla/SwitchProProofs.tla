-------------------------- MODULE SwitchProProofs ---------------------------
(***************************************************************************)
(* Proofs about the Switch Pro driver: its types, that nothing plays       *)
(* without an owner, and that the motor plays what is asked for.           *)
(*                                                                         *)
(* The last does not follow from itself: what the motor plays is compared  *)
(* with the cache (CacheIsMotor), the cache with the level (CacheIsLevel), *)
(* also while rumble is off and before the worker passes its loop.         *)
(***************************************************************************)
EXTENDS SwitchPro, TLAPS

Owned ==
  /\ \A p \in Pads : motor[p] # 0 => effect_id /\ initialized /\ dev = p
  /\ pc \in {"off", "init", "open"} => ~effect_id

CacheIsMotor ==
  initialized /\ ~removed /\ ~swallowed /\ ~owed => motor[dev] = last

CacheIsLevel ==
  /\ pc \in {"init", "open"} => rumble = 0
  /\ pc # "off" /\ initialized /\ connected /\ ~removed /\ ~swallowed /\ ~owed /\ ~missed
       /\ (~rumble_dirty \/ pc = "lower") /\ (rumble_active \/ rumble = 0) => last = rumble

SwitchInv == TypeOK /\ Owned /\ CacheIsMotor /\ CacheIsLevel

\* The worker's actions that send, one by one.
LEMMA SendCases ==
  ASSUME Send
  PROVE  \/ Send /\ ~connected /\ UNCHANGED <<motor, connected, effect_id, last, recent, events, swallowed, owed>>
         \/ Send /\ connected /\ Off
         \/ Send /\ connected /\ Hup
         \/ Send /\ connected /\ Same
         \/ Send /\ connected /\ StopEffect
         \/ Send /\ connected /\ Limit
         \/ Send /\ connected /\ NewEffect
BY DEF Send, nsw_send_rumble

LEMMA InitHolds == Init => SwitchInv
<1> SUFFICES ASSUME Init PROVE SwitchInv
  OBVIOUS
<1> USE SwitchAssumption
<1>1. offered \in BOOLEAN
  BY DEF Init
<1>2. TypeOK
  BY <1>1 DEF Init, TypeOK, Running
<1>3. Owned /\ CacheIsMotor /\ CacheIsLevel
  BY DEF Init, Owned, CacheIsMotor, CacheIsLevel
<1> QED BY <1>2, <1>3 DEF SwitchInv

\* TypeOK in two parts, for the provers.
FlagsOK ==
  /\ offered \in BOOLEAN /\ rumble_dirty \in BOOLEAN /\ rumble_active \in BOOLEAN
  /\ zeroing \in BOOLEAN /\ hup \in BOOLEAN /\ told \in BOOLEAN
  /\ initialized \in BOOLEAN /\ connected \in BOOLEAN /\ removed \in BOOLEAN
  /\ effect_id \in BOOLEAN /\ recent \in BOOLEAN
  /\ swallowed \in BOOLEAN /\ owed \in BOOLEAN /\ missed \in BOOLEAN

ValuesOK ==
  /\ present \subseteq Pads /\ motor \in [Pads -> Levels]
  /\ rumble \in Levels /\ fd \in Pads /\ dev \in Pads /\ last \in Levels /\ events \in Nat
  /\ pc \in {"off", "init", "open"} \cup Running
  /\ pc \in Running \cup {"open"} => initialized
  /\ effect_id => initialized

\* Every step keeps the types.
LEMMA TypeStep ==
  ASSUME TypeOK, [Next]_vars
  PROVE  TypeOK'
<1> USE SwitchAssumption DEF TypeOK, Running
<1>1. ASSUME NEW p \in Pads, Plug(p) PROVE TypeOK'
  BY <1>1 DEF Plug, Event, slot, context, history, bus, worker
<1>2. ASSUME NEW p \in Pads, Unplug(p) PROVE TypeOK'
  BY <1>2 DEF Unplug, Event, slot, history, bus, context, worker
<1>3. CASE Register
  BY <1>3 DEF Register, context, history, bus, slot, worker
<1>4. CASE Stop
  <2>1. FlagsOK'
    BY <1>4 DEF FlagsOK, Stop, nsw_cleanup, Silence, slot, history, bus, context, worker, Event
  <2>2. ValuesOK'
    BY <1>4 DEF ValuesOK, Stop, nsw_cleanup, Silence, slot, history, bus, context, worker, Event
  <2> QED BY <2>1, <2>2 DEF FlagsOK, ValuesOK
<1>5. CASE Tick
  <2>1. FlagsOK'
    BY <1>5 DEF FlagsOK, Tick, slot, history, bus, context, worker
  <2>2. ValuesOK'
    BY <1>5 DEF ValuesOK, Tick, slot, history, bus, context, worker
  <2> QED BY <2>1, <2>2 DEF FlagsOK, ValuesOK
<1>6. ASSUME NEW on \in BOOLEAN, SetActive(on) PROVE TypeOK'
  <2>1. owed' \in BOOLEAN /\ rumble_active' \in BOOLEAN /\ rumble_dirty' \in BOOLEAN
    BY <1>6 DEF SetActive, bus, slot, context, worker, history
  <2>2. rumble' \in Levels /\ events' \in Nat
    BY <1>6 DEF SetActive, Event, bus, slot, context, worker, history
  <2>3. UNCHANGED <<bus, motor, worker, context, swallowed, missed>> /\ zeroing' \in BOOLEAN
    BY <1>6 DEF SetActive
  <2> QED BY <2>1, <2>2, <2>3 DEF bus, worker, context
<1>7. ASSUME NEW level \in Levels, NEW uhid \in BOOLEAN, Play(level, uhid) PROVE TypeOK'
  BY <1>7 DEF Play, Event, context, history, bus, slot, worker
<1>8. CASE InitContext
  <2>1. UNCHANGED <<bus, motor, slot, zeroing, hup, events>>
    BY <1>8 DEF InitContext
  <2>2. CASE initialized /\ pc' = "open" /\ fd' = Own /\ UNCHANGED <<context, history>>
    BY <2>1, <2>2 DEF bus, slot, context, history
  <2>3. CASE pc' = "off" /\ UNCHANGED fd /\ UNCHANGED <<context, history>>
    BY <2>1, <2>3 DEF bus, slot, context, history
  <2>4. ASSUME NEW p \in present,
               pc' = "open", fd' = p, initialized' = TRUE, connected' = TRUE, dev' = p,
               removed' = FALSE, told' = FALSE, effect_id' = FALSE, last' = 0, recent' = TRUE,
               swallowed' = FALSE, owed' = FALSE, missed' = FALSE
        PROVE  TypeOK'
    BY <2>1, <2>4 DEF bus, slot
  <2> QED BY <1>8, <2>2, <2>3, <2>4 DEF InitContext, nsw_find_evdev_device
<1>9. CASE Open
  <2>3. hup' \in BOOLEAN
    BY <1>9 DEF Open
  <2>1. FlagsOK'
    BY <1>9, <2>3 DEF Open, FlagsOK, bus, slot, context, history
  <2>2. ValuesOK'
    BY <1>9 DEF ValuesOK, Open, Event, slot, context, history, bus, worker
  <2> QED BY <2>1, <2>2 DEF FlagsOK, ValuesOK
<1>10. CASE Monitor
  <2>3. /\ initialized' \in BOOLEAN /\ connected' \in BOOLEAN /\ effect_id' \in BOOLEAN
        /\ removed' = removed /\ told' = told /\ recent' = recent
    BY <1>10 DEF Monitor, nsw_cleanup, Silence, context
  <2>1. FlagsOK'
    BY <1>10, <2>3 DEF Monitor, FlagsOK, bus, slot, history
  <2>2. ValuesOK'
    BY <1>10 DEF ValuesOK, Monitor, nsw_check_inotify, nsw_cleanup, Silence, slot, context, history, bus, worker
  <2> QED BY <2>1, <2>2 DEF FlagsOK, ValuesOK
<1>11. CASE Poll
  <2>3. /\ initialized' \in BOOLEAN /\ connected' \in BOOLEAN /\ effect_id' \in BOOLEAN
        /\ removed' = removed /\ told' = told /\ recent' = recent
    BY <1>11 DEF Poll, nsw_cleanup, Silence, context
  <2>1. FlagsOK'
    BY <1>11, <2>3 DEF Poll, FlagsOK, bus, slot, history
  <2>2. ValuesOK'
    BY <1>11 DEF ValuesOK, Poll, slot, history, bus, context, worker, nsw_cleanup, Silence
  <2> QED BY <2>1, <2>2 DEF FlagsOK, ValuesOK
<1>12. CASE Wait
  BY <1>12 DEF Wait, slot, context, history, bus, worker
<1>13. CASE Send
  <2> USE <1>13 DEF Send, bus, slot
  <2>1. CASE ~connected /\ UNCHANGED <<motor, connected, effect_id, last, recent, events, swallowed, owed>>
    BY <2>1 DEF history
  <2>2. CASE Off
    BY <2>2 DEF Off, Silence, history
  <2>3. CASE Hup
    BY <2>3 DEF Hup, history
  <2>4. CASE Same
    BY <2>4 DEF Same, history
  <2>5. CASE StopEffect
    BY <2>5 DEF StopEffect, Silence
  <2>6. CASE Limit
    BY <2>6 DEF Limit
  <2>7. CASE NewEffect
    <3>1. events' \in Nat
      BY <2>7 DEF NewEffect, Event
    <3>2. motor' \in [Pads -> Levels] /\ last' \in Levels
      BY <2>7 DEF NewEffect, Silence
    <3>3. effect_id' \in BOOLEAN /\ recent' \in BOOLEAN /\ swallowed' \in BOOLEAN /\ owed' \in BOOLEAN
      BY <2>7 DEF NewEffect, Silence
    <3> QED BY <2>7, <3>1, <3>2, <3>3 DEF NewEffect
  <2> QED BY <2>1, <2>2, <2>3, <2>4, <2>5, <2>6, <2>7, SendCases
<1>14. CASE DeleteOther
  BY <1>14 DEF DeleteOther, Event, bus, slot, worker, history
<1>15. CASE Decline
  <2>1. FlagsOK'
    BY <1>15 DEF FlagsOK, Decline, slot, worker, context, history
  <2>2. ValuesOK'
    BY <1>15 DEF ValuesOK, Decline, slot, worker, context, history
  <2> QED BY <2>1, <2>2 DEF FlagsOK, ValuesOK
<1>16. CASE Zero
  <2>1. FlagsOK'
    BY <1>16 DEF FlagsOK, Zero, bus, worker, context
  <2>2. ValuesOK'
    BY <1>16 DEF ValuesOK, Zero, bus, worker, context
  <2> QED BY <2>1, <2>2 DEF FlagsOK, ValuesOK
<1>17. CASE Lower
  BY <1>17 DEF Lower, bus, context, history
<1>18. CASE UNCHANGED vars
  BY <1>18 DEF vars, bus, slot, worker, context, history
<1> QED
  BY <1>1, <1>2, <1>3, <1>4, <1>5, <1>6, <1>7, <1>8, <1>9, <1>10, <1>11, <1>12, <1>13, <1>14,
     <1>15, <1>16, <1>17, <1>18
  DEF Next, Worker

\* A motor plays for the context that has the effect.
LEMMA OwnedStep ==
  ASSUME TypeOK, Owned, [Next]_vars
  PROVE  Owned'
<1> USE SwitchAssumption DEF TypeOK, Running, Owned
<1>1. ASSUME NEW p \in Pads, Plug(p) PROVE Owned'
  BY <1>1 DEF Plug, Event, slot, context, history, bus, worker
<1>2. ASSUME NEW p \in Pads, Unplug(p) PROVE Owned'
  BY <1>2 DEF Unplug, Event, slot, history, bus, context, worker
<1>3. CASE Register
  BY <1>3 DEF Register, context, history, bus, slot, worker
<1>4. CASE Stop
  BY <1>4 DEF Stop, nsw_cleanup, Silence, slot, history, bus, context, worker, Event
<1>5. CASE Tick
  BY <1>5 DEF Tick, slot, history, bus, context, worker
<1>6. ASSUME NEW on \in BOOLEAN, SetActive(on) PROVE Owned'
  BY <1>6 DEF SetActive, Event, context, bus, slot, worker, history
<1>7. ASSUME NEW level \in Levels, NEW uhid \in BOOLEAN, Play(level, uhid) PROVE Owned'
  BY <1>7 DEF Play, Event, context, history, bus, slot, worker
<1>8. CASE InitContext
  BY <1>8 DEF InitContext, nsw_find_evdev_device, slot, context, history, bus, worker
<1>9. CASE Open
  BY <1>9 DEF Open, Event, slot, context, history, bus, worker
<1>10. CASE Monitor
  BY <1>10 DEF Monitor, nsw_check_inotify, nsw_cleanup, Silence, slot, context, history, bus, worker
<1>11. CASE Poll
  BY <1>11 DEF Poll, slot, history, bus, context, worker, nsw_cleanup, Silence
<1>12. CASE Wait
  BY <1>12 DEF Wait, slot, context, history, bus, worker
<1>13. CASE Send
  <2> USE <1>13 DEF Send, bus, slot
  <2>1. CASE ~connected /\ UNCHANGED <<motor, connected, effect_id, last, recent, events, swallowed, owed>>
    BY <2>1 DEF history
  <2>2. CASE Off
    BY <2>2 DEF Off, Silence, history
  <2>3. CASE Hup
    BY <2>3 DEF Hup, history
  <2>4. CASE Same
    BY <2>4 DEF Same, history
  <2>5. CASE StopEffect
    BY <2>5 DEF StopEffect, Silence
  <2>6. CASE Limit
    BY <2>6 DEF Limit
  <2>7. CASE NewEffect
    BY <2>7 DEF NewEffect, Silence, Event
  <2> QED BY <2>1, <2>2, <2>3, <2>4, <2>5, <2>6, <2>7, SendCases
<1>14. CASE DeleteOther
  BY <1>14 DEF DeleteOther, Event, bus, slot, worker, history
<1>15. CASE Decline
  BY <1>15 DEF Decline, slot, worker, context, history
<1>16. CASE Zero
  BY <1>16 DEF Zero, bus, worker, context
<1>17. CASE Lower
  BY <1>17 DEF Lower, bus, context, history
<1>18. CASE UNCHANGED vars
  BY <1>18 DEF vars, bus, slot, worker, context, history
<1> QED
  BY <1>1, <1>2, <1>3, <1>4, <1>5, <1>6, <1>7, <1>8, <1>9, <1>10, <1>11, <1>12, <1>13, <1>14,
     <1>15, <1>16, <1>17, <1>18
  DEF Next, Worker

\* The cache tells what plays, unless a level was swallowed or not uploaded.
LEMMA CacheIsMotorStep ==
  ASSUME SwitchInv, [Next]_vars
  PROVE  CacheIsMotor'
<1> USE SwitchAssumption DEF SwitchInv, TypeOK, Running, Owned, CacheIsMotor
<1>1. ASSUME NEW p \in Pads, Plug(p) PROVE CacheIsMotor'
  BY <1>1 DEF Plug, Event, slot, context, history, bus, worker
<1>2. ASSUME NEW p \in Pads, Unplug(p) PROVE CacheIsMotor'
  BY <1>2 DEF Unplug, Event, slot, history, bus, context, worker
<1>3. CASE Register
  BY <1>3 DEF Register, context, history, bus, slot, worker
<1>4. CASE Stop
  BY <1>4 DEF Stop, nsw_cleanup, Silence, slot, history, bus, context, worker, Event
<1>5. CASE Tick
  BY <1>5 DEF Tick, slot, history, bus, context, worker
<1>6. ASSUME NEW on \in BOOLEAN, SetActive(on) PROVE CacheIsMotor'
  BY <1>6 DEF SetActive, Event, context, bus, slot, worker, history
<1>7. ASSUME NEW level \in Levels, NEW uhid \in BOOLEAN, Play(level, uhid) PROVE CacheIsMotor'
  BY <1>7 DEF Play, Event, context, history, bus, slot, worker
<1>8. CASE InitContext
  BY <1>8 DEF InitContext, nsw_find_evdev_device, slot, context, history, bus, worker
<1>9. CASE Open
  BY <1>9 DEF Open, Event, slot, context, history, bus, worker
<1>10. CASE Monitor
  BY <1>10 DEF Monitor, nsw_check_inotify, nsw_cleanup, Silence, slot, context, history, bus, worker
<1>11. CASE Poll
  BY <1>11 DEF Poll, slot, history, bus, context, worker, nsw_cleanup, Silence
<1>12. CASE Wait
  BY <1>12 DEF Wait, slot, context, history, bus, worker
<1>13. CASE Send
  <2> USE <1>13 DEF Send, bus, slot
  <2>1. CASE ~connected /\ UNCHANGED <<motor, connected, effect_id, last, recent, events, swallowed, owed>>
    BY <2>1 DEF history
  <2>2. CASE Off
    BY <2>2 DEF Off, Silence, history
  <2>3. CASE Hup
    BY <2>3 DEF Hup, history
  <2>4. CASE Same
    BY <2>4 DEF Same, history
  <2>5. CASE StopEffect
    BY <2>5 DEF StopEffect, Silence
  <2>6. CASE Limit
    BY <2>6 DEF Limit
  <2>7. CASE NewEffect
    BY <2>7 DEF NewEffect, Silence, Event
  <2> QED BY <2>1, <2>2, <2>3, <2>4, <2>5, <2>6, <2>7, SendCases
<1>14. CASE DeleteOther
  BY <1>14 DEF DeleteOther, Event, bus, slot, worker, history
<1>15. CASE Decline
  BY <1>15 DEF Decline, slot, worker, context, history
<1>16. CASE Zero
  BY <1>16 DEF Zero, bus, worker, context
<1>17. CASE Lower
  BY <1>17 DEF Lower, bus, context, history
<1>18. CASE UNCHANGED vars
  BY <1>18 DEF vars, bus, slot, worker, context, history
<1> QED
  BY <1>1, <1>2, <1>3, <1>4, <1>5, <1>6, <1>7, <1>8, <1>9, <1>10, <1>11, <1>12, <1>13, <1>14,
     <1>15, <1>16, <1>17, <1>18
  DEF Next, Worker

\* The cache is the level once the flag is taken.
LEMMA CacheIsLevelStep ==
  ASSUME SwitchInv, [Next]_vars
  PROVE  CacheIsLevel'
<1> USE SwitchAssumption DEF SwitchInv, TypeOK, Running, Owned, CacheIsMotor, CacheIsLevel
<1>1. ASSUME NEW p \in Pads, Plug(p) PROVE CacheIsLevel'
  BY <1>1 DEF Plug, Event, slot, context, history, bus, worker
<1>2. ASSUME NEW p \in Pads, Unplug(p) PROVE CacheIsLevel'
  BY <1>2 DEF Unplug, Event, slot, history, bus, context, worker
<1>3. CASE Register
  BY <1>3 DEF Register, context, history, bus, slot, worker
<1>4. CASE Stop
  BY <1>4 DEF Stop, nsw_cleanup, Silence, slot, history, bus, context, worker, Event
<1>5. CASE Tick
  BY <1>5 DEF Tick, slot, history, bus, context, worker
<1>6. ASSUME NEW on \in BOOLEAN, SetActive(on) PROVE CacheIsLevel'
  BY <1>6 DEF SetActive, Event, context, bus, slot, worker, history
<1>7. ASSUME NEW level \in Levels, NEW uhid \in BOOLEAN, Play(level, uhid) PROVE CacheIsLevel'
  BY <1>7 DEF Play, Event, context, history, bus, slot, worker
<1>8. CASE InitContext
  BY <1>8 DEF InitContext, nsw_find_evdev_device, slot, context, history, bus, worker
<1>9. CASE Open
  BY <1>9 DEF Open, Event, slot, context, history, bus, worker
<1>10. CASE Monitor
  BY <1>10 DEF Monitor, nsw_check_inotify, nsw_cleanup, Silence, slot, context, history, bus, worker
<1>11. CASE Poll
  <2>1. CASE pc' = "off"
    BY <2>1
  <2>2. CASE removed
    BY <1>11, <2>2 DEF Poll, nsw_cleanup, context
  <2>3. CASE pc' = "out" /\ UNCHANGED <<motor, context>>
    BY <1>11, <2>3 DEF Poll, slot, context, history
  <2> QED BY <1>11, <2>1, <2>2, <2>3 DEF Poll
<1>12. CASE Wait
  BY <1>12 DEF Wait, slot, context, history, bus, worker
<1>13. CASE Send
  <2> USE <1>13 DEF Send, bus, slot
  <2>1. CASE ~connected /\ UNCHANGED <<motor, connected, effect_id, last, recent, events, swallowed, owed>>
    BY <2>1 DEF history
  <2>2. CASE Off
    BY <2>2 DEF Off, Silence, history
  <2>3. CASE Hup
    BY <2>3 DEF Hup, history
  <2>4. CASE Same
    BY <2>4 DEF Same, history
  <2>5. CASE StopEffect
    BY <2>5 DEF StopEffect, Silence
  <2>6. CASE Limit
    BY <2>6 DEF Limit
  <2>7. CASE NewEffect
    BY <2>7 DEF NewEffect, Silence, Event
  <2> QED BY <2>1, <2>2, <2>3, <2>4, <2>5, <2>6, <2>7, SendCases
<1>14. CASE DeleteOther
  BY <1>14 DEF DeleteOther, Event, bus, slot, worker, history
<1>15. CASE Decline
  BY <1>15 DEF Decline, slot, worker, context, history
<1>16. CASE Zero
  BY <1>16 DEF Zero, bus, worker, context
<1>17. CASE Lower
  BY <1>17 DEF Lower, bus, context, history
<1>18. CASE UNCHANGED vars
  BY <1>18 DEF vars, bus, slot, worker, context, history
<1> QED
  BY <1>1, <1>2, <1>3, <1>4, <1>5, <1>6, <1>7, <1>8, <1>9, <1>10, <1>11, <1>12, <1>13, <1>14,
     <1>15, <1>16, <1>17, <1>18
  DEF Next, Worker

\* The inductive invariant.
THEOREM InvariantHolds == Spec => []SwitchInv
<1>1. SwitchInv /\ [Next]_vars => SwitchInv'
  BY TypeStep, OwnedStep, CacheIsMotorStep, CacheIsLevelStep DEF SwitchInv
<1> QED BY InitHolds, <1>1, PTL DEF Spec

\* The context and the slot keep their types (nsw.c:60-110); a worker in its loop
\* has a context, and so has an effect.
THEOREM TypeCorrect == Spec => []TypeOK
<1>1. SwitchInv => TypeOK
  BY DEF SwitchInv
<1> QED BY InvariantHolds, <1>1, PTL

\* No motor plays without the context that can stop it, and none for a slot whose
\* worker has ended (nsw_send_rumble, nsw_cleanup).
THEOREM NothingUnowned == Spec => []NothingPlaysUnowned
<1>1. SwitchInv => NothingPlaysUnowned
  BY DEF SwitchInv, TypeOK, Owned, NothingPlaysUnowned
<1> QED BY InvariantHolds, <1>1, PTL

\* The motor plays the level that is set, for any levels, commands and failures,
\* except after a level was swallowed or owed (nsw_send_rumble) or rumble off came
\* between a report and the lowering of its flag (rumble_process_pipeline).
THEOREM MotorFollows == Spec => []MotorAsAsked
<1>1. SwitchInv => MotorAsAsked
  BY DEF SwitchInv, TypeOK, Running, CacheIsMotor, CacheIsLevel, MotorAsAsked
<1> QED BY InvariantHolds, <1>1, PTL
=============================================================================
