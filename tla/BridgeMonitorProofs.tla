------------------------- MODULE BridgeMonitorProofs -------------------------
(***************************************************************************)
(* What a subscriber of the bridge may conclude from its signals, for any  *)
(* number of slots, controllers, segments and descriptors.                 *)
(***************************************************************************)
EXTENDS BridgeMonitor, TLAPS

\* Both flags of the monitor say the same between its steps.
FlagsAgree == last_alive_state <=> g_prev_daemon_alive

\* Nothing is remembered of a daemon that is not reported alive.
ForgottenWhenDown ==
  mpc # "report" /\ ~last_alive_state => \A s \in Slots : prev[s] = Zeroed

MappedWhenAlive == daemon_alive => mapped # 0

CacheReadable ==
  \A s \in Slots : prev[s].connected => daemon_alive /\ slots[s].connected

\* Another controller in a slot that is still remembered came by a swap.
SwapRecorded ==
  \A s \in Slots :
    mapped # 0 /\ prev[s].connected /\ shm[mapped][s].connected
      /\ shm[mapped][s].who # prev[s].who
    => s \in swapped

DeathRecorded ==
  (mpc # "sleep" \/ daemon_alive) /\ pid[mapped] = "none" => unseen

\* A profile call that has found the daemon alive opens beside the monitor's
\* descriptor, or is overtaken.
DescriptorLeft ==
  /\ leaked <= FDS
  /\ overtaken \/ leaked < FDS
  /\ call = ProfileCall => mapped # 0 \/ overtaken

BridgeInv ==
  /\ TypeOK /\ FlagsAgree /\ ForgottenWhenDown /\ MappedWhenAlive /\ CacheReadable
  /\ SubscriberInStep /\ IdentityKnownUnlessSwapped /\ SwapRecorded
  /\ DeathRecorded /\ DescriptorLeft

Rest ==
  /\ FlagsAgree /\ ForgottenWhenDown /\ MappedWhenAlive /\ CacheReadable
  /\ SubscriberInStep /\ IdentityKnownUnlessSwapped /\ SwapRecorded
  /\ DeathRecorded /\ DescriptorLeft

\* A slot that memset has cleared is a slot without controller.
LEMMA ZeroedPad == Zeroed \in Pads /\ ~Zeroed.connected
  BY BridgeAssumption DEF Zeroed, Pads, Values

\* A slot with its defaults is a slot without controller.
LEMMA DefaultPad ==
  ASSUME NEW p \in Pads
  PROVE  Defaults(p) \in Pads /\ ~Defaults(p).connected
  BY BridgeAssumption DEF Defaults, Pads, Values

\* What a signal tells of a controller is a sequence of values.
LEMMA ContentType ==
  ASSUME NEW k \in Signals, NEW p \in Pads
  PROVE  Content(k, p) \in Seq(Values)
  BY DEF Content, Signals, Pads

\* A signal that is not due would tell what it told before.
LEMMA NotDueSame ==
  ASSUME NEW k \in Signals, NEW a \in Pads, NEW b \in Pads, ~Due(k, a, b)
  PROVE  Content(k, a) = Content(k, b)
  BY DEF Content, Due, config_changed, telemetry_changed, Signals, Pads

\* The subscriber that knows nothing has the right type.
LEMMA NothingType == Nothing \in Heard
<1>1. \A k \in Signals : Content(k, Zeroed) \in Seq(Values)
  BY ZeroedPad, ContentType
<1>2. QED
  BY <1>1 DEF Nothing, Heard

Fixed ==
  /\ daemon # "down" => cur # 0
  /\ mpc # "sleep" \/ last_alive_state => mapped # 0

\* The inductive invariant holds before the bridge has done anything.
LEMMA BridgeInvInit == Init => BridgeInv
<1> SUFFICES ASSUME Init
             PROVE  BridgeInv
  OBVIOUS
<1>1. FlagsTyped
  BY DEF Init, FlagsTyped
<1>2. DataTyped
  BY ZeroedPad, NothingType, BridgeAssumption DEF Init, DataTyped, Segments
<1>3. Fixed
  BY DEF Init, Fixed
<1>4. Rest
  BY ZeroedPad, BridgeAssumption
  DEF Init, Rest, FlagsAgree, ForgottenWhenDown, MappedWhenAlive, CacheReadable,
      SubscriberInStep, IdentityKnownUnlessSwapped, SwapRecorded, DeathRecorded,
      DescriptorLeft, Nothing
<1>5. QED
  BY <1>1, <1>2, <1>3, <1>4 DEF BridgeInv, TypeOK, Fixed, Rest

\* A step outside the monitor keeps what the subscriber may conclude, provided
\* that it records a swap, a death, and keeps a descriptor.
LEMMA OutsideMonitor ==
  ASSUME BridgeInv,
         UNCHANGED <<cache, liveness, mpc, mapped, heard, lost, lost_status>>,
         swapped \subseteq swapped',
         SwapRecorded', DeathRecorded', DescriptorLeft'
  PROVE  Rest'
<1> USE DEF BridgeInv, cache, liveness
<1>1. FlagsAgree' /\ ForgottenWhenDown' /\ MappedWhenAlive' /\ CacheReadable'
  BY DEF FlagsAgree, ForgottenWhenDown, MappedWhenAlive, CacheReadable
<1>2. SubscriberInStep'
  BY DEF SubscriberInStep
<1>3. IdentityKnownUnlessSwapped'
  BY DEF IdentityKnownUnlessSwapped
<1>4. QED
  BY <1>1, <1>2, <1>3 DEF Rest

\* The daemon and the controllers keep the inductive invariant.
LEMMA OutsideKeeps ==
  ASSUME BridgeInv,
         \/ StartDaemon \/ Publish \/ Beat \/ Hang \/ Die
         \/ \E g \in Segments : ReusePid(g)
         \/ \E s \in Slots : \E c \in Controllers : Plug(s, c)
         \/ \E s \in Slots : Unplug(s) \/ Adjust(s)
  PROVE  BridgeInv'
<1> USE BridgeAssumption
<1>0. TypeOK /\ FlagsTyped /\ DataTyped /\ Fixed
  BY DEF BridgeInv, TypeOK, Fixed
<1>a. /\ UNCHANGED <<cache, liveness, mpc, mapped, heard, lost, lost_status, leaked, call, overtaken>>
      /\ swapped \subseteq swapped'
  BY <1>0 DEF StartDaemon, Publish, Beat, Hang, Die, Dies, ReusePid, Plug, Unplug, Adjust,
     Change, BridgeRests, history, monitor, main
<1>1. CASE StartDaemon
  <2>1. PICK g \in Segments : Boot(g)
    BY <1>1 DEF StartDaemon
  <2> USE <2>1 DEF Boot
  <2>2. FlagsTyped'
    BY <1>0, <1>1 DEF StartDaemon, FlagsTyped, BridgeRests, cache, liveness, main, history
  <2>3. DataTyped'
    BY <1>0, <1>1, ZeroedPad
    DEF StartDaemon, DataTyped, BridgeRests, cache, liveness, main, history, Event, Segments
  <2>4. Fixed'
    BY <1>0, <1>a, <1>1 DEF Fixed, Segments, liveness
  <2>5. SwapRecorded' /\ DeathRecorded' /\ DescriptorLeft'
    BY <1>0, <1>a, <1>1, ZeroedPad
    DEF BridgeInv, SwapRecorded, DeathRecorded, DescriptorLeft, MappedWhenAlive, DataTyped,
        Segments, cache, StartDaemon, history, Fixed
  <2>6. QED
    BY <1>a, <2>2, <2>3, <2>4, <2>5, OutsideMonitor DEF BridgeInv, TypeOK, Fixed, Rest
<1>2. CASE Publish
  <2>0. /\ cur \in Segments
        /\ shm' \in [Segments -> [Slots -> Pads]]
        /\ \A s \in Slots : ~shm'[cur][s].connected
        /\ \A g \in Segments \ {cur} : shm'[g] = shm[g]
    BY <1>0, <1>2, DefaultPad DEF Publish, DataTyped, Fixed, Segments
  <2> HIDE BridgeAssumption
  <2>1. FlagsTyped'
    BY <1>0, <1>2 DEF Publish, FlagsTyped, BridgeRests, cache, liveness, main, monitor, history
  <2>2. DataTyped'
    BY <1>0, <1>2, <2>0
    DEF Publish, DataTyped, BridgeRests, cache, liveness, main, history
  <2>3. Fixed'
    BY <1>0, <1>a, <1>2 DEF Publish, Fixed, liveness, memory
  <2>4. SwapRecorded'
    BY <1>0, <1>a, <1>2, <2>0 DEF Publish, BridgeInv, SwapRecorded, DataTyped, Segments, cache
  <2>5. DeathRecorded' /\ DescriptorLeft'
    BY <1>0, <1>a, <1>2
    DEF Publish, BridgeInv, DeathRecorded, DescriptorLeft, MappedWhenAlive, DataTyped, Fixed,
        Segments, cache, history
  <2>6. QED
    BY <1>a, <2>1, <2>2, <2>3, <2>4, <2>5, OutsideMonitor DEF BridgeInv, TypeOK, Fixed, Rest
<1>3. CASE Beat
  <2>1. FlagsTyped'
    BY <1>0, <1>3 DEF Beat, FlagsTyped, BridgeRests, cache, liveness, main, monitor, history
  <2>2. DataTyped'
    BY <1>0, <1>3, ZeroedPad
    DEF Beat, DataTyped, BridgeRests, cache, liveness, main, monitor, history, memory, Event,
        Segments, Fixed
  <2>3. Fixed'
    BY <1>0, <1>a, <1>3 DEF Beat, Fixed, liveness, memory
  <2>4. SwapRecorded' /\ DeathRecorded' /\ DescriptorLeft'
    BY <1>0, <1>a, <1>3, ZeroedPad
    DEF Beat, BridgeInv, SwapRecorded, DeathRecorded, DescriptorLeft, MappedWhenAlive,
        DataTyped, Fixed, Segments, cache, history, memory
  <2>5. QED
    BY <1>a, <2>1, <2>2, <2>3, <2>4, OutsideMonitor DEF BridgeInv, TypeOK, Fixed, Rest
<1>4. CASE Hang
  <2>1. FlagsTyped'
    BY <1>0, <1>4 DEF Hang, FlagsTyped, BridgeRests, cache, liveness, main, monitor, history
  <2>2. DataTyped'
    BY <1>0, <1>4, ZeroedPad
    DEF Hang, DataTyped, BridgeRests, cache, liveness, main, monitor, history, memory, Event,
        Segments, Fixed
  <2>3. Fixed'
    BY <1>0, <1>a, <1>4 DEF Hang, Fixed, liveness, memory
  <2>4. SwapRecorded' /\ DeathRecorded' /\ DescriptorLeft'
    BY <1>0, <1>a, <1>4, ZeroedPad
    DEF Hang, BridgeInv, SwapRecorded, DeathRecorded, DescriptorLeft, MappedWhenAlive,
        DataTyped, Fixed, Segments, cache, history, memory
  <2>5. QED
    BY <1>a, <2>1, <2>2, <2>3, <2>4, OutsideMonitor DEF BridgeInv, TypeOK, Fixed, Rest
<1>5. CASE Die
  <2>1. FlagsTyped'
    BY <1>0, <1>5 DEF Die, Dies, FlagsTyped, BridgeRests, cache, liveness, main, monitor, history
  <2>2. DataTyped'
    BY <1>0, <1>5, ZeroedPad
    DEF Die, Dies, DataTyped, BridgeRests, cache, liveness, main, monitor, history, memory, Event,
        Segments, Fixed
  <2>3. Fixed'
    BY <1>0, <1>a, <1>5 DEF Die, Dies, Fixed, liveness, memory
  <2>4. SwapRecorded' /\ DeathRecorded' /\ DescriptorLeft'
    BY <1>0, <1>a, <1>5, ZeroedPad
    DEF Die, Dies, BridgeInv, SwapRecorded, DeathRecorded, DescriptorLeft, MappedWhenAlive,
        DataTyped, Fixed, Segments, cache, history, memory
  <2>5. QED
    BY <1>a, <2>1, <2>2, <2>3, <2>4, OutsideMonitor DEF BridgeInv, TypeOK, Fixed, Rest
<1>6. ASSUME NEW g \in Segments, ReusePid(g)
      PROVE  BridgeInv'
  <2>1. FlagsTyped'
    BY <1>0, <1>6 DEF ReusePid, FlagsTyped, BridgeRests, cache, liveness, main, monitor, history
  <2>2. DataTyped'
    BY <1>0, <1>6, ZeroedPad
    DEF ReusePid, DataTyped, BridgeRests, cache, liveness, main, monitor, history, memory, Event,
        Segments, Fixed
  <2>3. Fixed'
    BY <1>0, <1>a, <1>6 DEF ReusePid, Fixed, liveness, memory
  <2>4. SwapRecorded' /\ DeathRecorded' /\ DescriptorLeft'
    BY <1>0, <1>a, <1>6, ZeroedPad
    DEF ReusePid, BridgeInv, SwapRecorded, DeathRecorded, DescriptorLeft, MappedWhenAlive,
        DataTyped, Fixed, Segments, cache, history, memory
  <2>5. QED
    BY <1>a, <2>1, <2>2, <2>3, <2>4, OutsideMonitor DEF BridgeInv, TypeOK, Fixed, Rest
<1>7. ASSUME NEW s \in Slots, NEW c \in Controllers, Plug(s, c)
      PROVE  BridgeInv'
  <2>b. cur \in Segments
    <3>1. daemon = "up"
      BY <1>7 DEF Plug
    <3>2. QED
      BY <1>0, <3>1 DEF Fixed, DataTyped, Segments
  <2>a. Fresh(c, shm[cur][s]) \in Pads
    BY <1>0, <2>b DEF Pads, Fresh, Values, DataTyped
  <2>c. /\ shm' = [shm EXCEPT ![cur][s] = Fresh(c, shm[cur][s])]
        /\ swapped' = IF prev[s].connected THEN swapped \cup {s} ELSE swapped
    BY <1>7 DEF Plug
  <2>1. FlagsTyped'
    BY <1>0, <1>7 DEF Plug, FlagsTyped, BridgeRests, cache, liveness, main, monitor, history
  <2>2. DataTyped'
    <3>1. UNCHANGED <<cur, pid, daemon, mpc, mapped, read_from, age, slots, prev, stamped,
                      call, leaked, heard, lost>> /\ events' \in Nat
      BY <1>0, <1>7 DEF Plug, BridgeRests, cache, main, monitor, Event, DataTyped
    <3>2. QED
      BY <1>0, <2>a, <2>b, <2>c, <3>1 DEF DataTyped
  <2>3. Fixed'
    BY <1>0, <1>a, <1>7 DEF Plug, Fixed, liveness, memory
  <2>4. SwapRecorded'
    <3>1. UNCHANGED <<cur, mapped, prev>> /\ mapped \in 0..MaxSegments
      BY <1>0, <1>a, <1>7 DEF Plug, cache, DataTyped
    <3>2. \A g \in Segments, t \in Slots :
            t # s \/ g # cur => shm'[g][t] = shm[g][t]
      BY <1>0, <2>b, <2>c DEF DataTyped
    <3>3. prev[s].connected => s \in swapped'
      BY <2>c
    <3>4. QED
      BY <1>a, <3>1, <3>2, <3>3 DEF BridgeInv, SwapRecorded, Segments
  <2>5. DeathRecorded' /\ DescriptorLeft'
    BY <1>0, <1>a, <1>7
    DEF Plug, BridgeInv, DeathRecorded, DescriptorLeft, cache, history
  <2>6. QED
    BY <1>a, <2>1, <2>2, <2>3, <2>4, <2>5, OutsideMonitor DEF BridgeInv, TypeOK, Fixed, Rest
<1>8. ASSUME NEW s \in Slots, NEW p \in Pads, Change(s, p),
             p.connected => shm[cur][s].connected, p.who = shm[cur][s].who
      PROVE  BridgeInv'
  <2>1. FlagsTyped'
    BY <1>0, <1>8 DEF Change, FlagsTyped, BridgeRests, cache, liveness, main, monitor, history
  <2>2. DataTyped'
    BY <1>0, <1>8, ZeroedPad
    DEF Change, DataTyped, BridgeRests, cache, liveness, main, monitor, history, memory, Event,
        Segments, Fixed
  <2>3. Fixed'
    BY <1>0, <1>a, <1>8 DEF Change, Fixed, liveness, memory
  <2>4. SwapRecorded' /\ DeathRecorded' /\ DescriptorLeft'
    BY <1>0, <1>a, <1>8, ZeroedPad
    DEF Change, BridgeInv, SwapRecorded, DeathRecorded, DescriptorLeft, MappedWhenAlive,
        DataTyped, Fixed, Segments, cache, history, memory
  <2>5. QED
    BY <1>a, <2>1, <2>2, <2>3, <2>4, OutsideMonitor DEF BridgeInv, TypeOK, Fixed, Rest
<1>9. ASSUME NEW s \in Slots, Unplug(s) \/ Adjust(s)
      PROVE  BridgeInv'
  <2>1. cur \in Segments /\ shm[cur][s] \in Pads
    BY <1>0, <1>9 DEF Unplug, Adjust, Change, Fixed, DataTyped, Segments
  <2>2. CASE Unplug(s)
    BY <1>8, <2>1, <2>2 DEF Unplug, Pads
  <2>3. CASE Adjust(s)
    <3>1. PICK v \in Values :
            \/ Change(s, [shm[cur][s] EXCEPT !.config = v])
            \/ Change(s, [shm[cur][s] EXCEPT !.buttons = v])
            \/ Change(s, [shm[cur][s] EXCEPT !.axes = v])
      BY <2>3 DEF Adjust
    <3>2. QED
      BY <1>8, <2>1, <3>1 DEF Pads
  <2>4. QED
    BY <1>9, <2>2, <2>3
<1>10. QED
  BY <1>1, <1>2, <1>3, <1>4, <1>5, <1>6, <1>7, <1>9

\* A setter leaves a slot of shared memory with its type and its controller.
LEMMA SettersKeepPads ==
  ASSUME NEW p \in Pads,
         NEW q \in SetLevel(p) \cup SetSwitch(p) \cup SetTable(p) \cup Request(p)
  PROVE  q \in Pads /\ (q.connected <=> p.connected) /\ q.who = p.who
<1>1. q = p \/ \E v \in Values : q = [p EXCEPT !.config = v]
  BY BridgeAssumption DEF SetLevel, SetSwitch, SetTable, Request, Values, Arguments
<1>2. QED
  BY <1>1 DEF Pads

\* The calls of the main thread keep the inductive invariant.
LEMMA CallsKeep ==
  ASSUME BridgeInv,
         \/ \E s \in Slots : Ask(s)
         \/ SetupDbus \/ LoseDbus \/ MainStep \/ AskProfile \/ HandleService
  PROVE  BridgeInv'
<1> USE BridgeAssumption
<1>0. TypeOK /\ FlagsTyped /\ DataTyped /\ Fixed
  BY DEF BridgeInv, TypeOK, Fixed
<1>a. UNCHANGED <<cache, liveness, mpc, mapped, heard, lost, lost_status, swapped>>
  BY DEF Ask, SetupDbus, LoseDbus, MainStep, OpenHandle, OpenProfile, Store, AskProfile,
     HandleService, MonitorRests, monitor, history
<1>1. ASSUME NEW s \in Slots, Ask(s)
      PROVE  BridgeInv'
  <2>1. FlagsTyped'
    BY <1>0, <1>1 DEF Ask, Dispatch, FlagsTyped, MonitorRests, cache, liveness, monitor, history
  <2>2. DataTyped'
    BY <1>0, <1>1
    DEF Ask, Dispatch, DataTyped, MonitorRests, cache, monitor, history, memory, Event, Calls, Segments
  <2>3. Fixed'
    BY <1>0, <1>a, <1>1 DEF Ask, Dispatch, Fixed, liveness, memory
  <2>4. SwapRecorded' /\ DeathRecorded'
    BY <1>0, <1>a, <1>1
    DEF Ask, Dispatch, BridgeInv, SwapRecorded, DeathRecorded, cache, history, memory, MonitorRests
  <2>5. DescriptorLeft'
    BY <1>0, <1>a, <1>1
    DEF Ask, Dispatch, BridgeInv, DescriptorLeft, MappedWhenAlive, DataTyped, history, MonitorRests, Open, Calls
  <2>6. QED
    BY <1>a, <2>1, <2>2, <2>3, <2>4, <2>5, OutsideMonitor DEF BridgeInv, TypeOK, Fixed, Rest
<1>2. CASE SetupDbus
  <2>1. FlagsTyped'
    BY <1>0, <1>2 DEF SetupDbus, FlagsTyped, MonitorRests, cache, liveness, main, monitor, history
  <2>2. DataTyped'
    BY <1>0, <1>2, ZeroedPad
    DEF SetupDbus, DataTyped, MonitorRests, cache, liveness, main, monitor, history, memory, Event,
        Segments, Fixed, Calls
  <2>3. Fixed'
    BY <1>0, <1>a, <1>2 DEF SetupDbus, Fixed, liveness, memory
  <2>4. SwapRecorded' /\ DeathRecorded' /\ DescriptorLeft'
    BY <1>0, <1>a, <1>2, ZeroedPad
    DEF SetupDbus, BridgeInv, SwapRecorded, DeathRecorded, DescriptorLeft, MappedWhenAlive,
        DataTyped, Fixed, Segments, cache, history, memory, MonitorRests, main, Open
  <2>5. QED
    BY <1>a, <2>1, <2>2, <2>3, <2>4, OutsideMonitor DEF BridgeInv, TypeOK, Fixed, Rest
<1>3. CASE LoseDbus
  <2>1. FlagsTyped'
    BY <1>0, <1>3 DEF LoseDbus, FlagsTyped, MonitorRests, cache, liveness, main, monitor, history
  <2>2. DataTyped'
    BY <1>0, <1>3, ZeroedPad
    DEF LoseDbus, DataTyped, MonitorRests, cache, liveness, main, monitor, history, memory, Event,
        Segments, Fixed, Calls
  <2>3. Fixed'
    BY <1>0, <1>a, <1>3 DEF LoseDbus, Fixed, liveness, memory
  <2>4. SwapRecorded' /\ DeathRecorded' /\ DescriptorLeft'
    BY <1>0, <1>a, <1>3, ZeroedPad
    DEF LoseDbus, BridgeInv, SwapRecorded, DeathRecorded, DescriptorLeft, MappedWhenAlive,
        DataTyped, Fixed, Segments, cache, history, memory, MonitorRests, main, Open
  <2>5. QED
    BY <1>a, <2>1, <2>2, <2>3, <2>4, OutsideMonitor DEF BridgeInv, TypeOK, Fixed, Rest
<1>4. CASE Store
  <2> DEFINE g == call.segment
             t == call.slot
  <2>1. g \in Segments /\ t \in Slots /\ shm[g][t] \in Pads
    BY <1>0, <1>4 DEF Store, Opened, DataTyped, Calls, Segments
  <2>2. PICK q \in Pads : /\ shm' = [shm EXCEPT ![g][t] = q]
                          /\ q.connected <=> shm[g][t].connected
                          /\ q.who = shm[g][t].who
    <3> DEFINE p == shm[g][t]
               S == SetLevel(p) \cup SetSwitch(p) \cup SetTable(p) \cup Request(p)
    <3>1. \E q \in (IF p.connected THEN S ELSE {p}) :
            shm' = [shm EXCEPT ![g][t] = q]
      BY <1>4 DEF Store
    <3>2. \A q \in S : q \in Pads /\ (q.connected <=> p.connected) /\ q.who = p.who
      BY <2>1, SettersKeepPads
    <3> HIDE DEF S
    <3>3. QED
      BY <2>1, <3>1, <3>2
  <2>3. UNCHANGED <<cur, pid, daemon, mpc, mapped, read_from, age, slots, prev, stamped,
                    leaked, heard, lost, swapped, events, unseen, overtaken>> /\ call' = NoCall
    BY <1>4 DEF Store, MonitorRests, cache, monitor, history
  <2> HIDE DEF g, t
  <2>4. FlagsTyped'
    BY <1>0, <1>4 DEF Store, FlagsTyped, MonitorRests, cache, liveness, monitor, history
  <2>5. DataTyped'
    BY <1>0, <2>1, <2>2, <2>3 DEF DataTyped
  <2>6. Fixed'
    BY <1>0, <1>a, <2>3 DEF Fixed, liveness
  <2>7. SwapRecorded'
    <3>1. \A h \in Segments, u \in Slots :
            /\ shm'[h][u].connected <=> shm[h][u].connected
            /\ shm'[h][u].who = shm[h][u].who
      BY <1>0, <2>1, <2>2 DEF DataTyped
    <3>2. QED
      BY <1>0, <2>3, <3>1 DEF BridgeInv, SwapRecorded, DataTyped, Segments
  <2>8. DeathRecorded' /\ DescriptorLeft'
    BY <1>a, <2>3 DEF BridgeInv, DeathRecorded, DescriptorLeft, cache
  <2>9. QED
    BY <1>a, <2>4, <2>5, <2>6, <2>7, <2>8, OutsideMonitor DEF BridgeInv, TypeOK, Fixed, Rest
<1>5. CASE AskProfile
  <2>1. FlagsTyped'
    BY <1>0, <1>5 DEF AskProfile, Dispatch, FlagsTyped, MonitorRests, cache, liveness, monitor, history
  <2>2. DataTyped'
    BY <1>0, <1>5
    DEF AskProfile, Dispatch, DataTyped, MonitorRests, cache, monitor, history, memory, Event, Calls, Segments
  <2>3. Fixed'
    BY <1>0, <1>a, <1>5 DEF AskProfile, Dispatch, Fixed, liveness, memory
  <2>4. SwapRecorded' /\ DeathRecorded'
    BY <1>0, <1>a, <1>5
    DEF AskProfile, Dispatch, BridgeInv, SwapRecorded, DeathRecorded, cache, history, memory, MonitorRests
  <2>5. DescriptorLeft'
    BY <1>0, <1>a, <1>5
    DEF AskProfile, Dispatch, BridgeInv, DescriptorLeft, MappedWhenAlive, DataTyped, history, MonitorRests, Open, Calls
  <2>6. QED
    BY <1>a, <2>1, <2>2, <2>3, <2>4, <2>5, OutsideMonitor DEF BridgeInv, TypeOK, Fixed, Rest
<1>8. CASE OpenHandle
  <2>1. FlagsTyped'
    BY <1>0, <1>8 DEF OpenHandle, FlagsTyped, MonitorRests, cache, liveness, monitor, history
  <2>2. DataTyped'
    BY <1>0, <1>8
    DEF OpenHandle, DataTyped, MonitorRests, cache, monitor, history, memory, Event, Calls, Segments
  <2>3. Fixed'
    BY <1>0, <1>a, <1>8 DEF OpenHandle, Fixed, liveness, memory
  <2>4. SwapRecorded' /\ DeathRecorded'
    BY <1>0, <1>a, <1>8
    DEF OpenHandle, BridgeInv, SwapRecorded, DeathRecorded, cache, history, memory, MonitorRests
  <2>5. DescriptorLeft'
    BY <1>0, <1>a, <1>8
    DEF OpenHandle, BridgeInv, DescriptorLeft, MappedWhenAlive, DataTyped, history, MonitorRests, Open, Calls
  <2>6. QED
    BY <1>a, <2>1, <2>2, <2>3, <2>4, <2>5, OutsideMonitor DEF BridgeInv, TypeOK, Fixed, Rest
<1>9. CASE OpenProfile
  <2>1. FlagsTyped'
    BY <1>0, <1>9 DEF OpenProfile, FlagsTyped, MonitorRests, cache, liveness, monitor, history
  <2>2. DataTyped'
    BY <1>0, <1>9
    DEF OpenProfile, DataTyped, MonitorRests, cache, monitor, history, memory, Event, Calls, Segments
  <2>3. Fixed'
    BY <1>0, <1>a, <1>9 DEF OpenProfile, Fixed, liveness, memory
  <2>4. SwapRecorded' /\ DeathRecorded'
    BY <1>0, <1>a, <1>9
    DEF OpenProfile, BridgeInv, SwapRecorded, DeathRecorded, cache, history, memory, MonitorRests
  <2>5. DescriptorLeft'
    <3>1. /\ call = ProfileCall /\ call' = NoCall /\ UNCHANGED mapped
          /\ leaked' = IF cur # 0 /\ Open < FDS THEN leaked + 1 ELSE leaked
          /\ overtaken' = (overtaken /\ leaked' = FDS)
      BY <1>9 DEF OpenProfile, monitor
    <3>2. Open = leaked + (IF mapped # 0 THEN 1 ELSE 0) /\ leaked \in Nat
      BY <1>0, <3>1 DEF Open, Opened, DataTyped
    <3>3. /\ leaked <= FDS /\ (overtaken \/ leaked < FDS) /\ (mapped # 0 \/ overtaken)
      BY <3>1 DEF BridgeInv, DescriptorLeft
    <3>4. leaked' <= FDS
      BY <3>1, <3>2, <3>3
    <3>5. overtaken' \/ leaked' < FDS
      <4>1. CASE leaked' = FDS
        <5>1. overtaken
          BY <3>1, <3>2, <3>3, <4>1
        <5>2. QED
          BY <3>1, <4>1, <5>1
      <4>2. CASE leaked' # FDS
        BY <3>1, <3>2, <3>4, <4>2
      <4>3. QED
        BY <4>1, <4>2
    <3>6. QED
      BY <3>1, <3>4, <3>5 DEF DescriptorLeft
  <2>6. QED
    BY <1>a, <2>1, <2>2, <2>3, <2>4, <2>5, OutsideMonitor DEF BridgeInv, TypeOK, Fixed, Rest
<1>6. CASE HandleService
  <2>1. FlagsTyped'
    BY <1>0, <1>6 DEF HandleService, Boot, Dies, FlagsTyped, cache, liveness, main
  <2>2. CASE Boot(cur + 1) /\ cur + 1 \in Segments /\ UNCHANGED unseen
    <3>1. DataTyped'
      BY <1>0, <1>6, <2>2, ZeroedPad
      DEF HandleService, Dispatch, Boot, DataTyped, cache, main, Event, Segments
    <3>2. Fixed'
      BY <1>0, <1>a, <2>2 DEF Boot, Fixed, Segments, liveness
    <3>3. SwapRecorded' /\ DeathRecorded' /\ DescriptorLeft'
      BY <1>0, <1>a, <1>6, <2>2, ZeroedPad
      DEF HandleService, Boot, BridgeInv, SwapRecorded, DeathRecorded, DescriptorLeft,
          MappedWhenAlive, DataTyped, Fixed, Segments, cache, main
    <3>4. QED
      BY <1>a, <2>1, <3>1, <3>2, <3>3, OutsideMonitor DEF BridgeInv, TypeOK, Fixed, Rest
  <2>3. CASE Dies
    <3>1. DataTyped'
      BY <1>0, <1>6, <2>3
      DEF HandleService, Dispatch, Dies, DataTyped, cache, main, Event, Segments, Fixed
    <3>2. Fixed'
      BY <1>0, <1>a, <2>3 DEF Dies, Fixed, liveness
    <3>3. SwapRecorded' /\ DeathRecorded' /\ DescriptorLeft'
      BY <1>0, <1>a, <1>6, <2>3
      DEF HandleService, Dies, BridgeInv, SwapRecorded, DeathRecorded, DescriptorLeft,
          MappedWhenAlive, DataTyped, Fixed, Segments, cache, main
    <3>4. QED
      BY <1>a, <2>1, <3>1, <3>2, <3>3, OutsideMonitor DEF BridgeInv, TypeOK, Fixed, Rest
  <2>4. QED
    BY <1>6, <2>2, <2>3 DEF HandleService
<1>7. QED
  BY <1>1, <1>2, <1>3, <1>4, <1>5, <1>6, <1>8, <1>9 DEF MainStep

\* A bridge that starts again begins as the first one did.
LEMMA RestartKeeps ==
  ASSUME BridgeInv, RestartBridge
  PROVE  BridgeInv'
<1> USE BridgeAssumption DEF RestartBridge
<1>0. FlagsTyped /\ DataTyped /\ Fixed
  BY DEF BridgeInv, TypeOK, Fixed
<1>1. FlagsTyped'
  BY <1>0 DEF FlagsTyped
<1>2. DataTyped'
  BY <1>0, ZeroedPad, NothingType DEF DataTyped, Event, memory
<1>3. Fixed'
  BY <1>0 DEF Fixed, memory
<1>4. Rest'
  BY ZeroedPad
  DEF Rest, FlagsAgree, ForgottenWhenDown, MappedWhenAlive, CacheReadable, SubscriberInStep,
      IdentityKnownUnlessSwapped, SwapRecorded, DeathRecorded, DescriptorLeft, Nothing
<1>5. QED
  BY <1>1, <1>2, <1>3, <1>4 DEF BridgeInv, TypeOK, Fixed, Rest

\* When the daemon is found offline the subscriber is told, or the loss counted.
LEMMA OfflineKeeps ==
  ASSUME BridgeInv, mpc = "sleep", Offline,
         UNCHANGED <<memory, main, events>>,
         unseen' = FALSE, beaten' \in BOOLEAN,
         read_from' \in 0..MaxSegments, age' \in 0..AGE
  PROVE  BridgeInv'
<1> USE BridgeAssumption
<1>0. FlagsTyped /\ DataTyped /\ Fixed
  BY DEF BridgeInv, TypeOK, Fixed
<1>1. FlagsTyped'
  BY <1>0 DEF FlagsTyped, Offline, TellOffline, main
<1>2. DataTyped'
  <2>1. heard' \in Heard /\ lost' \subseteq Items /\ swapped' \subseteq Slots
    BY <1>0, NothingType DEF DataTyped, Offline, TellOffline
  <2>2. prev' \in [Slots -> Pads] /\ stamped' \subseteq Signals \X Slots
    BY <1>0, ZeroedPad DEF DataTyped, Offline
  <2>3. UNCHANGED <<mpc, slots, cur, shm, pid, daemon, call, leaked, events>> /\ mapped' = 0
    BY DEF Offline, memory, main
  <2>4. QED
    BY <1>0, <2>1, <2>2, <2>3 DEF DataTyped
<1>3. Fixed'
  BY <1>0 DEF Fixed, Offline, memory
<1>4. \A s \in Slots : prev'[s] = Zeroed
  BY DEF BridgeInv, ForgottenWhenDown, Offline
<1>5. FlagsAgree'
  BY DEF BridgeInv, FlagsAgree, Offline
<1>6. ForgottenWhenDown' /\ MappedWhenAlive' /\ CacheReadable' /\ SwapRecorded'
        /\ IdentityKnownUnlessSwapped'
  BY <1>4, ZeroedPad
  DEF ForgottenWhenDown, MappedWhenAlive, CacheReadable, SwapRecorded, Offline,
      IdentityKnownUnlessSwapped
<1>7. DeathRecorded' /\ DescriptorLeft'
  BY DEF BridgeInv, DeathRecorded, DescriptorLeft, Offline, main
<1>8. SubscriberInStep'
  <2>1. CASE ~last_alive_state
    <3>1. UNCHANGED <<g_prev_daemon_alive, prev, heard, lost, lost_status>>
      BY <2>1 DEF Offline
    <3>2. QED
      BY <3>1 DEF BridgeInv, SubscriberInStep
  <2>2. CASE last_alive_state /\ dbus_conn
    <3>1. heard' = Nothing /\ ~g_prev_daemon_alive'
      BY <2>2 DEF Offline, TellOffline, BridgeInv, FlagsAgree
    <3>2. QED
      BY <1>4, <3>1, ZeroedPad DEF SubscriberInStep, Nothing
  <2>3. CASE last_alive_state /\ ~dbus_conn
    <3>1. lost' = Items /\ lost_status'
      BY <2>3 DEF Offline, TellOffline, BridgeInv, FlagsAgree
    <3>2. QED
      BY <3>1 DEF SubscriberInStep, Items
  <2>4. QED
    BY <2>1, <2>2, <2>3
<1>9. QED
  BY <1>1, <1>2, <1>3, <1>5, <1>6, <1>7, <1>8 DEF BridgeInv, TypeOK, Fixed, Rest

\* The beginning of a pass keeps the inductive invariant.
LEMMA CheckKeeps ==
  ASSUME BridgeInv, Check
  PROVE  BridgeInv'
<1> DEFINE target == IF mapped # 0 THEN mapped ELSE IF Open < FDS THEN cur ELSE 0
<1> USE BridgeAssumption
<1>0. FlagsTyped /\ DataTyped /\ Fixed
  BY DEF BridgeInv, TypeOK, Fixed
<1>1. target \in 0..MaxSegments
  BY <1>0 DEF DataTyped
<1>2. /\ mpc = "sleep" /\ UNCHANGED <<memory, main, events>> /\ unseen' = FALSE
  BY DEF Check
<1>3. CASE Offline
  <2>1. beaten' \in BOOLEAN
    BY <1>0 DEF Check, FlagsTyped
  <2>2. read_from' \in 0..MaxSegments /\ age' \in 0..AGE
    BY <1>0, <1>1 DEF Check, DataTyped
  <2>3. QED
    BY <1>2, <1>3, <2>1, <2>2, OfflineKeeps
<1>4. CASE /\ target # 0 /\ pid[target] \in {"own", "other"}
           /\ mpc' = "copy" /\ mapped' = target /\ read_from' = target /\ beaten' = FALSE
           /\ age' \in 0..AGE
           /\ UNCHANGED <<cache, liveness, heard, lost, lost_status, swapped, overtaken>>
  <2>1. FlagsTyped'
    BY <1>0, <1>2, <1>4 DEF FlagsTyped, cache, liveness, main
  <2>2. DataTyped'
    BY <1>0, <1>1, <1>2, <1>4 DEF DataTyped, cache, main, memory
  <2>3. Fixed'
    BY <1>0, <1>2, <1>4 DEF Fixed, memory
  <2>4. SwapRecorded'
    <3>1. CASE mapped = 0
      <4>1. \A s \in Slots : ~prev'[s].connected
        BY <1>0, <1>2, <1>4, <3>1, ZeroedPad DEF BridgeInv, ForgottenWhenDown, Fixed, cache
      <4>2. QED
        BY <4>1 DEF SwapRecorded
    <3>2. CASE mapped # 0
      BY <1>2, <1>4, <3>2 DEF BridgeInv, SwapRecorded, cache, memory
    <3>3. QED
      BY <3>1, <3>2
  <2>5. DeathRecorded' /\ DescriptorLeft' /\ MappedWhenAlive'
    BY <1>2, <1>4 DEF BridgeInv, DeathRecorded, DescriptorLeft, MappedWhenAlive, memory, main
  <2>6. FlagsAgree' /\ CacheReadable' /\ IdentityKnownUnlessSwapped'
    BY <1>4 DEF BridgeInv, FlagsAgree, CacheReadable, IdentityKnownUnlessSwapped, cache, liveness
  <2>7. ForgottenWhenDown'
    BY <1>2, <1>4 DEF BridgeInv, ForgottenWhenDown, cache, liveness
  <2>8. SubscriberInStep'
    BY <1>4 DEF BridgeInv, SubscriberInStep, cache, liveness
  <2>9. QED
    BY <2>1, <2>2, <2>3, <2>4, <2>5, <2>6, <2>7, <2>8 DEF BridgeInv, TypeOK, Fixed
<1>5. QED
  <2>1. age \in 0..AGE
    BY <1>0 DEF DataTyped
  <2>2. CASE target = 0
    BY <1>3, <2>2 DEF Check
  <2>3. CASE target # 0
    <3> DEFINE seen(changed, within) ==
                 (changed \/ (age < AGE /\ within)) /\ pid[target] \in {"own", "other"}
    <3>1. PICK changed \in BOOLEAN, within \in BOOLEAN :
            /\ read_from' = target /\ beaten' = FALSE
            /\ age' = IF changed THEN 0 ELSE IF age < AGE THEN age + 1 ELSE AGE
            /\ IF seen(changed, within)
               THEN /\ mpc' = "copy" /\ mapped' = target
                    /\ UNCHANGED <<cache, liveness, heard, lost, lost_status, swapped, overtaken>>
               ELSE Offline
      BY <1>0, <2>3 DEF Check, FlagsTyped
    <3>2. age' \in 0..AGE
      BY <2>1, <3>1
    <3>3. QED
      BY <1>3, <1>4, <2>3, <3>1, <3>2
  <2>4. QED
    BY <2>2, <2>3

\* The end of a pass keeps the inductive invariant.
LEMMA ReportKeeps ==
  ASSUME BridgeInv, Report
  PROVE  BridgeInv'
<1> USE BridgeAssumption
<1>0. FlagsTyped /\ DataTyped /\ Fixed
  BY DEF BridgeInv, TypeOK, Fixed
<1>1. /\ mpc = "report" /\ mpc' = "sleep" /\ last_alive_state'
      /\ UNCHANGED <<memory, cache, mapped, read_from, beaten, age, main, events, lost, swapped,
                     unseen, overtaken>>
  BY DEF Report
<1>2. FlagsTyped'
  BY <1>0 DEF Report, FlagsTyped, cache, main
<1>3. /\ heard' \in Heard
      /\ heard'.present = heard.present /\ heard'.who = heard.who /\ heard'.told = heard.told
  <2>1. heard' = heard \/ heard' = [heard EXCEPT !.status = TRUE]
    BY DEF Report
  <2>2. heard \in Heard
    BY <1>0 DEF DataTyped
  <2>3. QED
    BY <2>1, <2>2 DEF Heard
<1>4. DataTyped'
  BY <1>0, <1>1, <1>3 DEF DataTyped, cache, main, memory
<1>5. Fixed'
  BY <1>0, <1>1 DEF Fixed, memory
<1>6. FlagsAgree' /\ ForgottenWhenDown' /\ MappedWhenAlive' /\ CacheReadable' /\ SwapRecorded'
        /\ DeathRecorded' /\ DescriptorLeft'
  BY <1>1 DEF BridgeInv, FlagsAgree, ForgottenWhenDown, MappedWhenAlive, CacheReadable,
     SwapRecorded, DeathRecorded, DescriptorLeft, Report, cache, memory, main
<1>7. IdentityKnownUnlessSwapped'
  BY <1>1, <1>3 DEF BridgeInv, IdentityKnownUnlessSwapped, cache
<1>8. ~lost_status' => (heard'.status <=> g_prev_daemon_alive')
  <2>1. CASE ~last_alive_state /\ ~g_prev_daemon_alive
    BY <1>0, <2>1 DEF Report, DataTyped, Heard
  <2>2. CASE ~(~last_alive_state /\ ~g_prev_daemon_alive)
    BY <2>2 DEF Report, BridgeInv, SubscriberInStep
  <2>3. QED
    BY <2>1, <2>2
<1>9. SubscriberInStep'
  BY <1>1, <1>3, <1>8 DEF BridgeInv, SubscriberInStep, cache
<1>10. QED
  BY <1>2, <1>4, <1>5, <1>6, <1>7, <1>9 DEF BridgeInv, TypeOK, Fixed

\* What the subscriber knows after a pass has the right type.
LEMMA ToldType ==
  ASSUME DataTyped, NEW dst \in [Slots -> Pads], NEW came, NEW went, NEW sent
  PROVE  Told(dst, came, went, sent) \in Heard
<1>1. heard \in Heard
  BY DEF DataTyped
<1>2. \A k \in Signals, s \in Slots : Content(k, dst[s]) \in Seq(Values)
  BY ContentType
<1>3. [s \in Slots |-> (heard.present[s] \/ s \in came) /\ s \notin went] \in [Slots -> BOOLEAN]
  OBVIOUS
<1>4. [s \in Slots |-> IF s \in came THEN dst[s].who ELSE heard.who[s]]
        \in [Slots -> Controllers \cup {Nobody}]
  BY <1>1 DEF Heard, Pads
<1>5. [s \in Slots |-> [k \in Signals |->
         IF s \in came \/ <<k, s>> \in sent THEN Content(k, dst[s]) ELSE heard.told[s][k]]]
        \in [Slots -> [Signals -> Seq(Values)]]
  BY <1>1, <1>2 DEF Heard
<1>6. QED
  BY <1>1, <1>3, <1>4, <1>5 DEF Told, Heard

\* The parts of what the subscriber knows after a pass.
LEMMA ToldParts ==
  ASSUME DataTyped, NEW dst, NEW came, NEW went, NEW sent, NEW s \in Slots
  PROVE  LET h == Told(dst, came, went, sent) IN
         /\ h.present[s] <=> (heard.present[s] \/ s \in came) /\ s \notin went
         /\ h.who[s] = IF s \in came THEN dst[s].who ELSE heard.who[s]
         /\ \A k \in Signals :
              h.told[s][k] = IF s \in came \/ <<k, s>> \in sent
                             THEN Content(k, dst[s]) ELSE heard.told[s][k]
<1>1. heard \in Heard
  BY DEF DataTyped
<1>2. QED
  BY <1>1 DEF Told, Heard

\* A pass does not tell whether the daemon is alive.
LEMMA ToldStatus ==
  ASSUME DataTyped, NEW dst, NEW came, NEW went, NEW sent
  PROVE  Told(dst, came, went, sent).status <=> heard.status
<1>1. heard \in Heard
  BY DEF DataTyped
<1>2. QED
  BY <1>1 DEF Told, Heard

\* A pass that copies the slots and signals what changed keeps the invariant.
LEMMA CopyKeeps ==
  ASSUME BridgeInv, Copy
  PROVE  BridgeInv'
<1> DEFINE dst  == shm[mapped]
           came == {s \in Slots : dst[s].connected /\ ~prev[s].connected}
           went == {s \in Slots : ~dst[s].connected /\ prev[s].connected}
           due  == {i \in Signals \X Slots :
                      dst[i[2]].connected /\ Due(i[1], dst[i[2]], prev[i[2]])}
<1> USE BridgeAssumption
<1>0. FlagsTyped /\ DataTyped /\ Fixed
  BY DEF BridgeInv, TypeOK, Fixed
<1>1. PICK limited \in SUBSET due :
        /\ mpc = "copy" /\ daemon_alive' = TRUE /\ slots' = dst /\ prev' = dst
        /\ stamped' = stamped \cup (due \ limited)
        /\ IF dbus_conn
           THEN /\ heard' = Told(dst, came, went, due \ limited)
                /\ lost' = {i \in (lost \cup limited) \ (due \ limited) :
                              i[2] \notin came \cup went}
                /\ swapped' = swapped \ (came \cup went)
           ELSE /\ lost' = lost \cup due \cup ({"presence"} \X (came \cup went))
                /\ UNCHANGED <<heard, swapped>>
        /\ mpc' = "report"
  BY DEF Copy, CopySlots
<1>2. UNCHANGED <<memory, liveness, mapped, read_from, beaten, age, main, events, lost_status,
                  unseen, overtaken>>
  BY DEF Copy, CopySlots
<1>3. mapped \in Segments /\ dst \in [Slots -> Pads] /\ prev \in [Slots -> Pads]
  BY <1>0, <1>1 DEF DataTyped, Fixed, Segments
<1>4. FlagsTyped'
  BY <1>0, <1>1, <1>2 DEF FlagsTyped, liveness, main
<1>5. DataTyped'
  <2>1. heard' \in Heard
    BY <1>0, <1>1, <1>3, ToldType DEF DataTyped
  <2>2. lost' \subseteq Items /\ swapped' \subseteq Slots
    BY <1>0, <1>1 DEF DataTyped, Items
  <2>3. stamped' \subseteq Signals \X Slots
    BY <1>0, <1>1 DEF DataTyped
  <2>4. QED
    BY <1>0, <1>1, <1>2, <1>3, <2>1, <2>2, <2>3 DEF DataTyped, memory, main
<1>6. Fixed'
  BY <1>0, <1>1, <1>2 DEF Fixed, memory, liveness
<1>7. FlagsAgree' /\ ForgottenWhenDown' /\ MappedWhenAlive' /\ DescriptorLeft'
  BY <1>1, <1>2, <1>3 DEF BridgeInv, FlagsAgree, ForgottenWhenDown, MappedWhenAlive,
     DescriptorLeft, liveness, main, Segments
<1>8. CacheReadable' /\ SwapRecorded' /\ DeathRecorded'
  BY <1>1, <1>2 DEF BridgeInv, CacheReadable, SwapRecorded, DeathRecorded, memory
<1>9. ASSUME dbus_conn, NEW s \in Slots
      PROVE  /\ heard'.present[s] <=> (heard.present[s] \/ s \in came) /\ s \notin went
             /\ heard'.who[s] = IF s \in came THEN dst[s].who ELSE heard.who[s]
             /\ \A k \in Signals :
                  heard'.told[s][k] = IF s \in came \/ <<k, s>> \in due \ limited
                                      THEN Content(k, dst[s]) ELSE heard.told[s][k]
  BY <1>0, <1>1, <1>9, ToldParts
<1>10. ASSUME NEW s \in Slots, <<"presence", s>> \notin lost'
       PROVE  heard'.present[s] <=> dst[s].connected
  <2>1. <<"presence", s>> \notin due \cup limited
    BY DEF Signals
  <2>2. CASE dbus_conn
    <3>1. s \in came \cup went \/ <<"presence", s>> \notin lost
      BY <1>1, <1>10, <2>1, <2>2
    <3>2. QED
      BY <1>9, <2>2, <3>1 DEF BridgeInv, SubscriberInStep
  <2>3. CASE ~dbus_conn
    BY <1>1, <1>10, <2>3 DEF BridgeInv, SubscriberInStep
  <2>4. QED
    BY <2>2, <2>3
<1>11. ASSUME NEW s \in Slots, NEW k \in Signals,
              <<"presence", s>> \notin lost', <<k, s>> \notin lost', dst[s].connected
       PROVE  heard'.told[s][k] = Content(k, dst[s])
  <2>0. <<"presence", s>> \notin due \cup limited
    BY DEF Signals
  <2>1. <<k, s>> \in due <=> Due(k, dst[s], prev[s])
    BY <1>11
  <2>2. <<k, s>> \notin due => Content(k, dst[s]) = Content(k, prev[s])
    BY <1>3, <2>1, NotDueSame
  <2>3. CASE s \in came
    BY <1>1, <1>9, <1>11, <2>3
  <2>4. CASE s \notin came /\ <<k, s>> \in due \ limited
    BY <1>1, <1>9, <1>11, <2>4
  <2>5. CASE s \notin came /\ <<k, s>> \notin due \ limited
    <3>1. s \notin went /\ prev[s].connected
      BY <1>11, <2>5
    <3>2. <<k, s>> \notin lost /\ <<"presence", s>> \notin lost /\ <<k, s>> \notin due
      BY <1>1, <1>11, <2>0, <2>5, <3>1
    <3>3. heard.told[s][k] = Content(k, prev[s])
      BY <3>1, <3>2 DEF BridgeInv, SubscriberInStep
    <3>4. QED
      BY <1>1, <1>9, <2>2, <2>5, <3>2, <3>3
  <2>6. QED
    BY <2>3, <2>4, <2>5
<1>12. SubscriberInStep'
  <2>1. ~lost_status' => (heard'.status <=> g_prev_daemon_alive')
    <3>1. heard'.status <=> heard.status
      BY <1>0, <1>1, ToldStatus
    <3>2. QED
      BY <1>2, <3>1 DEF BridgeInv, SubscriberInStep, liveness
  <2>2. QED
    BY <1>1, <1>10, <1>11, <2>1 DEF SubscriberInStep
<1>13. IdentityKnownUnlessSwapped'
  <2>1. SUFFICES ASSUME NEW s \in Slots, dst[s].connected, <<"presence", s>> \notin lost',
                        heard'.who[s] # dst[s].who
                 PROVE  s \in swapped'
    BY <1>1 DEF IdentityKnownUnlessSwapped
  <2>2. <<"presence", s>> \notin due \cup limited
    BY DEF Signals
  <2>3. s \notin came
    BY <1>1, <1>9, <2>1
  <2>4. prev[s].connected /\ s \notin went
    BY <2>1, <2>3
  <2>5. <<"presence", s>> \notin lost
    BY <1>1, <2>1, <2>2, <2>3, <2>4
  <2>6. heard.who[s] # dst[s].who
    BY <1>1, <1>9, <2>1, <2>3
  <2>7. s \in swapped
    BY <1>3, <2>1, <2>4, <2>5, <2>6
    DEF BridgeInv, IdentityKnownUnlessSwapped, SwapRecorded, Segments
  <2>8. QED
    BY <1>1, <2>3, <2>4, <2>7
<1>14. QED
  BY <1>4, <1>5, <1>6, <1>7, <1>8, <1>12, <1>13 DEF BridgeInv, TypeOK, Fixed

\* Every step of the daemon, the controllers and both threads of the bridge
\* keeps the inductive invariant.
LEMMA BridgeInvStep == BridgeInv /\ [Next]_vars => BridgeInv'
<1> SUFFICES ASSUME BridgeInv, [Next]_vars
             PROVE  BridgeInv'
  OBVIOUS
<1>1. CASE UNCHANGED vars
  <2>1. Rest'
    BY <1>1
    DEF BridgeInv, Rest, FlagsAgree, ForgottenWhenDown, MappedWhenAlive, CacheReadable,
        SubscriberInStep, IdentityKnownUnlessSwapped, SwapRecorded, DeathRecorded,
        DescriptorLeft, vars, memory, cache, liveness, monitor, main, history
  <2>2. TypeOK'
    BY <1>1
    DEF BridgeInv, TypeOK, FlagsTyped, DataTyped, vars, memory, cache, liveness, monitor, main,
        history
  <2>3. QED
    BY <2>1, <2>2 DEF BridgeInv, Rest
<1>2. CASE Next
  BY <1>2, OutsideKeeps, CallsKeep, RestartKeeps, CheckKeeps, CopyKeeps, ReportKeeps
  DEF Next, MonitorStep
<1>3. QED
  BY <1>1, <1>2

\* The inductive invariant holds for ever.
LEMMA BridgeInvariant == Spec => []BridgeInv
  BY BridgeInvInit, BridgeInvStep, PTL DEF Spec

\* Both threads of the bridge keep their data well typed, and the monitor copies
\* only from a segment it has mapped.
THEOREM TypeCorrect == Spec => []TypeOK
<1>1. BridgeInv => TypeOK
  BY DEF BridgeInv
<1>2. QED
  BY <1>1, BridgeInvariant, PTL

\* Whatever restarts, hangs and lost connections come before: a subscriber that
\* missed no signal knows what the last pass saw.
THEOREM SubscriberKnows == Spec => []SubscriberInStep
<1>1. BridgeInv => SubscriberInStep
  BY DEF BridgeInv
<1>2. QED
  BY <1>1, BridgeInvariant, PTL

\* A slot that was signalled as connected can be read by the getters.
THEOREM SignalledReadable == Spec => []SignalledSlotReadable
<1>1. BridgeInv => SignalledSlotReadable
  BY DEF BridgeInv, SubscriberInStep, CacheReadable, SignalledSlotReadable, Readable
<1>2. QED
  BY <1>1, BridgeInvariant, PTL

\* One controller is taken for another only after a swap between two passes.
THEOREM IdentityKnown == Spec => []IdentityKnownUnlessSwapped
<1>1. BridgeInv => IdentityKnownUnlessSwapped
  BY DEF BridgeInv
<1>2. QED
  BY <1>1, BridgeInvariant, PTL

\* A dead daemon is called alive at most until the next pass begins.
THEOREM DeathIsNoticed == Spec => []DeathNoticed
<1>1. BridgeInv => DeathNoticed
  BY DEF BridgeInv, DeathRecorded, DeathNoticed
<1>2. QED
  BY <1>1, BridgeInvariant, PTL

\* The descriptors that profile calls leave open never take the last one the
\* monitor needs, whatever the limit is, unless the monitor let its own go between
\* a call's look at daemon_alive and its shm_open.
THEOREM DescriptorKept == Spec => []MonitorKeepsDescriptor
<1>1. BridgeInv => MonitorKeepsDescriptor
  BY DEF BridgeInv, DescriptorLeft, MonitorKeepsDescriptor
<1>2. QED
  BY <1>1, BridgeInvariant, PTL
=============================================================================
