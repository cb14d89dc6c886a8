-------------------------- MODULE SlotOutputProofs --------------------------
(***************************************************************************)
(* Proofs about a slot's output side: what the dirty flags, the requests   *)
(* and the rumble switch guarantee for any set of colours, any number of   *)
(* retries and any number of commands.                                     *)
(***************************************************************************)
EXTENDS SlotOutput, TLAPS

\* A report just written is what the slot says, or the change was recorded.
ReportIsCurrent ==
  /\ pc = "led_clear" /\ retry_count = 0 => hw.led = led \/ "led" \in missed
  /\ pc = "rumble_clear" => hw.rumble = rumble \/ "rumble" \in missed

FlagsInv ==
  /\ LedShownUnlessMissed
  /\ RumbleShownUnlessMissed
  /\ ReportIsCurrent
  /\ RumbleOffIsQuiet

\* A pending request is that of the last command.
PendingIsLast ==
  led_request_pending => (led_request_effect = 0 <=> last_mode = "static")

\* A request being carried out is that of the last command, which has not been
\* followed by another.
TakenIsLast ==
  ~led_request_pending /\ ~overtaken /\ taker # "none" =>
    /\ taken.effect = 0 <=> last_mode = "static"
    /\ taken.mode_set => /\ ~frozen => (led_static <=> taken.effect = 0)
                         /\ taken.base = led_base

\* An effect does not draw into a static light bar.
DrawIsLast ==
  ~led_request_pending /\ ~overtaken /\ ~frozen /\ taker = "none" /\ pc = "draw"
    => ~led_static

ModeInv ==
  /\ LastLedCommandHolds
  /\ PendingIsLast
  /\ TakenIsLast
  /\ DrawIsLast

(***************************************************************************)
(* Types.                                                                  *)
(***************************************************************************)

\* The initial state of a registered slot is well typed.
LEMMA InitType == Init => TypeOK
<1> SUFFICES ASSUME Init
             PROVE  TypeOK
  OBVIOUS
<1>0. PICK cfg \in Saved :
           /\ led = cfg.shown /\ led_base = cfg.base
           /\ led_request_effect = cfg.effect /\ led_static = (cfg.effect = 0)
           /\ last_mode = IF cfg.effect = 0 THEN "static" ELSE "effect"
           /\ led_reapply = cfg.reapply /\ rumble_active = cfg.on
  BY DEF Init
<1>a. cfg \in SlotConfigs
  BY OutputAssumption
<1>b. led_reapply \in BOOLEAN /\ rumble_active \in BOOLEAN /\ led_static \in BOOLEAN
  BY <1>0, <1>a DEF SlotConfigs
<1>1. led_dirty \in BOOLEAN /\ led_request_pending \in BOOLEAN
  BY Zenon DEF Init
<1>2. /\ rumble_dirty \in BOOLEAN /\ active_effect \in BOOLEAN
      /\ fx_active \in BOOLEAN /\ local_led_dirty \in BOOLEAN /\ modified \in BOOLEAN
  BY Zenon DEF Init
<1>3. /\ off_pending \in BOOLEAN /\ overtaken \in BOOLEAN /\ frozen \in BOOLEAN
      /\ silenced \in BOOLEAN
  BY Zenon DEF Init
<1>4. LightOK
  BY <1>0, <1>a, <1>b, <1>1, OutputAssumption DEF Init, LightOK, SlotConfigs
<1>5. MotorsOK
  BY <1>b, <1>2 DEF Init, MotorsOK, NoFf
<1>6. EffectsOK
  BY <1>2, OutputAssumption DEF Init, EffectsOK, NoTake
<1>7. WorkerOK
  BY <1>2, OutputAssumption DEF Init, WorkerOK
<1>8. DeviceOK
  BY <1>2, OutputAssumption DEF Init, DeviceOK
<1>9. HistoryOK
  BY <1>0, <1>3, OutputAssumption DEF Init, HistoryOK
<1>10. QED
  BY <1>4, <1>5, <1>6, <1>7, <1>8, <1>9 DEF TypeOK

\* Every action keeps the types of the light bar's fields.
LEMMA LightType == TypeOK /\ Next => LightOK'
<1> SUFFICES ASSUME TypeOK, Next
             PROVE  LightOK'
  OBVIOUS
<1> USE OutputAssumption DEF TypeOK, LightOK
<1>1. CASE Client
  <2>1. CASE \E c \in Colours : SetColour(c)
    BY <2>1 DEF SetColour, Command
  <2>2. CASE \E c \in Colours : Intervene(c)
    BY <2>2 DEF Intervene, light
  <2>3. CASE SetStatic
    BY <2>3 DEF SetStatic, Command
  <2>4. CASE \E e \in {0, 1} : SetEffect(e)
    BY <2>4 DEF SetEffect, Command
  <2>5. CASE \E cfg \in Saved : ApplyProfile(cfg)
    BY <2>5 DEF ApplyProfile, SlotConfigs, Command
  <2>6. CASE Touch \/ TuiPled \/ \E on \in BOOLEAN : SetReapply(on)
    BY <2>6 DEF Touch, TuiPled, SetReapply
  <2>7. CASE RumbleOn \/ RumbleOff
    BY <2>7 DEF RumbleOn, RumbleOff, light
  <2>8. QED
    BY <1>1, <2>1, <2>2, <2>3, <2>4, <2>5, <2>6, <2>7 DEF Client
<1>2. CASE Silence \/ Game
  BY <1>2 DEF Game, Silence, FfUpload, FfStart, FfStop, FfEvent, Input, Goto,
              RumbleMissed, light, effects, worker, device, history
<1>3. CASE TakeOwn \/ TakeOther \/ ApplyMode \/ ApplyColour
  <2>1. CASE TakeOwn \/ TakeOther
    BY <2>1 DEF TakeOwn, TakeOther, Take, NoTake
  <2>2. CASE ApplyMode
    BY <2>2 DEF ApplyMode
  <2>3. CASE ApplyColour
    BY <2>3 DEF ApplyColour, EffectsOK
  <2>4. QED
    BY <1>3, <2>1, <2>2, <2>3
<1>4. CASE Top \/ SkipEffects \/ Frame \/ Draw \/ PollInotify \/ GameQuiet
  <2>1. CASE Top \/ SkipEffects \/ Frame \/ GameQuiet
    BY <2>1 DEF Top, SkipEffects, Frame, GameQuiet, light
  <2>2. CASE Draw
    BY <2>2 DEF Draw
  <2>3. CASE PollInotify
    <3>1. led_dirty' \in BOOLEAN
      BY <2>3, Zenon DEF PollInotify
    <3>2. external_retry_count' \in 0 .. RETRIES
      BY <2>3 DEF PollInotify
    <3>3. QED
      BY <2>3, <3>1, <3>2 DEF PollInotify
  <2>4. QED
    BY <1>4, <2>1, <2>2, <2>3
<1>5. CASE RumbleWait \/ RumbleSend \/ RumbleClear \/ LedWait \/ LedSend \/ LedClear
  <2>1. CASE RumbleWait \/ LedWait
    BY <2>1 DEF RumbleWait, LedWait, light
  <2>2. CASE RumbleSend
    BY <2>2 DEF RumbleSend, light
  <2>3. CASE RumbleClear
    BY <2>3 DEF RumbleClear, light
  <2>4. CASE LedSend
    BY <2>4 DEF LedSend, light
  <2>5. CASE LedClear
    <3>1. led_dirty' \in BOOLEAN
      BY <2>5, Zenon DEF LedClear
    <3>2. external_retry_count' \in 0 .. RETRIES
      BY <2>5 DEF LedClear
    <3>3. QED
      BY <2>5, <3>1, <3>2 DEF LedClear
  <2>6. QED
    BY <1>5, <2>1, <2>2, <2>3, <2>4, <2>5
<1>6. QED
  BY <1>1, <1>2, <1>3, <1>4, <1>5 DEF Next, Pass

\* Every action keeps the types of the rumble fields.
LEMMA MotorsType == TypeOK /\ Next => MotorsOK'
<1> SUFFICES ASSUME TypeOK, Next
             PROVE  MotorsOK'
  OBVIOUS
<1> USE OutputAssumption DEF TypeOK, MotorsOK
<1>1. CASE Client
  <2>1. CASE \E c \in Colours : SetColour(c)
    BY <2>1 DEF SetColour, Command
  <2>2. CASE \E c \in Colours : Intervene(c)
    BY <2>2 DEF Intervene, motors
  <2>3. CASE SetStatic
    BY <2>3 DEF SetStatic, Command
  <2>4. CASE \E e \in {0, 1} : SetEffect(e)
    BY <2>4 DEF SetEffect, Command
  <2>5. CASE \E cfg \in Saved : ApplyProfile(cfg)
    BY <2>5 DEF ApplyProfile, SlotConfigs, Command
  <2>6. CASE Touch \/ TuiPled \/ \E on \in BOOLEAN : SetReapply(on)
    BY <2>6 DEF Touch, TuiPled, SetReapply, motors
  <2>7. CASE RumbleOn \/ RumbleOff
    BY <2>7 DEF RumbleOn, RumbleOff
  <2>8. QED
    BY <1>1, <2>1, <2>2, <2>3, <2>4, <2>5, <2>6, <2>7 DEF Client
<1>2. CASE Silence \/ Game
  <2>1. CASE Silence
    BY <2>1 DEF Silence
  <2>2. CASE \E t \in {1, 2} : FfUpload(t)
    BY <2>2 DEF FfUpload, FfEvent
  <2>3. CASE FfStart
    BY <2>3 DEF FfStart, FfEvent
  <2>4. CASE FfStop
    BY <2>4 DEF FfStop, FfEvent
  <2>5. QED
    BY <1>2, <2>1, <2>2, <2>3, <2>4 DEF Game
<1>3. CASE TakeOwn \/ TakeOther \/ ApplyMode \/ ApplyColour
  BY <1>3 DEF TakeOwn, TakeOther, Take, NoTake, ApplyMode, ApplyColour, LedMissed, Goto,
              motors, worker, device, history
<1>4. CASE Top \/ SkipEffects \/ Frame \/ Draw \/ PollInotify \/ GameQuiet
  BY <1>4 DEF Top, SkipEffects, Frame, Draw, PollInotify, GameQuiet, Goto,
              light, motors, effects, history
<1>5. CASE RumbleWait \/ RumbleSend \/ RumbleClear \/ LedWait \/ LedSend \/ LedClear
  BY <1>5 DEF RumbleWait, RumbleSend, RumbleClear, LedWait, LedSend, LedClear, Goto,
              Report, light, motors, effects, device, history
<1>6. QED
  BY <1>1, <1>2, <1>3, <1>4, <1>5 DEF Next, Pass

\* Every action keeps the types of the effect state.
LEMMA EffectsType == TypeOK /\ Next => EffectsOK'
<1> SUFFICES ASSUME TypeOK, Next
             PROVE  EffectsOK'
  OBVIOUS
<1> USE OutputAssumption DEF TypeOK, EffectsOK
<1>1. CASE Client
  BY <1>1 DEF Client, SetColour, Intervene, SetStatic, SetEffect, ApplyProfile, Touch, TuiPled,
              SetReapply, RumbleOn, RumbleOff, Command, Input, LedMissed,
              light, motors, effects, worker, device, history
<1>2. CASE Silence \/ Game
  BY <1>2 DEF Game, Silence, FfUpload, FfStart, FfStop, FfEvent, Input, Goto,
              RumbleMissed, light, effects, worker, device, history
<1>3. CASE TakeOwn \/ TakeOther \/ ApplyMode \/ ApplyColour
  <2>1. CASE TakeOwn \/ TakeOther
    BY <2>1 DEF TakeOwn, TakeOther, Take, NoTake, LightOK
  <2>2. CASE ApplyMode
    BY <2>2 DEF ApplyMode, LightOK
  <2>3. CASE ApplyColour
    BY <2>3 DEF ApplyColour, NoTake
  <2>4. QED
    BY <1>3, <2>1, <2>2, <2>3
<1>4. CASE Top \/ SkipEffects \/ Frame \/ Draw \/ PollInotify \/ GameQuiet
  BY <1>4 DEF Top, SkipEffects, Frame, Draw, PollInotify, GameQuiet, Goto,
              light, motors, effects, history
<1>5. CASE RumbleWait \/ RumbleSend \/ RumbleClear \/ LedWait \/ LedSend \/ LedClear
  BY <1>5 DEF RumbleWait, RumbleSend, RumbleClear, LedWait, LedSend, LedClear, Goto,
              Report, light, motors, effects, device, history
<1>6. QED
  BY <1>1, <1>2, <1>3, <1>4, <1>5 DEF Next, Pass

\* Every action keeps the types of the worker's locals.
LEMMA WorkerType == TypeOK /\ Next => WorkerOK'
<1> SUFFICES ASSUME TypeOK, Next
             PROVE  WorkerOK'
  OBVIOUS
<1> USE OutputAssumption DEF TypeOK, WorkerOK
<1>1. CASE Client
  BY <1>1 DEF Client, SetColour, Intervene, SetStatic, SetEffect, ApplyProfile, Touch, TuiPled,
              SetReapply, RumbleOn, RumbleOff, Command, Input, LedMissed,
              light, motors, effects, worker, device, history
<1>2. CASE Silence \/ Game
  BY <1>2 DEF Game, Silence, FfUpload, FfStart, FfStop, FfEvent, Input, Goto,
              RumbleMissed, light, effects, worker, device, history
<1>3. CASE TakeOwn \/ TakeOther \/ ApplyMode \/ ApplyColour
  BY <1>3 DEF TakeOwn, TakeOther, Take, NoTake, ApplyMode, ApplyColour, LedMissed, Goto,
              motors, worker, device, history
<1>4. CASE Top \/ SkipEffects \/ Frame \/ Draw \/ PollInotify \/ GameQuiet
  <2>1. CASE Top \/ SkipEffects \/ Frame \/ GameQuiet
    BY <2>1 DEF Top, SkipEffects, Frame, GameQuiet, Goto, LightOK
  <2>2. CASE Draw
    BY <2>2 DEF Draw, Goto
  <2>3. CASE PollInotify
    BY <2>3 DEF PollInotify, Goto
  <2>4. QED
    BY <1>4, <2>1, <2>2, <2>3
<1>5. CASE RumbleWait \/ RumbleSend \/ RumbleClear \/ LedWait \/ LedSend \/ LedClear
  <2>0. local_led_dirty' = FALSE => local_led_dirty' \in BOOLEAN
    BY Zenon
  <2>1. CASE RumbleWait \/ LedWait
    BY <2>0, <2>1 DEF RumbleWait, LedWait, Goto
  <2>2. CASE RumbleSend
    BY <2>2 DEF RumbleSend, Goto
  <2>3. CASE RumbleClear
    BY <2>3 DEF RumbleClear, Goto
  <2>4. CASE LedSend
    BY <2>4 DEF LedSend, Goto, LightOK
  <2>5. CASE LedClear
    BY <2>0, <2>5 DEF LedClear, Goto
  <2>6. QED
    BY <1>5, <2>1, <2>2, <2>3, <2>4, <2>5
<1>6. QED
  BY <1>1, <1>2, <1>3, <1>4, <1>5 DEF Next, Pass

\* Every action keeps the types of the controller's state.
LEMMA DeviceType == TypeOK /\ Next => DeviceOK'
<1> SUFFICES ASSUME TypeOK, Next
             PROVE  DeviceOK'
  OBVIOUS
<1> USE OutputAssumption DEF TypeOK, DeviceOK
<1>1. CASE Client
  BY <1>1 DEF Client, SetColour, Intervene, SetStatic, SetEffect, ApplyProfile, Touch, TuiPled,
              SetReapply, RumbleOn, RumbleOff, Command, Input, LedMissed,
              light, motors, effects, worker, device, history
<1>2. CASE Silence \/ Game
  BY <1>2 DEF Game, Silence, FfUpload, FfStart, FfStop, FfEvent, Input, Goto,
              RumbleMissed, light, effects, worker, device, history
<1>3. CASE TakeOwn \/ TakeOther \/ ApplyMode \/ ApplyColour
  BY <1>3 DEF TakeOwn, TakeOther, Take, NoTake, ApplyMode, ApplyColour, LedMissed, Goto,
              motors, worker, device, history
<1>4. CASE Top \/ SkipEffects \/ Frame \/ Draw \/ PollInotify \/ GameQuiet
  <2>1. CASE Top \/ SkipEffects \/ Frame \/ GameQuiet
    BY <2>1 DEF Top, SkipEffects, Frame, GameQuiet, device
  <2>2. CASE Draw
    BY <2>2 DEF Draw, device
  <2>3. CASE PollInotify
    BY <2>3 DEF PollInotify
  <2>4. QED
    BY <1>4, <2>1, <2>2, <2>3
<1>5. CASE RumbleWait \/ RumbleSend \/ RumbleClear \/ LedWait \/ LedSend \/ LedClear
  <2>1. CASE RumbleWait \/ LedWait
    BY <2>1 DEF RumbleWait, LedWait, device
  <2>2. CASE RumbleSend
    <3>1. modified' \in BOOLEAN
      BY <2>2, Zenon DEF RumbleSend, Report, device
    <3>2. hw' \in [led : Colours, rumble : {0, 1}]
      BY <2>2 DEF RumbleSend, Report, device, LightOK, MotorsOK
    <3>3. QED
      BY <3>1, <3>2
  <2>3. CASE RumbleClear
    BY <2>3 DEF RumbleClear, device
  <2>4. CASE LedSend
    <3>1. modified' \in BOOLEAN
      BY <2>4, Zenon DEF LedSend, Report, device
    <3>2. hw' \in [led : Colours, rumble : {0, 1}]
      BY <2>4 DEF LedSend, Report, device, LightOK, MotorsOK
    <3>3. QED
      BY <3>1, <3>2
  <2>5. CASE LedClear
    BY <2>5 DEF LedClear, device
  <2>6. QED
    BY <1>5, <2>1, <2>2, <2>3, <2>4, <2>5
<1>6. QED
  BY <1>1, <1>2, <1>3, <1>4, <1>5 DEF Next, Pass

\* Every action keeps the types of the bookkeeping.
LEMMA HistoryType == TypeOK /\ Next => HistoryOK'
<1> SUFFICES ASSUME TypeOK, Next
             PROVE  HistoryOK'
  OBVIOUS
<1> USE OutputAssumption DEF TypeOK, HistoryOK
<1>0. frozen' = FALSE => frozen' \in BOOLEAN
  BY Zenon
<1>1. CASE Client
  <2>1. CASE \E c \in Colours : SetColour(c)
    BY <1>0, <2>1 DEF SetColour, Command, Input, LedMissed
  <2>2. CASE \E c \in Colours : Intervene(c)
    BY <2>2 DEF Intervene, Input
  <2>3. CASE SetStatic
    BY <1>0, <2>3 DEF SetStatic, Command, Input, LedMissed
  <2>4. CASE \E e \in {0, 1} : SetEffect(e)
    BY <1>0, <2>4 DEF SetEffect, Command, Input
  <2>5. CASE \E cfg \in Saved : ApplyProfile(cfg)
    BY <1>0, <2>5 DEF ApplyProfile, Command, Input, LedMissed
  <2>6. CASE Touch
    BY <2>6 DEF Touch, Input, history
  <2>11. CASE TuiPled
    <3>1. frozen' \in BOOLEAN
      BY <2>11, Zenon DEF TuiPled
    <3>2. QED
      BY <2>11, <3>1 DEF TuiPled, Input
  <2>7. CASE \E on \in BOOLEAN : SetReapply(on)
    BY <2>7 DEF SetReapply, Input, history
  <2>8. CASE RumbleOn
    <3>1. silenced' \in BOOLEAN
      BY <2>8, Zenon DEF RumbleOn
    <3>2. QED
      BY <2>8, <3>1 DEF RumbleOn, Input
  <2>9. CASE RumbleOff
    BY <2>9 DEF RumbleOff, Input, history
  <2>10. QED
    BY <1>1, <2>1, <2>2, <2>3, <2>4, <2>5, <2>6, <2>7, <2>8, <2>9, <2>11 DEF Client
<1>2. CASE Silence \/ Game
  <2>1. CASE Silence
    BY <2>1 DEF Silence, RumbleMissed
  <2>2. CASE \E t \in {1, 2} : FfUpload(t)
    BY <2>2 DEF FfUpload, FfEvent, Goto
  <2>3. CASE FfStart
    BY <2>3 DEF FfStart, FfEvent, Input, Goto
  <2>4. CASE FfStop
    BY <2>4 DEF FfStop, FfEvent, Input
  <2>5. QED
    BY <1>2, <2>1, <2>2, <2>3, <2>4 DEF Game
<1>3. CASE TakeOwn \/ TakeOther \/ ApplyMode \/ ApplyColour
  <2>1. CASE TakeOwn \/ TakeOther
    BY <2>1 DEF TakeOwn, TakeOther, Take, NoTake, Goto, history
  <2>2. CASE ApplyMode
    BY <1>0, <2>2 DEF ApplyMode, history
  <2>3. CASE ApplyColour
    BY <2>3 DEF ApplyColour, NoTake, LedMissed
  <2>4. QED
    BY <1>3, <2>1, <2>2, <2>3
<1>4. CASE Top \/ SkipEffects \/ Frame \/ Draw \/ PollInotify \/ GameQuiet
  BY <1>4 DEF Top, SkipEffects, Frame, Draw, PollInotify, GameQuiet, Goto,
              light, motors, effects, history
<1>5. CASE RumbleWait \/ RumbleSend \/ RumbleClear \/ LedWait \/ LedSend \/ LedClear
  <2>1. CASE RumbleWait \/ LedWait
    BY <2>1 DEF RumbleWait, LedWait, Goto, history
  <2>2. CASE RumbleSend
    BY <2>2 DEF RumbleSend, Report, Goto
  <2>3. CASE RumbleClear
    BY <2>3 DEF RumbleClear, Goto, history
  <2>4. CASE LedSend
    BY <2>4 DEF LedSend, Report, Goto
  <2>5. CASE LedClear
    BY <2>5 DEF LedClear, Goto, history
  <2>6. QED
    BY <1>5, <2>1, <2>2, <2>3, <2>4, <2>5
<1>6. QED
  BY <1>1, <1>2, <1>3, <1>4, <1>5 DEF Next, Pass

\* Every field of the output side keeps its type, and the retries their bound.
THEOREM TypeCorrect == Spec => []TypeOK
<1>1. TypeOK /\ [Next]_vars => TypeOK'
  <2>1. TypeOK /\ UNCHANGED vars => TypeOK'
    BY DEF TypeOK, LightOK, MotorsOK, EffectsOK, WorkerOK, DeviceOK, HistoryOK,
           vars, light, motors, effects, worker, device, history
  <2>2. TypeOK /\ Next => TypeOK'
    BY LightType, MotorsType, EffectsType, WorkerType, DeviceType, HistoryType DEF TypeOK
  <2>3. QED
    BY <2>1, <2>2
<1>2. QED
  BY <1>1, InitType, PTL DEF Spec

(***************************************************************************)
(* The flags and the rumble switch.                                        *)
(***************************************************************************)

\* Commands and game events raise the flag of what they change, or record
\* that they came between a report and the store that lowers it.
LEMMA InputFlags == TypeOK /\ FlagsInv /\ (Client \/ Silence \/ Game) => FlagsInv'
<1> SUFFICES ASSUME TypeOK, FlagsInv, Client \/ Silence \/ Game
             PROVE  FlagsInv'
  OBVIOUS
<1> USE DEF TypeOK, LightOK, MotorsOK, WorkerOK, DeviceOK, HistoryOK,
            FlagsInv, LedShownUnlessMissed, RumbleShownUnlessMissed,
            ReportIsCurrent, RumbleOffIsQuiet, Input, Command, LedMissed, RumbleMissed,
            effects, worker, device, light, motors, history, Goto
<1>1. ASSUME NEW c \in Colours, SetColour(c) PROVE FlagsInv'
  BY <1>1 DEF SetColour
<1>2. ASSUME NEW c \in Colours, Intervene(c) PROVE FlagsInv'
  BY <1>2 DEF Intervene
<1>3. CASE SetStatic
  BY <1>3 DEF SetStatic
<1>4. ASSUME NEW e \in {0, 1}, SetEffect(e) PROVE FlagsInv'
  BY <1>4 DEF SetEffect
<1>5. ASSUME NEW cfg \in Saved, ApplyProfile(cfg) PROVE FlagsInv'
  BY <1>5 DEF ApplyProfile
<1>6. CASE Touch \/ TuiPled
  BY <1>6 DEF Touch, TuiPled
<1>7. ASSUME NEW on \in BOOLEAN, SetReapply(on) PROVE FlagsInv'
  BY <1>7 DEF SetReapply
<1>8. CASE RumbleOn \/ RumbleOff \/ Silence
  BY <1>8 DEF RumbleOn, RumbleOff, Silence
<1>9. ASSUME NEW t \in {1, 2}, FfUpload(t) PROVE FlagsInv'
  BY <1>9 DEF FfUpload, FfEvent
<1>10. CASE FfStart \/ FfStop
  BY <1>10 DEF FfStart, FfStop, FfEvent
<1>11. QED
  BY <1>1, <1>2, <1>3, <1>4, <1>5, <1>6, <1>7, <1>8, <1>9, <1>10 DEF Client, Game

\* A flag is lowered only after a report that carried the slot's values.
LEMMA WorkFlags ==
  TypeOK /\ FlagsInv /\ (TakeOwn \/ TakeOther \/ ApplyMode \/ ApplyColour \/ Pass)
    => FlagsInv'
<1> SUFFICES ASSUME TypeOK, FlagsInv,
                    TakeOwn \/ TakeOther \/ ApplyMode \/ ApplyColour \/ Pass
             PROVE  FlagsInv'
  OBVIOUS
<1> USE DEF TypeOK, LightOK, MotorsOK, WorkerOK, DeviceOK, HistoryOK,
            FlagsInv, LedShownUnlessMissed, RumbleShownUnlessMissed,
            ReportIsCurrent, RumbleOffIsQuiet, LedMissed,
            effects, worker, device, light, motors, history, Goto
<1>1. CASE TakeOwn \/ TakeOther
  BY <1>1 DEF TakeOwn, TakeOther, Take
<1>2. CASE ApplyMode
  BY <1>2 DEF ApplyMode
<1>3. CASE ApplyColour
  BY <1>3 DEF ApplyColour
<1>4. CASE Top \/ SkipEffects \/ Frame \/ GameQuiet \/ RumbleWait \/ LedWait
  BY <1>4 DEF Top, SkipEffects, Frame, GameQuiet, RumbleWait, LedWait
<1>5. CASE Draw
  BY <1>5 DEF Draw
<1>6. CASE PollInotify
  BY <1>6 DEF PollInotify
<1>7. CASE RumbleSend
  BY <1>7 DEF RumbleSend, Report
<1>8. CASE RumbleClear
  BY <1>8 DEF RumbleClear
<1>9. CASE LedSend
  BY <1>9 DEF LedSend, Report
<1>10. CASE LedClear
  BY <1>10, OutputAssumption DEF LedClear
<1>11. QED
  BY <1>1, <1>2, <1>3, <1>4, <1>5, <1>6, <1>7, <1>8, <1>9, <1>10 DEF Pass

\* The flags tell the truth in every reachable state.
LEMMA Flags == Spec => []FlagsInv
<1>1. Init => FlagsInv
  BY DEF Init, FlagsInv, LedShownUnlessMissed, RumbleShownUnlessMissed,
         ReportIsCurrent, RumbleOffIsQuiet
<1>2. TypeOK /\ FlagsInv /\ [Next]_vars => FlagsInv'
  <2>1. FlagsInv /\ UNCHANGED vars => FlagsInv'
    BY DEF FlagsInv, LedShownUnlessMissed, RumbleShownUnlessMissed, ReportIsCurrent,
           RumbleOffIsQuiet, vars, light, motors, effects, worker, device, history
  <2>2. QED
    BY <2>1, InputFlags, WorkFlags DEF Next
<1>3. QED
  BY <1>1, <1>2, TypeCorrect, PTL DEF Spec

\* led_process_pipeline and everything that changes the colour: an unflagged
\* light bar shows the slot's colour, outside the named windows.
THEOREM LedShown == Spec => []LedShownUnlessMissed
<1>1. FlagsInv => LedShownUnlessMissed
  BY DEF FlagsInv
<1>2. QED
  BY <1>1, Flags, PTL

\* The same for rumble_process_pipeline and the motors.
THEOREM RumbleShown == Spec => []RumbleShownUnlessMissed
<1>1. FlagsInv => RumbleShownUnlessMissed
  BY DEF FlagsInv
<1>2. QED
  BY <1>1, Flags, PTL

\* `rumble off` keeps the motors off, however its two stores interleave with
\* game events, profiles and `rumble on`.
THEOREM RumbleOffQuiet == Spec => []RumbleOffIsQuiet
<1>1. FlagsInv => RumbleOffIsQuiet
  BY DEF FlagsInv
<1>2. QED
  BY <1>1, Flags, PTL

(***************************************************************************)
(* The mode of the light bar.                                              *)
(***************************************************************************)

\* A command sets the mode, or leaves a request that will.
LEMMA InputMode == TypeOK /\ ModeInv /\ (Client \/ Silence \/ Game) => ModeInv'
<1> SUFFICES ASSUME TypeOK, ModeInv, Client \/ Silence \/ Game
             PROVE  ModeInv'
  OBVIOUS
<1> USE DEF TypeOK, LightOK, EffectsOK, WorkerOK, HistoryOK,
            ModeInv, LastLedCommandHolds, PendingIsLast, TakenIsLast, DrawIsLast,
            Input, Command, effects, worker, device, light, motors, history, Goto
<1>1. ASSUME NEW c \in Colours, SetColour(c) PROVE ModeInv'
  BY <1>1 DEF SetColour
<1>2. ASSUME NEW c \in Colours, Intervene(c) PROVE ModeInv'
  BY <1>2 DEF Intervene
<1>3. CASE SetStatic
  BY <1>3 DEF SetStatic
<1>4. ASSUME NEW e \in {0, 1}, SetEffect(e) PROVE ModeInv'
  BY <1>4 DEF SetEffect
<1>5. ASSUME NEW cfg \in Saved, ApplyProfile(cfg) PROVE ModeInv'
  BY <1>5 DEF ApplyProfile
<1>6. CASE Touch
  BY <1>6 DEF Touch
<1>12. CASE TuiPled
  <2>1. CASE led_static
    BY <1>12, <2>1 DEF TuiPled
  <2>2. CASE ~led_static
    <3>1. frozen' = TRUE
      BY <1>12, <2>2 DEF TuiPled
    <3>2. QED
      BY <1>12, <3>1 DEF TuiPled
  <2>3. QED
    BY <2>1, <2>2
<1>7. ASSUME NEW on \in BOOLEAN, SetReapply(on) PROVE ModeInv'
  BY <1>7 DEF SetReapply
<1>8. CASE RumbleOn \/ RumbleOff \/ Silence
  BY <1>8 DEF RumbleOn, RumbleOff, Silence
<1>9. ASSUME NEW t \in {1, 2}, FfUpload(t) PROVE ModeInv'
  BY <1>9 DEF FfUpload, FfEvent
<1>10. CASE FfStart \/ FfStop
  BY <1>10 DEF FfStart, FfStop, FfEvent
<1>11. QED
  BY <1>1, <1>2, <1>3, <1>4, <1>5, <1>6, <1>7, <1>8, <1>9, <1>10, <1>12 DEF Client, Game

\* Carrying out a request, by whichever worker, and drawing keep the mode.
LEMMA WorkMode ==
  TypeOK /\ ModeInv /\ (TakeOwn \/ TakeOther \/ ApplyMode \/ ApplyColour \/ Pass)
    => ModeInv'
<1> SUFFICES ASSUME TypeOK, ModeInv,
                    TakeOwn \/ TakeOther \/ ApplyMode \/ ApplyColour \/ Pass
             PROVE  ModeInv'
  OBVIOUS
<1> USE DEF TypeOK, LightOK, EffectsOK, WorkerOK, HistoryOK,
            ModeInv, LastLedCommandHolds, PendingIsLast, TakenIsLast, DrawIsLast,
            effects, worker, device, light, motors, history, Goto
<1>1. CASE TakeOwn \/ TakeOther
  BY <1>1 DEF TakeOwn, TakeOther, Take, NoTake
<1>2. CASE ApplyMode
  BY <1>2 DEF ApplyMode
<1>3. CASE ApplyColour
  BY <1>3 DEF ApplyColour
<1>4. CASE Top \/ SkipEffects \/ GameQuiet \/ RumbleWait \/ LedWait
  BY <1>4 DEF Top, SkipEffects, GameQuiet, RumbleWait, LedWait
<1>5. CASE Frame
  BY <1>5 DEF Frame
<1>6. CASE Draw
  BY <1>6 DEF Draw
<1>7. CASE PollInotify
  BY <1>7 DEF PollInotify
<1>8. CASE RumbleSend \/ RumbleClear
  BY <1>8 DEF RumbleSend, RumbleClear, Report
<1>9. CASE LedSend \/ LedClear
  BY <1>9 DEF LedSend, LedClear, Report
<1>10. QED
  BY <1>1, <1>2, <1>3, <1>4, <1>5, <1>6, <1>7, <1>8, <1>9 DEF Pass

\* ledfx_process_requests and the commands: the last one decides, outside the
\* named windows, whichever worker serves the request.
THEOREM LastCommandHolds == Spec => []LastLedCommandHolds
<1>1. Init => ModeInv
  BY DEF Init, ModeInv, LastLedCommandHolds, PendingIsLast, TakenIsLast, DrawIsLast
<1>2. TypeOK /\ ModeInv /\ [Next]_vars => ModeInv'
  <2>1. ModeInv /\ UNCHANGED vars => ModeInv'
    BY DEF ModeInv, LastLedCommandHolds, PendingIsLast, TakenIsLast, DrawIsLast,
           vars, light, motors, effects, worker, device, history
  <2>2. QED
    BY <2>1, InputMode, WorkMode DEF Next
<1>3. ModeInv => LastLedCommandHolds
  BY DEF ModeInv
<1>4. QED
  BY <1>1, <1>2, <1>3, TypeCorrect, PTL DEF Spec
=============================================================================
