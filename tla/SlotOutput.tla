----------------------------- MODULE SlotOutput -----------------------------
(***************************************************************************)
(* What a DualShock 4 or DualSense is told to show and to play: the light  *)
(* bar and rumble fields of one slot in shared memory, the effects of      *)
(* led.c, and the two pipelines of output.c that write them to the         *)
(* controller.  The slot's worker (daemon.c) runs all of it, except that   *)
(* ledfx_process_requests serves every slot, so another slot's worker may  *)
(* carry out a request for this one.  Clients set the fields in critical   *)
(* sections of their own between any two steps.                            *)
(*                                                                         *)
(* Time-outs are choices: a pipeline that could send may find that its     *)
(* interval has not passed.  send_output_report takes its snapshot and     *)
(* writes it in one step: nobody else but an intruder writes to the        *)
(* device, and it may do so before or after.                               *)
(***************************************************************************)
EXTENDS Integers

CONSTANTS
  Colours,
  Black,
  Saved,          \* what profiles say of a slot, see slot_config_t
  RETRIES,        \* writes after an external intervention
  MaxInputs,      \* bound: commands, starts and stops, interventions
  WriteFails      \* BOOLEAN: a report may fail to be written

\* shown: led_r/g/b, which an effect overwrites; on: rumble_active
SlotConfigs ==
  [shown : Colours, base : Colours, effect : {0, 1}, reapply : BOOLEAN, on : BOOLEAN]

ASSUME OutputAssumption ==
  /\ Black \in Colours
  /\ Saved \subseteq SlotConfigs
  /\ RETRIES \in Nat \ {0}
  /\ MaxInputs \in Nat
  /\ WriteFails \in BOOLEAN

VARIABLES
  \* shared memory, the light bar
  led, led_base, led_static, led_dirty,
  led_request_pending, led_request_effect,   \* effect 0 is static
  external_retry_count, led_reapply,
  \* shared memory, rumble (0: neither motor) and uploaded force feedback
  rumble, rumble_dirty, rumble_active,
  ff_effect,            \* type and strength of the uploaded effect
  active_effect,        \* active_effect_id is that effect's
  \* led.c: an effect is active; a request being carried out, by whom
  fx_active, taker, taken,
  \* the worker: pc and locals
  pc, local_led_dirty, retry_count,
  \* the controller, and an IN_MODIFY event of its device node
  hw, modified,
  \* a client inside cmd_rumble, between its two stores
  off_pending,
  inputs,
  \* history
  missed,               \* "led", "rumble": changed since the last report, flag lost
  last_mode,            \* mode of the last command: "static" or "effect"
  overtaken,            \* a command came while a request was carried out
  frozen,               \* the TUI's pled has ended the effect since the mode was set
  silenced              \* rumble was switched off and not on again

light   == <<led, led_base, led_static, led_dirty, led_request_pending,
             led_request_effect, external_retry_count, led_reapply>>
motors  == <<rumble, rumble_dirty, rumble_active, ff_effect, active_effect>>
effects == <<fx_active, taker, taken>>
worker  == <<pc, local_led_dirty, retry_count>>
device  == <<hw, modified>>
history == <<missed, last_mode, overtaken, frozen, silenced>>
vars    == <<light, motors, effects, worker, device, off_pending, inputs, history>>

NoFf   == [type |-> 0, strength |-> 0]
NoTake == [effect |-> 0, base |-> Black, mode_set |-> FALSE]

Goto(from, to) == pc = from /\ pc' = to
Input == inputs < MaxInputs /\ inputs' = inputs + 1

\* A flag raised between the report and the store that lowers it is lost.
LedMissed ==
  missed' = IF pc = "led_clear" /\ retry_count = 0 THEN missed \cup {"led"} ELSE missed
RumbleMissed ==
  missed' = IF pc = "rumble_clear" THEN missed \cup {"rumble"} ELSE missed

(***************************************************************************)
(* Clients.                                                                *)
(***************************************************************************)
Command(mode) ==
  /\ Input
  /\ last_mode' = mode
  /\ overtaken' = (~led_request_pending' /\ (taker # "none" \/ pc = "draw"))
  /\ frozen' = FALSE
  /\ UNCHANGED <<external_retry_count, rumble, rumble_dirty, ff_effect,
                 active_effect, effects, worker, device, off_pending>>

\* Mutant: an effect requested before is still started.
SetColourKeepsPending(c) ==
  /\ led_base' = c
  /\ led' = c
  /\ led_static' = TRUE
  /\ led_request_pending' = led_request_pending
  /\ Command("static")
  /\ led_dirty' = TRUE
  /\ LedMissed
  /\ UNCHANGED <<led_request_effect, led_reapply, rumble_active, silenced>>

\* cmd_color, handle_set_led; led_request_effect keeps its value.  The TUI's
\* color stores 0 there: no worker reads it before a request stores it again.
SetColour(c) ==
  /\ led_base' = c
  /\ led' = c
  /\ led_static' = TRUE
  /\ led_request_pending' = FALSE
  /\ Command("static")
  /\ led_dirty' = TRUE
  /\ LedMissed
  /\ UNCHANGED <<led_request_effect, led_reapply, rumble_active, silenced>>

\* Mutant: the base colour is not sent.
SetStaticNotDirty ==
  /\ led' = led_base
  /\ led_static' = TRUE
  /\ led_request_pending' = FALSE
  /\ Command("static")
  /\ LedMissed
  /\ UNCHANGED <<led_base, led_dirty, led_request_effect, led_reapply, rumble_active, silenced>>

\* cmd_ledfx 0
SetStatic ==
  /\ led' = led_base
  /\ led_static' = TRUE
  /\ led_request_pending' = FALSE
  /\ Command("static")
  /\ led_dirty' = TRUE
  /\ LedMissed
  /\ UNCHANGED <<led_base, led_request_effect, led_reapply, rumble_active, silenced>>

\* cmd_ledfx; handle_set_effect also passes 0 on
SetEffect(e) ==
  /\ led_static' = FALSE
  /\ led_request_effect' = e
  /\ led_request_pending' = TRUE
  /\ Command(IF e = 0 THEN "static" ELSE "effect")
  /\ UNCHANGED <<led, led_base, led_dirty, led_reapply, rumble_active, missed, silenced>>

\* profile_apply_to_shm; the saved colour is the one an effect showed last
ApplyProfile(cfg) ==
  /\ led' = cfg.shown
  /\ led_base' = cfg.base
  /\ led_static' = (cfg.effect = 0)
  /\ led_request_effect' = cfg.effect
  /\ led_request_pending' = TRUE
  /\ Command(IF cfg.effect = 0 THEN "static" ELSE "effect")
  /\ led_dirty' = TRUE
  /\ led_reapply' = cfg.reapply
  /\ rumble_active' = cfg.on
  /\ silenced' = (silenced /\ ~cfg.on)
  /\ LedMissed

\* cmd_keybind, cmd_brightness, the command line's cmd_pled, layout requests
Touch ==
  /\ Input
  /\ led_dirty' = TRUE
  /\ UNCHANGED <<led, led_base, led_static, led_request_pending, led_request_effect,
                 external_retry_count, led_reapply, motors, effects, worker, device,
                 off_pending, history>>

\* the TUI's pled also makes the light bar static; it neither restores the
\* base colour nor withdraws a request
TuiPled ==
  /\ Input
  /\ led_static' = TRUE
  /\ led_dirty' = TRUE
  /\ frozen' = (frozen \/ ~led_static)
  /\ UNCHANGED <<led, led_base, led_request_pending, led_request_effect,
                 external_retry_count, led_reapply, motors, effects, worker, device,
                 off_pending, missed, last_mode, overtaken, silenced>>

SetReapply(on) ==
  /\ Input
  /\ led_reapply' = on
  /\ UNCHANGED <<led, led_base, led_static, led_dirty, led_request_pending,
                 led_request_effect, external_retry_count, motors, effects, worker,
                 device, off_pending, history>>

\* cmd_rumble on
RumbleOn ==
  /\ Input
  /\ rumble_active' = TRUE
  /\ silenced' = FALSE
  /\ UNCHANGED <<light, rumble, rumble_dirty, ff_effect, active_effect, effects, worker,
                 device, off_pending, missed, last_mode, overtaken, frozen>>

\* cmd_rumble off: the switch before the mutex, ...
RumbleOff ==
  /\ Input
  /\ ~off_pending
  /\ rumble_active' = FALSE
  /\ off_pending' = TRUE
  /\ UNCHANGED <<light, rumble, rumble_dirty, ff_effect, active_effect, effects, worker,
                 device, history>>

\* Mutant: a stopped motor is not reported.
SilenceNotDirty ==
  /\ off_pending
  /\ off_pending' = FALSE
  /\ rumble' = 0
  /\ RumbleMissed
  /\ silenced' = ~rumble_active
  /\ UNCHANGED <<light, rumble_dirty, rumble_active, ff_effect, active_effect, effects,
                 worker, device, inputs, last_mode, overtaken, frozen>>

\* ... the motors under it
Silence ==
  /\ off_pending
  /\ off_pending' = FALSE
  /\ rumble' = 0
  /\ rumble_dirty' = TRUE
  /\ RumbleMissed
  /\ silenced' = ~rumble_active
  /\ UNCHANGED <<light, rumble_active, ff_effect, active_effect, effects,
                 worker, device, inputs, last_mode, overtaken, frozen>>

\* another program writes to the device node
Intervene(c) ==
  /\ Input
  /\ hw' = [hw EXCEPT !.led = c]
  /\ modified' = TRUE
  /\ missed' = missed \cup {"led"}
  /\ UNCHANGED <<light, motors, effects, worker, off_pending, last_mode, overtaken,
                 frozen, silenced>>

(***************************************************************************)
(* Effects: ledfx_process_requests by the slot's worker or another one,    *)
(* one at a time (requests_mutex); ledfx_update_slot by the slot's worker. *)
(***************************************************************************)
Take(by) ==
  /\ led_request_pending
  /\ taker = "none"
  /\ taker' = by
  /\ taken' = [NoTake EXCEPT !.effect = led_request_effect]
  /\ led_request_pending' = FALSE
  /\ UNCHANGED <<led, led_base, led_static, led_dirty, led_request_effect,
                 external_retry_count, led_reapply, motors, fx_active, local_led_dirty,
                 retry_count, device, off_pending, inputs, history>>

TakeOwn   == Goto("effects", "apply") /\ Take("self")
TakeOther == Take("other") /\ UNCHANGED pc

\* the stores of a request, outside the mutex: the mode, ...
ApplyMode ==
  /\ taker # "none"
  /\ ~taken.mode_set
  /\ led_static' = (taken.effect = 0)
  /\ fx_active' = (taken.effect # 0)
  /\ taken' = [taken EXCEPT !.mode_set = TRUE, !.base = led_base]
  /\ frozen' = FALSE
  /\ UNCHANGED <<led, led_base, led_dirty, led_request_pending, led_request_effect,
                 external_retry_count, led_reapply, motors, taker, worker, device,
                 off_pending, inputs, missed, last_mode, overtaken, silenced>>

\* ... the colour, and the flag.  Some effects start from black.
ApplyColour ==
  /\ taker # "none"
  /\ taken.mode_set
  /\ led' \in IF taken.effect = 0 THEN {taken.base} ELSE {led, Black}
  /\ led_dirty' = TRUE
  /\ LedMissed
  /\ overtaken' = (overtaken \/ (taken.effect = 0 /\ pc = "draw"))
  /\ pc' = IF taker = "self" THEN "frame" ELSE pc
  /\ taker' = "none"
  /\ taken' = NoTake
  /\ UNCHANGED <<led_base, led_static, led_request_pending, led_request_effect,
                 external_retry_count, led_reapply, motors, fx_active, local_led_dirty,
                 retry_count, device, off_pending, inputs, last_mode, frozen, silenced>>

(***************************************************************************)
(* The worker's pass.                                                      *)
(***************************************************************************)
Top ==
  /\ Goto("top", "effects")
  /\ local_led_dirty' = led_dirty
  /\ UNCHANGED <<light, motors, effects, retry_count, device, off_pending, inputs, history>>

\* not yet 16 ms; or nothing is pending, or requests_mutex is taken
SkipEffects ==
  /\ Goto("effects", "poll") \/ Goto("effects", "frame")
  /\ UNCHANGED <<light, motors, effects, local_led_dirty, retry_count, device,
                 off_pending, inputs, history>>

\* ledfx_update_slot: the tests come first, ...
Frame ==
  /\ Goto("frame", IF ~led_static /\ fx_active THEN "draw" ELSE "poll")
  /\ UNCHANGED <<light, motors, effects, local_led_dirty, retry_count, device,
                 off_pending, inputs, history>>

\* ... the stores later.  An unchanged colour, or one too early, is not stored.
Draw ==
  /\ Goto("draw", "poll")
  /\ \/ \E c \in Colours : led' = c /\ led_dirty' = TRUE
     \/ UNCHANGED <<led, led_dirty>>
  /\ UNCHANGED <<led_base, led_static, led_request_pending, led_request_effect,
                 external_retry_count, led_reapply, motors, effects, local_led_dirty,
                 retry_count, device, off_pending, inputs, history>>

\* An event within 50 ms of an own report is taken for the own one; in static
\* mode any other starts the retries.
PollInotify ==
  /\ Goto("poll", "game")
  /\ modified' = FALSE
  /\ \/ /\ modified /\ led_reapply /\ led_static
        /\ external_retry_count' = RETRIES
        /\ led_dirty' = TRUE
     \/ UNCHANGED <<external_retry_count, led_dirty>>
  /\ UNCHANGED <<led, led_base, led_static, led_request_pending, led_request_effect,
                 led_reapply, motors, effects, local_led_dirty, retry_count, hw,
                 off_pending, inputs, history>>

GameQuiet ==
  /\ Goto("game", "rumble")
  /\ UNCHANGED <<light, motors, effects, local_led_dirty, retry_count, device,
                 off_pending, inputs, history>>

FfEvent ==
  /\ Goto("game", "rumble")
  /\ UNCHANGED <<light, rumble_active, effects, local_led_dirty, retry_count, device,
                 off_pending, missed, last_mode, overtaken, frozen, silenced>>

\* rumble_handle_ff_upload: type 1 plain, 2 periodic
FfUpload(t) ==
  /\ FfEvent
  /\ ff_effect' = [type |-> t, strength |-> 1]
  /\ UNCHANGED <<rumble, rumble_dirty, active_effect, inputs>>

\* Mutant: an effect starts although rumble is off.
FfStartAlways ==
  /\ FfEvent
  /\ Input
  /\ ff_effect.type # 0
  /\ rumble' \in IF ff_effect.type = 1 THEN {ff_effect.strength} ELSE {0, ff_effect.strength}
  /\ rumble_dirty' = TRUE
  /\ active_effect' = (ff_effect.type = 2)
  /\ UNCHANGED ff_effect

\* A plain effect sets active_effect_id to -1, a periodic one to its number;
\* the wave of a periodic one starts anywhere.
FfStart ==
  /\ FfEvent
  /\ Input
  /\ rumble_active /\ ff_effect.type # 0
  /\ rumble' \in IF ff_effect.type = 1 THEN {ff_effect.strength} ELSE {0, ff_effect.strength}
  /\ rumble_dirty' = TRUE
  /\ active_effect' = (ff_effect.type = 2)
  /\ UNCHANGED ff_effect

\* only the effect recorded as active is stopped
FfStop ==
  /\ FfEvent
  /\ Input
  /\ IF active_effect
     THEN active_effect' = FALSE /\ rumble' = 0 /\ rumble_dirty' = TRUE
     ELSE UNCHANGED <<active_effect, rumble, rumble_dirty>>
  /\ UNCHANGED ff_effect

\* send_output_report for a pipeline whose flag is cleared next
Report(what) ==
  \/ hw' = [led |-> led, rumble |-> rumble] /\ missed' = {} /\ modified' = TRUE
  \/ WriteFails /\ missed' = missed \cup {what} /\ UNCHANGED device

RumbleWait ==
  /\ Goto("rumble", "led")
  /\ UNCHANGED <<light, motors, effects, local_led_dirty, retry_count, device,
                 off_pending, inputs, history>>

RumbleSend ==
  /\ Goto("rumble", "rumble_clear")
  /\ rumble_dirty \/ rumble > 0
  /\ Report("rumble")
  /\ UNCHANGED <<light, motors, effects, local_led_dirty, retry_count, off_pending,
                 inputs, last_mode, overtaken, frozen, silenced>>

RumbleClear ==
  /\ Goto("rumble_clear", "led")
  /\ rumble_dirty' = FALSE
  /\ UNCHANGED <<light, rumble, rumble_active, ff_effect, active_effect, effects,
                 local_led_dirty, retry_count, device, off_pending, inputs, history>>

\* local_led_dirty is a variable of one pass
LedWait ==
  /\ Goto("led", "top")
  /\ local_led_dirty' = FALSE
  /\ UNCHANGED <<light, motors, effects, retry_count, device,
                 off_pending, inputs, history>>

\* Mutant: the light bar waits for the retries of an intervention.
LedSendRetriesOnly ==
  /\ Goto("led", "led_clear")
  /\ local_led_dirty
  /\ external_retry_count > 0
  /\ retry_count' = external_retry_count
  /\ Report("led")
  /\ UNCHANGED <<light, motors, effects, local_led_dirty, off_pending, inputs,
                 last_mode, overtaken, frozen, silenced>>

LedSend ==
  /\ Goto("led", "led_clear")
  /\ local_led_dirty
  /\ led_dirty \/ external_retry_count > 0
  /\ retry_count' = external_retry_count
  /\ Report("led")
  /\ UNCHANGED <<light, motors, effects, local_led_dirty, off_pending, inputs,
                 last_mode, overtaken, frozen, silenced>>

LedClear ==
  /\ Goto("led_clear", "top")
  /\ IF retry_count > 0
     THEN /\ external_retry_count' = IF external_retry_count > 0
                                     THEN external_retry_count - 1 ELSE 0
          /\ UNCHANGED led_dirty
     ELSE led_dirty' = FALSE /\ UNCHANGED external_retry_count
  /\ retry_count' = 0
  /\ local_led_dirty' = FALSE
  /\ UNCHANGED <<led, led_base, led_static, led_request_pending, led_request_effect,
                 led_reapply, motors, effects, device, off_pending,
                 inputs, history>>

\* try_register_control has restored what the profile says, and the effect as
\* a request; led.c still has the state of the slot's previous controller.
Init ==
  /\ \E cfg \in Saved :
       /\ led = cfg.shown /\ led_base = cfg.base
       /\ led_request_effect = cfg.effect /\ led_static = (cfg.effect = 0)
       /\ last_mode = IF cfg.effect = 0 THEN "static" ELSE "effect"
       /\ led_reapply = cfg.reapply /\ rumble_active = cfg.on
  /\ led_request_pending = TRUE /\ led_dirty = TRUE
  /\ external_retry_count = 0
  /\ rumble = 0 /\ rumble_dirty = FALSE
  /\ ff_effect = NoFf /\ active_effect = FALSE
  /\ fx_active \in BOOLEAN /\ taker = "none" /\ taken = NoTake
  /\ pc = "top" /\ local_led_dirty = FALSE /\ retry_count = 0
  /\ hw = [led |-> Black, rumble |-> 0] /\ modified = FALSE
  /\ off_pending = FALSE
  /\ inputs = 0
  /\ missed = {} /\ overtaken = FALSE /\ frozen = FALSE
  /\ silenced = FALSE

Client ==
  \/ \E c \in Colours : SetColour(c) \/ Intervene(c)
  \/ SetStatic
  \/ \E e \in {0, 1} : SetEffect(e)
  \/ \E cfg \in Saved : ApplyProfile(cfg)
  \/ Touch
  \/ TuiPled
  \/ \E on \in BOOLEAN : SetReapply(on)
  \/ RumbleOn
  \/ RumbleOff

Game ==
  \/ \E t \in {1, 2} : FfUpload(t)
  \/ FfStart
  \/ FfStop

Pass ==
  \/ Top
  \/ SkipEffects
  \/ Frame
  \/ Draw
  \/ PollInotify
  \/ GameQuiet
  \/ RumbleWait
  \/ RumbleSend
  \/ RumbleClear
  \/ LedWait
  \/ LedSend
  \/ LedClear

Next ==
  \/ Client
  \/ Silence
  \/ Game
  \/ TakeOwn
  \/ TakeOther
  \/ ApplyMode
  \/ ApplyColour
  \/ Pass

Spec == Init /\ [][Next]_vars

\* The workers run and time passes, so that a report that stays due is sent
\* and a request that stays pending is taken.
FairSpec ==
  /\ Spec
  /\ WF_vars(Pass) /\ WF_vars(ApplyMode \/ ApplyColour) /\ WF_vars(Silence)
  /\ SF_vars(TakeOwn) /\ SF_vars(RumbleSend) /\ SF_vars(LedSend)

(***************************************************************************)
(* Properties.                                                             *)
(***************************************************************************)

LightOK ==
  /\ led \in Colours /\ led_base \in Colours
  /\ led_static \in BOOLEAN /\ led_dirty \in BOOLEAN
  /\ led_request_pending \in BOOLEAN /\ led_request_effect \in {0, 1}
  /\ external_retry_count \in 0 .. RETRIES /\ led_reapply \in BOOLEAN

MotorsOK ==
  /\ rumble \in {0, 1} /\ rumble_dirty \in BOOLEAN /\ rumble_active \in BOOLEAN
  /\ ff_effect \in [type : 0 .. 2, strength : {0, 1}] /\ active_effect \in BOOLEAN

EffectsOK ==
  /\ fx_active \in BOOLEAN /\ taker \in {"none", "self", "other"}
  /\ taken \in [effect : {0, 1}, base : Colours, mode_set : BOOLEAN]

WorkerOK ==
  /\ pc \in {"top", "effects", "apply", "frame", "draw", "poll", "game", "rumble",
            "rumble_clear", "led", "led_clear"}
  /\ local_led_dirty \in BOOLEAN /\ retry_count \in 0 .. RETRIES

DeviceOK == hw \in [led : Colours, rumble : {0, 1}] /\ modified \in BOOLEAN

HistoryOK ==
  /\ off_pending \in BOOLEAN
  /\ inputs \in 0 .. MaxInputs
  /\ missed \subseteq {"led", "rumble"}
  /\ last_mode \in {"static", "effect"}
  /\ overtaken \in BOOLEAN /\ frozen \in BOOLEAN
  /\ silenced \in BOOLEAN

\* Every field of the slot's output side keeps its type; the retries never
\* exceed their number.
TypeOK == LightOK /\ MotorsOK /\ EffectsOK /\ WorkerOK /\ DeviceOK /\ HistoryOK

\* Whatever commands, effects, requests of other workers and game events
\* interleave: a light bar that is not flagged as dirty shows the slot's
\* colour.  Excepted: a change between a report and the store that lowers
\* the flag, a report that failed, an intervention.
LedShownUnlessMissed == ~led_dirty => hw.led = led \/ "led" \in missed

\* The same for the motors: one that is not flagged runs as the slot says.
RumbleShownUnlessMissed == ~rumble_dirty => hw.rumble = rumble \/ "rumble" \in missed

\* Once a request is carried out, the light bar is in the mode the last
\* command asked for, and in static mode has the base colour, whichever worker
\* carried it out; unless the command came while an earlier request was
\* being carried out or an effect was drawing, or the TUI's pled (ui.c:677)
\* has since made the bar static in whatever colour the effect left.
LastLedCommandHolds ==
  ~led_request_pending /\ taker = "none" =>
    \/ overtaken
    \/ frozen
    \/ /\ led_static <=> last_mode = "static"
       /\ led_static => led = led_base

\* After `rumble off` no force feedback starts the motors until rumble is on
\* again, although the switch is stored before the mutex is taken.  (Output
\* reports of a UHID device do not look at rumble_active; they are not
\* modelled.)
RumbleOffIsQuiet == silenced => ~rumble_active /\ rumble = 0

\* When nobody gives commands any more, the controller ends up showing a
\* static colour and playing what the slot says, with the same exceptions.
OutputCatchesUp ==
  <>[](/\ led_static => hw.led = led \/ "led" \in missed
       /\ hw.rumble = rumble \/ "rumble" \in missed)
=============================================================================
