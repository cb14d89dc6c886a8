# DSTX in TLA+

DSTX turns DualShock 4, DualSense and Switch Pro controllers into virtual
devices. A root daemon reads the controllers and keeps their state in shared
memory; a CLI and TUI, and a D-Bus bridge for the GTK program, read and change
that state. These modules model the parts of it where threads and processes
meet. Source paths below are relative to `src/dstx/src/`.

## 1. Inventory

| Component | Code | State it keeps | Operations | Hard part |
|---|---|---|---|---|
| Main loop and slots | `daemon.c` | `free_slots_bitmap`, `slots[i].connected/dev_path/worker_stop/worker_heartbeat`, `threads[]` | start-up scan, hotplug, `try_register_control`, watchdog, reaping | one thread creates, stops and joins others that free their own slot |
| Controller worker | `daemon.c` | file descriptors, virtual device, heartbeat | open, set up, loop, clean up | ends at any time: unplugged, stopped, error |
| Outputs and LED effects | `output.c`, `led.c` | light bar and rumble fields of a slot, dirty flags, retries, uploaded effects | requests, effects, force feedback, two send pipelines, detection of other writers | fields read and flags lowered outside the mutex; any worker serves any slot's request |
| Profile channel | `settings.c`, `utils.c`, `dbus-utils.c` | `profile_request/name/response/response_msg` | list, load, save, delete, set auto-save | one mailbox, many clients, a one-second time-out |
| Profile manager | `settings.c`, `main.c` | `profile_manager_t`, profile files, inotify watch | sync from shared memory, auto-save, reload, commands, start, shutdown | configuration in four places (shared memory, manager, disk, watched inode) |
| Shared memory | `main.c`, `dstx.h`, `utils.c` | the segment, `proc_mutex`, `daemon_pid`, heartbeat | create, take over, attach, lock, unlock | processes die inside critical sections; segments lose their name while mapped; process numbers are reused |
| Switch Pro driver | `nsw.c` | a context per slot: event device, uploaded rumble effect, rate limit | find, read, rumble, clean up | the context outlives its worker; cache of what was last sent |
| Virtual devices | `daemon.c`, `drivers.c`, `uhid.c` | uinput or UHID descriptor, poll set | create, switch, destroy, output reports | switching while events flow; creation that fails |
| Input translation | `drivers.c`, `keys.c`, `axes.c` | debounce table, key maps | report bytes to events | state per slot that outlives the controller; settings that change while a button is held |
| CLI, TUI | `commands.c`, `ui.c`, `display.c`, `utils.c` | mapping, heartbeat last seen, snapshot, selection | attach, notice the end, start, stop, commands | acts on an older snapshot; the daemon and its segment are replaced meanwhile |
| D-Bus bridge | `dbus-*.c` | `g_state`: copy of the slots; previous state; rate limits | handlers, monitor, signals, systemd | plain locks, signals dropped without a connection, handles that leak |
| GUI | `src/dstx-gui` | models, caches | asynchronous calls and signals | late answers, reconnection |

How they meet. All processes map one segment; `proc_mutex` in it is meant to
guard the fields that are not atomic. The daemon's threads are the main thread,
one worker per controller, and the settings thread. Clients change fields of a
slot and raise a flag (`led_dirty`, `led_request_pending`, ...), or post a
request in the profile channel and poll for the answer. The bridge polls the
segment and emits signals; the GUI talks to the bridge only. The repository has
no tests.

What makes each correct: a slot has one worker at a time and is not lost; a
controller that goes away frees its slot; a stopped worker was really stuck; a
caller gets the answer to its own request; an unmarked configuration is on disk
and a change gets there; two processes are not inside at once and a death blocks
nobody; the controller shows and plays what shared memory says; the last command
wins; subscribers of the bridge know what its last pass saw; a dead daemon is
noticed and a running one found, by the bridge and by the TUI; a command reaches
the controller it was meant for; a game finds one device, which shows what is
held; nothing rumbles that nobody can stop.

## 2. Modules

| Module | Models | Composes |
|---|---|---|
| `SlotLifecycle` | main loop, registration, watchdog, reaping, life of workers | implements `SlotPool` |
| `SlotPool` | abstract: which controllers are in a slot | |
| `ProfileCommands` | what a profile command does to the profiles, and its result | used by the next two |
| `ProfileChannel` | mailbox, clients, `profile_process_requests` | `ProfileCommands`; implements `ProfileRpc` |
| `ProfileRpc` | abstract: a synchronous call | `ProfileCommands` |
| `ProfileManager` | `settings_worker` with its files, watch and restarts | |
| `ShmMutex` | `proc_mutex`, safe and plain users, deaths, re-initialisation | |
| `SlotOutput` | light bar, rumble, effects and both pipelines of one slot | |
| `BridgeMonitor` | the bridge's monitor thread and main thread, the daemon they watch, a subscriber | |
| `ServiceClient` | a TUI or CLI process: attach, loop, selection, start and stop; the daemon's set-up of the segment | |
| `VirtualPad` | virtual device, debounce, key map and translation in one slot's worker | |
| `SwitchPro` | a slot's Switch Pro context and its rumble | |
| `MC*` | constants for TLC | the module named |
| `*Proofs` | theorems | the module named; `SharedMemoryProofs` is about `ShmMutex` and `ServiceClient` |

Definitions whose comment begins with "Mutant" are deliberate mistakes. No
specification uses them; put in place of the definition that follows, each makes
a property fail.

**SlotLifecycle.** Fields of shared memory keep their names; the bitmap is the
set of slots whose bit is 1. `hb_lag[s]` is `now_us - worker_heartbeat`: the
time between passes is a unit and `LoopTop` is the one read of the clock, so a
worker that beats after it has lag -1 and the subtraction wraps modulo `WORD`.
`mpc` follows the main thread through `run_daemon_loop` and
`try_register_control` (`reg_*` steps, returning to `ret`); `wpc[s]` follows a
worker. A critical section is one step, except the bitmap updates:
`mark_slot_free` is a read and a write, under the mutex in the worker
(`ReleaseLock`, `ReleaseFree`), without it in the watchdog (`WatchdogJoin`,
`WatchdogFree`). Controllers come and go at any step; a node's name is not used
again while a worker has it open, as hidraw does. A Switch Pro worker changes
`dev_path` to its event node.

**ProfileChannel.** A client posts in one critical section, polls outside it,
fetches the text in another; the thread reads the number outside, the name
inside, carries out the command and answers, with the extra critical section of
a list. A text is a record of the command, name and outcome it tells of, and the
profiles a list names; its wording and its limited length are left out.

**ProfileManager.** A configuration stands for the persistent fields of all
slots. A pass is sync, requests, auto-save, inotify; between them clients change
shared memory, an effect overwrites the shown colour, others edit files in place
or by renaming. `watch` is the profile whose file, as it is now at its path, is
watched: a save replaces the file and leaves the watch behind. Reading a file and
moving the watch to it are two steps (`Load`, `DeleteActive`, `Start`, then
`Adopt` or `ApplyAtStart`). A save may be refused, or be cut short without
anybody noticing, since the results of `fprintf` and `fclose` are ignored. `Stop`
is the signal handler's `exit(0)`. History: `edited` (others wrote the active
file), `missed` (an edit fell between reading and watching), `unsaved` (a short
save, or a Default that cannot be read, since the last change).

**ShmMutex.** The three states of a robust mutex (external, from how POSIX
defines it). `safe_shm_lock` makes it consistent; the bridge does not; nobody
tests `ENOTRECOVERABLE`, so such a caller goes on without the lock
(`LockFails`). `Boot` initialises it again. Its specification is `MutexSpec`, so
that its theorems and those of `ServiceClient` can share a module. Recursion is left out: no critical
section in the modelled code takes the mutex twice in one process.

**SlotOutput.** One slot of a DualShock 4 or DualSense. A client's command is
one step, or two where the code stores an atomic field before it takes the
mutex (`rumble off`: `RumbleOff`, `Silence`). The worker's pass is a sequence of
steps; the pipelines compute and send, then lower their flag in a later step.
`TakeOther` is another slot's worker in `ledfx_process_requests`. `TuiPled` is the
TUI's `pled`, which makes the bar static besides; `frozen` records that it ended
an effect. The state
begins as `try_register_control` leaves it. An interval that has not elapsed is
a choice. Left out: report bytes, brightness, gain, player LEDs, the colours an
effect draws, UHID output reports (`uhid.c:242-256`), effect numbers out of
range.

**BridgeMonitor.** A pass of `monitor_thread_func` is `Check` (mapping, process
id, heartbeat), `Copy` (the critical section with both `memcpy` and the signals)
and `Report` (the status signal); between them the daemon, the controllers and
the main thread move. Segments are numbered: the unit's
`ExecStartPre=rm -f /dev/shm/dstx_shared_mem` takes the name away from one that
is still mapped, a daemon started by hand takes over what it finds. `beaten` and
`age` stand for the comparison of the heartbeat with the last one: `AGE` passes
without a new beat may fit into the second the monitor allows, and fewer may
exceed it. The fields of `controller_t` are grouped by the signal that tells
them (`config`, `buttons`, `axes`). A setter is three steps, the look at
`daemon_alive` (`Ask`), opening its handle and storing under the mutex, and a
profile call two (`AskProfile`, `OpenProfile`), so that the monitor may go
offline and the daemon be replaced in between;
handlers of one kind are one action, with what each kind checks
(`SetLevel`, `SetSwitch`, `SetTable`, `Request`). `leaked` counts the
descriptors `close_shm_handle_any` leaves open. History: `heard` is what a
subscriber concludes from the signals it got, `lost` and `lost_status` record
signals that were not sent, `swapped` slots that changed hands between two
passes, `unseen` a death since the last pass, `overtaken` that the monitor went
offline between a profile call's look and its opening.

**ServiceClient.** `tpc` follows one client through `try_connect_shm`,
`is_daemon_alive`, the TUI's loop or the CLI's entry; `goal` is what the attempt
was made for and decides what follows it. The daemon's own start is three steps
(`OpenSegment`, `InitSegment`, `Publish`), because a client may map a segment
that has no `magic` or no process id yet. `managed` says whether `systemctl`
works. `is_daemon_alive` compares the number (`Clear`) and stores two fields
(`Forget`, `Still`) in steps of their own: it holds the mutex, but a daemon that
takes over the segment makes that mutex anew (`InitSegment`). Process ids are the
numbers of the starts, and a number may pass to another process. The TUI's snapshot (`snap`), the index found in it and the
path selected are apart from the slots they were copied from; `Arrow` follows
the arithmetic of `ui.c:301` with C's remainder, `Stray` being whatever lies in
front of the array. History: `remade` (the mutex was made anew while the client
was inside), `wiped`, `late`, `replaced`, `asked`,
`misdirected`.

**VirtualPad.** One slot and the controllers that follow each other on it. The
pass of the worker is `Top`, `Requests` (layouts), the management of the device in
two steps (`DestroyUinput`, `DestroyUhid` or neither, then `CreateUhid`,
`CreateUinput`, `CreateFails` or `Keep`; or `Drop`), then what poll finds.
`polled` is `fds[1]`: none, the device's own descriptor, or the number of a closed
one; `nsw_uhid` is the copy of the UHID descriptor in the Switch Pro's context,
which outlives the worker and says where events are written. `pending` and
`stable` are the debounce table, which nobody resets. `shown` is the state of
the device as a game sees it, kept by the kernel between events. For the Switch
Pro `last` is the cache of what was forwarded, compared before each event is
written; a write to uinput that fails is cached like one that succeeds. The
reports of a DualShock 4 or DualSense have everything every time, and their
failing writes are left out. History: `failed`, `unsent` (what the cache has from
before the device was made anew or from a failed write), `skipped` (read, not
passed on).

**SwitchPro.** `InitContext` is `nsw_init` with its search for an event device,
`nsw_cleanup` the end of a worker, except the exit without event device, which
leaves the context behind. A controller is registered only when the start-up scan
or an `IN_CREATE` event has offered it, and then once (`offered`, `Register`,
`Decline`). `told` is inotify's news of a deletion, also of another node whose
name is the beginning of this one's (`DeleteOther`: `strstr`). `nsw_send_rumble` is
the disjunction of its branches: `Off`, `Hup`, `Same`, `StopEffect`, `Limit`,
`NewEffect`; `Send` calls it and `Lower` lowers the flag in a critical section of
its own, as `rumble off` is two steps (`SetActive`, `Zero`). A write to an event
device that is there does not fail, an upload may. History: `swallowed` (a level
cached and not sent within 50 ms), `owed` (refused by the kernel, or stored while
rumble was off), `missed` (a `rumble off` between the report and the lowering).

## 3. Runs

| Run | Instance | Shows |
|---|---|---|
| `slots_safety` | 2 slots, 2 controllers, failing `malloc` and `pthread_create` | one worker per slot; a connected slot is never handed out; a slot is lost only in the places of section 6; `SlotPool` is implemented |
| `slots_live` | 2 slots, one Switch Pro | a hidraw path is registered once; the main loop keeps turning although it joins workers; an unplugged controller's slot is released |
| `channel_single` | 1 client, 3 profiles, no time-out | every request is answered; `ProfileRpc` is implemented |
| `channel_shared` | 2 clients with time-outs, edits | what remains true when requests overlap: the answer tells of the last command, the active profile exists, a request is taken |
| `channel_torn` | 2 clients, none times out | violated: a profile is deleted that nobody asked to delete |
| `manager` | 2 profiles, 2 changes, 2 edits, effect, saves that fail or are cut short, restarts | unmarked means saved and settings at rest reach the disk, but for the exceptions of section 6 |
| `mutex_shared` | daemon, CLI, bridge; all may die, the daemon's number is cleared or reused | exclusion but for the named faults; a lock is granted or refused |
| `output` | 2 colours, 2 saved configurations, 2 inputs, failing writes | what is shown and played follows shared memory but for the named windows; the last mode command holds but for the TUI's `pled`; `rumble off` is quiet; outputs catch up |
| `bridge` | 1 slot, 2 controllers, 2 segments, 2 descriptors, 5 events, a clock that steps | a subscriber is in step with the last pass but for signals not sent; it takes one controller for another only after a swap; the monitor keeps a descriptor unless a call was overtaken; a dead daemon is reported, a running one seen |
| `client` | 2 slots, 2 controllers, 2 daemons, 2 segments, 5 events | a running daemon stays visible but for `stop` and a mutex made anew; a dead one is shown briefly; commands reach the controller they were meant for but for swaps; a TUI finds the daemon |
| `vdev` | both kinds of controllers, 2 keybinds, 5 events, a clock that steps | one device, served and polled, and the context's descriptor is its own; the next event repairs what a Switch Pro held back; the game sees what is held; the device follows the setting |
| `switch` | 2 Pro Controllers, 3 levels, 8 events | nothing plays that the context cannot stop; the motor follows but for the named windows; silence comes; a worker whose device or watch is lost ends and takes its context with it |

**Bounds.** Two slots and two controllers let one worker release its slot while
the main thread registers, watches or joins another, which is what every slot
property is about. One of the three ways to lose a slot takes three slots whose
workers the watchdog stops in one pass: its write for the first loses the bit of
the second, the third's worker reads the bitmap, the watchdog puts the second's
bit back, and the worker's write loses it again. No run reaches it; the theorem
covers any number of slots. A time-out of one pass
makes a heartbeat stale in the fewest steps. `WORD` is 16: any modulus above
`TIMEOUT + 1` wraps the same lag. One unread event is enough to offer a
controller found by the scan a second time. Two clients give each torn read of
the mailbox; a third profile makes "the other one" different from Default. Two
changes and two edits allow one of each on both sides of a save. Two inputs of
`SlotOutput` (commands, game events or interventions, on top of the request
pending at registration) put one input inside the window another opened.
Two segments are the one that is mapped and the one that replaces it; two
controllers on one slot of the bridge make every swap, and its slots do not
interact. `AGE` 1 has a pass that is in time and one that is late. Five events
of `BridgeMonitor` and `ServiceClient` allow a plug, a death, a restart, another
plug and a call or command; two descriptors are the least with which a leak can
leave none for a handle. Two slots of the TUI give the selection somewhere to
move. Five events of `VirtualPad` press a button, change two settings around it
and bring the next controller; the binds are one to the trigger and one from it,
the two directions its code treats differently. Eight events of `SwitchPro` plug
two controllers, start, swallow, refuse and stop a level and pull a controller
out; level 2 differs from the level that was cached. The invariants and action
properties of all modules, and both refinements, are proved without any of the
bounds (section 5). The `client`, `vdev` and `switch` runs do not check for deadlock:
with no controller or daemon, and the events used up, their system rests.
The largest instances have 1.6 million distinct states (`vdev`), 1.2 million
(`bridge`), 1.1 million (`output`, `client`) and 0.7 million (`switch`); the
others have fewer.

**Fairness.** Threads are scheduled by Linux and block only in the calls shown.
`SlotLifecycle`: weak fairness of the main thread and of each worker (a join is
enabled once the worker has ended); strong fairness of `CheckStop`, because the
loop reaches it in every pass, and of `ReleaseLock`, because waiters of a futex
are served although the mutex is taken again and again. `ProfileChannel`: weak
fairness of the settings thread, which polls every 200 ms, and of a waiting
client. `ProfileManager`: weak fairness of the thread, strong fairness of `AutoSave`,
since a disk does not fail for ever; a daemon that was stopped need not be started
again. `ShmMutex`: weak fairness of leaving a critical section,
strong fairness of entering. `SlotOutput`: weak fairness of the worker's steps and
of carrying out a request that was taken,
strong fairness of the sends, whose intervals elapse, and of taking the slot's
own request. `BridgeMonitor`: weak fairness of the monitor's passes (every
100 ms or more), of the steps of a call that was begun (`MainStep`), of a daemon
that starts (`Publish`) and beats (`Beat`), and of the main thread's attempts to connect to the bus; nothing restarts the daemon,
whose unit says `Restart=on-failure` only. `ServiceClient`: weak fairness of the
daemon's start and beat and of the client's loop; strong fairness of `GiveUp`,
because attempts are counted, and of `Reconnect`, which the loop tries again
and again. `VirtualPad`: weak fairness of the worker, strong fairness of a report
in which the debounce interval of every button has elapsed: the controller
reports all the time. `SwitchPro`: weak fairness of the worker, strong fairness of
the send, whose 5 ms elapse; no registration is promised, since a controller that
stays is not offered again. Nothing is assumed of users, games, editors or cables,
and nothing of writes to a DualShock 4 or DualSense.

**Stated, not checked.** Some claims of the documentation are definitions no run
checks, because the code refutes them (section 6): `OnlyStaleWorkersAreStopped`,
`WatchdogRecreatesDevice`, `NoSlotLeaked`, `ControllerRegisteredOnce`
(`SlotLifecycle`); `AutoSaveObeyed` (`ProfileChannel`);
`ReloadKeepsLocalChanges`, `EditDetected`, `ShutdownSavesProfile`,
`SwitchKeepsPendingChange`, `PendingChangeIsSaved` (`ProfileManager`);
`MutualExclusion` (`ShmMutex`).

## 4. Refinement

`ImplementsSlotPool` maps a connected slot to the controller of its `dev_path`
as its holder; every step of the main thread and the workers gives a free slot
to a controller that has none, gives one up, or is a stutter. It holds for
controllers that keep their hidraw path: the theorem `SlotPoolImplemented` has the
hypothesis `NswDevices = {}`, and the Switch Pro is why (section 6).

`ImplementsProfileRpc` holds for one client that waits for its answer: it is the
promise "synchronous command channel" (`docs/dstx.txt:43`) and what two clients
break. The theorem `RpcImplemented` assumes `OneWaitingClient`: no second client,
no time-out, no edits of the profile files meanwhile.

Both are checked by TLC on an instance and proved step by step for the others:
the first states agree, and every step is one of the abstract specification or a
stutter.

## 5. Proofs

All for every value of the constants that satisfies the modules' assumptions.

* `SlotLifecycleProofs`: `TypeInv` adds to `TypeOK` what the locals of the main
  thread are at each `mpc` (`LocalsInv`). `OwnershipInv` adds `ThreadInv` (a
  worker not yet joined is in `threads[]`, and the slot being registered has
  none), `MutexInv` (who holds
  `proc_mutex` across a step and what it has read), `BitmapInv` (a connected
  slot is neither in the bitmap nor in a copy of it somebody is about to write
  back) and `FreshInv`. `BitmapInv` is why `ConnectedSlotIsReserved` survives
  the watchdog's unguarded write: the lost update can only lose a free slot.
  `RegistrationInv` adds `GhostInv`, which carries what `find_free_slot` and the
  test of the paths found under the mutex through the join to the second lock,
  where the path is stored (`RegisteredOnce`), and `CopyInv`: a copy of the bitmap
  that waits to be written back lacks only bits of slots without a thread. From it
  follows where a bit can be lost (`SlotsLostInKnownPlaces`, an action property).
  The attempt to prove it with two places failed on the third, a worker's write
  over the watchdog's, which two slots do not reach. `SlotPoolImplemented` uses
  `RegistrationInv` and `HidrawInv` (a slot carries a hidraw path or none): the
  test that finds a ghost gives its slot up, the second critical section gives one.
* `ProfileChannelProofs`: `ChannelInv` adds `WorkingOnRequest` (while the thread
  works, the request field still holds a request, this one or a later one) and
  `ListAlreadyWritten` (a list's text is in place, or cleared by a later post,
  when its response is stored). `RpcInv`, for `RpcImplemented`, adds `CallInv`
  (the thread works for the caller, with its arguments), `AnswerInv` (what the
  caller reads is what the last command told) and `SettingInv` (the shared
  `auto_save_enabled` is the manager's, except while it carries the argument of
  a request).
* `ProfileManagerProofs`: `TypeOK`, `CleanProfileIsOnDisk` and
  `EditNoticedWhileWatched` are inductive together with `ReadThenWatched`
  (`ManagerInv`): the first relates `profile_dirty`, the manager's copy and the
  file, the second the file, the watch and the queued event, and the last says the
  same of a file that was read and is not yet watched, with the edits recorded
  that nobody will announce.
* `SharedMemoryProofs`, on the mutex: `MutexInv` adds that a process inside owns
  the mutex unless it is unrecoverable or was initialised again, that only a plain
  client holds an inconsistent one, and that an unrecoverable one has no owner.
  `SafeLockExcludes`: without plain clients and deaths of the daemon, exclusion
  is unconditional, whichever clients die.
* `SharedMemoryProofs`, on the client: `ClientInv` joins `TypeOK` and the
  properties of `ServiceClient` with `SystemInv` (only the segment with the name
  can hold the number of the running daemon, and every number is that of an
  earlier start), `AttachInv` (a number read before a wait and about to be cleared
  is not that of a daemon; without the unit the mapped segment is the one with the
  name), `ClearInv` (what a client found inside the critical section still holds
  there, unless the mutex was made anew, which only a daemon without the unit
  does: a managed one never opens a segment that was mapped before), `LoopInv`, `SelectionInv` (the index of a command is that of the selected
  controller in the snapshot, and the slot still holds it, is empty or is in
  `replaced`) and `LateInv`. The last is what bounds `late`: while a client goes on
  showing a daemon that has ended (`Lingering`), either the heartbeat of its
  segment rests and the count is at most `age` and two (`Aging`), or the number has
  passed to another process, or the client is looking for a daemon and none can be
  found, because `Publish` begins the count anew. That a set of slots has a first
  one, which `update_and_get_slot_idx` chooses, is `FirstExists`.
* `SlotOutputProofs`: `FlagsInv` adds `ReportIsCurrent` (between the send and
  the store that lowers the flag the device shows shared memory, or the miss is
  on record); `ModeInv`
  adds, for a pending request, for one being carried out and for an effect in
  the middle of drawing, that it is the last command, has been overtaken or the
  bar was frozen.
* `BridgeMonitorProofs`: `BridgeInv` joins `TypeOK` and the properties with
  `FlagsAgree` (the two flags for the daemon's state are one), `ForgottenWhenDown`
  (offline leaves no previous state), `MappedWhenAlive`, `CacheReadable` (a slot
  of the previous state is one of the copy the getters read), `SwapRecorded`,
  `DeathRecorded` and `DescriptorLeft`. The last is why the monitor is not without
  a descriptor: a profile call that has looked and not yet opened leaves the
  monitor's mapped, or is on record as overtaken.
* `VirtualPadProofs`: `TypeOK` in three parts (`SetsOK`, `FlagsOK`, `CountOK`);
  `DeviceInv` adds to the two device properties that, between destroying and
  creating and while polling, the device of the other kind is gone, which is what
  makes the two branches exclude each other; `CacheInv` relates the cache, the
  device and `unsent`, from which the action property `NextEventRepairs` follows.
* `SwitchProProofs`: `SwitchInv` is `TypeOK`, `Owned` (the first property in the
  form each step keeps), `CacheIsMotor` (without a swallowed or refused level the
  cache is what plays) and `CacheIsLevel` (an unflagged level, or one whose flag is
  about to be lowered, is the cached one unless a `rumble off` was missed).

Proved without a run of their own: `FreshWorkerClean`,
`RequestAndResponseExclude`, `WatchedEditsNoticed`, `SpoiltByPlainOnly`,
`SafeLockExcludes`, `SignalledReadable` (what the getters answer does not
contradict the signals) and `DeathIsNoticed` (a dead daemon counts as alive until
the next pass at most).

Only model-checked: liveness, which is out of the prover's reach
(`LostControllerIsReleased`, `MainLoopTurns`, `EveryRequestAnswered`,
`RequestIsTaken`, `SettingsReachDisk`, `LockGranted`, `OutputCatchesUp`,
`DeadDaemonReported`, `RunningDaemonSeen`, `RunningDaemonShown`, `PadFollowed`,
`DeviceFollowsSetting`, `SilenceComes`, `ContextRecovers`), and the violation of
`DeletedOnlyOnRequest`. Every invariant and every action property that a run finds
to hold is proved.

## 6. Where code and documentation differ

Shown by the run `channel_torn`, which is violated: torn requests
(`settings.c:569`). Contradicting a definition that is stated and not checked:
the watchdog's unsigned subtraction (`daemon.c:1094`), reload over a local change
(`settings.c:551`), plain locks of the bridge (`dbus-utils.c:271`).

Exceptions a property names, so that its run shows there are no others:

* `close_shm_handle_any` never closes its descriptor (`dbus-utils.c:302, 326`):
  profile calls use up the bridge's descriptors, and setters cannot open one;
* a profile call looks at `daemon_alive` and opens later (`dbus-utils.c:299-302`):
  when the monitor closes its descriptor in between, the call may take and leak
  the last one, and no daemon is seen again;
* a signal is not sent without a bus connection, or within a rate limit, while the
  previous state is updated all the same (`dbus-monitor.c:135`);
* a controller that replaces another between two passes is not signalled
  (`dbus-monitor.c:126`);
* a command goes to the index of an older snapshot (`ui.c:430`); a client stays
  with an old segment whose process number was reused (`utils.c`);
* stopping a daemon that `systemctl` does not manage clears the process id of one
  that runs (`utils.c:220-228`), and so does a client that is clearing the number
  of a dead one while a daemon started by hand makes the mutex anew
  (`main.c:131`, `utils.c:326-328`);
* a save that was cut short is taken for done (`settings.c:370-377`), and an
  unreadable Default that becomes active is not marked (`settings.c:621`): the
  settings are not written until they change;
* an edit between reading a profile and adding the watch is not announced
  (`settings.c:584-586`);
* the TUI's `pled` ends an effect in whatever colour it had (`ui.c:677`);
* a light bar or motor changed between a report and the lowering of its flag is
  not sent (`output.c:491, 542`); a Switch Pro whose `rumble off` falls there
  rumbles on, since level 0 has no keep-alive and the effect no end
  (`nsw.c:992`);
* after the device could not be made, poll gets the number of a closed descriptor
  and returns at once (`daemon.c:736`);
* the cache of the Switch Pro's buttons is not reset with the device
  (`nsw.c:668`), and has what could not be written (`nsw.c:670-673`);
* a rumble level within 50 ms of the last is cached as sent and never sent
  (`nsw.c:965`); so is the level after a failed upload (`nsw.c:995`).

Seen while modelling:

* the watchdog's `mark_slot_free` (`daemon.c:1102`) runs without the mutex: its
  write can lose the slot a worker gave back meanwhile, and a worker's own
  `mark_slot_free` can lose the watchdog's; a failing `malloc` (`daemon.c:240`)
  keeps one;
* the stop of a plain rumble effect is not accepted, because its start does not
  note the effect (`output.c:399, 420`);
* the deletion of `event1` ends the worker of `event12` (`nsw.c:314`), and that of
  a Switch Pro without event device ends too (`daemon.c:514`): a controller that
  stays is not registered again;
* a worker stopped by the watchdog has cleared `dev_path`, so its device is not
  registered again (`daemon.c:1106`; `docs/dstx.txt:98, 326`);
* a Switch Pro's slot carries the event path (`daemon.c:527-533`), so the test
  at `daemon.c:137` does not recognise its hidraw node;
* after a time-out, a client may get the answer to an earlier request;
* auto-save is switched by the field of the request, which another client's post
  may change before it is read (`settings.c:556`; main README, line 287);
* the watch stays on the old file after a save or an editor's rename
  (`settings.c:374`; main README, line 275);
* a signal ends the daemon without the last save (`utils.c:552`;
  `settings.h:43`); loading another profile drops an unsaved change
  (`settings.c:584`);
* a running effect keeps restarting the auto-save delay (`led.c:573`;
  `docs/dstx.txt:287`);
* `dstx 0 color ff0000` (main README, line 357) is refused: commands need `--`;
* the CLI's `color` and the bridge's `SetLed` leave `led_request_effect`, so a
  profile saved later restores the old effect; the TUI resets it (`ui.c:695`);
* UHID output reports ignore `rumble_active` and scale by the gain twice
  (`uhid.c:242-256`); loading a profile with rumble off leaves running motors on;
* setters of the bridge send no reply when the segment cannot be opened
  (`dbus-handlers.c:519`), getters answer with an error;
* the left arrow with nothing selected reads `slots[-1]` (`ui.c:301`);
* the UHID report's byte 12 is not written in digital mode (`uhid.c:411`), and a
  trigger held while its mode is switched stays pressed in the other mode
  (`drivers.c:313, 362`);
* every slot of a Switch Pro takes the first Pro Controller (`nsw.c:182`).

## 7. Not modelled

* The GTK program (`src/dstx-gui`, Vala): it meets the rest only on the bus, and
  `BridgeMonitor` has a subscriber in its place. Its asynchronous calls would need
  a model of the GLib main loop, which is not part of this code.
* Terminal drawing (`display.c`), widgets, themes, logging, help, installation:
  no state that other parts depend on.
* Stick curves (`axes.c`): floating-point functions without state, outside what
  TLC's integers can say faithfully.
* Report bytes and descriptors, brightness, gain, player LEDs, the colours an
  effect draws: data no property tells apart.
* JSON text: a file is a configuration, missing or rejected.
* Real time: intervals are choices or counts of passes.
* Enabling and querying the unit: systemd's state, not this program's.

## 8. Plan

What is left, in this order:

1. Configurations per slot in `ProfileManager`: a file with fewer slots than
   `MAX_SLOTS` (`settings.c:219`).
2. `BridgeMonitor` with `ProfileChannel`: a profile call that waits its second in
   the main thread while other calls queue.
3. The colours and timing of LED effects, against a reference definition.
4. Proofs: the safety half of the liveness properties, such as which steps can
   undo the progress of a waiting client or of an unplugged controller's worker.
