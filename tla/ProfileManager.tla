---------------------------- MODULE ProfileManager ----------------------------
(***************************************************************************)
(* The settings thread of the daemon (src/dstx/src/settings.c): the active *)
(* profile follows shared memory, is written to disk after a quiet period, *)
(* and is read again when its file is edited by others.  The loop of       *)
(* settings_worker is poll, sync, requests, auto-save, inotify; each part  *)
(* is a step, and clients, LED effects and editors act between them.       *)
(*                                                                         *)
(* A configuration stands for the persistent fields of all slots.  The     *)
(* commands arrive through the channel of ProfileChannel; here a command   *)
(* is carried out in one step.                                             *)
(***************************************************************************)
EXTENDS Integers

CONSTANTS
  Profiles, Default,
  Configs,        \* configurations
  Factory,        \* the configuration of a new Default profile
  NoFile,         \* the content of a file that is not there
  BadFile,        \* the content of a file load_profile_from_disk rejects
  NoWatch,        \* no file is watched
  DELAY,          \* auto_save_delay_ms, in passes of the loop (200 ms each)
  MaxChanges,     \* bound: settings changed by clients
  MaxEdits,       \* bound: files edited by others
  Editors,        \* how they write: "inplace", or "rename" a new file over it
  EffectRuns,     \* BOOLEAN: an LED effect runs
  DiskFails       \* BOOLEAN: a save may fail, or write too little and not notice

ASSUME ManagerAssumption ==
  /\ Default \in Profiles
  /\ Factory \in Configs
  /\ NoFile \notin Configs /\ BadFile \notin Configs /\ NoFile # BadFile
  /\ NoWatch \notin Profiles
  /\ DELAY \in Nat /\ MaxChanges \in Nat /\ MaxEdits \in Nat
  /\ Editors \subseteq {"inplace", "rename"}
  /\ EffectRuns \in BOOLEAN /\ DiskFails \in BOOLEAN

VARIABLES
  disk,             \* the files: configuration, NoFile or BadFile
  watch,            \* the profile whose file the inotify watch is on
  modified,         \* an IN_MODIFY event is queued
  shm,              \* the configuration in shared memory
  \* profile_manager_t
  active_name, active_profile, profile_dirty,
  age,              \* passes since last_change, at most DELAY
  auto_save_enabled,
  pc,               \* the settings thread; "down": no daemon
  changes, edits,   \* counters for the bounds
  \* history, of the active file since the daemon last read or wrote it
  edited,           \* others wrote it
  missed,           \* they did after it was read and before the watch was added
  unsaved           \* the daemon cut it short, or took its place without reading it

files == <<disk, watch, modified>>
pm    == <<active_name, active_profile, profile_dirty, age, auto_save_enabled>>
hist  == <<changes, edits, edited, missed, unsaved>>
vars  == <<files, shm, pm, pc, hist>>

Readable(n) == disk[n] \in Configs
Up == pc # "down"

(***************************************************************************)
(* Clients, LED effects, editors.                                          *)
(***************************************************************************)

\* a setting command of the CLI, the TUI or D-Bus
Change(v) ==
  /\ Up
  /\ changes < MaxChanges
  /\ v # shm
  /\ shm' = v
  /\ changes' = changes + 1
  /\ UNCHANGED <<files, pm, pc, edits, edited, missed, unsaved>>

\* ledfx_update_slot writes led_r, led_g, led_b, which are persistent fields
Effect(v) ==
  /\ Up
  /\ EffectRuns
  /\ v # shm
  /\ shm' = v
  /\ UNCHANGED <<files, pm, pc, hist>>

\* An editor that writes the file in place triggers the watch; one that
\* renames a new file over it takes the watched inode away.
Edit(n, v, how) ==
  LET announced == how = "inplace" /\ n = watch IN
  /\ edits < MaxEdits
  /\ disk[n] # NoFile /\ v # disk[n]
  /\ disk' = [disk EXCEPT ![n] = v]
  /\ modified' = (modified \/ announced)
  /\ watch' = IF how = "rename" /\ n = watch THEN NoWatch ELSE watch
  /\ edited' = (edited \/ n = active_name)
  /\ missed' = (missed \/ (n = active_name /\ ~announced /\ pc \in {"start", "adopt"}))
  /\ edits' = edits + 1
  /\ UNCHANGED <<shm, pm, pc, changes, unsaved>>

(***************************************************************************)
(* The settings thread.                                                    *)
(***************************************************************************)
At(from, to) == pc = from /\ pc' = to

\* save_profile_to_disk: a temporary file renamed over the old one, which takes the
\* watched inode away.  What fprintf and fclose return is ignored: a file that was
\* written short is renamed too, and the save reported as done.
Saves(n) ==
  \E short \in {FALSE, DiskFails} :
    /\ disk' = [disk EXCEPT ![n] = IF short THEN BadFile ELSE active_profile]
    /\ watch' = IF n = watch THEN NoWatch ELSE watch
    /\ edited' = (edited /\ n # active_name)
    /\ missed' = (missed /\ n # active_name)
    /\ unsaved' = IF n = active_name THEN short ELSE unsaved

\* profile_update_inotify and profile_apply_to_shm, after the file was read
Adopts ==
  /\ watch' = IF disk[active_name] # NoFile THEN active_name ELSE NoWatch
  /\ shm' = active_profile
  /\ UNCHANGED <<disk, modified, pm, hist>>

ApplyAtStart == At("start", "poll") /\ Adopts

\* poll() times out after 200 ms
Wake ==
  /\ At("poll", "sync")
  /\ age' = IF age < DELAY THEN age + 1 ELSE age
  /\ UNCHANGED <<files, shm, active_name, active_profile, profile_dirty,
                 auto_save_enabled, hist>>

\* Mutant: the change is copied but not marked.
SyncNotDirty ==
  /\ At("sync", "requests")
  /\ active_profile' = shm
  /\ age' = IF shm # active_profile THEN 0 ELSE age
  /\ unsaved' = (unsaved /\ shm = active_profile)
  /\ UNCHANGED <<files, shm, active_name, profile_dirty, auto_save_enabled, changes, edits, edited,
                 missed>>

Sync ==
  /\ At("sync", "requests")
  /\ active_profile' = shm
  /\ profile_dirty' = (profile_dirty \/ shm # active_profile)
  /\ age' = IF shm # active_profile THEN 0 ELSE age
  /\ unsaved' = (unsaved /\ shm = active_profile)
  /\ UNCHANGED <<files, shm, active_name, auto_save_enabled, changes, edits, edited, missed>>

\* no request, a list, or a command that failed
NoRequest ==
  /\ At("requests", "autosave")
  /\ UNCHANGED <<files, shm, pm, hist>>

\* The file is read; the watch is moved and shared memory set in the next step.
\* profile_dirty and last_change are left as they are.
Load(n) ==
  /\ At("requests", "adopt")
  /\ Readable(n)
  /\ active_name' = n
  /\ active_profile' = disk[n]
  /\ edited' = FALSE /\ missed' = FALSE /\ unsaved' = FALSE
  /\ UNCHANGED <<files, shm, profile_dirty, age, auto_save_enabled, changes, edits>>

Adopt == At("adopt", "autosave") /\ Adopts

\* Mutant: saving under another name marks the active profile as saved.
SaveAlwaysClears(n) ==
  /\ At("requests", "autosave")
  /\ Saves(n)
  /\ profile_dirty' = FALSE
  /\ UNCHANGED <<modified, shm, active_name, active_profile, age, auto_save_enabled,
                 changes, edits>>

Save(n) ==
  /\ At("requests", "autosave")
  /\ Saves(n)
  /\ profile_dirty' = (profile_dirty /\ n # active_name)
  /\ UNCHANGED <<modified, shm, active_name, active_profile, age, auto_save_enabled,
                 changes, edits>>

Delete(n) ==
  /\ At("requests", "autosave")
  /\ n # active_name
  /\ disk[n] # NoFile
  /\ disk' = [disk EXCEPT ![n] = NoFile]
  /\ watch' = IF n = watch THEN NoWatch ELSE watch
  /\ UNCHANGED <<modified, shm, pm, hist>>

\* Deleting the active profile moves on to Default; when that cannot be read, the
\* old configuration goes on under its name and is written only if it was dirty.
DeleteActive ==
  /\ At("requests", "adopt")
  /\ disk[active_name] # NoFile
  /\ disk' = [disk EXCEPT ![active_name] = NoFile]
  /\ watch' = IF active_name = watch THEN NoWatch ELSE watch
  /\ active_name' = Default
  /\ active_profile' = IF disk'[Default] \in Configs THEN disk'[Default] ELSE active_profile
  /\ edited' = FALSE /\ missed' = FALSE
  /\ unsaved' = (disk'[Default] \notin Configs /\ ~profile_dirty)
  /\ UNCHANGED <<modified, shm, profile_dirty, age, auto_save_enabled, changes, edits>>

SetAutoSave(on) ==
  /\ At("requests", "autosave")
  /\ auto_save_enabled' = on
  /\ UNCHANGED <<files, shm, active_name, active_profile, profile_dirty, age, hist>>

DueForSave == auto_save_enabled /\ profile_dirty /\ age >= DELAY

AutoSave ==
  /\ At("autosave", "inotify")
  /\ DueForSave
  /\ Saves(active_name)
  /\ profile_dirty' = FALSE
  /\ UNCHANGED <<modified, shm, active_name, active_profile, age, auto_save_enabled,
                 changes, edits>>

\* not due, or the save failed: tried again in the next pass
NoAutoSave ==
  /\ At("autosave", "inotify")
  /\ DueForSave => DiskFails
  /\ UNCHANGED <<files, shm, pm, hist>>

\* An event is ignored while local changes are pending; otherwise the active
\* profile is read again and applied.
Inotify ==
  /\ At("inotify", "poll")
  /\ modified' = FALSE
  /\ IF modified /\ ~profile_dirty /\ Readable(active_name)
     THEN /\ active_profile' = disk[active_name]
          /\ shm' = disk[active_name]
          /\ edited' = FALSE /\ missed' = FALSE /\ unsaved' = FALSE
     ELSE UNCHANGED <<active_profile, shm, edited, missed, unsaved>>
  /\ UNCHANGED <<disk, watch, active_name, profile_dirty, age, auto_save_enabled, changes, edits>>

\* SIGTERM or SIGINT (cleanup() calls exit), or a crash
Stop ==
  /\ Up
  /\ pc' = "down"
  /\ modified' = FALSE
  /\ watch' = NoWatch
  /\ UNCHANGED <<disk, shm, pm, hist>>

\* main resets the slots in shared memory; profile_manager_init loads Default, or
\* creates it and writes it, over a file it could not read.  The watch follows.
Start ==
  /\ At("down", "start")
  /\ active_name' = Default
  /\ active_profile' = IF Readable(Default) THEN disk[Default] ELSE Factory
  /\ \/ disk' = [disk EXCEPT ![Default] = active_profile']
     \/ DiskFails /\ ~Readable(Default) /\ disk' \in {disk, [disk EXCEPT ![Default] = BadFile]}
  /\ shm' = Factory
  /\ profile_dirty' = FALSE
  /\ age' = 0
  /\ auto_save_enabled' = TRUE
  /\ edited' = FALSE /\ missed' = FALSE
  /\ unsaved' = ~(disk'[Default] \in Configs)
  /\ UNCHANGED <<watch, modified, changes, edits>>

Init ==
  /\ disk \in [Profiles -> Configs \cup {NoFile, BadFile}]
  /\ watch = NoWatch
  /\ modified = FALSE
  /\ shm = Factory
  /\ active_name = Default
  /\ active_profile = Factory
  /\ profile_dirty = FALSE
  /\ age = 0
  /\ auto_save_enabled = TRUE
  /\ pc = "down"
  /\ changes = 0
  /\ edits = 0
  /\ edited = FALSE /\ missed = FALSE /\ unsaved = FALSE

Command ==
  \/ NoRequest \/ DeleteActive
  \/ \E n \in Profiles : Load(n) \/ Save(n) \/ Delete(n)
  \/ \E on \in BOOLEAN : SetAutoSave(on)

Thread ==
  \/ ApplyAtStart
  \/ Wake
  \/ Sync
  \/ Command
  \/ Adopt
  \/ AutoSave
  \/ NoAutoSave
  \/ Inotify

Next ==
  \/ \E v \in Configs : Change(v) \/ Effect(v)
  \/ \E n \in Profiles, v \in Configs \cup {BadFile}, how \in Editors : Edit(n, v, how)
  \/ Thread
  \/ Stop
  \/ Start

Spec == Init /\ [][Next]_vars

\* The settings thread runs (its poll() has a time-out) and not every save fails;
\* nobody has to change, edit or command anything, or to start a daemon that was
\* stopped.
FairSpec == Spec /\ WF_vars(Thread) /\ SF_vars(AutoSave)

(***************************************************************************)
(* Properties.                                                             *)
(***************************************************************************)

\* Every variable of the profile manager keeps its type.
TypeOK ==
  /\ disk \in [Profiles -> Configs \cup {NoFile, BadFile}]
  /\ watch \in Profiles \cup {NoWatch} /\ modified \in BOOLEAN
  /\ shm \in Configs
  /\ active_name \in Profiles
  /\ active_profile \in Configs
  /\ profile_dirty \in BOOLEAN
  /\ age \in 0 .. DELAY
  /\ auto_save_enabled \in BOOLEAN
  /\ pc \in {"down", "start", "poll", "sync", "requests", "adopt", "autosave", "inotify"}
  /\ changes \in 0 .. MaxChanges
  /\ edits \in 0 .. MaxEdits
  /\ edited \in BOOLEAN /\ missed \in BOOLEAN /\ unsaved \in BOOLEAN

\* A profile that is not marked dirty is what its file says: no sequence of loads,
\* saves under other names, deletions, failed saves, restarts and edits leaves an
\* unsaved configuration unmarked (settings.c:466-666).  Excepted: a file others
\* wrote and the daemon has not read; and what is recorded in unsaved, a save that
\* was cut short and not noticed (settings.c:370-377), and a Default that could not
\* be read after the active profile was deleted (settings.c:620-626) or could be
\* neither read nor written at the start (settings.c:419-449).
CleanProfileIsOnDisk ==
  Up /\ ~profile_dirty => disk[active_name] = active_profile \/ edited \/ unsaved

\* While the watch is on the active file, an edit that has not been read is still
\* announced, or was set aside for local changes; unless it fell between the
\* reading of the file and the adding of the watch (settings.c:584-586, 621-623,
\* 419-452).
EditNoticedWhileWatched ==
  Up /\ watch = active_name /\ ~profile_dirty /\ Readable(active_name) =>
    disk[active_name] = active_profile \/ modified \/ missed

\* Whatever is loaded, deleted and saved in vain meanwhile: once the daemon stays up
\* and the settings in shared memory come to rest, the active file holds them, again
\* and again; unless auto-save is off, others wrote the file, or, with no change
\* since, a save was cut short and taken for done (settings.c:370-377) or an
\* unreadable Default became the active profile (settings.c:620-626, 419-449).
SettingsReachDisk ==
  <>[]Up /\ <>[][shm' = shm]_vars =>
    []<>(~auto_save_enabled \/ edited \/ unsaved \/ disk[active_name] = shm)

\* docs/dstx.txt:288: an external edit causes a reload only if no local
\* changes are pending, those the thread has not copied yet included.
ReloadKeepsLocalChanges ==
  [][pc = "inotify" /\ active_profile' # active_profile => shm = active_profile]_vars

\* README.md:275: an external edit is detected and the profile reloaded; so
\* an edit that was not read is announced.
EditDetected ==
  Up /\ ~profile_dirty /\ Readable(active_name) =>
    disk[active_name] = active_profile \/ modified

\* docs/dstx.txt:330 and settings.h:43: a shutdown is graceful and saves the
\* active profile if needed.
ShutdownSavesProfile ==
  [][pc' = "down" /\ Up /\ profile_dirty /\ auto_save_enabled =>
       disk'[active_name] = active_profile]_vars

\* README.md:274: any change is written to disk after the debounce; so a
\* pending one is not dropped when another profile is loaded.
SwitchKeepsPendingChange ==
  [][pc = "requests" /\ profile_dirty /\ auto_save_enabled /\ active_name' # active_name
       => disk'[active_name] \in {active_profile, NoFile}]_vars

\* docs/dstx.txt:287 and README.md:274: a pending change is written when the
\* user makes no further one, whatever LED effect runs.
PendingChangeIsSaved ==
  [](profile_dirty => <>(~profile_dirty \/ ~auto_save_enabled \/ ~Up))
=============================================================================
