------------------------- MODULE ProfileManagerProofs -------------------------
(***************************************************************************)
(* Proofs about the settings thread, for any profiles, configurations,     *)
(* delay and numbers of changes and edits.                                 *)
(***************************************************************************)
EXTENDS ProfileManager, TLAPS

(***************************************************************************)
(* The invariants are inductive together: whether a clean profile is on    *)
(* disk after a reload depends on what was announced, what is announced    *)
(* once the watch is added depends on what happened since the file was     *)
(* read (ReadThenWatched), and all depend on the types.                    *)
(***************************************************************************)
ReadThenWatched ==
  pc \in {"start", "adopt"} /\ Readable(active_name) =>
    disk[active_name] = active_profile \/ modified \/ missed

ManagerInv ==
  /\ TypeOK
  /\ CleanProfileIsOnDisk
  /\ EditNoticedWhileWatched
  /\ ReadThenWatched

USE DEF vars, files, pm, hist

LEMMA InitInv == Init => ManagerInv
<1> SUFFICES ASSUME Init PROVE ManagerInv
  OBVIOUS
<1>1. 0 \in 0 .. DELAY /\ 0 \in 0 .. MaxChanges /\ 0 \in 0 .. MaxEdits
  BY ManagerAssumption
<1>2. TypeOK
  BY <1>1, ManagerAssumption DEF Init, TypeOK
<1> QED
  BY <1>2, ManagerAssumption
  DEF Init, ManagerInv, CleanProfileIsOnDisk, EditNoticedWhileWatched, ReadThenWatched, Up

\* What a save leaves behind, of the active profile and of another.
LEMMA SavedFile ==
  ASSUME TypeOK, NEW n \in Profiles, Saves(n)
  PROVE  /\ disk' \in [Profiles -> Configs \cup {NoFile, BadFile}]
         /\ watch' \in Profiles \cup {NoWatch}
         /\ edited' \in BOOLEAN /\ missed' \in BOOLEAN /\ unsaved' \in BOOLEAN
         /\ n = active_name => watch' # active_name /\ (unsaved' \/ disk'[n] = active_profile)
         /\ n # active_name => /\ disk'[active_name] = disk[active_name]
                               /\ watch' \in {watch, NoWatch}
                               /\ edited' = edited /\ missed' = missed /\ unsaved' = unsaved
<1>1. PICK short \in {FALSE, DiskFails} :
        /\ disk' = [disk EXCEPT ![n] = IF short THEN BadFile ELSE active_profile]
        /\ watch' = IF n = watch THEN NoWatch ELSE watch
        /\ edited' = (edited /\ n # active_name)
        /\ missed' = (missed /\ n # active_name)
        /\ unsaved' = IF n = active_name THEN short ELSE unsaved
  BY DEF Saves
<1>2. short \in BOOLEAN
  BY <1>1, ManagerAssumption
<1>3. edited' \in BOOLEAN /\ missed' \in BOOLEAN
  BY <1>1
<1>4. unsaved' \in BOOLEAN
  BY <1>1, <1>2 DEF TypeOK
<1>5. disk' \in [Profiles -> Configs \cup {NoFile, BadFile}] /\ watch' \in Profiles \cup {NoWatch}
  BY <1>1, <1>2 DEF TypeOK
<1>6. n # active_name => edited' = edited /\ missed' = missed
  BY <1>1 DEF TypeOK
<1>7. n = active_name => watch' # active_name /\ (unsaved' \/ disk'[n] = active_profile)
  BY <1>1, <1>2, ManagerAssumption DEF TypeOK
<1>8. n # active_name => /\ disk'[active_name] = disk[active_name]
                         /\ watch' \in {watch, NoWatch} /\ unsaved' = unsaved
  BY <1>1 DEF TypeOK
<1> QED BY <1>3, <1>4, <1>5, <1>6, <1>7, <1>8

\* What others do: a setting, a frame of an LED effect, an edit of a file.
LEMMA OthersKeepInv ==
  ASSUME ManagerInv,
         \/ \E v \in Configs : Change(v) \/ Effect(v)
         \/ \E n \in Profiles, v \in Configs \cup {BadFile}, how \in Editors :
              Edit(n, v, how)
  PROVE  ManagerInv'
<1> USE DEF ManagerInv, TypeOK, CleanProfileIsOnDisk, EditNoticedWhileWatched, ReadThenWatched, Up, Readable
<1>1. ASSUME NEW v \in Configs, Change(v) PROVE ManagerInv'
  BY <1>1, ManagerAssumption DEF Change
<1>2. ASSUME NEW v \in Configs, Effect(v) PROVE ManagerInv'
  BY <1>2 DEF Effect
<1>3. ASSUME NEW n \in Profiles, NEW v \in Configs \cup {BadFile}, NEW how \in Editors,
             Edit(n, v, how)
      PROVE  ManagerInv'
  <2>1. PICK announced \in BOOLEAN : announced = (how = "inplace" /\ n = watch)
    OBVIOUS
  <2>2. /\ modified' = (modified \/ announced)
        /\ edited' = (edited \/ n = active_name)
        /\ missed' = (missed \/ (n = active_name /\ ~announced /\ pc \in {"start", "adopt"}))
        /\ UNCHANGED <<active_name, active_profile, profile_dirty, pc, unsaved>>
        /\ watch' \in {watch, NoWatch}
    BY <1>3, <2>1 DEF Edit
  <2>3. modified' \in BOOLEAN /\ edited' \in BOOLEAN /\ missed' \in BOOLEAN
    BY <2>2
  <2>4. TypeOK'
    BY <1>3, <2>2, <2>3, ManagerAssumption DEF Edit
  <2>5. CASE n = active_name
    <3>1. edited'
      BY <2>2, <2>5
    <3>2. watch' = active_name' => announced
      BY <1>3, <2>1, <2>5, ManagerAssumption DEF Edit
    <3>3. announced => modified'
      BY <2>2
    <3>4. pc' \in {"start", "adopt"} => modified' \/ missed'
      BY <2>2, <2>5
    <3> QED BY <2>2, <2>4, <3>1, <3>2, <3>3, <3>4
  <2>6. CASE n # active_name
    <3>1. disk'[active_name] = disk[active_name]
      BY <1>3, <2>6 DEF Edit
    <3>2. (edited => edited') /\ (missed => missed') /\ (modified => modified')
      BY <2>2
    <3> QED BY <2>2, <2>4, <3>1, <3>2, ManagerAssumption
  <2> QED BY <2>5, <2>6
<1> QED BY <1>1, <1>2, <1>3

\* The commands of profile_process_requests (settings.c:583-662).
LEMMA CommandKeepsInv ==
  ASSUME ManagerInv, Command
  PROVE  ManagerInv'
<1> USE DEF ManagerInv, TypeOK, CleanProfileIsOnDisk, EditNoticedWhileWatched,
            ReadThenWatched, Up, Readable, At
<1>1. CASE NoRequest
  BY <1>1 DEF NoRequest
<1>2. ASSUME NEW n \in Profiles, Load(n) PROVE ManagerInv'
  BY <1>2 DEF Load
<1>3. ASSUME NEW n \in Profiles, Save(n) PROVE ManagerInv'
  <2>1. Saves(n)
    BY <1>3 DEF Save
  <2>2. profile_dirty' \in BOOLEAN
    BY <1>3 DEF Save
  <2>3. TypeOK'
    BY <1>3, <2>1, <2>2, SavedFile DEF Save
  <2>4. n # active_name => profile_dirty' = profile_dirty
    BY <1>3 DEF Save
  <2>5. CASE n = active_name
    BY <1>3, <2>1, <2>3, <2>5, SavedFile DEF Save
  <2>6. CASE n # active_name
    BY <1>3, <2>1, <2>3, <2>4, <2>6, SavedFile, ManagerAssumption DEF Save
  <2> QED BY <2>5, <2>6
<1>4. ASSUME NEW n \in Profiles, Delete(n) PROVE ManagerInv'
  <2>1. TypeOK'
    BY <1>4 DEF Delete
  <2>2. n # active_name /\ UNCHANGED <<active_name, active_profile, profile_dirty, edited, missed, unsaved>>
    BY <1>4 DEF Delete
  <2>3. disk'[active_name] = disk[active_name] /\ watch' \in {watch, NoWatch} /\ pc' = "autosave"
    BY <1>4, <2>2 DEF Delete
  <2> QED BY <1>4, <2>1, <2>2, <2>3, ManagerAssumption DEF Delete
<1>5. ASSUME NEW on \in BOOLEAN, SetAutoSave(on) PROVE ManagerInv'
  BY <1>5 DEF SetAutoSave
<1>6. CASE DeleteActive
  <2>1. active_profile' \in Configs /\ unsaved' \in BOOLEAN
    BY <1>6 DEF DeleteActive
  <2>2. TypeOK'
    BY <1>6, <2>1, ManagerAssumption DEF DeleteActive
  <2>3. disk'[Default] \in Configs => disk'[Default] = active_profile'
    BY <1>6 DEF DeleteActive
  <2>4. disk'[Default] \notin Configs /\ ~profile_dirty' => unsaved'
    BY <1>6 DEF DeleteActive
  <2>5. active_name' = Default
    BY <1>6 DEF DeleteActive
  <2> QED BY <2>2, <2>3, <2>4, <2>5
<1> QED BY <1>1, <1>2, <1>3, <1>4, <1>5, <1>6 DEF Command

\* The other parts of the settings thread's loop (settings.c:698-723).
LEMMA LoopKeepsInv ==
  ASSUME ManagerInv,
         ApplyAtStart \/ Adopt \/ Wake \/ Sync \/ AutoSave \/ NoAutoSave \/ Inotify
  PROVE  ManagerInv'
<1> USE DEF ManagerInv, TypeOK, CleanProfileIsOnDisk, EditNoticedWhileWatched,
            ReadThenWatched, Up, Readable, At
<1>1. CASE ApplyAtStart \/ Adopt
  BY <1>1 DEF ApplyAtStart, Adopt, Adopts
<1>2. CASE Wake
  BY <1>2, ManagerAssumption DEF Wake
<1>3. CASE Sync
  <2>1. age' \in 0 .. DELAY
    BY <1>3, ManagerAssumption DEF Sync
  <2>2. profile_dirty' \in BOOLEAN /\ unsaved' \in BOOLEAN
    BY <1>3 DEF Sync
  <2>3. TypeOK'
    BY <1>3, <2>1, <2>2 DEF Sync
  <2> QED BY <1>3, <2>3 DEF Sync
<1>4. CASE AutoSave
  <2>1. Saves(active_name) /\ active_name \in Profiles
    BY <1>4 DEF AutoSave
  <2> QED BY <1>4, <2>1, SavedFile DEF AutoSave
<1>5. CASE NoAutoSave
  BY <1>5 DEF NoAutoSave
<1>6. CASE Inotify
  BY <1>6 DEF Inotify
<1> QED BY <1>1, <1>2, <1>3, <1>4, <1>5, <1>6

\* Stopping and starting the daemon (utils.c:546, settings.c:400-453).
LEMMA RestartKeepsInv ==
  ASSUME ManagerInv, Stop \/ Start
  PROVE  ManagerInv'
<1> USE DEF ManagerInv, TypeOK, CleanProfileIsOnDisk, EditNoticedWhileWatched,
            ReadThenWatched, Up, Readable, At
<1>1. CASE Stop
  BY <1>1 DEF Stop
<1>2. CASE Start
  <2>1. active_profile' \in Configs
    BY <1>2, ManagerAssumption DEF Start
  <2>2. TypeOK'
    <3>1. age' \in 0 .. DELAY
      BY <1>2, ManagerAssumption DEF Start
    <3>2. disk' \in [Profiles -> Configs \cup {NoFile, BadFile}]
      BY <1>2, <2>1 DEF Start
    <3>3. unsaved' \in BOOLEAN
      BY <1>2 DEF Start
    <3> QED BY <1>2, <2>1, <3>1, <3>2, <3>3, ManagerAssumption DEF Start
  <2>3. disk'[Default] \in Configs => disk'[Default] = active_profile'
    BY <1>2, <2>1, ManagerAssumption DEF Start
  <2> QED BY <1>2, <2>2, <2>3 DEF Start
<1> QED BY <1>1, <1>2

LEMMA StepKeepsInv == ManagerInv /\ [Next]_vars => ManagerInv'
<1> SUFFICES ASSUME ManagerInv, [Next]_vars PROVE ManagerInv'
  OBVIOUS
<1>1. CASE UNCHANGED vars
  BY <1>1 DEF ManagerInv, TypeOK, CleanProfileIsOnDisk, EditNoticedWhileWatched, ReadThenWatched, Up, Readable
<1> QED BY <1>1, OthersKeepInv, CommandKeepsInv, LoopKeepsInv, RestartKeepsInv
        DEF Next, Thread

LEMMA Invariance == Spec => []ManagerInv
BY InitInv, StepKeepsInv, PTL DEF Spec

\* Every variable of the profile manager keeps its type.
THEOREM TypeCorrect == Spec => []TypeOK
BY Invariance, PTL DEF ManagerInv

\* No sequence of commands, edits, failed saves and restarts leaves an unsaved
\* configuration that is not marked dirty (settings.c:466-666), but for the recorded
\* cases: an edit that was not read, a save cut short without notice
\* (settings.c:370-377), a Default that could not be read (settings.c:419-449,
\* 620-626).
THEOREM CleanMeansSaved == Spec => []CleanProfileIsOnDisk
BY Invariance, PTL DEF ManagerInv

\* An edit of a watched file stays announced until it is read or yields to local
\* changes (settings.c:542-566), unless it came after the file was read and before
\* the watch was added (settings.c:584-586, 621-623, 419-452): such an edit is never
\* announced.
THEOREM WatchedEditsNoticed == Spec => []EditNoticedWhileWatched
BY Invariance, PTL DEF ManagerInv
=============================================================================
