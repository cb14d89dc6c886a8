------------------------------ MODULE ShmMutex ------------------------------
(***************************************************************************)
(* proc_mutex, the robust mutex in shared memory that the daemon, the CLI  *)
(* and the TUI take with safe_shm_lock (dstx.h) and the D-Bus bridge with  *)
(* a plain pthread_mutex_lock (dbus-utils.c, dbus-monitor.c).  A process   *)
(* may be killed anywhere.  The unit removes the segment before it starts  *)
(* a daemon, which then begins with a mutex of its own; a daemon run by    *)
(* hand takes over the segment it finds and initialises the mutex again    *)
(* only when the process id in it is that of a dead process (main.c).      *)
(***************************************************************************)
EXTENDS FiniteSets

CONSTANTS
  Daemon,
  SafeClients,    \* CLI and TUI processes
  PlainClients,   \* D-Bus bridges
  DaemonDies,     \* BOOLEAN: the daemon, too, may be killed and started again
  NoOwner

Clients   == SafeClients \cup PlainClients
Processes == {Daemon} \cup Clients

ASSUME MutexAssumption ==
  /\ Daemon \notin Clients
  /\ SafeClients \cap PlainClients = {}
  /\ NoOwner \notin Processes
  /\ DaemonDies \in BOOLEAN

VARIABLES
  owner,    \* the process the mutex records
  mstate,   \* "consistent", "ownerdead" (its owner died), "notrecoverable"
  pc,       \* pc[p]: "out", "want", "in" (between lock and unlock), "dead"
  recorded, \* daemon_pid is that of the last daemon
  reset     \* history: initialised again while a client was inside

mutex_vars == <<owner, mstate, pc, recorded, reset>>

Goto(p, at) == pc' = [pc EXCEPT ![p] = at]

Want(p) ==
  /\ pc[p] = "out"
  /\ Goto(p, "want")
  /\ UNCHANGED <<owner, mstate, recorded, reset>>

\* Mutant: a dead owner's mutex is never handed on.
LockNotRobust(p) ==
  /\ pc[p] = "want"
  /\ mstate = "consistent"
  /\ owner = NoOwner
  /\ owner' = p
  /\ Goto(p, "in")
  /\ UNCHANGED <<mstate, recorded, reset>>

\* Mutant: the mutex is initialised without PTHREAD_PROCESS_SHARED.
LockPrivate(p) ==
  /\ pc[p] = "want"
  /\ mstate # "notrecoverable"
  /\ owner' = p
  /\ mstate' = IF p \in PlainClients THEN mstate ELSE "consistent"
  /\ Goto(p, "in")
  /\ UNCHANGED <<recorded, reset>>

\* EOWNERDEAD: the caller has the mutex; safe_shm_lock makes it consistent,
\* a plain lock ignores the return value.
Lock(p) ==
  /\ pc[p] = "want"
  /\ mstate # "notrecoverable"
  /\ owner = NoOwner
  /\ owner' = p
  /\ mstate' = IF p \in PlainClients THEN mstate ELSE "consistent"
  /\ Goto(p, "in")
  /\ UNCHANGED <<recorded, reset>>

\* ENOTRECOVERABLE, which no caller looks at: on it goes without the mutex
LockFails(p) ==
  /\ pc[p] = "want"
  /\ mstate = "notrecoverable"
  /\ Goto(p, "in")
  /\ UNCHANGED <<owner, mstate, recorded, reset>>

\* A mutex unlocked before it is made consistent can never be locked again;
\* one that is not owned is left alone (EPERM).
Unlock(p) ==
  /\ pc[p] = "in"
  /\ IF owner = p
     THEN /\ owner' = NoOwner
          /\ mstate' = IF mstate = "ownerdead" THEN "notrecoverable" ELSE mstate
     ELSE UNCHANGED <<owner, mstate>>
  /\ Goto(p, "out")
  /\ UNCHANGED <<recorded, reset>>

Kill(p) ==
  /\ pc[p] # "dead"
  /\ p = Daemon => DaemonDies
  /\ IF owner = p
     THEN owner' = NoOwner /\ mstate' = "ownerdead"
     ELSE UNCHANGED <<owner, mstate>>
  /\ Goto(p, "dead")
  /\ UNCHANGED <<recorded, reset>>

Restart(p) ==
  /\ pc[p] = "dead"
  /\ Goto(p, "out")
  /\ UNCHANGED <<owner, mstate, recorded, reset>>

\* is_daemon_alive and stop_service clear the process id of a dead daemon, inside
\* the critical section.
ClearPid(c) ==
  /\ pc[c] = "in"
  /\ pc[Daemon] = "dead"
  /\ recorded' = FALSE
  /\ UNCHANGED <<owner, mstate, pc, reset>>

\* The number of the dead daemon is given to another process.
ReuseDaemonPid ==
  /\ pc[Daemon] = "dead"
  /\ recorded' = FALSE
  /\ UNCHANGED <<owner, mstate, pc, reset>>

\* memset of the shared memory and pthread_mutex_init, whoever is inside, when
\* the process in daemon_pid is gone; otherwise the mutex stays as it is
Boot ==
  /\ pc[Daemon] = "dead"
  /\ IF recorded
     THEN /\ owner' = NoOwner
          /\ mstate' = "consistent"
          /\ reset' = (reset \/ \E c \in Clients : pc[c] = "in")
     ELSE UNCHANGED <<owner, mstate, reset>>
  /\ recorded' = TRUE
  /\ Goto(Daemon, "out")

MutexInit ==
  /\ owner = NoOwner
  /\ mstate = "consistent"
  /\ pc = [p \in Processes |-> "out"]
  /\ recorded = TRUE
  /\ reset = FALSE

MutexNext ==
  \/ \E p \in Processes : Want(p) \/ Lock(p) \/ LockFails(p) \/ Unlock(p) \/ Kill(p)
  \/ \E c \in Clients : Restart(c)
  \/ \E c \in SafeClients : ClearPid(c)
  \/ ReuseDaemonPid \/ Boot

MutexSpec == MutexInit /\ [][MutexNext]_mutex_vars

\* A process in a critical section leaves it (none of them waits inside); one
\* that waits gets the mutex in the end.
FairMutexSpec ==
  /\ MutexSpec
  /\ \A p \in Processes : WF_mutex_vars(Unlock(p)) /\ SF_mutex_vars(Lock(p) \/ LockFails(p))

(***************************************************************************)
(* Properties.                                                             *)
(***************************************************************************)

\* The mutex and the processes keep their types; the process the mutex records
\* as its owner is alive and between its lock and its unlock.
MutexTypeOK ==
  /\ owner \in {NoOwner} \cup {p \in Processes : pc[p] = "in"}
  /\ mstate \in {"consistent", "ownerdead", "notrecoverable"}
  /\ pc \in [Processes -> {"out", "want", "in", "dead"}]
  /\ recorded \in BOOLEAN
  /\ reset \in BOOLEAN

\* docs/dstx.txt:26-27: shared memory is protected by a robust mutex, whoever
\* is killed.
MutualExclusion ==
  \A p, q \in Processes : pc[p] = "in" /\ pc[q] = "in" => p = q

\* Whoever is killed, whenever: two processes are inside together only when a
\* lock that ignored EOWNERDEAD has spoilt the mutex, or a new daemon
\* initialised it while a client was inside.
ExclusionUnlessFault ==
  MutualExclusion \/ mstate = "notrecoverable" \/ reset

\* Only a client that ignores EOWNERDEAD spoils the mutex.
OnlyPlainUnlockSpoils ==
  [][mstate' = "notrecoverable" /\ mstate # "notrecoverable" => owner \in PlainClients]_mutex_vars

\* A death inside a critical section blocks nobody for ever.
LockGranted ==
  \A p \in Processes : pc[p] = "want" ~> pc[p] \in {"in", "dead"}
=============================================================================
