--------------------------- MODULE ProfileCommands ---------------------------
(***************************************************************************)
(* The commands of the profile manager (src/dstx/src/settings.c) as the    *)
(* set of outcomes each may have: what is on disk, which profile is        *)
(* active, whether auto-save is on, and what the caller is told.  The      *)
(* request channel (ProfileChannel) and its promise (ProfileRpc) share it. *)
(***************************************************************************)
EXTENDS Integers

CONSTANTS
  Profiles,   \* profile names a client may give
  Default,    \* the profile of that name, loaded at start-up
  NoName      \* the empty name a list or an auto-save request carries

ASSUME ProfileAssumption == Default \in Profiles /\ NoName \notin Profiles

Names   == Profiles \cup {NoName}
Enables == {-1, 0, 1}   \* the auto_enable argument; -1 leaves the setting alone
Ops     == {"load", "save", "delete", "list", "auto"}

Requests ==
  [op : {"load", "save", "delete"}, name : Profiles, enable : {-1}]
    \cup [op : {"list"}, name : {NoName}, enable : {-1}]
    \cup [op : {"auto"}, name : {NoName}, enable : Enables]

\* the profile manager: *.json files, active_name, auto_save_enabled
Managers == [disk : SUBSET Names, active : Names, auto : {0, 1}]

Outcome(ok, p) == [ok |-> ok, pm |-> p]

\* Mutant: deleting the active profile leaves it active.
DeletedKeepsActive(p, n) == [p EXCEPT !.disk = @ \ {n}]

\* deleting the active profile makes "Default" active, whether or not
\* Default can be loaded
Deleted(p, n) ==
  [p EXCEPT !.disk = @ \ {n}, !.active = IF n = @ THEN Default ELSE @]

\* A file that is there may still be unreadable, not JSON, or not removable;
\* a save may fail.
Outcomes(op, n, enable, p) ==
  CASE op = "load"   -> {Outcome(FALSE, p)} \cup
                        {Outcome(TRUE, [p EXCEPT !.active = n]) : x \in {n} \cap p.disk}
    [] op = "save"   -> {Outcome(FALSE, p), Outcome(TRUE, [p EXCEPT !.disk = @ \cup {n}])}
    [] op = "delete" -> {Outcome(FALSE, p)} \cup
                        {Outcome(TRUE, Deleted(p, n)) : x \in {n} \cap p.disk}
    [] op = "list"   -> {Outcome(TRUE, p)}
    [] op = "auto"   -> {Outcome(TRUE, IF enable = -1 THEN p ELSE [p EXCEPT !.auto = enable])}

\* What the caller is told: the command and the name it was carried out for,
\* success, the files of a list, the setting an auto-save request ends with.
Told(op, n, o) ==
  [op |-> op,
   name |-> IF op \in {"list", "auto"} THEN NoName ELSE n,
   ok |-> o.ok,
   files |-> IF op = "list" THEN o.pm.disk ELSE {},
   auto |-> IF op = "auto" THEN o.pm.auto ELSE -1]

\* the empty message
NoText == [op |-> "none", name |-> NoName, ok |-> FALSE, files |-> {}, auto |-> -1]
Texts == {NoText} \cup
         [op : Ops, name : Names, ok : BOOLEAN,
          files : SUBSET Names, auto : Enables]
=============================================================================
