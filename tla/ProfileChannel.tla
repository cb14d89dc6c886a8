---------------------------- MODULE ProfileChannel ----------------------------
(***************************************************************************)
(* The request channel between the clients (CLI, TUI, D-Bus service) and   *)
(* the settings thread of the daemon: one set of fields in shared memory,  *)
(* written by profile_request_sync (utils.c) or its twin shm_request_sync  *)
(* (dbus-utils.c), read and answered by profile_process_requests           *)
(* (settings.c).  A critical section under proc_mutex is one step; what    *)
(* is read outside it is a step of its own.                                *)
(***************************************************************************)
EXTENDS ProfileCommands

CONSTANTS
  Clients,
  Asked,           \* the requests clients make
  MayTimeOut,      \* BOOLEAN: a client's second may pass, or the client die
  ExternalEdits    \* BOOLEAN: the active profile's file is edited by others

ASSUME ChannelAssumption ==
  /\ Clients # {}
  /\ Asked \subseteq Requests
  /\ MayTimeOut \in BOOLEAN
  /\ ExternalEdits \in BOOLEAN

VARIABLES
  \* shared memory
  profile_request, profile_name, auto_save_enabled,
  profile_response, profile_response_msg,
  \* a client in profile_request_sync: pc, arguments, local resp, result
  cpc, creq, cresp, out,
  \* the settings thread: pc, locals req, name, result, msg, and its manager
  spc, sreq, sname, sresult, smsg, pm

chan   == <<profile_request, profile_name, auto_save_enabled,
            profile_response, profile_response_msg>>
client == <<cpc, creq, cresp, out>>
server == <<spc, sreq, sname, sresult, smsg, pm>>
vars   == <<chan, client, server>>

NoResult == [ok |-> FALSE, msg |-> NoText]

(***************************************************************************)
(* A client.                                                               *)
(***************************************************************************)

\* Mutant: the response of an earlier request is not cleared.
PostKeepsResponse(c, r) ==
  /\ cpc[c] = "idle"
  /\ profile_request' = r.op
  /\ profile_name' = r.name
  /\ auto_save_enabled' = IF r.enable >= 0 THEN r.enable ELSE auto_save_enabled
  /\ cpc' = [cpc EXCEPT ![c] = "wait"]
  /\ creq' = [creq EXCEPT ![c] = r]
  /\ out' = [out EXCEPT ![c] = NoResult]
  /\ UNCHANGED <<profile_response, profile_response_msg, cresp, server>>

Post(c, r) ==
  /\ cpc[c] = "idle"
  /\ profile_request' = r.op
  /\ profile_name' = r.name
  /\ auto_save_enabled' = IF r.enable >= 0 THEN r.enable ELSE auto_save_enabled
  /\ profile_response' = 0
  /\ profile_response_msg' = NoText
  /\ cpc' = [cpc EXCEPT ![c] = "wait"]
  /\ creq' = [creq EXCEPT ![c] = r]
  /\ out' = [out EXCEPT ![c] = NoResult]
  /\ UNCHANGED <<cresp, server>>

\* the poll of profile_response, outside the mutex
Poll(c) ==
  /\ cpc[c] = "wait"
  /\ profile_response # 0
  /\ cresp' = [cresp EXCEPT ![c] = profile_response]
  /\ cpc' = [cpc EXCEPT ![c] = "fetch"]
  /\ UNCHANGED <<chan, creq, out, server>>

Fetch(c) ==
  /\ cpc[c] = "fetch"
  /\ out' = [out EXCEPT ![c] = [ok |-> cresp[c] = 1, msg |-> profile_response_msg]]
  /\ profile_response' = 0
  /\ cpc' = [cpc EXCEPT ![c] = "idle"]
  /\ cresp' = [cresp EXCEPT ![c] = 0]
  /\ UNCHANGED <<profile_request, profile_name, auto_save_enabled, profile_response_msg,
                 creq, server>>

\* "Timeout waiting for daemon": nothing in shared memory is withdrawn
TimeOut(c) ==
  /\ MayTimeOut
  /\ cpc[c] = "wait"
  /\ cpc' = [cpc EXCEPT ![c] = "idle"]
  /\ UNCHANGED <<chan, creq, cresp, out, server>>

(***************************************************************************)
(* The settings thread: profile_process_requests.                          *)
(***************************************************************************)

\* atomic, but outside the mutex
ReadRequest ==
  /\ spc = "idle"
  /\ profile_request # "none"
  /\ sreq' = profile_request
  /\ spc' = "name"
  /\ UNCHANGED <<chan, client, sname, sresult, smsg, pm>>

ReadName ==
  /\ spc = "name"
  /\ sname' = profile_name
  /\ spc' = "execute"
  /\ UNCHANGED <<chan, client, sreq, sresult, smsg, pm>>

\* Commands that end in profile_sync_auto_save_to_shm
Syncs(o) ==
  /\ o.ok
  /\ \/ sreq \in {"load", "auto"}
     \/ sreq = "delete" /\ sname = pm.active

\* active_name and the shared current_profile_name change together
Execute ==
  /\ spc = "execute"
  /\ \E o \in Outcomes(sreq, sname, auto_save_enabled, pm) :
       /\ pm' = o.pm
       /\ sresult' = IF o.ok THEN 1 ELSE -1
       /\ smsg' = Told(sreq, sname, o)
       /\ auto_save_enabled' = IF Syncs(o) THEN o.pm.auto ELSE auto_save_enabled
       /\ profile_response_msg' =
            IF sreq = "list" THEN Told(sreq, sname, o) ELSE profile_response_msg
  /\ spc' = "respond"
  /\ UNCHANGED <<profile_request, profile_name, profile_response, client, sreq, sname>>

\* Mutant: the request stays, and is carried out again.
RespondKeepsRequest ==
  /\ spc = "respond"
  /\ profile_response' = sresult
  /\ profile_response_msg' = IF sreq = "list" THEN profile_response_msg ELSE smsg
  /\ spc' = "idle"
  /\ sreq' = "none" /\ sname' = NoName
  /\ UNCHANGED <<profile_request, profile_name, auto_save_enabled, client,
                 sresult, smsg, pm>>

\* Mutant: the answer of a failed command has no text.
RespondOldText ==
  /\ spc = "respond"
  /\ profile_response' = sresult
  /\ profile_response_msg' = IF sresult = 1 /\ sreq # "list" THEN smsg ELSE profile_response_msg
  /\ profile_request' = "none"
  /\ spc' = "idle"
  /\ sreq' = "none" /\ sname' = NoName
  /\ UNCHANGED <<profile_name, auto_save_enabled, client, sresult, smsg, pm>>

\* the text of a list is already there
Respond ==
  /\ spc = "respond"
  /\ profile_response' = sresult
  /\ profile_response_msg' = IF sreq = "list" THEN profile_response_msg ELSE smsg
  /\ profile_request' = "none"
  /\ spc' = "idle"
  /\ sreq' = "none" /\ sname' = NoName
  /\ UNCHANGED <<profile_name, auto_save_enabled, client, sresult, smsg, pm>>

\* profile_handle_inotify after an external edit: the reload ends in
\* profile_sync_auto_save_to_shm too
InotifyReload ==
  /\ ExternalEdits
  /\ spc = "idle"
  /\ pm.active \in pm.disk
  /\ auto_save_enabled' = pm.auto
  /\ UNCHANGED <<profile_request, profile_name, profile_response, profile_response_msg,
                 client, server>>

Init ==
  /\ profile_request = "none"
  /\ profile_name = NoName
  /\ auto_save_enabled = 1
  /\ profile_response = 0
  /\ profile_response_msg = NoText
  /\ cpc = [c \in Clients |-> "idle"]
  /\ creq \in [Clients -> {[op |-> "list", name |-> NoName, enable |-> -1]}]
  /\ cresp = [c \in Clients |-> 0]
  /\ out = [c \in Clients |-> NoResult]
  /\ spc = "idle"
  /\ sreq = "none"
  /\ sname = NoName
  /\ sresult = 0
  /\ smsg = NoText
  /\ \E others \in SUBSET Profiles :
       pm = [disk |-> others \cup {Default}, active |-> Default, auto |-> 1]

Client(c) ==
  \/ \E r \in Asked : Post(c, r)
  \/ Poll(c)
  \/ Fetch(c)
  \/ TimeOut(c)

ProcessRequests ==
  \/ ReadRequest
  \/ ReadName
  \/ Execute
  \/ Respond

Next ==
  \/ \E c \in Clients : Client(c)
  \/ ProcessRequests
  \/ InotifyReload

Spec == Init /\ [][Next]_vars

\* The settings thread comes back from poll() every 200 ms and handles what
\* it finds; a client that waits keeps polling, and reads what it has seen.
FairSpec ==
  /\ Spec
  /\ WF_vars(ProcessRequests)
  /\ \A c \in Clients : WF_vars(Poll(c) \/ Fetch(c) \/ TimeOut(c))

(***************************************************************************)
(* Properties.                                                             *)
(***************************************************************************)

\* Every field of the channel and every local keeps its type.
TypeOK ==
  /\ profile_request \in Ops \cup {"none"}
  /\ profile_name \in Names
  /\ auto_save_enabled \in {0, 1}
  /\ profile_response \in {-1, 0, 1}
  /\ profile_response_msg \in Texts
  /\ cpc \in [Clients -> {"idle", "wait", "fetch"}]
  /\ creq \in [Clients -> Requests]
  /\ cresp \in [Clients -> {-1, 0, 1}]
  /\ out \in [Clients -> [ok : BOOLEAN, msg : Texts]]
  /\ spc \in {"idle", "name", "execute", "respond"}
  /\ sreq \in Ops \cup {"none"}
  /\ sname \in Names
  /\ sresult \in {-1, 0, 1}
  /\ smsg \in Texts
  /\ pm \in Managers

\* Whatever clients overlap or give up: a request that waits never shares the
\* channel with a response, because Post and Respond write both under one
\* lock.  A client that sees a response never sees one older than the last
\* request posted.
NoResponseBesideRequest == profile_request # "none" => profile_response = 0

\* Whatever overlaps: a response that can be read describes the last command
\* carried out, or its text was cleared by a request posted since (a list is
\* written in two critical sections).
ResponseTellsLastCommand ==
  profile_response # 0 =>
    /\ profile_response = sresult
    /\ profile_response_msg \in {smsg, NoText}

\* No sequence of commands, torn ones included, leaves an active profile that
\* does not exist, "Default" excepted: deleting it moves to "Default".
ActiveProfileExists == pm.active \in pm.disk \cup {Default}

\* Every request that is posted, by whomever, is taken off the channel.
RequestIsTaken == profile_request # "none" ~> profile_request = "none"

\* ... and it does get one.
EveryRequestAnswered ==
  \A c \in Clients : cpc[c] = "wait" ~> cpc[c] = "idle" /\ out[c].msg # NoText

\* What "synchronous command channel" (docs/dstx.txt:43) and `dstx profile
\* delete <name>` (README.md:285) say: a profile is deleted only when some
\* client asked for the deletion of that profile.
DeletedOnlyOnRequest ==
  [][\A n \in pm.disk \ pm'.disk :
       \E c \in Clients : creq[c].op = "delete" /\ creq[c].name = n]_vars

\* What `dstx auto-save off` (README.md:287) says: a client told that its
\* auto-save request succeeded finds the setting it asked for in the answer.
AutoSaveObeyed ==
  \A c \in Clients :
    out[c].ok /\ creq[c].op = "auto" /\ creq[c].enable # -1 =>
      out[c].msg.auto = creq[c].enable

\* The promise of a synchronous call, for one client at a time.
Rpc == INSTANCE ProfileRpc WITH
         Callers <- Clients,
         state <- [c \in Clients |->
                     IF cpc[c] = "idle" THEN "ready"
                     ELSE IF spc = "respond" \/ profile_request = "none" THEN "performed"
                     ELSE "called"],
         req <- creq,
         ans <- [c \in Clients |-> IF cpc[c] = "idle" /\ out[c].msg # NoText
                                   THEN [out[c].msg EXCEPT !.ok = out[c].ok] ELSE smsg]

\* One client at a time that waits for its answer: the shared fields implement
\* a synchronous call, carried out once and with the caller's arguments.
ImplementsProfileRpc == Rpc!Spec
=============================================================================
