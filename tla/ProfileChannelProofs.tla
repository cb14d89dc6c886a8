------------------------- MODULE ProfileChannelProofs -------------------------
(***************************************************************************)
(* Proofs about the request channel, for any clients, any profiles, with   *)
(* or without time-outs and external edits.                                *)
(***************************************************************************)
EXTENDS ProfileChannel, TLAPS

(***************************************************************************)
(* The commands.                                                           *)
(***************************************************************************)

\* A command fails and changes nothing, or succeeds in one of these ways
\* (the switch of settings.c:583-662).
LEMMA OutcomeCases ==
  ASSUME NEW op \in Ops, NEW n, NEW e, NEW p, NEW o \in Outcomes(op, n, e, p)
  PROVE  \/ o = Outcome(FALSE, p) \/ o = Outcome(TRUE, p)
         \/ n \in p.disk /\ o = Outcome(TRUE, [p EXCEPT !.active = n])
         \/ o = Outcome(TRUE, [p EXCEPT !.disk = @ \cup {n}])
         \/ o = Outcome(TRUE, Deleted(p, n))
         \/ o = Outcome(TRUE, [p EXCEPT !.auto = e])
<1>1. CASE op = "load"
  <2>1. o \in {Outcome(FALSE, p)} \cup
              {Outcome(TRUE, [p EXCEPT !.active = n]) : x \in {n} \cap p.disk}
    BY <1>1 DEF Outcomes
  <2> QED BY <2>1
<1>2. CASE op = "save"
  <2>1. o \in {Outcome(FALSE, p), Outcome(TRUE, [p EXCEPT !.disk = @ \cup {n}])}
    BY <1>2 DEF Outcomes
  <2> QED BY <2>1
<1>3. CASE op = "delete"
  <2>1. o \in {Outcome(FALSE, p)} \cup
              {Outcome(TRUE, Deleted(p, n)) : x \in {n} \cap p.disk}
    BY <1>3 DEF Outcomes
  <2> QED BY <2>1
<1>4. CASE op = "list"
  <2>1. o \in {Outcome(TRUE, p)}
    BY <1>4 DEF Outcomes
  <2> QED BY <2>1
<1>5. CASE op = "auto"
  <2>1. o \in {Outcome(TRUE, IF e = -1 THEN p ELSE [p EXCEPT !.auto = e])}
    BY <1>5 DEF Outcomes
  <2> QED BY <2>1
<1> QED BY <1>1, <1>2, <1>3, <1>4, <1>5 DEF Ops

\* Whatever a command does to the profile manager, it stays one, and what the
\* caller is told is a text.
LEMMA OutcomeType ==
  ASSUME NEW op \in Ops, NEW n \in Names, NEW e \in {0, 1}, NEW p \in Managers,
         NEW o \in Outcomes(op, n, e, p)
  PROVE  /\ o.ok \in BOOLEAN
         /\ o.pm \in Managers
         /\ Told(op, n, o) \in Texts
<1>1. /\ [p EXCEPT !.active = n] \in Managers
      /\ [p EXCEPT !.disk = @ \cup {n}] \in Managers
      /\ [p EXCEPT !.auto = e] \in Managers
  BY DEF Managers
<1>2. Deleted(p, n) \in Managers
  BY ProfileAssumption DEF Deleted, Managers, Names
<1>3. o.ok \in BOOLEAN /\ o.pm \in Managers
  <2>1. \A x \in BOOLEAN, q \in Managers :
          o = Outcome(x, q) => o.ok \in BOOLEAN /\ o.pm \in Managers
    BY DEF Outcome
  <2> QED BY <1>1, <1>2, <2>1, OutcomeCases
<1>4. NoName \in Names /\ o.pm.disk \in SUBSET Names /\ o.pm.auto \in {0, 1}
  BY <1>3 DEF Managers, Names
<1>5. Told(op, n, o) \in [op : Ops, name : Names, ok : BOOLEAN,
                          files : SUBSET Names, auto : Enables]
  BY <1>3, <1>4 DEF Told, Enables
<1> QED BY <1>3, <1>5 DEF Texts

\* No command leaves an active profile without a file, Default excepted.
LEMMA OutcomeActive ==
  ASSUME NEW op \in Ops, NEW n \in Names, NEW e \in {0, 1}, NEW p \in Managers,
         NEW o \in Outcomes(op, n, e, p),
         p.active \in p.disk \cup {Default}
  PROVE  o.pm.active \in o.pm.disk \cup {Default}
<1>1. CASE o = Outcome(FALSE, p) \/ o = Outcome(TRUE, p)
  BY <1>1 DEF Outcome
<1>2. CASE n \in p.disk /\ o = Outcome(TRUE, [p EXCEPT !.active = n])
  BY <1>2 DEF Outcome, Managers
<1>3. CASE o = Outcome(TRUE, [p EXCEPT !.disk = @ \cup {n}])
  BY <1>3 DEF Outcome, Managers
<1>4. CASE o = Outcome(TRUE, Deleted(p, n))
  BY <1>4 DEF Outcome, Deleted, Managers
<1>5. CASE o = Outcome(TRUE, [p EXCEPT !.auto = e])
  BY <1>5 DEF Outcome, Managers
<1> QED BY <1>1, <1>2, <1>3, <1>4, <1>5, OutcomeCases

(***************************************************************************)
(* The inductive invariant.  The settings thread works only while a        *)
(* request is on the channel, so the channel cannot hold a response then;  *)
(* and between the two critical sections of a list the text is the list or *)
(* has been cleared.                                                       *)
(***************************************************************************)
WorkingOnRequest ==
  spc # "idle" => profile_request # "none" /\ sreq \in Ops

ListAlreadyWritten ==
  spc = "respond" /\ sreq = "list" => profile_response_msg \in {smsg, NoText}

ChannelInv ==
  /\ TypeOK
  /\ WorkingOnRequest
  /\ ListAlreadyWritten
  /\ NoResponseBesideRequest
  /\ ResponseTellsLastCommand
  /\ ActiveProfileExists

USE DEF vars, chan, client, server

LEMMA NoTextIsText == NoText \in Texts
BY DEF Texts

LEMMA RequestParts ==
  ASSUME NEW r \in Requests
  PROVE  r.op \in Ops /\ r.name \in Names /\ r.enable \in {-1, 0, 1}
BY DEF Requests, Ops, Names, Enables

LEMMA InitInv == Init => ChannelInv
<1> SUFFICES ASSUME Init PROVE ChannelInv
  OBVIOUS
<1>1. TypeOK
  BY ProfileAssumption, NoTextIsText
  DEF Init, TypeOK, Names, Ops, Requests, NoResult, Managers, Enables
<1> QED BY <1>1 DEF Init, ChannelInv, WorkingOnRequest, ListAlreadyWritten,
                NoResponseBesideRequest, ResponseTellsLastCommand, ActiveProfileExists

LEMMA PostKeepsInv ==
  ASSUME ChannelInv, NEW c \in Clients, NEW r \in Asked, Post(c, r)
  PROVE  ChannelInv'
<1>1. r.op \in Ops /\ r.name \in Names /\ r.enable \in {-1, 0, 1} /\ r \in Requests
  BY RequestParts, ChannelAssumption
<1>2. TypeOK'
  <2>1. auto_save_enabled' \in {0, 1}
    BY <1>1 DEF ChannelInv, TypeOK, Post
  <2> QED BY <1>1, <2>1, NoTextIsText DEF ChannelInv, TypeOK, Post, NoResult
<1>3. r.op # "none"
  BY <1>1 DEF Ops
<1> QED BY <1>2, <1>3 DEF ChannelInv, Post, WorkingOnRequest, ListAlreadyWritten,
               NoResponseBesideRequest, ResponseTellsLastCommand, ActiveProfileExists

LEMMA ClientKeepsInv ==
  ASSUME ChannelInv, NEW c \in Clients, Client(c)
  PROVE  ChannelInv'
<1> USE DEF ChannelInv, TypeOK, WorkingOnRequest, ListAlreadyWritten,
            NoResponseBesideRequest, ResponseTellsLastCommand, ActiveProfileExists
<1>1. CASE \E r \in Asked : Post(c, r)
  BY <1>1, PostKeepsInv
<1>2. CASE Poll(c)
  BY <1>2 DEF Poll
<1>3. CASE Fetch(c)
  BY <1>3 DEF Fetch
<1>4. CASE TimeOut(c)
  BY <1>4 DEF TimeOut
<1> QED BY <1>1, <1>2, <1>3, <1>4 DEF Client

LEMMA ExecuteKeepsInv ==
  ASSUME ChannelInv, Execute
  PROVE  ChannelInv'
<1> USE DEF ChannelInv
<1>1. /\ sreq \in Ops
      /\ profile_request # "none"
      /\ profile_response = 0
  BY DEF Execute, WorkingOnRequest, NoResponseBesideRequest
<1>2. PICK o \in Outcomes(sreq, sname, auto_save_enabled, pm) :
        /\ pm' = o.pm
        /\ sresult' = IF o.ok THEN 1 ELSE -1
        /\ smsg' = Told(sreq, sname, o)
        /\ auto_save_enabled' = IF Syncs(o) THEN o.pm.auto ELSE auto_save_enabled
        /\ profile_response_msg' =
             IF sreq = "list" THEN Told(sreq, sname, o) ELSE profile_response_msg
  BY DEF Execute
<1>3. /\ pm \in Managers
      /\ sname \in Names
      /\ auto_save_enabled \in {0, 1}
  BY DEF TypeOK
<1>4. o.ok \in BOOLEAN /\ o.pm \in Managers /\ Told(sreq, sname, o) \in Texts
  BY <1>1, <1>3, OutcomeType
<1>5. o.pm.auto \in {0, 1}
  BY <1>4 DEF Managers
<1>6. TypeOK'
  BY <1>2, <1>4, <1>5 DEF TypeOK, Execute
<1>7. ActiveProfileExists'
  BY <1>1, <1>2, <1>3, OutcomeActive DEF ActiveProfileExists
<1> QED BY <1>1, <1>2, <1>6, <1>7 DEF Execute, WorkingOnRequest, ListAlreadyWritten,
                NoResponseBesideRequest, ResponseTellsLastCommand

LEMMA StepKeepsInv == ChannelInv /\ [Next]_vars => ChannelInv'
<1> SUFFICES ASSUME ChannelInv, [Next]_vars PROVE ChannelInv'
  OBVIOUS
<1> USE DEF ChannelInv, TypeOK, WorkingOnRequest, ListAlreadyWritten,
            NoResponseBesideRequest, ResponseTellsLastCommand, ActiveProfileExists
<1>1. ASSUME NEW c \in Clients, Client(c) PROVE ChannelInv'
  BY <1>1, ClientKeepsInv
<1>2. CASE ReadRequest
  BY <1>2 DEF ReadRequest
<1>3. CASE ReadName
  BY <1>3 DEF ReadName
<1>4. CASE Execute
  BY <1>4, ExecuteKeepsInv
<1>5. CASE Respond
  BY <1>5 DEF Respond, Names
<1>6. CASE InotifyReload
  <2>1. pm.auto \in {0, 1}
    BY DEF Managers
  <2> QED BY <1>6, <2>1 DEF InotifyReload
<1>7. CASE UNCHANGED vars
  BY <1>7
<1> QED BY <1>1, <1>2, <1>3, <1>4, <1>5, <1>6, <1>7 DEF Next, ProcessRequests

LEMMA Invariance == Spec => []ChannelInv
BY InitInv, StepKeepsInv, PTL DEF Spec

\* Every field of the channel and every local of the two sides keeps its type.
THEOREM TypeCorrect == Spec => []TypeOK
BY Invariance, PTL DEF ChannelInv

\* However many clients overlap, give up or die: a request that waits never
\* has a response beside it (utils.c:507-520 and settings.c:664-671).
THEOREM RequestAndResponseExclude == Spec => []NoResponseBesideRequest
BY Invariance, PTL DEF ChannelInv

\* A response that can be read is that of the last command carried out.
THEOREM ResponseIsCurrent == Spec => []ResponseTellsLastCommand
BY Invariance, PTL DEF ChannelInv

\* No sequence of commands leaves an active profile without a file, Default
\* excepted (settings.c:611-635).
THEOREM ActiveProfileKept == Spec => []ActiveProfileExists
BY Invariance, PTL DEF ChannelInv

-----------------------------------------------------------------------------
(***************************************************************************)
(* One client that waits for its answer, and no external edits: the        *)
(* channel implements ProfileRpc.  Post is the abstract Call, Execute is   *)
(* Perform and Fetch is Return.  CallInv says that the settings thread     *)
(* works for the caller, with the caller's arguments; AnswerInv that what  *)
(* the caller reads is what the last command told; SettingInv that the     *)
(* shared auto_save_enabled, which carries the argument of a request, is   *)
(* the manager's setting whenever it does not carry one.                   *)
(***************************************************************************)
CallInv ==
  \A c \in Clients :
    /\ cpc[c] \in {"idle", "fetch"} => spc = "idle" /\ profile_request = "none"
    /\ profile_request # "none" => profile_request = creq[c].op /\ profile_name = creq[c].name
    /\ spc # "idle" => sreq = creq[c].op
    /\ spc \in {"execute", "respond"} => sname = creq[c].name

AnswerInv ==
  /\ sresult # 0 => (sresult = 1 <=> smsg.ok)
  /\ \A c \in Clients :
       /\ cpc[c] = "idle" /\ out[c].msg # NoText => [out[c].msg EXCEPT !.ok = out[c].ok] = smsg
       /\ cpc[c] = "fetch" => /\ profile_response_msg \in {smsg, NoText}
                              /\ cresp[c] = 1 <=> smsg.ok

Asking(c) == profile_request # "none" /\ spc # "respond" /\ creq[c].enable >= 0

SettingInv ==
  \A c \in Clients :
    /\ Asking(c) => auto_save_enabled = creq[c].enable
    /\ ~Asking(c) => auto_save_enabled = pm.auto

RpcInv == ChannelInv /\ CallInv /\ AnswerInv /\ SettingInv

OneWaitingClient ==
  /\ \A c, d \in Clients : c = d
  /\ ~MayTimeOut
  /\ ~ExternalEdits

LEMMA RequestEnable ==
  ASSUME NEW r \in Requests PROVE r.op # "none" /\ (r.op # "auto" => r.enable = -1)
BY DEF Requests

\* A command other than auto-save ignores the flag and leaves the setting alone.
LEMMA OutcomeFlag ==
  ASSUME NEW op \in Ops \ {"auto"}, NEW n \in Names, NEW p \in Managers, NEW e, NEW f,
         NEW o \in Outcomes(op, n, e, p)
  PROVE  o \in Outcomes(op, n, f, p) /\ o.pm.auto = p.auto
<1>1. CASE op = "load"
  <2>1. o \in {Outcome(FALSE, p)} \cup
              {Outcome(TRUE, [p EXCEPT !.active = n]) : x \in {n} \cap p.disk}
    BY <1>1 DEF Outcomes
  <2>2. o.pm.auto = p.auto
    BY <2>1 DEF Outcome, Managers
  <2> QED BY <1>1, <2>1, <2>2 DEF Outcomes
<1>2. CASE op = "save"
  <2>1. o \in {Outcome(FALSE, p), Outcome(TRUE, [p EXCEPT !.disk = @ \cup {n}])}
    BY <1>2 DEF Outcomes
  <2>2. o.pm.auto = p.auto
    BY <2>1 DEF Outcome, Managers
  <2> QED BY <1>2, <2>1, <2>2 DEF Outcomes
<1>3. CASE op = "delete"
  <2>1. o \in {Outcome(FALSE, p)} \cup
              {Outcome(TRUE, Deleted(p, n)) : x \in {n} \cap p.disk}
    BY <1>3 DEF Outcomes
  <2>2. o.pm.auto = p.auto
    <3>1. Deleted(p, n).auto = p.auto
      BY DEF Deleted, Managers
    <3>2. o = Outcome(FALSE, p) \/ o = Outcome(TRUE, Deleted(p, n))
      BY <2>1
    <3> QED BY <3>1, <3>2 DEF Outcome
  <2> QED BY <1>3, <2>1, <2>2 DEF Outcomes
<1>4. CASE op = "list"
  <2>1. o \in {Outcome(TRUE, p)}
    BY <1>4 DEF Outcomes
  <2>2. o.pm.auto = p.auto
    BY <2>1 DEF Outcome
  <2> QED BY <1>4, <2>1, <2>2 DEF Outcomes
<1> QED BY <1>1, <1>2, <1>3, <1>4 DEF Ops

\* An auto-save request ends with the flag it finds; without an argument (-1)
\* it finds the setting itself, and changes nothing.
LEMMA OutcomeAuto ==
  ASSUME NEW n, NEW p \in Managers, NEW e \in {0, 1}, NEW o \in Outcomes("auto", n, e, p)
  PROVE  /\ o.ok /\ o.pm.auto = e
         /\ e = p.auto => o \in Outcomes("auto", n, -1, p)
<1>1. o = Outcome(TRUE, [p EXCEPT !.auto = e])
  <2>1. o \in {Outcome(TRUE, IF e = -1 THEN p ELSE [p EXCEPT !.auto = e])}
    BY DEF Outcomes
  <2>2. e # -1
    OBVIOUS
  <2> QED BY <2>1, <2>2, Zenon
<1>2. o.ok /\ o.pm.auto = e
  BY <1>1 DEF Outcome, Managers
<1>3. ASSUME e = p.auto PROVE o = Outcome(TRUE, p)
  <2>1. [p EXCEPT !.auto = e] = p
    BY <1>3 DEF Managers
  <2> QED BY <1>1, <2>1
<1>4. Outcome(TRUE, p) \in Outcomes("auto", n, -1, p)
  BY DEF Outcomes
<1> QED BY <1>2, <1>3, <1>4

LEMMA InitRpc == Init => RpcInv
<1> SUFFICES ASSUME Init PROVE CallInv /\ AnswerInv /\ SettingInv
  BY InitInv DEF RpcInv
<1>1. CallInv /\ SettingInv
  BY DEF Init, CallInv, SettingInv, Asking
<1>2. \A c \in Clients : cpc[c] = "idle" /\ out[c].msg = NoText
  BY DEF Init, NoResult
<1>3. sresult = 0
  BY DEF Init
<1> QED BY <1>1, <1>2, <1>3 DEF AnswerInv

\* The locals of the step Execute takes for the only client.
LEMMA ExecuteStep ==
  ASSUME OneWaitingClient, RpcInv, Execute, NEW c \in Clients
  PROVE  \E o \in Outcomes(creq[c].op, creq[c].name, creq[c].enable, pm) :
           /\ o.ok \in BOOLEAN
           /\ pm' = o.pm
           /\ sresult' = IF o.ok THEN 1 ELSE -1
           /\ smsg' = Told(creq[c].op, creq[c].name, o)
           /\ auto_save_enabled' = o.pm.auto
<1> USE DEF RpcInv
<1>1. /\ creq[c] \in Requests /\ pm \in Managers /\ sname \in Names /\ auto_save_enabled \in {0, 1}
      /\ spc = "execute" /\ sreq = creq[c].op /\ sname = creq[c].name /\ profile_request # "none"
      /\ sreq \in Ops
  BY DEF ChannelInv, TypeOK, Execute, CallInv, WorkingOnRequest
<1>2. PICK o \in Outcomes(sreq, sname, auto_save_enabled, pm) :
        /\ pm' = o.pm
        /\ sresult' = IF o.ok THEN 1 ELSE -1
        /\ smsg' = Told(sreq, sname, o)
        /\ auto_save_enabled' = IF Syncs(o) THEN o.pm.auto ELSE auto_save_enabled
  BY DEF Execute
<1>3. o.ok \in BOOLEAN
  BY <1>1, OutcomeType
<1>4. Asking(c) <=> creq[c].enable >= 0
  BY <1>1 DEF Asking
<1>5. CASE sreq = "auto"
  <2>1. o.ok /\ o.pm.auto = auto_save_enabled /\ Syncs(o)
    BY <1>1, <1>5, OutcomeAuto DEF Syncs
  <2>2. o \in Outcomes(creq[c].op, creq[c].name, creq[c].enable, pm)
    <3>1. CASE creq[c].enable >= 0
      <4>1. auto_save_enabled = creq[c].enable
        BY <1>4, <3>1 DEF SettingInv
      <4> QED BY <1>1, <4>1
    <3>2. CASE creq[c].enable < 0
      <4>1. creq[c].enable = -1
        BY <1>1, <3>2, RequestParts
      <4>2. auto_save_enabled = pm.auto
        BY <1>4, <4>1 DEF SettingInv
      <4> QED BY <1>1, <1>5, <4>1, <4>2, OutcomeAuto
    <3>3. creq[c].enable \in Int
      BY <1>1, RequestParts
    <3> QED BY <3>1, <3>2, <3>3
  <2> QED BY <1>1, <1>2, <1>3, <2>1, <2>2
<1>6. CASE sreq # "auto"
  <2>1. creq[c].enable = -1
    BY <1>1, <1>6, RequestEnable
  <2>2. auto_save_enabled = pm.auto
    BY <1>4, <2>1 DEF SettingInv
  <2>3. o \in Outcomes(creq[c].op, creq[c].name, creq[c].enable, pm) /\ o.pm.auto = pm.auto
    BY <1>1, <1>6, OutcomeFlag
  <2> QED BY <1>1, <1>2, <1>3, <2>2, <2>3
<1> QED BY <1>5, <1>6

LEMMA PostKeepsRpc ==
  ASSUME OneWaitingClient, RpcInv, NEW c \in Clients, NEW r \in Asked, Post(c, r)
  PROVE  RpcInv'
<1> USE DEF RpcInv
<1>1. ChannelInv'
  BY PostKeepsInv
<1>2. r \in Requests /\ r.op # "none" /\ r.enable \in {-1, 0, 1}
  BY ChannelAssumption, RequestParts, RequestEnable
<1>3. /\ cpc[c] = "idle" /\ spc = "idle" /\ profile_request = "none"
      /\ cpc'[c] = "wait" /\ creq'[c] = r
      /\ \A d \in Clients : d = c
  BY DEF Post, CallInv, OneWaitingClient, ChannelInv, TypeOK
<1>4. UNCHANGED server
  BY DEF Post
<1>5. CallInv'
  BY <1>3, <1>4 DEF Post, CallInv
<1>6. AnswerInv'
  BY <1>3, <1>4 DEF AnswerInv
<1>7. SettingInv'
  <2>1. ~Asking(c)
    BY <1>3 DEF Asking
  <2>2. auto_save_enabled = pm.auto
    BY <2>1 DEF SettingInv
  <2>3. Asking(c)' <=> r.enable >= 0
    BY <1>2, <1>3, <1>4 DEF Asking, Post
  <2> QED BY <1>3, <1>4, <2>2, <2>3 DEF SettingInv, Post
<1> QED BY <1>1, <1>5, <1>6, <1>7

LEMMA FetchKeepsRpc ==
  ASSUME OneWaitingClient, RpcInv, NEW c \in Clients, Fetch(c)
  PROVE  RpcInv'
<1> USE DEF RpcInv
<1>1. ChannelInv'
  BY ClientKeepsInv DEF Client
<1>2. /\ cpc[c] = "fetch" /\ spc = "idle" /\ profile_request = "none"
      /\ cpc'[c] = "idle"
      /\ \A d \in Clients : d = c
  BY DEF Fetch, CallInv, OneWaitingClient, ChannelInv, TypeOK
<1>3. CallInv' /\ SettingInv'
  BY <1>2 DEF Fetch, CallInv, SettingInv, Asking
<1>4. out'[c].ok = (cresp[c] = 1) /\ out'[c].msg = profile_response_msg /\ smsg' = smsg
  BY DEF Fetch, ChannelInv, TypeOK
<1>5. ASSUME out'[c].msg # NoText PROVE [out'[c].msg EXCEPT !.ok = out'[c].ok] = smsg
  <2>1. out'[c].msg = smsg /\ out'[c].ok = smsg.ok /\ smsg \in Texts \ {NoText}
    <3>1. profile_response_msg = smsg /\ smsg \in Texts \ {NoText}
      BY <1>2, <1>4, <1>5 DEF AnswerInv, ChannelInv, TypeOK
    <3>2. smsg.ok \in BOOLEAN
      BY <3>1 DEF Texts
    <3>3. (cresp[c] = 1) = smsg.ok
      BY <1>2, <3>2 DEF AnswerInv
    <3> QED BY <1>4, <3>1, <3>3
  <2>2. [smsg EXCEPT !.ok = smsg.ok] = smsg
    BY <2>1 DEF Texts
  <2> QED BY <2>1, <2>2
<1>6. AnswerInv'
  BY <1>2, <1>4, <1>5 DEF AnswerInv, Fetch
<1> QED BY <1>1, <1>3, <1>6

LEMMA ExecuteKeepsRpc ==
  ASSUME OneWaitingClient, RpcInv, Execute
  PROVE  RpcInv'
<1> USE DEF RpcInv
<1>1. ChannelInv'
  BY ExecuteKeepsInv
<1>2. UNCHANGED <<profile_request, profile_name, creq, cpc, out, cresp, sreq, sname>>
      /\ spc = "execute" /\ spc' = "respond"
  BY DEF Execute
<1>3. CallInv'
  BY <1>2 DEF CallInv
<1>4. PICK c \in Clients : TRUE
  BY ChannelAssumption
<1>5. PICK o \in Outcomes(creq[c].op, creq[c].name, creq[c].enable, pm) :
           /\ o.ok \in BOOLEAN
           /\ pm' = o.pm
           /\ sresult' = IF o.ok THEN 1 ELSE -1
           /\ smsg' = Told(creq[c].op, creq[c].name, o)
           /\ auto_save_enabled' = o.pm.auto
  BY ExecuteStep
<1>6. SettingInv'
  BY <1>2, <1>5 DEF SettingInv, Asking
<1>7. \A d \in Clients : cpc[d] \notin {"idle", "fetch"}
  BY <1>2 DEF CallInv
<1>8. smsg'.ok = o.ok
  BY <1>5 DEF Told
<1>9. AnswerInv'
  BY <1>2, <1>5, <1>7, <1>8 DEF AnswerInv
<1> QED BY <1>1, <1>3, <1>6, <1>9

LEMMA RpcStepKeeps == OneWaitingClient /\ RpcInv /\ [Next]_vars => RpcInv'
<1> SUFFICES ASSUME OneWaitingClient, RpcInv, [Next]_vars PROVE RpcInv'
  OBVIOUS
<1> USE DEF RpcInv
<1>1. ChannelInv'
  BY StepKeepsInv
<1>2. ASSUME NEW c \in Clients, NEW r \in Asked, Post(c, r) PROVE RpcInv'
  BY <1>2, PostKeepsRpc
<1>3. ASSUME NEW c \in Clients, Poll(c) PROVE RpcInv'
  <2>1. /\ profile_request = "none" /\ spc = "idle"
        /\ profile_response = sresult /\ profile_response_msg \in {smsg, NoText}
    BY <1>3 DEF Poll, ChannelInv, NoResponseBesideRequest, WorkingOnRequest, ResponseTellsLastCommand
  <2>2. CallInv' /\ SettingInv'
    BY <1>3, <2>1 DEF Poll, CallInv, SettingInv, Asking
  <2>3. /\ cpc'[c] = "fetch" /\ cresp'[c] = sresult /\ sresult # 0 /\ \A d \in Clients : d = c
        /\ UNCHANGED <<sresult, smsg, profile_response_msg>>
    BY <1>3, <2>1 DEF Poll, OneWaitingClient, ChannelInv, TypeOK
  <2>4. AnswerInv'
    BY <2>1, <2>3 DEF AnswerInv
  <2> QED BY <1>1, <2>2, <2>4
<1>4. ASSUME NEW c \in Clients, Fetch(c) PROVE RpcInv'
  BY <1>4, FetchKeepsRpc
<1>5. CASE ReadRequest
  BY <1>1, <1>5 DEF ReadRequest, CallInv, AnswerInv, SettingInv, Asking
<1>6. CASE ReadName
  BY <1>1, <1>6 DEF ReadName, CallInv, AnswerInv, SettingInv, Asking, ChannelInv, WorkingOnRequest
<1>7. CASE Execute
  BY <1>7, ExecuteKeepsRpc
<1>8. CASE Respond
  <2>1. \A c \in Clients : cpc[c] \notin {"idle", "fetch"} /\ ~Asking(c) /\ ~Asking(c)'
    BY <1>8 DEF Respond, CallInv, Asking
  <2>2. SettingInv'
    BY <1>8, <2>1 DEF Respond, SettingInv
  <2> QED BY <1>1, <1>8, <2>1, <2>2 DEF Respond, CallInv, AnswerInv
<1>9. CASE UNCHANGED vars
  BY <1>1, <1>9 DEF CallInv, AnswerInv, SettingInv, Asking
<1> QED
  BY <1>2, <1>3, <1>4, <1>5, <1>6, <1>7, <1>8, <1>9
  DEF Next, Client, TimeOut, ProcessRequests, InotifyReload, OneWaitingClient

RpcState ==
  [c \in Clients |-> IF cpc[c] = "idle" THEN "ready"
                    ELSE IF spc = "respond" \/ profile_request = "none" THEN "performed"
                    ELSE "called"]

RpcAnswer ==
  [c \in Clients |-> IF cpc[c] = "idle" /\ out[c].msg # NoText
                    THEN [out[c].msg EXCEPT !.ok = out[c].ok] ELSE smsg]

RpcVars == <<RpcState, creq, RpcAnswer, pm>>
RpcStep == Rpc!Next \/ UNCHANGED RpcVars

\* What the caller has been told is what the last command told.
LEMMA AnswerIsLast ==
  /\ AnswerInv => RpcAnswer = [c \in Clients |-> smsg]
  /\ AnswerInv' => RpcAnswer' = [c \in Clients |-> smsg']
BY DEF AnswerInv, RpcAnswer

\* The commands of the instance are those of the channel.
LEMMA SameCommands ==
  /\ Rpc!Requests = Requests /\ Rpc!Texts = Texts /\ Rpc!Managers = Managers
  /\ \A op, n, e, p : Rpc!Outcomes(op, n, e, p) = Outcomes(op, n, e, p)
  /\ \A op, n, o : Rpc!Told(op, n, o) = Told(op, n, o)
<1>1. Rpc!Names = Names /\ Rpc!Enables = Enables /\ Rpc!Ops = Ops /\ Rpc!NoText = NoText
  BY DEF Rpc!Names, Names, Rpc!Enables, Enables, Rpc!Ops, Ops, Rpc!NoText, NoText
<1>2. Rpc!Requests = Requests /\ Rpc!Texts = Texts /\ Rpc!Managers = Managers
  BY <1>1 DEF Rpc!Requests, Requests, Rpc!Texts, Texts, Rpc!Managers, Managers
<1>3. \A op, n, e, p : Rpc!Outcomes(op, n, e, p) = Outcomes(op, n, e, p)
  BY DEF Rpc!Outcomes, Outcomes, Rpc!Outcome, Outcome, Rpc!Deleted, Deleted
<1>4. \A op, n, o : Rpc!Told(op, n, o) = Told(op, n, o)
  BY DEF Rpc!Told, Told
<1> QED BY <1>2, <1>3, <1>4

LEMMA PostCalls ==
  ASSUME OneWaitingClient, RpcInv, RpcInv', NEW c \in Clients, NEW r \in Asked, Post(c, r)
  PROVE  RpcStep
<1> USE DEF RpcInv
<1>1. /\ cpc[c] = "idle" /\ spc = "idle" /\ cpc'[c] = "wait" /\ profile_request' = r.op
      /\ r \in Requests /\ r.op # "none" /\ creq' = [creq EXCEPT ![c] = r]
      /\ UNCHANGED <<spc, smsg, pm>>
      /\ \A d \in Clients : d = c
  BY ChannelAssumption, RequestEnable DEF Post, CallInv, OneWaitingClient, ChannelInv, TypeOK
<1>2. RpcState[c] = "ready" /\ RpcState' = [RpcState EXCEPT ![c] = "called"]
  BY <1>1 DEF RpcState
<1>3. RpcAnswer' = RpcAnswer
  BY <1>1, AnswerIsLast
<1>4. Rpc!Call(c)
  BY SameCommands, <1>1, <1>2, <1>3 DEF Rpc!Call, RpcState, RpcAnswer
<1> QED BY <1>4 DEF RpcStep, Rpc!Next

LEMMA ExecutePerforms ==
  ASSUME OneWaitingClient, RpcInv, RpcInv', Execute
  PROVE  RpcStep
<1> USE DEF RpcInv
<1>1. PICK c \in Clients : TRUE
  BY ChannelAssumption
<1>2. /\ cpc[c] = "wait" /\ cpc' = cpc /\ creq' = creq /\ profile_request # "none"
      /\ spc = "execute" /\ spc' = "respond"
      /\ \A d \in Clients : d = c
  BY DEF Execute, CallInv, OneWaitingClient, ChannelInv, TypeOK, WorkingOnRequest
<1>3. PICK o \in Outcomes(creq[c].op, creq[c].name, creq[c].enable, pm) :
         /\ pm' = o.pm
         /\ smsg' = Told(creq[c].op, creq[c].name, o)
  BY ExecuteStep
<1>4. RpcState[c] = "called" /\ RpcState' = [RpcState EXCEPT ![c] = "performed"]
  BY <1>2 DEF RpcState
<1>5. RpcAnswer' = [RpcAnswer EXCEPT ![c] = smsg']
  <2>1. RpcAnswer = [d \in Clients |-> smsg] /\ RpcAnswer' = [d \in Clients |-> smsg']
    BY AnswerIsLast
  <2> QED BY <1>2, <2>1
<1>6. Rpc!Perform(c)
  BY SameCommands, <1>2, <1>3, <1>4, <1>5 DEF Rpc!Perform, RpcState, RpcAnswer
<1> QED BY <1>6 DEF RpcStep, Rpc!Next

LEMMA FetchReturns ==
  ASSUME OneWaitingClient, RpcInv, RpcInv', NEW c \in Clients, Fetch(c)
  PROVE  RpcStep
<1> USE DEF RpcInv
<1>1. /\ cpc[c] = "fetch" /\ cpc'[c] = "idle" /\ profile_request = "none"
      /\ UNCHANGED <<creq, smsg, pm>>
      /\ \A d \in Clients : d = c
  BY DEF Fetch, CallInv, OneWaitingClient, ChannelInv, TypeOK
<1>2. RpcState[c] = "performed" /\ RpcState' = [RpcState EXCEPT ![c] = "ready"]
  BY <1>1 DEF RpcState
<1>3. RpcAnswer' = RpcAnswer
  BY <1>1, AnswerIsLast
<1>4. Rpc!Return(c)
  BY <1>1, <1>2, <1>3 DEF Rpc!Return, RpcState, RpcAnswer
<1> QED BY <1>4 DEF RpcStep, Rpc!Next

LEMMA RpcStutters ==
  ASSUME RpcInv, RpcInv', UNCHANGED <<creq, smsg, pm>>, UNCHANGED RpcState
  PROVE  RpcStep
BY AnswerIsLast DEF RpcInv, RpcStep, RpcVars

LEMMA RpcRefined ==
  ASSUME OneWaitingClient, RpcInv, RpcInv', [Next]_vars PROVE RpcStep
<1>1. ASSUME NEW c \in Clients, NEW r \in Asked, Post(c, r) PROVE RpcStep
  BY <1>1, PostCalls
<1>2. ASSUME NEW c \in Clients, Poll(c) PROVE RpcStep
  <2>1. cpc[c] = "wait" /\ cpc' = [cpc EXCEPT ![c] = "fetch"]
        /\ UNCHANGED <<spc, profile_request, creq, smsg, pm>>
    BY <1>2 DEF Poll
  <2>2. UNCHANGED RpcState
    BY <2>1 DEF RpcState, RpcInv, ChannelInv, TypeOK
  <2> QED BY <2>1, <2>2, RpcStutters
<1>3. ASSUME NEW c \in Clients, Fetch(c) PROVE RpcStep
  BY <1>3, FetchReturns
<1>4. CASE ReadRequest \/ ReadName
  <2>1. UNCHANGED <<cpc, profile_request, creq, smsg, pm>> /\ spc # "respond" /\ spc' # "respond"
    BY <1>4 DEF ReadRequest, ReadName
  <2>2. UNCHANGED RpcState
    BY <2>1 DEF RpcState
  <2> QED BY <2>1, <2>2, RpcStutters
<1>5. CASE Execute
  BY <1>5, ExecutePerforms
<1>6. CASE Respond
  <2>1. UNCHANGED <<cpc, creq, smsg, pm>> /\ spc = "respond" /\ profile_request' = "none"
    BY <1>6 DEF Respond
  <2>2. UNCHANGED RpcState
    BY <2>1 DEF RpcState
  <2> QED BY <2>1, <2>2, RpcStutters
<1>7. CASE UNCHANGED vars
  BY <1>7, RpcStutters DEF RpcState
<1> QED
  BY <1>1, <1>2, <1>3, <1>4, <1>5, <1>6, <1>7
  DEF Next, Client, TimeOut, ProcessRequests, InotifyReload, OneWaitingClient

\* For one client that waits for its answer the shared fields are a
\* synchronous call: carried out once, between call and return, with the
\* caller's arguments, and answered with the outcome of that very call.
THEOREM RpcImplemented ==
  ASSUME OneWaitingClient PROVE Spec => ImplementsProfileRpc
<1>1. Init => Rpc!Init
  <2> SUFFICES ASSUME Init PROVE Rpc!Init
    OBVIOUS
  <2>1. TypeOK /\ AnswerInv
    BY InitInv, InitRpc DEF ChannelInv, RpcInv
  <2>2. RpcState = [c \in Clients |-> "ready"]
    BY DEF Init, RpcState
  <2>3. RpcAnswer \in [Clients -> Texts]
    BY <2>1, AnswerIsLast DEF TypeOK
  <2> QED BY SameCommands, <2>1, <2>2, <2>3 DEF Rpc!Init, RpcState, RpcAnswer, TypeOK
<1>2. RpcInv /\ [Next]_vars => RpcInv'
  BY RpcStepKeeps
<1>3. RpcInv /\ RpcInv' /\ [Next]_vars => [Rpc!Next]_RpcVars
  BY RpcRefined DEF RpcStep
<1> QED
  BY <1>1, <1>2, <1>3, InitRpc, PTL
  DEF Spec, ImplementsProfileRpc, Rpc!Spec, RpcVars, RpcState, RpcAnswer
=============================================================================
