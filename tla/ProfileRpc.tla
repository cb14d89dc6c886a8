------------------------------ MODULE ProfileRpc ------------------------------
(***************************************************************************)
(* What a synchronous command channel promises its callers                 *)
(* (docs/dstx.txt:43, profile_request_sync in dstx.h): a call is carried   *)
(* out exactly once, between the call and the return, with the arguments   *)
(* of the caller, and the caller is told the outcome of its own call.      *)
(***************************************************************************)
EXTENDS ProfileCommands

CONSTANTS Callers

VARIABLES
  state,   \* state[c]: "ready", "called", "performed"
  req,     \* req[c]: the last call
  ans,     \* ans[c]: what the last call was told
  pm       \* the profile manager

Init ==
  /\ state = [c \in Callers |-> "ready"]
  /\ req \in [Callers -> Requests]
  /\ ans \in [Callers -> Texts]
  /\ pm \in Managers

Call(c) ==
  /\ state[c] = "ready"
  /\ state' = [state EXCEPT ![c] = "called"]
  /\ \E r \in Requests : req' = [req EXCEPT ![c] = r]
  /\ UNCHANGED <<ans, pm>>

Perform(c) ==
  /\ state[c] = "called"
  /\ state' = [state EXCEPT ![c] = "performed"]
  /\ \E o \in Outcomes(req[c].op, req[c].name, req[c].enable, pm) :
       /\ pm' = o.pm
       /\ ans' = [ans EXCEPT ![c] = Told(req[c].op, req[c].name, o)]
  /\ UNCHANGED req

Return(c) ==
  /\ state[c] = "performed"
  /\ state' = [state EXCEPT ![c] = "ready"]
  /\ UNCHANGED <<req, ans, pm>>

Next == \E c \in Callers : Call(c) \/ Perform(c) \/ Return(c)

Spec == Init /\ [][Next]_<<state, req, ans, pm>>
=============================================================================
