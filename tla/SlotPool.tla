------------------------------ MODULE SlotPool ------------------------------
(***************************************************************************)
(* What the daemon promises about its controller slots: a slot is given    *)
(* only when nobody holds it, to a controller that holds no other slot,    *)
(* and it is held until it is given up.                                    *)
(***************************************************************************)
CONSTANTS Slots, Controllers, None

VARIABLE holder

Init == holder = [s \in Slots |-> None]

Give(s, c) ==
  /\ holder[s] = None
  /\ \A t \in Slots : holder[t] # c
  /\ holder' = [holder EXCEPT ![s] = c]

GiveUp(s) ==
  /\ holder[s] # None
  /\ holder' = [holder EXCEPT ![s] = None]

Next == \E s \in Slots : GiveUp(s) \/ \E c \in Controllers : Give(s, c)

Spec == Init /\ [][Next]_holder
=============================================================================
