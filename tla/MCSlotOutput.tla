---------------------------- MODULE MCSlotOutput ----------------------------
(* Small instances of a slot's output side.                                *)
EXTENDS SlotOutput

CONSTANT red

TwoColours == {Black, red}

\* a static light bar with rumble; an effect, seen dark, without
TwoConfigs ==
  {[shown |-> red, base |-> red, effect |-> 0, reapply |-> TRUE, on |-> TRUE],
   [shown |-> Black, base |-> red, effect |-> 1, reapply |-> FALSE, on |-> FALSE]}
=============================================================================
