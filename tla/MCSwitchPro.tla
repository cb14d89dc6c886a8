---------------------------- MODULE MCSwitchPro -----------------------------
(* A small instance: two Pro Controllers, a slot of one of them.           *)
EXTENDS SwitchPro

CONSTANTS p1, p2

TwoPads    == {p1, p2}
ThreeLevels == 0..2
=============================================================================
