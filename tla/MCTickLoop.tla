----------------------------- MODULE MCTickLoop -----------------------------
(***************************************************************************)
(* Small instances of TickLoop: agents and slots are model values.         *)
(***************************************************************************)
EXTENDS TickLoop

CONSTANTS a1, a2, s1, s2

OneAgent == {a1}
TwoAgents == {a1, a2}
TwoSlots == {s1, s2}

=============================================================================
