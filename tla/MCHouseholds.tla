----------------------------- MODULE MCHouseholds -----------------------------
(***************************************************************************)
(* A family in zone 1 (a child, its mother, its old father), a worker in   *)
(* each of two other zones, and one agent yet unborn.  Zone 2 is near,     *)
(* zone 3 is far and pays better, at times.                                *)
(***************************************************************************)
EXTENDS Households, TLC

MCZones == {1, 2, 3}

Someone(zone, age, sex, mother, father, spouse) ==
    [life |-> "alive", zone |-> zone, age |-> age, sex |-> sex, role |-> age \in 16 .. 61,
     rank |-> IF sex = "male" THEN Enslaved ELSE 2, intelligence |-> IF sex = "male" THEN 100 ELSE 60,
     education |-> 30, mother |-> mother, father |-> father, spouse |-> spouse]
MCFounder ==
    <<Someone(1, 8, "female", 2, 3, 0),
      Someone(1, 45, "female", 0, 0, 3),
      Someone(1, 65, "male", 0, 0, 2),
      Someone(2, 30, "female", 0, 0, 0),
      Someone(3, 30, "male", 0, 0, 0)>>

Template(rule, couple, planned, floor) ==
    [rule |-> rule, couple |-> couple, planned |-> planned, ceiling |-> 6, floor |-> floor]
MCEras ==
    {Template("patrilineal_rigid", TRUE, FALSE, 10),
     Template("clark_regression", TRUE, TRUE, 5),
     Template("becker_tomes_elasticity_0.4", TRUE, FALSE, 1),
     Template("meritocratic", FALSE, TRUE, 0)}
MCDraw ==
    <<[trait |-> 60, school |-> 10, rank |-> 8, gender |-> 70],
      [trait |-> -10, school |-> -40, rank |-> -5, gender |-> 20],
      [trait |-> 0, school |-> 0, rank |-> 0, gender |-> 70]>>
MCPayrolls == {<<1, 2, 4>>, <<1, 4, 0>>}
MCCenter == <<0, 5, 59>>
MCPresentValue == [h \in 0 .. 62 |-> IF h = 0 THEN 0 ELSE IF h < 20 THEN 82 ELSE IF h < 40 THEN 96 ELSE 99]

=============================================================================
