---------------------------- MODULE MCSuccession ----------------------------
(***************************************************************************)
(* A small Succession: a mother (1) and a father (2), their son (3) and    *)
(* daughter (4), the mother's brother (5), and their late mother (6).      *)
(***************************************************************************)
EXTENDS Succession

MCAgents == 1 .. 6
MCParents == [a \in MCAgents |->
    CASE a \in {3, 4} -> {1, 2} [] a \in {1, 5} -> {6} [] OTHER -> {}]
MCMen == {2, 3, 5}
MCWomen == {1, 4, 6}
MCAge == [a \in MCAgents |->
    CASE a = 3 -> 9 [] a = 4 -> 17 [] a = 6 -> 80 [] OTHER -> 40]
MCZone == [a \in MCAgents |-> IF a = 5 THEN 2 ELSE 1]

Era(rule, tax, adulthood, divorce, implicitConsent) ==
    [rule |-> rule, tax |-> tax, adulthood |-> adulthood,
     divorce |-> divorce, implicitConsent |-> implicitConsent]
MCEras ==
    {Era("primogeniture", 0, 16, FALSE, TRUE), Era("sharia", 0, 16, TRUE, TRUE),
     Era("equal_split", 40, 18, TRUE, TRUE), Era("matrilineal", 15, 18, TRUE, FALSE),
     Era("nationalized", 0, 16, FALSE, FALSE)}

MCLoans == {1, 2}
MCInitialLender == [l \in MCLoans |-> 1]
MCBalance == [l \in MCLoans |-> l]
MCInitialAlive == 1 .. 5
MCInitialCouples == {{1, 2}}
MCInitialWealth == [a \in MCAgents |-> IF a = 6 THEN 0 ELSE 7]
MCMatches == {<<5, 1>>, <<1, 5>>, <<4, 1>>, <<5, 5>>}

=============================================================================
