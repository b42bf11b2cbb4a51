--------------------------- MODULE MCCreditMarket ---------------------------
(***************************************************************************)
(* A small CreditMarket: two agents, the first of the elite, who own a     *)
(* property each.                                                          *)
(***************************************************************************)
EXTENDS CreditMarket

MCAgents == {1, 2}
MCProps == {1, 2}
MCValue == [p \in MCProps |-> IF p = 1 THEN 4 ELSE 2]
MCInitialOwner == [p \in MCProps |-> p]
MCInitialCash == [a \in MCAgents |-> IF a = 1 THEN 1 ELSE 2]
MCElite == {1}
MCIncomes == {2}
MCPrices == {1}
MCInterests == {1}

=============================================================================
