------------------------------- MODULE MCHearsay -------------------------------
(***************************************************************************)
(* Three agents in a row, the last two of whom know each other from either *)
(* side.  The one in the middle likes to make things worse and the last    *)
(* believes little.                                                        *)
(***************************************************************************)
EXTENDS Hearsay, TLC

MCAgents == {"a", "b", "c"}
MCMortals == {"c"}

Tie(from, to, strength, sentiment, since) ==
    [from |-> from, to |-> to, strength |-> strength, sentiment |-> sentiment, since |-> since]
MCTies ==
    {Tie("b", "a", 800, 500, 1), Tie("b", "c", 500, -400, 1), Tie("c", "b", 100, 800, 0)}

MCTraits ==
    ("a" :> << >>) @@ ("b" :> <<"high neuroticism", "low openness">>) @@ ("c" :> <<"high agreeableness">>)
MCCredulity == ("a" :> 500) @@ ("b" :> 500) @@ ("c" :> 200)

Deed(deed, remark) == [deed |-> deed, remark |-> remark]
MCDeeds ==
    ("a" :> {Deed("betray", "disappointed")}) @@ ("b" :> {Deed("betray", "none"), Deed("help", "none")})
    @@ ("c" :> {})

=============================================================================
