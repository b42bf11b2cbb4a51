-------------------------------- MODULE MCPolity --------------------------------
(***************************************************************************)
(* A small polity: four agents, all in one group or three of them without  *)
(* any, and room for two groups more.                                      *)
(***************************************************************************)
EXTENDS Politics

MCAgents == 1 .. 4
MCGroups == 1 .. 3
MCBonds == {{{1, 2}}, {{2, 3}}}
MCRankings == {[a \in MCAgents |-> a], [a \in MCAgents |-> 5 - a]}
MCCliques == {{1, 2}}
\* All in one group, or three without any.
MCWorlds == {[a \in MCAgents |-> 1], [a \in MCAgents |-> IF a = 4 THEN 1 ELSE None]}

=============================================================================
