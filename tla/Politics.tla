------------------------------- MODULE Politics -------------------------------
(***************************************************************************)
(* Government (world/government.py, world/election.py and the corruption   *)
(* of world/stratification.py) on top of the factions: the political cycle *)
(* closes every tick, after the review of the factions.                    *)
(*                                                                         *)
(* The cycle is one transaction under a lock of the Government row, hence  *)
(* one action, written as the composition of its parts.  The tick can      *)
(* still fail after it has committed, and is then repeated.                *)
(*                                                                         *)
(* Data: the indicators of the government are abstracted to what they      *)
(* decide, which transition qualifies and whether the government is stable *)
(* enough to be safe from coups; votes and odds to who wins.               *)
(***************************************************************************)
EXTENDS Factions

CONSTANTS
    InitialType,       \* of the generated government
    ElectionInterval,  \* EPOCHA_GOVERNMENT_ELECTION_INTERVAL
    Charismatic,       \* agents with charisma > 0.5
    Unscrupulous,      \* agents whose conscientiousness is below the threshold
    WorldWealth        \* World.global_wealth, in skims

Types == {"democracy", "illiberal_democracy", "autocracy", "monarchy", "oligarchy",
          "theocracy", "totalitarian", "terrorist_regime", "anarchy", "federation",
          "kleptocracy", "junta"}
Electoral == {"democracy", "illiberal_democracy", "federation"}

\* What a regime may turn into when its indicators call for it.
Transitions(type) ==
    CASE type = "democracy" -> {"illiberal_democracy", "autocracy", "anarchy"}
      [] type = "illiberal_democracy" -> {"autocracy", "democracy", "anarchy"}
      [] type = "autocracy" -> {"democracy", "totalitarian", "junta", "anarchy"}
      [] type \in {"totalitarian", "terrorist_regime"} -> {"autocracy", "anarchy"}
      [] type = "oligarchy" -> {"democracy", "autocracy", "kleptocracy", "anarchy"}
      [] type = "anarchy" -> {"autocracy", "democracy", "junta"}
      [] OTHER -> {"autocracy", "democracy", "anarchy"}

Open == -1     \* to_tick of the row in force

ASSUME PoliticsAssumption ==
    /\ InitialType \in Types /\ ElectionInterval \in Nat \ {0}
    /\ Charismatic \subseteq Agents /\ Unscrupulous \subseteq Agents
    /\ WorldWealth \in Nat

VARIABLES
    gov,         \* the Government row
    history,     \* the GovernmentHistory rows, in the order they were made
    worldWealth, \* World.global_wealth
    purse        \* what each agent has skimmed

polityVars == <<gov, history, worldWealth, purse>>
vars == <<factionVars, polityVars>>

Row == [type : Types, from : Nat, to : Nat \cup {Open}, cause : {"indicator_threshold", "coup"}]

Init ==
    /\ FactionInit
    /\ gov = [type |-> InitialType, head |-> None, ruling |-> None, formed |-> 0,
              lastElection |-> 0, stable |-> TRUE]
    \* the generated government has no row of its own
    /\ history = << >>
    /\ worldWealth = WorldWealth
    /\ purse = [a \in Agents |-> 0]

-----------------------------------------------------------------------------
(* process_corruption: whoever holds power and has few scruples skims.       *)

Leaders == {leader[g] : g \in made} \cap alive
InPower == Leaders \cup ({gov.head} \cap alive)
\* Variant: the head of state skims once more as a leader of a group; the
\* agent is saved with one of the two amounts.
TakingsTwice(S) == Cardinality(S) + Cardinality(S \cap Leaders \cap {gov.head})
Takings(S) == Cardinality(S)

ProcessCorruption ==
    LET S == InPower \cap Unscrupulous IN
    IF Takings(S) > worldWealth THEN UNCHANGED <<worldWealth, purse>>
    ELSE /\ worldWealth' = worldWealth - Takings(S)
         /\ purse' = [a \in Agents |-> IF a \in S THEN purse[a] + 1 ELSE purse[a]]

-----------------------------------------------------------------------------
(* The regime: g and h are the government and its history so far.            *)

\* Variant: the row in force stays open.
CloseNone(h, t) == h
Close(h, t) == [i \in DOMAIN h |-> IF h[i].to = Open THEN [h[i] EXCEPT !.to = t] ELSE h[i]]

NewRow(h, type, t, cause) ==
    Append(Close(h, t), [type |-> type, from |-> t, to |-> Open, cause |-> cause])

Regime(g, h) == [gov |-> g, history |-> h]

\* check_transitions stamps its row with simulation.current_tick: the tick
\* that runs is not yet counted.
Transitioned(r) ==
    {Regime([r.gov EXCEPT !.type = type, !.formed = tick - 1],
            NewRow(r.history, type, tick - 1, "indicator_threshold"))
        : type \in Transitions(r.gov.type)}

\* The living leaders of any group stand, also those of dissolved groups and
\* those that have left the group they lead; without any there is no election.
Elected(r) ==
    IF \/ r.gov.type \notin Electoral \/ tick - r.gov.lastElection < ElectionInterval
       \/ Leaders = {}
    THEN {r}
    ELSE {[r EXCEPT !.gov.head = a, !.gov.ruling = group[a], !.gov.lastElection = tick]
             : a \in Leaders}

Plotters(g) ==
    {f \in made \ {g.ruling} :
        leader[f] \in alive \cap Charismatic /\ cohesion[f] > Even}

\* Stability is what the last cycle made of it.
Overthrown(r) ==
    {Regime([r.gov EXCEPT !.type = "autocracy", !.formed = tick,
                          !.head = leader[f], !.ruling = f],
            NewRow(r.history, "autocracy", tick, "coup"))
        : f \in IF r.gov.stable THEN {} ELSE Plotters(r.gov)}

PoliticalCycle ==
    /\ stage = "politics" /\ stage' = "closing"
    /\ ProcessCorruption
    /\ LET r0 == Regime(gov, history) IN
       \E r1 \in {r0} \cup Transitioned(r0) : \E r2 \in Elected(r1) :
       \E r3 \in {r2} \cup Overthrown(r2), stable \in BOOLEAN :
        /\ gov' = [r3.gov EXCEPT !.stable = stable]
        /\ history' = r3.history
        /\ events' = events + Len(r3.history) - Len(history) /\ events' <= MaxEvents
    /\ UNCHANGED <<tick, todo, people, rows, proposal, plans, acted, failures, born>>

Next ==
    \/ PoliticalCycle
    \/ (Turns \/ Review \/ Fail \/ EndTick) /\ UNCHANGED polityVars

Spec == Init /\ [][Next]_vars

-----------------------------------------------------------------------------

TypeOK ==
    /\ FactionTypeOK
    /\ gov \in [type : Types, head : Agents \cup {None}, ruling : made \cup {None},
                formed : 0 .. MaxTick, lastElection : 0 .. MaxTick, stable : BOOLEAN]
    /\ history \in Seq(Row)
    /\ worldWealth \in 0 .. WorldWealth /\ purse \in [Agents -> 0 .. WorldWealth]

\* The history of a government that has changed is one chain: its last row is
\* the regime in force and the only one open, and each row ends where the next
\* begins, also when a transition and a coup, which stamp their rows with
\* different ticks, fall in one cycle, and when a failed tick is repeated.
\* Unless a tick has been repeated, no row ends before it begins.
HistoryContiguous ==
    history # << >> =>
        LET last == history[Len(history)] IN
        /\ last.type = gov.type /\ last.from = gov.formed /\ last.to = Open
        /\ \A i \in 1 .. Len(history) - 1 :
            /\ history[i].to = history[i + 1].from
            /\ failures = 0 => history[i].from <= history[i].to

\* What the powerful skim is what the world loses.
WealthConserved == worldWealth + SumFunctionOnSet(purse, Agents) = WorldWealth

=============================================================================
