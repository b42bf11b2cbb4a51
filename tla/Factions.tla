------------------------------- MODULE Factions -------------------------------
(***************************************************************************)
(* Factions (agents/factions.py): every few ticks each active group is     *)
(* reviewed - cohesion, leader, dissolution, schism - and then the         *)
(* form_group and join_group decisions since the last review are applied.  *)
(*                                                                         *)
(* The review is no transaction: each function saves what it changes, so   *)
(* that it is a step of its own and a failure can leave the others undone. *)
(* The turns of the tick are over while it runs.                           *)
(*                                                                         *)
(* Data: cohesion is kept in bands (the thresholds the code compares it    *)
(* with are their borders), and no single change crosses a whole band.     *)
(* Scores, sentiments and affinities are abstracted to the choice they     *)
(* lead to: which member leads, who secedes, who has common ground.        *)
(*                                                                         *)
(* A definition introduced as "Variant" is one with a plausible bug, used  *)
(* only to show that a property notices it; Next uses none.                *)
(***************************************************************************)
EXTENDS SequencesExt, Orders

CONSTANTS
    Agents,            \* agent ids
    Groups,            \* ids a group may get
    MinMembers,        \* EPOCHA_FACTION_MIN_MEMBERS
    MaxMembers,        \* EPOCHA_FACTION_MAX_INITIAL_MEMBERS
    Interval,          \* EPOCHA_FACTION_DYNAMICS_INTERVAL
    Recent,            \* ticks for which a proposal is not repeated
    Bonds,             \* relations that "common ground" may be
    Rankings,          \* orders that leadership scores may give the agents
    Cliques,           \* sets of allies that may turn against the others
    Worlds,            \* generated worlds: the group of each agent
    MaxTick,           \* bound: ticks
    MaxFailures,       \* bound: failed ticks
    MaxEvents          \* bound: decisions, deaths, failures and changes of power together

None == 0

\* Bands of Group.cohesion: 0, below 0.2, below 0.4, up to 0.6, above 0.6.
Bands == 0 .. 4
Broken == 1     \* below EPOCHA_FACTION_DISSOLUTION_THRESHOLD
Even == 3       \* what a new group starts with (0.5 or 0.6)

ASSUME FactionAssumption ==
    /\ Agents \subseteq Nat \ {None} /\ IsFiniteSet(Agents)
    /\ Groups \subseteq Nat \ {None} /\ IsFiniteSet(Groups)
    /\ MinMembers \in Nat \ {0} /\ MaxMembers \in Nat
    /\ Interval \in Nat \ {0} /\ Recent \in Nat
    /\ Bonds \subseteq SUBSET SUBSET Agents
    /\ Rankings \subseteq [Agents -> Nat] /\ Cliques \subseteq SUBSET Agents
    /\ \A r \in Rankings, a, b \in Agents : r[a] = r[b] => a = b
    /\ Worlds \subseteq [Agents -> Groups \cup {None}]
    /\ MaxTick \in Nat \ {0} /\ MaxFailures \in Nat /\ MaxEvents \in Nat

VARIABLES
    tick,       \* the tick that runs
    stage,      \* what the tick is doing
    todo,       \* groups the review has still to visit
    alive,      \* agents with is_alive
    group,      \* Agent.group
    made,       \* groups that exist
    cohesion,   \* Group.cohesion, in bands
    leader,     \* Group.leader
    parent,     \* Group.parent_group
    proposal,   \* the last "common ground" memory of each agent
    log,        \* group decisions since the last review, in order
    joins,      \* joins that have still to be carried out
    formers,    \* who decided to form a group, as read before the joins
    used,       \* formers that belong to a cluster
    acted,      \* agents that have had their turn in this tick
    events,     \* history: how many of those so far
    failures,   \* history: failures so far
    born        \* history: members of each group founded in this review

people == <<alive, group>>
rows == <<made, cohesion, leader, parent>>
plans == <<log, joins, formers, used>>
counts == <<events, failures>>
factionVars == <<tick, stage, todo, people, rows, proposal, plans, acted, counts, born>>

Stages == {"turns", "cohesion", "leadership", "dissolution", "schism",
           "proposals", "decisions", "politics", "closing"}
Decisions == [agent : Agents, action : {"form", "join"}, target : Groups \cup {None}]
Births == [Groups -> SUBSET Agents]
NoProposal == [at |-> -1, others |-> {}]

Members(g) == {a \in Agents : group[a] = g}
Living(g) == Members(g) \cap alive
Ungrouped == {a \in alive : group[a] = None}
IsLeader(a, g) == a \in Living(g)
\* Variant: nothing keeps it from sinking below zero.
Sunk(c) == {c, c - 1}
Lower(c) == {c, IF c = 0 THEN 0 ELSE c - 1}
Near(c) == {c - 1, c, c + 1} \cap Bands
\* Who scores highest in S, by one ranking or another.
Best(S) == {a \in S : \E r \in Rankings : \A b \in S : r[b] <= r[a]}
\* A group below the lowest band has no cohesion left, and is not listed.
Active == {g \in made : cohesion[g] > 0}
NewGroup == {g \in Groups \ made : \A h \in Groups \ made : g <= h}

FactionInit ==
    /\ tick = 1 /\ stage = "turns" /\ todo = << >>
    /\ alive = Agents
    /\ group \in Worlds
    /\ made = {group[a] : a \in Agents} \ {None}
    /\ cohesion = [g \in Groups |-> IF g \in made THEN Even ELSE 0]
    /\ leader = [g \in Groups |->
        IF g \in made THEN CHOOSE a \in Members(g) : \A b \in Members(g) : a <= b ELSE None]
    /\ parent = [g \in Groups |-> None]
    /\ proposal = [a \in Agents |-> NoProposal]
    /\ log = << >> /\ joins = << >> /\ formers = << >> /\ used = {}
    /\ acted = {} /\ events = 0 /\ failures = 0
    /\ born = [g \in Groups |-> {}]

\* What happens a bounded number of times.
Event == events < MaxEvents /\ events' = events + 1

-----------------------------------------------------------------------------
(* The turns of a tick.  A decision is only logged; whether the agent has a  *)
(* group is looked at when the log is read.                                  *)

Decide(a, action, target) ==
    /\ stage = "turns" /\ a \in alive \ acted /\ Event
    /\ acted' = acted \cup {a}
    /\ log' = Append(log, [agent |-> a, action |-> action, target |-> target])
    /\ UNCHANGED <<tick, stage, todo, people, rows, proposal, joins, formers, used, failures, born>>

FormGroup(a) == Decide(a, "form", None)
JoinGroup(a) == \E g \in made : Decide(a, "join", g)

Die(a) ==
    /\ stage = "turns" /\ a \in alive /\ Event
    /\ alive' = alive \ {a}
    /\ UNCHANGED <<tick, stage, todo, group, rows, proposal, plans, acted, failures, born>>

\* The tick's closing task begins; most ticks review nothing.
BeginReview ==
    /\ stage = "turns"
    /\ IF tick % Interval # 0 THEN stage' = "politics" /\ todo' = << >>
       ELSE /\ todo' = InOrder(Active)
            /\ stage' = IF Active = {} THEN "proposals" ELSE "cohesion"
    /\ acted' = {}
    /\ UNCHANGED <<tick, people, rows, proposal, plans, counts, born>>

\* A function of the closing task raises: the rest of it is lost, and when the
\* simulation is started again it repeats the tick from its turns.
Fail ==
    /\ stage # "turns" /\ failures < MaxFailures /\ Event
    /\ failures' = failures + 1
    /\ stage' = "turns" /\ todo' = << >>
    /\ joins' = << >> /\ formers' = << >> /\ used' = {}
    /\ born' = [g \in Groups |-> {}]
    /\ UNCHANGED <<tick, people, rows, proposal, log, acted>>

-----------------------------------------------------------------------------
(* The review of one group: the head of todo.                                *)

Reviewing(here, next) ==
    /\ stage = here /\ stage' = next
    /\ UNCHANGED <<tick, alive, proposal, plans, acted, failures>>
This == Head(todo)

UpdateGroupCohesion ==
    /\ Reviewing("cohesion", "leadership")
    /\ IF Cardinality(Living(This)) < 2 THEN UNCHANGED cohesion
       ELSE \E c \in Near(cohesion[This]) : cohesion' = [cohesion EXCEPT ![This] = c]
    /\ UNCHANGED <<todo, group, made, leader, parent, born, events>>

\* Who has been counted out still leads when there is nobody else.
ElectNewLeader(candidates) ==
    IF candidates = {} THEN UNCHANGED leader
    ELSE \E a \in Best(candidates) : leader' = [leader EXCEPT ![This] = a]

\* Variant: only death is noticed.
LeaderDead(g) == leader[g] \notin alive
\* The leader is missing, dead, or has gone to another group.
LeaderLost(g) == ~IsLeader(leader[g], g)

\* Legitimacy may have fallen below the threshold; a leader alone has it all.
Contestable(g) == Cardinality(Living(g)) > 1

UpdateGroupLeadership ==
    /\ Reviewing("leadership", "dissolution")
    /\ \/ /\ LeaderLost(This) /\ ElectNewLeader(Living(This))
          /\ UNCHANGED <<cohesion, events>>
       \/ ~LeaderLost(This) /\ UNCHANGED <<leader, cohesion, events>>
       \/ /\ ~LeaderLost(This) /\ Contestable(This) /\ Event
          /\ ElectNewLeader(Living(This) \ {leader[This]})
          /\ \E c \in Lower(cohesion[This]) : cohesion' = [cohesion EXCEPT ![This] = c]
    /\ UNCHANGED <<todo, group, made, parent, born>>

\* A dissolved group keeps its row, its cohesion and its leader.
CheckDissolution ==
    /\ Reviewing("dissolution", "schism")
    /\ group' = IF cohesion[This] > Broken THEN group
                ELSE [a \in Agents |-> IF group[a] = This THEN None ELSE group[a]]
    /\ UNCHANGED <<todo, rows, born, events>>

\* A group of S is made under the id g, with a leader out of S.
MakeGroup(g, S, from) ==
    /\ made' = made \cup {g}
    /\ group' = [a \in Agents |-> IF a \in S THEN g ELSE group[a]]
    /\ \E a \in Best(S) : leader' = [leader EXCEPT ![g] = a]
    /\ parent' = [parent EXCEPT ![g] = from]
    /\ born' = [born EXCEPT ![g] = S]

\* One member's allies secede; they may take the leader with them.
Secede ==
    /\ Cardinality(Living(This)) >= 2 * MinMembers /\ Event
    /\ \E clique \in Cliques, g \in NewGroup : LET allies == clique \cap Living(This) IN
        /\ Cardinality(allies) >= MinMembers /\ allies # Living(This)
        /\ MakeGroup(g, allies, This)
        /\ \E c \in Lower(cohesion[This]) :
            cohesion' = [cohesion EXCEPT ![This] = c, ![g] = Even]

CheckSchism ==
    /\ Reviewing("schism", IF Len(todo) = 1 THEN "proposals" ELSE "cohesion")
    /\ todo' = Tail(todo)
    /\ Secede \/ UNCHANGED <<group, rows, born, events>>

-----------------------------------------------------------------------------
(* New members and new groups.                                               *)

\* Whoever comes next in the order joins the cluster of a if it has common
\* ground with all of it.
Joined(bond) ==
    [p \in (SUBSET Agents) \X Agents |->
        IF Cardinality(p[1]) < MaxMembers /\ \A x \in p[1] : {x, p[2]} \in bond
        THEN p[1] \cup {p[2]} ELSE p[1]]
ClusterOf(a, others, bond) == FoldLeft(LAMBDA c, b : Joined(bond)[<<c, b>>], {a}, others)

\* The clusters found, first come first served.
Found(bond) ==
    [p \in (SUBSET SUBSET Agents) \X Agents |->
        LET free == {b \in Ungrouped : b > p[2] /\ b \notin UNION p[1]}
            c == ClusterOf(p[2], InOrder(free), bond)
        IN IF p[2] \in UNION p[1] \/ Cardinality(c) < MinMembers THEN p[1] ELSE p[1] \cup {c}]
Clusters(bond) == FoldLeft(LAMBDA found, a : Found(bond)[<<found, a>>], {}, InOrder(Ungrouped))

Proposed(a, since) == proposal[a].at >= 0 /\ proposal[a].at >= since

\* The groups to join in the order they were first named; under each, the
\* agents in the order they decided.
Under(asked) ==
    [p \in Seq(Decisions) \X asked |->
        p[1] \o Those(log, {j \in asked : log[j].target = log[p[2]].target})]
JoinOrder(asked) ==
    LET firsts == {i \in asked : \A j \in asked : log[j].target = log[i].target => i <= j}
    IN FoldLeft(LAMBDA js, i : Under(asked)[<<js, i>>], << >>, InOrder(firsts))

\* Proposals go out, and the decisions since the last review are read.
DetectAndPropose ==
    /\ stage = "proposals"
    /\ \E bond \in Bonds :
        proposal' = [a \in Agents |->
            IF Proposed(a, tick - Recent) \/ ~\E c \in Clusters(bond) : a \in c
            THEN proposal[a]
            ELSE [at |-> tick,
                  others |-> (CHOOSE c \in Clusters(bond) : a \in c) \ {a}]]
    /\ LET free == {i \in DOMAIN log : group[log[i].agent] = None}
           forming == {i \in free : log[i].action = "form"}
           joining == {i \in free : log[i].action = "join" /\ log[i].target \in Active}
       IN /\ joins' = JoinOrder(joining)
          /\ formers' = IF Cardinality(forming) < MinMembers THEN << >>
                        ELSE [k \in 1 .. Cardinality(forming) |-> Those(log, forming)[k].agent]
    /\ stage' = "decisions"
    /\ UNCHANGED <<tick, todo, people, rows, log, used, acted, counts, born>>

\* Each join commits alone.
Join ==
    /\ stage = "decisions" /\ joins # << >>
    /\ LET d == Head(joins) IN
        /\ group' = [group EXCEPT ![d.agent] = d.target]
        /\ \E c \in Lower(cohesion[d.target]) : cohesion' = [cohesion EXCEPT ![d.target] = c]
    /\ joins' = Tail(joins)
    /\ UNCHANGED <<tick, stage, todo, alive, made, leader, parent, proposal, log, formers,
                   used, acted, counts, born>>

\* Variant: a former is looked for in every cluster.
FoundersAgain(a) == {a} \cup {b \in ToSet(Tail(formers)) : b \in proposal[a].others}
\* Those the proposal of a names who decided after it.
Founders(a) ==
    {a} \cup {b \in ToSet(Tail(formers)) \ used : b \in proposal[a].others}

\* The next former and its cluster.  Founders are taken from the group they
\* have just joined; nobody asks whether they are alive.
Form ==
    /\ stage = "decisions" /\ joins = << >> /\ formers # << >>
    /\ formers' = Tail(formers)
    /\ LET a == Head(formers) IN
        IF a \in used \/ ~Proposed(a, tick - 2 * Interval)
        THEN UNCHANGED <<used, group, rows, born>>
        ELSE /\ used' = used \cup Founders(a)
             /\ IF Cardinality(Founders(a)) < MinMembers THEN UNCHANGED <<group, rows, born>>
                ELSE \E g \in NewGroup :
                    /\ MakeGroup(g, Founders(a), None)
                    /\ cohesion' = [cohesion EXCEPT ![g] = Even]
    /\ UNCHANGED <<tick, stage, todo, alive, proposal, log, joins, acted, counts>>

EndReview ==
    /\ stage = "decisions" /\ joins = << >> /\ formers = << >>
    /\ stage' = "politics" /\ used' = {}
    /\ UNCHANGED <<tick, todo, people, rows, proposal, log, joins, formers, acted, counts, born>>

Review ==
    \/ UpdateGroupCohesion \/ UpdateGroupLeadership \/ CheckDissolution \/ CheckSchism
    \/ DetectAndPropose \/ Join \/ Form \/ EndReview

Turns == BeginReview \/ \E a \in Agents : FormGroup(a) \/ JoinGroup(a) \/ Die(a)

\* The tick is over.
EndTick ==
    /\ stage = "closing" /\ tick < MaxTick
    /\ tick' = tick + 1 /\ stage' = "turns"
    /\ log' = IF tick % Interval = 0 THEN << >> ELSE log
    /\ born' = [g \in Groups |-> {}]
    /\ UNCHANGED <<todo, people, rows, proposal, joins, formers, used, acted, counts>>

-----------------------------------------------------------------------------

FactionTypeOK ==
    /\ tick \in 1 .. MaxTick /\ stage \in Stages /\ todo \in Seq(Groups)
    /\ alive \subseteq Agents /\ group \in [Agents -> made \cup {None}]
    /\ made \subseteq Groups /\ cohesion \in [Groups -> Bands]
    /\ leader \in [Groups -> Agents \cup {None}] /\ parent \in [Groups -> made \cup {None}]
    /\ proposal \in [Agents -> [at : -1 .. MaxTick, others : SUBSET Agents]]
    /\ log \in Seq(Decisions) /\ joins \in Seq(Decisions) /\ formers \in Seq(Agents)
    /\ used \subseteq Agents /\ acted \subseteq Agents
    /\ events \in 0 .. MaxEvents /\ failures \in 0 .. MaxFailures
    /\ born \in Births

\* A faction is founded by enough people, and still has every one of them when
\* the review that founded it is over: none is claimed by two new factions.
NoFounderPoached ==
    stage \in {"decisions", "politics"} =>
        \A g \in Groups : born[g] # {} =>
            /\ Cardinality(born[g]) >= MinMembers /\ born[g] \subseteq Members(g)
            /\ leader[g] \in born[g]

\* When every group has been reviewed, one with living members is led by one
\* of them, unless its leader seceded in this review.
LeadershipRepaired ==
    stage = "proposals" =>
        \A g \in Active : Living(g) # {} =>
            \/ IsLeader(leader[g], g)
            \/ \E h \in Groups : parent[h] = g /\ leader[g] \in born[h]

=============================================================================
