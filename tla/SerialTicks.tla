---------------------------- MODULE SerialTicks ----------------------------
(***************************************************************************)
(* What the tick loop promises: ticks happen one at a time and in order,   *)
(* and a tick is whole.  Its economy runs once, every agent then acts at   *)
(* most once, one snapshot is captured after the last agent, and only then *)
(* does the tick counter move on by one.                                   *)
(***************************************************************************)
EXTENDS Integers

CONSTANTS Agents, MaxTick

VARIABLES
    tick,         \* the last tick that is over
    stage,        \* how far tick + 1 has got
    economyRuns,  \* economy ticks run for each tick number
    acted,        \* turns applied for each tick number and agent
    captured      \* snapshots captured for each tick number

vars == <<tick, stage, economyRuns, acted, captured>>

Ticks == 1 .. MaxTick

Init ==
    /\ tick = 0 /\ stage = "economy"
    /\ economyRuns = [t \in Ticks |-> 0]
    /\ acted = [t \in Ticks |-> [a \in Agents |-> 0]]
    /\ captured = [t \in Ticks |-> 0]

Economy ==
    /\ stage = "economy" /\ tick < MaxTick
    /\ economyRuns[tick + 1] = 0
    /\ economyRuns' = [economyRuns EXCEPT ![tick + 1] = 1]
    /\ stage' = "agents"
    /\ UNCHANGED <<tick, acted, captured>>

Act(a) ==
    /\ stage = "agents"
    /\ acted[tick + 1][a] = 0
    /\ acted' = [acted EXCEPT ![tick + 1][a] = 1]
    /\ UNCHANGED <<tick, stage, economyRuns, captured>>

Capture ==
    /\ stage = "agents"
    /\ captured[tick + 1] = 0
    /\ captured' = [captured EXCEPT ![tick + 1] = 1]
    /\ stage' = "captured"
    /\ UNCHANGED <<tick, economyRuns, acted>>

Advance ==
    /\ stage = "captured"
    /\ tick' = tick + 1
    /\ stage' = "economy"
    /\ UNCHANGED <<economyRuns, acted, captured>>

Next == Economy \/ (\E a \in Agents : Act(a)) \/ Capture \/ Advance

Spec == Init /\ [][Next]_vars

=============================================================================
