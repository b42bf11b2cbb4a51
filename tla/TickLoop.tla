------------------------------ MODULE TickLoop ------------------------------
(***************************************************************************)
(* The Celery tick loop of one simulation (simulation/tasks.py) with the   *)
(* two HTTP handlers that steer it (simulation/views.py, and the same two  *)
(* in dashboard/views.py) and the parallel agent turns (agents/tasks.py).  *)
(*                                                                         *)
(* One execution of run_simulation_loop, the chord it launches and the     *)
(* finalize_tick callback are one PASS.  Nothing in the code keeps two     *)
(* passes apart: a pass lives in a slot, and slots interleave freely.      *)
(*                                                                         *)
(* HTTP requests run inside a transaction (ATOMIC_REQUESTS): play sends    *)
(* its task while its status update is still uncommitted, and the row lock *)
(* of that update blocks every other writer of the simulation row.         *)
(*                                                                         *)
(* run_simulation_loop and finalize_tick are acknowledged before they run, *)
(* so a worker that dies loses them; process_agent_turn is acknowledged    *)
(* after it ran (acks_late), so a worker that dies gets it redelivered;    *)
(* when only the process that runs it is killed the task fails instead     *)
(* (task_reject_on_worker_lost is off), and a failed turn fails the chord. *)
(*                                                                         *)
(* A definition introduced as "Variant" is an action with a plausible bug, *)
(* used only to show that a property notices it; Next uses none.           *)
(***************************************************************************)
EXTENDS Integers, FiniteSets

CONSTANTS
    Agents,      \* agents of the simulation
    Slots,       \* room for passes in flight at the same time
    Patient,     \* TRUE: play is pressed only when nothing is in flight
    Cooldown,    \* _CRISIS_COOLDOWN_TICKS
    MaxTick,     \* bound: last tick a pass may start
    MaxPlays,    \* bound: times play is pressed
    MaxCrashes   \* bound: worker crashes and failed tasks

ASSUME BoundsAssumption ==
    /\ Cooldown \in Nat /\ MaxTick \in Nat
    /\ MaxPlays \in Nat /\ MaxCrashes \in Nat
    /\ Patient \in BOOLEAN

VARIABLES
    status,       \* Simulation.status, as committed
    currentTick,  \* Simulation.current_tick
    alive,        \* agents with is_alive
    opening,      \* a play request has sent its task and not yet committed
    loopQueue,    \* run_simulation_loop messages in the broker
    pass,         \* what each slot is doing
    plays,        \* history: times play was pressed
    crashes,      \* history: crashes so far
    economyRuns,  \* history: economy ticks run for each tick number
    acted,        \* history: turns applied for each tick number and agent
    captured,     \* history: snapshots captured for each tick number
    crisisAt      \* history: crisis events (of one type) for each tick number

control == <<status, opening, plays>>
history == <<economyRuns, acted, captured, crisisAt>>
vars == <<status, currentTick, alive, opening, loopQueue, pass, plays,
          crashes, economyRuns, acted, captured, crisisAt>>

Ticks == 1 .. MaxTick
Statuses == {"created", "running", "paused", "error"}
Phases == {"free", "started", "economy", "turns", "closing", "captured", "advanced"}
TurnStates == {"none", "queued", "acting", "returned", "lost"}

\* Counters that only tell never, once and more than once apart.
Tally == 0 .. 2
Inc(n) == IF n < 2 THEN n + 1 ELSE 2

NoTurns == [a \in Agents |-> "none"]
FreePass == [phase |-> "free", tick |-> 0, turn |-> NoTurns]
PassType == [phase : Phases, tick : 0 .. MaxTick, turn : [Agents -> TurnStates]]

Active(s) == pass[s].phase # "free"
Idle == loopQueue = 0 /\ \A s \in Slots : ~Active(s)

Init ==
    /\ status \in {"created", "paused", "error"}
    /\ currentTick = 0
    /\ alive = Agents
    /\ opening = FALSE
    /\ loopQueue = 0
    /\ pass = [s \in Slots |-> FreePass]
    /\ plays = 0 /\ crashes = 0
    /\ economyRuns = [t \in Ticks |-> 0]
    /\ acted = [t \in Ticks |-> [a \in Agents |-> 0]]
    /\ captured = [t \in Ticks |-> 0]
    /\ crisisAt = [t \in Ticks |-> 0]

-----------------------------------------------------------------------------
(* The two HTTP handlers. *)

\* play: status := RUNNING inside the request's transaction, then delay().
\* Neither handler looks at the status or at what is in flight; Patient is
\* about the person who presses the button.
PlaySend ==
    /\ ~opening /\ plays < MaxPlays
    /\ Patient => Idle
    /\ opening' = TRUE
    /\ loopQueue' = loopQueue + 1
    /\ plays' = plays + 1
    /\ UNCHANGED <<status, currentTick, alive, pass, crashes, history>>

\* The request returns and its transaction commits.
PlayCommit ==
    /\ opening
    /\ status' = "running"
    /\ opening' = FALSE
    /\ UNCHANGED <<currentTick, alive, loopQueue, pass, plays, crashes, history>>

Pause ==
    /\ ~opening
    /\ status' = "paused"
    /\ UNCHANGED <<currentTick, alive, opening, loopQueue, pass, plays, crashes, history>>

\* inject_event_view: an event the user describes may kill some agents.
InjectEvent ==
    \E dead \in SUBSET alive \ {{}} :
        /\ alive' = alive \ dead
        /\ UNCHANGED <<control, currentTick, loopQueue, pass, crashes, history>>

-----------------------------------------------------------------------------
(* run_simulation_loop. *)

\* The task finds the simulation not running and ends the loop.
LoopStop ==
    /\ loopQueue > 0 /\ status # "running"
    /\ loopQueue' = loopQueue - 1
    /\ UNCHANGED <<control, currentTick, alive, pass, crashes, history>>

\* Variant: forgets the "+ 1" of the tick to run.
LoopStartOffByOne(s) ==
    /\ loopQueue > 0 /\ status = "running" /\ ~Active(s)
    /\ currentTick < MaxTick
    /\ loopQueue' = loopQueue - 1
    /\ pass' = [pass EXCEPT ![s] =
                  [phase |-> "started", tick |-> currentTick, turn |-> NoTurns]]
    /\ UNCHANGED <<control, currentTick, alive, crashes, history>>

LoopStart(s) ==
    /\ loopQueue > 0 /\ status = "running" /\ ~Active(s)
    /\ currentTick < MaxTick
    /\ loopQueue' = loopQueue - 1
    /\ pass' = [pass EXCEPT ![s] =
                  [phase |-> "started", tick |-> currentTick + 1, turn |-> NoTurns]]
    /\ UNCHANGED <<control, currentTick, alive, crashes, history>>

\* run_economy on the simulation object read by LoopStart.
RunEconomy(s) ==
    /\ pass[s].phase = "started"
    /\ pass' = [pass EXCEPT ![s].phase = "economy"]
    /\ economyRuns' = [economyRuns EXCEPT ![pass[s].tick] = Inc(@)]
    /\ UNCHANGED <<control, currentTick, alive, loopQueue, crashes,
                   acted, captured, crisisAt>>

\* Variant: with nobody alive, returns without calling finalize_tick.
FanOutNobody(s) ==
    /\ pass[s].phase = "economy"
    /\ pass' = IF alive = {} THEN [pass EXCEPT ![s] = FreePass]
               ELSE [pass EXCEPT
                       ![s].phase = "turns",
                       ![s].turn = [a \in Agents |-> IF a \in alive THEN "queued" ELSE "none"]]
    /\ UNCHANGED <<control, currentTick, alive, loopQueue, crashes, history>>

\* One turn per agent alive now; with none, finalize_tick is called inline.
FanOut(s) ==
    /\ pass[s].phase = "economy"
    /\ pass' = [pass EXCEPT
                  ![s].phase = IF alive = {} THEN "closing" ELSE "turns",
                  ![s].turn = [a \in Agents |-> IF a \in alive THEN "queued" ELSE "none"]]
    /\ UNCHANGED <<control, currentTick, alive, loopQueue, crashes, history>>

-----------------------------------------------------------------------------
(* process_agent_turn, one task per agent, in any order and in parallel. *)

TurnStart(s, a) ==
    /\ pass[s].turn[a] = "queued"
    /\ pass' = [pass EXCEPT ![s].turn[a] = IF a \in alive THEN "acting" ELSE "returned"]
    /\ UNCHANGED <<control, currentTick, alive, loopQueue, crashes, history>>

\* The action is applied, or an exception is swallowed before it was.
Apply(s, a) ==
    \/ acted' = [acted EXCEPT ![pass[s].tick][a] = Inc(@)]
    \/ acted' = acted

TurnReturn(s, a) ==
    /\ pass[s].turn[a] = "acting"
    /\ pass' = [pass EXCEPT ![s].turn[a] = "returned"]
    /\ Apply(s, a)
    /\ UNCHANGED <<control, currentTick, alive, loopQueue, crashes,
                   economyRuns, captured, crisisAt>>

\* The worker dies during the turn, before or after the action was applied;
\* the unacknowledged task is delivered again.
TurnRedelivered(s, a) ==
    /\ crashes < MaxCrashes
    /\ pass[s].turn[a] = "acting"
    /\ pass' = [pass EXCEPT ![s].turn[a] = "queued"]
    /\ Apply(s, a)
    /\ crashes' = crashes + 1
    /\ UNCHANGED <<control, currentTick, alive, loopQueue,
                   economyRuns, captured, crisisAt>>

\* The process that runs the turn is killed, and the task has failed.
TurnLost(s, a) ==
    /\ crashes < MaxCrashes
    /\ pass[s].turn[a] = "acting"
    /\ pass' = [pass EXCEPT ![s].turn[a] = "lost"]
    /\ Apply(s, a)
    /\ crashes' = crashes + 1
    /\ UNCHANGED <<control, currentTick, alive, loopQueue,
                   economyRuns, captured, crisisAt>>

-----------------------------------------------------------------------------
(* finalize_tick. *)

\* Variant: the callback does not wait for the last turn.
FinalizeEarly(s) ==
    /\ pass[s].phase = "turns"
    /\ \E a \in Agents : pass[s].turn[a] = "returned"
    /\ pass' = [pass EXCEPT ![s].phase = "closing"]
    /\ UNCHANGED <<control, currentTick, alive, loopQueue, crashes, history>>

\* The chord calls back once every turn of its header has returned.
Finalize(s) ==
    /\ pass[s].phase = "turns"
    /\ \A a \in Agents : pass[s].turn[a] \in {"none", "returned"}
    /\ pass' = [pass EXCEPT ![s].phase = "closing"]
    /\ UNCHANGED <<control, currentTick, alive, loopQueue, crashes, history>>

\* A chord with a failed turn never calls back.
ChordFails(s) ==
    /\ pass[s].phase = "turns"
    /\ \A a \in Agents : pass[s].turn[a] \in {"none", "returned", "lost"}
    /\ \E a \in Agents : pass[s].turn[a] = "lost"
    /\ pass' = [pass EXCEPT ![s] = FreePass]
    /\ UNCHANGED <<control, currentTick, alive, loopQueue, crashes, history>>

\* Variant: tick__gt where the code has tick__gte.
OnCooldownShort(t) ==
    \E u \in Ticks : u > t - Cooldown /\ u < t /\ crisisAt[u] > 0

OnCooldown(t) ==
    \E u \in Ticks : u >= t - Cooldown /\ u < t /\ crisisAt[u] > 0

\* Variant: captures no snapshot for a simulation paused meanwhile.
CaptureIfRunning(s) ==
    LET t == pass[s].tick IN
    /\ pass[s].phase = "closing"
    /\ pass' = [pass EXCEPT ![s].phase = "captured"]
    /\ captured' = IF status = "running" THEN [captured EXCEPT ![t] = Inc(@)] ELSE captured
    /\ UNCHANGED <<control, currentTick, alive, loopQueue, crashes,
                   economyRuns, acted, crisisAt>>

\* Information flow, factions, politics and decay, then capture_and_detect:
\* update_or_create of the snapshot, and a crisis if its conditions hold.
Capture(s) ==
    LET t == pass[s].tick IN
    /\ pass[s].phase = "closing"
    /\ pass' = [pass EXCEPT ![s].phase = "captured"]
    /\ captured' = [captured EXCEPT ![t] = Inc(@)]
    /\ \/ crisisAt' = crisisAt
       \/ ~OnCooldown(t) /\ crisisAt' = [crisisAt EXCEPT ![t] = Inc(@)]
    /\ UNCHANGED <<control, currentTick, alive, loopQueue, crashes,
                   economyRuns, acted>>

\* Variant: a pause during the tick keeps it from being completed.
AdvanceIfRunning(s) ==
    /\ pass[s].phase = "captured" /\ ~opening /\ status = "running"
    /\ pass' = [pass EXCEPT ![s].phase = "advanced"]
    /\ currentTick' = pass[s].tick
    /\ UNCHANGED <<control, alive, loopQueue, crashes, history>>

\* save(update_fields=["current_tick", ...]): waits for the row lock of an
\* open play request, and stores the pass's own tick whatever the row holds.
Advance(s) ==
    /\ pass[s].phase = "captured" /\ ~opening
    /\ pass' = [pass EXCEPT ![s].phase = "advanced"]
    /\ currentTick' = pass[s].tick
    /\ UNCHANGED <<control, alive, loopQueue, crashes, history>>

\* refresh_from_db, then apply_async unless the simulation was paused.
Requeue(s) ==
    /\ pass[s].phase = "advanced"
    /\ pass' = [pass EXCEPT ![s] = FreePass]
    /\ loopQueue' = IF status = "running" THEN loopQueue + 1 ELSE loopQueue
    /\ UNCHANGED <<control, currentTick, alive, crashes, history>>

\* The worker running run_simulation_loop or finalize_tick dies, or the task
\* raises: the message was acknowledged, so nothing carries the loop on.
LoseTask(s) ==
    /\ crashes < MaxCrashes
    /\ pass[s].phase \in {"started", "economy", "closing", "captured", "advanced"}
    /\ pass' = [pass EXCEPT ![s] = FreePass]
    /\ crashes' = crashes + 1
    /\ UNCHANGED <<control, currentTick, alive, loopQueue, history>>

-----------------------------------------------------------------------------
TurnStep(s) == \E a \in Agents : TurnStart(s, a) \/ TurnReturn(s, a)

\* What the workers do of their own accord.
Work(s) == LoopStart(s) \/ RunEconomy(s) \/ FanOut(s) \/ TurnStep(s) \/ Finalize(s)
           \/ ChordFails(s) \/ Capture(s) \/ Advance(s) \/ Requeue(s)

Next ==
    \/ PlaySend \/ PlayCommit \/ Pause \/ InjectEvent \/ LoopStop
    \/ \E s \in Slots :
        \/ Work(s)
        \/ LoseTask(s)
        \/ \E a \in Agents : TurnRedelivered(s, a) \/ TurnLost(s, a)

Spec == Init /\ [][Next]_vars

\* A request that is open commits; a live worker takes a task that waits and
\* carries it through, a failed chord to its end.  Nothing forces anyone to press play or pause, an
\* event to be injected or a worker to die.
Fairness ==
    /\ WF_vars(PlayCommit)
    /\ WF_vars(LoopStop)
    /\ \A s \in Slots :
        /\ WF_vars(LoopStart(s) \/ RunEconomy(s) \/ FanOut(s) \/ Finalize(s)
                   \/ ChordFails(s) \/ Capture(s) \/ Advance(s) \/ Requeue(s))
        /\ \A a \in Agents : WF_vars(TurnStart(s, a) \/ TurnReturn(s, a))

FairSpec == Spec /\ Fairness

-----------------------------------------------------------------------------
(* Properties. *)

TypeOK ==
    /\ status \in Statuses
    /\ currentTick \in 0 .. MaxTick
    /\ alive \in SUBSET Agents
    /\ opening \in BOOLEAN
    /\ loopQueue \in Nat
    /\ pass \in [Slots -> PassType]
    /\ plays \in 0 .. MaxPlays
    /\ crashes \in 0 .. MaxCrashes
    /\ economyRuns \in [Ticks -> Tally]
    /\ acted \in [Ticks -> [Agents -> Tally]]
    /\ captured \in [Ticks -> Tally]
    /\ crisisAt \in [Ticks -> Tally]
    /\ \A s \in Slots : Active(s) => pass[s].tick > 0

\* The analytics series has no hole: whoever presses play, and whatever
\* crashes, the tick counter and the tick before any pass in flight have
\* their snapshot, and so has every tick below a captured one.
NoTickGap ==
    /\ currentTick > 0 => captured[currentTick] > 0
    /\ \A s \in Slots : pass[s].tick > 1 => captured[pass[s].tick - 1] > 0
    /\ \A t \in Ticks : t > 1 /\ captured[t] > 0 => captured[t - 1] > 0

\* Someone who waits until nothing is in flight never gets two loops.
OneLoop ==
    Patient =>
        /\ loopQueue <= 1
        /\ loopQueue = 1 => \A s \in Slots : ~Active(s)
        /\ \A s, u \in Slots : Active(s) /\ Active(u) => s = u

\* With one loop the tick counter moves forward by one or not at all, even
\* when the worker that runs the loop dies and play is pressed again.
TickStepsByOne ==
    [][Patient => currentTick' \in {currentTick, currentTick + 1}]_vars

\* With one loop a crisis never comes back within its cooldown: two crises of
\* a type at different ticks are more than Cooldown ticks apart.
CrisisSpacing ==
    Patient =>
        \A t, u \in Ticks :
            crisisAt[t] > 0 /\ crisisAt[u] > 0 /\ t < u => u - t > Cooldown

\* The stage of the tick after currentTick, read off the one pass in flight.
Stage ==
    IF \E s \in Slots : pass[s].phase = "captured" THEN "captured"
    ELSE IF \E s \in Slots : pass[s].phase \in {"economy", "turns", "closing"}
    THEN "agents" ELSE "economy"

Serial == INSTANCE SerialTicks WITH tick <- currentTick, stage <- Stage

\* With one loop and no worker dying, the loop implements SerialTicks: each
\* tick is whole, and they come in order.
ImplementsSerialTicks == Serial!Spec

\* A tick that has begun is completed, paused or not, unless a worker dies:
\* "The current tick will complete before stopping."
BegunTickCompletes ==
    \A t \in Ticks :
        (\E s \in Slots : Active(s) /\ pass[s].tick = t) ~> (captured[t] > 0 /\ currentTick >= t)

\* A simulation that is running and has its loop keeps ticking (up to the
\* bound) until it is paused.
KeepsTicking ==
    \A t \in 0 .. MaxTick - 1 :
        (status = "running" /\ ~Idle /\ currentTick = t)
            ~> (currentTick > t \/ status # "running")

\* Once the simulation stays paused, every loop in flight ends.
PauseStopsLoops == <>[](status = "paused" /\ ~opening) => <>[]Idle

-----------------------------------------------------------------------------
(* What the documents say and the code does not keep. *)

\* views.py, play: "Start or resume the simulation by launching the Celery
\* tick loop."  A worker may take the task before the request commits.
PlayStartsTicking ==
    (status = "running" /\ currentTick = 0) ~> (currentTick > 0 \/ status # "running")

\* Whitepaper 3.1: re-enqueuing "lets the broker survive worker restarts
\* without losing the simulation".
RestartKeepsLoop == [][crashes' > crashes /\ status = "running" => ~Idle']_vars

=============================================================================
