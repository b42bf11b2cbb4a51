--------------------------- MODULE TickLoopProofs ---------------------------
(***************************************************************************)
(* Proofs about TickLoop, for any agents, any slots and any bounds.        *)
(***************************************************************************)
EXTENDS TickLoop, TLAPS

\* The actions change the state only as they say: unfolding control and
\* history is needed in every step.
LEMMA IncTally == \A n \in Tally : Inc(n) \in Tally /\ Inc(n) > 0
BY DEF Tally, Inc

\* Every reachable state is well typed and a pass in flight has a tick.
THEOREM TypeCorrect == Spec => []TypeOK
<1>1. Init => TypeOK
  <2> SUFFICES ASSUME Init PROVE TypeOK
    OBVIOUS
  <2>1. FreePass \in PassType
    BY BoundsAssumption DEF FreePass, PassType, NoTurns, Phases, TurnStates
  <2>2. pass \in [Slots -> PassType] /\ \A s \in Slots : ~Active(s)
    BY <2>1 DEF Init, FreePass, Active
  <2>3. /\ economyRuns \in [Ticks -> Tally] /\ acted \in [Ticks -> [Agents -> Tally]]
        /\ captured \in [Ticks -> Tally] /\ crisisAt \in [Ticks -> Tally]
    BY DEF Init, Tally
  <2> QED
    <3>1. status \in Statuses /\ currentTick \in 0 .. MaxTick /\ alive \in SUBSET Agents
      BY BoundsAssumption DEF Init, Statuses
    <3>2. opening \in BOOLEAN /\ loopQueue \in Nat
      BY DEF Init
    <3>3. plays \in 0 .. MaxPlays /\ crashes \in 0 .. MaxCrashes
      BY BoundsAssumption DEF Init
    <3> QED
      BY <2>2, <2>3, <3>1, <3>2, <3>3 DEF TypeOK
<1>2. TypeOK /\ [Next]_vars => TypeOK'
  <2> SUFFICES ASSUME TypeOK, [Next]_vars PROVE TypeOK'
    OBVIOUS
  <2> USE BoundsAssumption DEF TypeOK, control, history
  <2>1. CASE PlaySend
    BY <2>1 DEF PlaySend, Active
  <2>2. CASE PlayCommit
    BY <2>2 DEF PlayCommit, Statuses, Active
  <2>3. CASE Pause
    BY <2>3 DEF Pause, Statuses, Active
  <2>4. CASE InjectEvent
    BY <2>4 DEF InjectEvent, Active
  <2>5. CASE LoopStop
    BY <2>5 DEF LoopStop, Active
  <2>6. ASSUME NEW s \in Slots, LoopStart(s) PROVE TypeOK'
    <3>1. loopQueue' \in Nat
      BY <2>6 DEF LoopStart
    <3>2. currentTick + 1 \in 0 .. MaxTick /\ currentTick + 1 > 0
      BY <2>6 DEF LoopStart
    <3>3. [phase |-> "started", tick |-> currentTick + 1, turn |-> NoTurns] \in PassType
      BY <3>2 DEF PassType, Phases, TurnStates, NoTurns
    <3>4. pass' \in [Slots -> PassType] /\ \A u \in Slots : Active(u)' => pass'[u].tick > 0
      BY <2>6, <3>2, <3>3 DEF LoopStart, Active
    <3> QED
      BY <2>6, <3>1, <3>4 DEF LoopStart
  <2>7. ASSUME NEW s \in Slots, RunEconomy(s) PROVE TypeOK'
    <3>1. pass[s].tick \in Ticks
      <4>1. pass[s] \in PassType /\ pass[s].tick > 0
        BY <2>7 DEF RunEconomy, Active
      <4> QED
        BY <4>1 DEF Ticks, PassType
    <3>2. economyRuns' \in [Ticks -> Tally]
      BY <2>7, <3>1, IncTally DEF RunEconomy
    <3>3. pass' \in [Slots -> PassType] /\ \A u \in Slots : Active(u)' => pass'[u].tick > 0
      BY <2>7 DEF RunEconomy, PassType, Phases, Active
    <3> QED
      BY <2>7, <3>2, <3>3 DEF RunEconomy
  <2>8. ASSUME NEW s \in Slots, FanOut(s) PROVE TypeOK'
    <3>1. [a \in Agents |-> IF a \in alive THEN "queued" ELSE "none"] \in [Agents -> TurnStates]
      BY DEF TurnStates
    <3>2. pass' \in [Slots -> PassType] /\ \A u \in Slots : Active(u)' => pass'[u].tick > 0
      <4> DEFINE p == [pass[s] EXCEPT !.phase = IF alive = {} THEN "closing" ELSE "turns",
                                      !.turn = [a \in Agents |-> IF a \in alive THEN "queued" ELSE "none"]]
      <4>1. pass' = [pass EXCEPT ![s] = p]
        BY <2>8 DEF FanOut
      <4>2. p \in PassType /\ p.tick = pass[s].tick
        BY <3>1 DEF PassType, Phases
      <4>3. pass[s].tick > 0
        BY <2>8 DEF FanOut, Active
      <4> HIDE DEF p
      <4> QED
        BY <4>1, <4>2, <4>3 DEF Active
    <3> QED
      BY <2>8, <3>2 DEF FanOut
  <2>9. ASSUME NEW s \in Slots, NEW a \in Agents, TurnStart(s, a) PROVE TypeOK'
    <3>1. pass' \in [Slots -> PassType] /\ \A u \in Slots : Active(u)' => pass'[u].tick > 0
      BY <2>9 DEF TurnStart, PassType, TurnStates, Active
    <3> QED
      BY <2>9, <3>1 DEF TurnStart
  <2>10. ASSUME NEW s \in Slots, NEW a \in Agents,
                TurnReturn(s, a) \/ TurnRedelivered(s, a) \/ TurnLost(s, a)
         PROVE TypeOK'
    <3>1. acted' \in [Ticks -> [Agents -> Tally]]
      <4>1. Apply(s, a)
        BY <2>10 DEF TurnReturn, TurnRedelivered, TurnLost
      <4> DEFINE t == pass[s].tick
                 row == [acted[t] EXCEPT ![a] = Inc(acted[t][a])]
      <4>2. t \in Ticks => row \in [Agents -> Tally]
        BY IncTally
      <4>3. acted' = acted \/ acted' = [acted EXCEPT ![t] = row]
        BY <4>1 DEF Apply
      <4> HIDE DEF t, row
      <4> QED
        BY <4>2, <4>3
    <3>2. PICK r \in {"returned", "queued", "lost"} : pass' = [pass EXCEPT ![s].turn[a] = r]
      BY <2>10 DEF TurnReturn, TurnRedelivered, TurnLost
    <3>3. pass' \in [Slots -> PassType] /\ \A u \in Slots : Active(u)' => pass'[u].tick > 0
      BY <3>2 DEF PassType, TurnStates, Active
    <3>4. crashes' \in 0 .. MaxCrashes
      BY <2>10 DEF TurnReturn, TurnRedelivered, TurnLost
    <3> QED
      BY <2>10, <3>1, <3>3, <3>4 DEF TurnReturn, TurnRedelivered, TurnLost
  <2>11. ASSUME NEW s \in Slots, Finalize(s) PROVE TypeOK'
    BY <2>11 DEF Finalize, PassType, Phases, Active
  <2>12. ASSUME NEW s \in Slots, Capture(s) PROVE TypeOK'
    <3>1. captured' \in [Ticks -> Tally] /\ crisisAt' \in [Ticks -> Tally]
      <4> DEFINE t == pass[s].tick
      <4>1. /\ captured' = [captured EXCEPT ![t] = Inc(captured[t])]
            /\ crisisAt' = crisisAt \/ crisisAt' = [crisisAt EXCEPT ![t] = Inc(crisisAt[t])]
        BY <2>12 DEF Capture
      <4>2. t \in Ticks => Inc(captured[t]) \in Tally /\ Inc(crisisAt[t]) \in Tally
        BY IncTally
      <4> HIDE DEF t
      <4> QED
        BY <4>1, <4>2
    <3>2. pass' \in [Slots -> PassType] /\ \A u \in Slots : Active(u)' => pass'[u].tick > 0
      BY <2>12 DEF Capture, PassType, Phases, Active
    <3> QED
      BY <2>12, <3>1, <3>2 DEF Capture
  <2>13. ASSUME NEW s \in Slots, Advance(s) PROVE TypeOK'
    BY <2>13 DEF Advance, PassType, Phases, Active
  <2>14. ASSUME NEW s \in Slots, Requeue(s) PROVE TypeOK'
    BY <2>14 DEF Requeue, PassType, Phases, FreePass, NoTurns, TurnStates, Active
  <2>15. ASSUME NEW s \in Slots, LoseTask(s) \/ ChordFails(s) PROVE TypeOK'
    <3>1. FreePass \in PassType /\ FreePass.phase = "free"
      BY DEF PassType, Phases, FreePass, NoTurns, TurnStates
    <3>2. pass' = [pass EXCEPT ![s] = FreePass] /\ crashes' \in 0 .. MaxCrashes
      BY <2>15 DEF LoseTask, ChordFails
    <3>3. pass' \in [Slots -> PassType] /\ \A u \in Slots : Active(u)' => pass'[u].tick > 0
      BY <3>1, <3>2 DEF Active
    <3> QED
      BY <2>15, <3>2, <3>3 DEF LoseTask, ChordFails
  <2>16. CASE UNCHANGED vars
    BY <2>16 DEF vars, Active
  <2> QED
    BY <2>1, <2>2, <2>3, <2>4, <2>5, <2>6, <2>7, <2>8, <2>9, <2>10, <2>11, <2>12,
       <2>13, <2>14, <2>15, <2>16 DEF Next, Work, TurnStep
<1> QED
  BY <1>1, <1>2, PTL DEF Spec

-----------------------------------------------------------------------------
(* No hole in the snapshots. *)

\* NoTickGap is inductive once a pass that has captured is known to have left
\* a snapshot for its own tick.
GapInv ==
    /\ NoTickGap
    /\ \A s \in Slots :
        pass[s].phase \in {"captured", "advanced"} => captured[pass[s].tick] > 0

\* Whoever presses play, and whatever crashes, the snapshots have no hole.
THEOREM SnapshotsHaveNoGap == Spec => []NoTickGap
<1>1. Init => GapInv
  BY DEF Init, GapInv, NoTickGap, FreePass
<1>2. TypeOK /\ GapInv /\ [Next]_vars => GapInv'
  <2> SUFFICES ASSUME TypeOK, GapInv, [Next]_vars PROVE GapInv'
    OBVIOUS
  <2> USE DEF GapInv, NoTickGap, control, history
  <2>1. CASE PlaySend \/ PlayCommit \/ Pause \/ InjectEvent \/ LoopStop \/ UNCHANGED vars
    BY <2>1 DEF PlaySend, PlayCommit, Pause, InjectEvent, LoopStop, vars
  <2>2. ASSUME NEW s \in Slots, LoopStart(s) PROVE GapInv'
    BY <2>2, BoundsAssumption DEF LoopStart, TypeOK
  <2>3. ASSUME NEW s \in Slots,
               RunEconomy(s) \/ FanOut(s) \/ Finalize(s)
        PROVE GapInv'
    <3>1. \A u \in Slots : pass'[u].tick = pass[u].tick
      <4>1. CASE RunEconomy(s)
        BY <4>1 DEF RunEconomy, TypeOK, PassType
      <4>2. CASE FanOut(s)
        BY <4>2 DEF FanOut, TypeOK, PassType
      <4>3. CASE Finalize(s)
        BY <4>3 DEF Finalize, TypeOK, PassType
      <4> QED
        BY <2>3, <4>1, <4>2, <4>3
    <3>2. \A u \in Slots : u # s => pass'[u].phase = pass[u].phase
      BY <2>3 DEF RunEconomy, FanOut, Finalize, TypeOK, PassType
    <3>3. pass'[s].phase \in {"economy", "turns", "closing"}
      BY <2>3 DEF RunEconomy, FanOut, Finalize, TypeOK, PassType
    <3>4. captured' = captured /\ currentTick' = currentTick
      BY <2>3 DEF RunEconomy, FanOut, Finalize
    <3> QED
      BY <3>1, <3>2, <3>3, <3>4
  <2>4. ASSUME NEW s \in Slots, NEW a \in Agents,
               \/ TurnStart(s, a) \/ TurnReturn(s, a)
               \/ TurnRedelivered(s, a) \/ TurnLost(s, a)
        PROVE GapInv'
    <3>1. /\ \A u \in Slots : pass'[u].tick = pass[u].tick /\ pass'[u].phase = pass[u].phase
          /\ captured' = captured /\ currentTick' = currentTick
      <4>1. PICK r \in TurnStates : pass' = [pass EXCEPT ![s].turn[a] = r]
        BY <2>4 DEF TurnStart, TurnReturn, TurnRedelivered, TurnLost, TurnStates
      <4>2. captured' = captured /\ currentTick' = currentTick
        BY <2>4 DEF TurnStart, TurnReturn, TurnRedelivered, TurnLost
      <4> QED
        BY <4>1, <4>2 DEF TypeOK, PassType
    <3> QED
      BY <3>1
  <2>5. ASSUME NEW s \in Slots, Capture(s) PROVE GapInv'
    <3>1. pass[s].tick \in Ticks
      BY <2>5 DEF Capture, TypeOK, PassType, Ticks, Active
    <3>2. /\ \A t \in Ticks : captured[t] > 0 => captured'[t] > 0
          /\ captured'[pass[s].tick] > 0
          /\ \A t \in Ticks : t # pass[s].tick => captured'[t] = captured[t]
      BY <2>5, <3>1, IncTally DEF Capture, TypeOK
    <3>3. /\ \A u \in Slots : pass'[u].tick = pass[u].tick
          /\ \A u \in Slots : u # s => pass'[u].phase = pass[u].phase
          /\ currentTick' = currentTick
      BY <2>5 DEF Capture, TypeOK, PassType
    <3>4. /\ currentTick > 0 => currentTick \in Ticks
          /\ \A u \in Slots : /\ pass[u].tick > 1 => pass[u].tick - 1 \in Ticks
                              /\ Active(u) => pass[u].tick \in Ticks
          /\ \A t \in Ticks : t > 1 => t - 1 \in Ticks
      BY BoundsAssumption DEF TypeOK, PassType, Ticks
    <3>5. \A u \in Slots : pass'[u].phase \in {"captured", "advanced"}
                             => captured'[pass'[u].tick] > 0
      BY <3>2, <3>3, <3>4 DEF Active
    <3>6. NoTickGap'
      BY <3>1, <3>2, <3>3, <3>4
    <3> QED
      BY <3>5, <3>6
  <2>6. ASSUME NEW s \in Slots, Advance(s) PROVE GapInv'
    BY <2>6 DEF Advance, TypeOK, PassType
  <2>7. ASSUME NEW s \in Slots, Requeue(s) \/ ChordFails(s) \/ LoseTask(s) PROVE GapInv'
    <3>1. pass' = [pass EXCEPT ![s] = FreePass] /\ captured' = captured
          /\ currentTick' = currentTick
      BY <2>7 DEF Requeue, ChordFails, LoseTask
    <3> QED
      BY <3>1 DEF FreePass, TypeOK
  <2> QED
    BY <2>1, <2>2, <2>3, <2>4, <2>5, <2>6, <2>7 DEF Next, Work, TurnStep
<1> QED
  BY <1>1, <1>2, TypeCorrect, PTL DEF Spec, GapInv

-----------------------------------------------------------------------------
(* One loop, when play is pressed only with nothing in flight. *)

\* The pass in flight works on the tick after currentTick until it has stored
\* its own; no crisis lies beyond that tick.
SerialInv ==
    /\ OneLoop
    /\ CrisisSpacing
    /\ Patient =>
        /\ \A s \in Slots : Active(s) =>
            pass[s].tick = IF pass[s].phase = "advanced" THEN currentTick ELSE currentTick + 1
        /\ \A t \in Ticks : crisisAt[t] > 0 => t <= currentTick + 1

LEMMA SerialInit == Init => SerialInv
BY DEF Init, SerialInv, OneLoop, CrisisSpacing, FreePass, Active

LEMMA SerialStep == TypeOK /\ SerialInv /\ [Next]_vars => SerialInv'
<1> SUFFICES ASSUME TypeOK, SerialInv, [Next]_vars, Patient PROVE SerialInv'
  BY DEF SerialInv, OneLoop, CrisisSpacing
<1> USE DEF SerialInv, OneLoop, Active, control, history
<1>1. CASE PlaySend
  BY <1>1 DEF PlaySend, Idle, CrisisSpacing, TypeOK
<1>2. CASE PlayCommit \/ Pause \/ InjectEvent \/ UNCHANGED vars
  BY <1>2 DEF PlayCommit, Pause, InjectEvent, vars, CrisisSpacing
<1>3. CASE LoopStop
  BY <1>3 DEF LoopStop, CrisisSpacing, TypeOK
<1>4. ASSUME NEW s \in Slots, LoopStart(s) PROVE SerialInv'
  BY <1>4 DEF LoopStart, CrisisSpacing, TypeOK
<1>5. ASSUME NEW s \in Slots, RunEconomy(s) \/ FanOut(s) \/ Finalize(s) PROVE SerialInv'
  <2>1. \A u \in Slots : pass'[u].tick = pass[u].tick
    BY <1>5 DEF RunEconomy, FanOut, Finalize, TypeOK, PassType
  <2>2. \A u \in Slots : u # s => pass'[u].phase = pass[u].phase
    BY <1>5 DEF RunEconomy, FanOut, Finalize, TypeOK, PassType
  <2>3. /\ pass[s].phase \in {"started", "economy", "turns"}
        /\ pass'[s].phase \in {"economy", "turns", "closing"}
    BY <1>5 DEF RunEconomy, FanOut, Finalize, TypeOK, PassType
  <2>4. loopQueue' = loopQueue /\ crisisAt' = crisisAt /\ currentTick' = currentTick
    BY <1>5 DEF RunEconomy, FanOut, Finalize
  <2> QED
    BY <2>1, <2>2, <2>3, <2>4 DEF CrisisSpacing
<1>6. ASSUME NEW s \in Slots, NEW a \in Agents,
             \/ TurnStart(s, a) \/ TurnReturn(s, a)
             \/ TurnRedelivered(s, a) \/ TurnLost(s, a)
      PROVE SerialInv'
  <2>1. \A u \in Slots : pass'[u].tick = pass[u].tick /\ pass'[u].phase = pass[u].phase
    BY <1>6 DEF TurnStart, TurnReturn, TurnRedelivered, TurnLost, TypeOK, PassType
  <2>2. loopQueue' = loopQueue /\ currentTick' = currentTick /\ crisisAt' = crisisAt
    BY <1>6 DEF TurnStart, TurnReturn, TurnRedelivered, TurnLost
  <2> QED
    BY <2>1, <2>2 DEF CrisisSpacing
<1>7. ASSUME NEW s \in Slots, Capture(s) PROVE SerialInv'
  <2> DEFINE t == pass[s].tick
  <2>1. t \in Ticks /\ t = currentTick + 1
    BY <1>7 DEF Capture, TypeOK, PassType, Ticks
  <2>2. \A u \in Ticks : u # t => crisisAt'[u] = crisisAt[u]
    BY <1>7 DEF Capture, TypeOK
  <2>3. crisisAt'[t] > 0 => crisisAt[t] > 0 \/ ~OnCooldown(t)
    BY <1>7 DEF Capture, TypeOK
  <2>4. CrisisSpacing'
    <3>1. \A u \in Ticks : u < t /\ crisisAt'[t] > 0 /\ crisisAt[u] > 0 => t - u > Cooldown
      BY <2>1, <2>3, BoundsAssumption DEF CrisisSpacing, OnCooldown, Ticks
    <3>2. \A u \in Ticks : crisisAt[u] > 0 => u <= t
      BY <2>1
    <3> HIDE DEF t
    <3> QED
      BY <2>1, <2>2, <3>1, <3>2 DEF CrisisSpacing, Ticks
  <2>5. /\ loopQueue' = loopQueue /\ currentTick' = currentTick
        /\ \A u \in Slots : pass'[u].tick = pass[u].tick
        /\ \A u \in Slots : u # s => pass'[u].phase = pass[u].phase
        /\ pass[s].phase = "closing" /\ pass'[s].phase = "captured"
    BY <1>7 DEF Capture, TypeOK, PassType
  <2>6. \A u \in Ticks : crisisAt'[u] > 0 => u <= currentTick' + 1
    BY <2>1, <2>2, <2>5 DEF TypeOK, Ticks
  <2> HIDE DEF t
  <2> QED
    BY <2>4, <2>5, <2>6
<1>8. ASSUME NEW s \in Slots, Advance(s) PROVE SerialInv'
  BY <1>8, BoundsAssumption DEF Advance, CrisisSpacing, TypeOK, PassType, Ticks
<1>9. ASSUME NEW s \in Slots, Requeue(s) PROVE SerialInv'
  <2>1. loopQueue = 0 /\ \A u \in Slots : u # s => ~Active(u)
    BY <1>9 DEF Requeue, TypeOK
  <2>2. pass' = [pass EXCEPT ![s] = FreePass] /\ loopQueue' \in {0, 1}
        /\ crisisAt' = crisisAt /\ currentTick' = currentTick
    BY <1>9, <2>1 DEF Requeue
  <2>3. \A u \in Slots : ~Active(u)'
    BY <2>1, <2>2 DEF FreePass, TypeOK
  <2> QED
    BY <2>2, <2>3 DEF CrisisSpacing
<1>10. ASSUME NEW s \in Slots, LoseTask(s) \/ ChordFails(s) PROVE SerialInv'
  <2>1. /\ pass' = [pass EXCEPT ![s] = FreePass] /\ loopQueue' = loopQueue
        /\ crisisAt' = crisisAt /\ currentTick' = currentTick
    BY <1>10 DEF LoseTask, ChordFails
  <2>2. /\ ~Active(s)' /\ \A u \in Slots : u # s => pass'[u] = pass[u]
    BY <2>1 DEF FreePass, TypeOK
  <2> QED
    BY <2>1, <2>2 DEF CrisisSpacing
<1> QED
  BY <1>1, <1>2, <1>3, <1>4, <1>5, <1>6, <1>7, <1>8, <1>9, <1>10 DEF Next, Work, TurnStep

LEMMA SerialCorrect == Spec => []SerialInv
BY SerialInit, SerialStep, TypeCorrect, PTL DEF Spec

\* Someone who presses play only with nothing in flight never gets two loops,
\* whichever workers die.
THEOREM OneLoopOnly == Spec => []OneLoop
<1>1. SerialInv => OneLoop
  BY DEF SerialInv
<1> QED
  BY <1>1, SerialCorrect, PTL

\* With one loop, crises of one type keep their distance.
THEOREM CrisesKeepTheirDistance == Spec => []CrisisSpacing
<1>1. SerialInv => CrisisSpacing
  BY DEF SerialInv
<1> QED
  BY <1>1, SerialCorrect, PTL

\* With one loop the tick counter moves by one or not at all.
THEOREM TicksComeInOrder == Spec => TickStepsByOne
<1>1. TypeOK /\ SerialInv /\ [Next]_vars
        => [Patient => currentTick' \in {currentTick, currentTick + 1}]_vars
  <2> SUFFICES ASSUME TypeOK, SerialInv, Next, Patient
               PROVE currentTick' \in {currentTick, currentTick + 1}
    BY DEF vars
  <2>1. ASSUME NEW s \in Slots, Advance(s) PROVE currentTick' = currentTick + 1
    BY <2>1 DEF Advance, SerialInv, Active
  <2>2. ASSUME NEW s \in Slots, Work(s), ~Advance(s) PROVE currentTick' = currentTick
    BY <2>2 DEF Work, LoopStart, RunEconomy, FanOut, TurnStep, TurnStart, TurnReturn,
                Finalize, ChordFails, Capture, Requeue
  <2>3. CASE PlaySend \/ PlayCommit \/ Pause \/ InjectEvent \/ LoopStop
    BY <2>3 DEF PlaySend, PlayCommit, Pause, InjectEvent, LoopStop
  <2>4. ASSUME NEW s \in Slots,
               LoseTask(s) \/ \E a \in Agents : TurnRedelivered(s, a) \/ TurnLost(s, a)
        PROVE currentTick' = currentTick
    BY <2>4 DEF LoseTask, TurnRedelivered, TurnLost
  <2> QED
    BY <2>1, <2>2, <2>3, <2>4 DEF Next
<1> QED
  BY <1>1, TypeCorrect, SerialCorrect, PTL DEF Spec, TickStepsByOne

-----------------------------------------------------------------------------
(* The loop implements SerialTicks. *)

Begun == {"economy", "turns", "closing", "captured"}

\* Nothing has happened at t.
Fresh(t) ==
    economyRuns[t] = 0 /\ captured[t] = 0 /\ \A a \in Agents : acted[t][a] = 0

\* What a pass that has not been closed leaves at its tick, and which turns it
\* still has; while no worker dies none is lost.
PassInv(p) ==
    /\ \A a \in Agents : p.turn[a] # "lost"
    /\ p.phase \in {"free", "started", "economy"} => \A a \in Agents : p.turn[a] = "none"
    /\ p.phase \in {"closing", "captured", "advanced"} =>
        \A a \in Agents : p.turn[a] \in {"none", "returned"}
    /\ p.phase \in {"economy", "turns", "closing"} =>
        /\ captured[p.tick] = 0
        /\ \A a \in Agents : p.turn[a] # "returned" => acted[p.tick][a] = 0

\* Nothing has happened at the ticks to come, and at the next one only what
\* the pass in flight has done.
WholeInv ==
    /\ \A t \in Ticks : t > currentTick + 1 => Fresh(t)
    /\ (\A s \in Slots : pass[s].phase \notin Begun) =>
        \A t \in Ticks : t = currentTick + 1 => Fresh(t)
    /\ \A s \in Slots : PassInv(pass[s])

LEMMA StageOfNone ==
    ASSUME \A s \in Slots : pass[s].phase \notin Begun PROVE Stage = "economy"
BY DEF Stage, Begun

LEMMA WholeInit == Init => WholeInv /\ Serial!Init
<1> SUFFICES ASSUME Init PROVE WholeInv /\ Serial!Init
  OBVIOUS
<1>1. /\ \A s \in Slots : pass[s].phase = "free" /\ \A a \in Agents : pass[s].turn[a] = "none"
      /\ \A t \in Ticks : Fresh(t)
  BY DEF Init, FreePass, NoTurns, Fresh
<1>2. WholeInv
  BY <1>1 DEF WholeInv, PassInv
<1>3. Stage = "economy"
  BY <1>1, StageOfNone DEF Begun
<1> QED
  BY <1>2, <1>3 DEF Init, Serial!Init, Serial!Ticks, Ticks

\* What is known of the pass in flight.
LEMMA OnlyPass ==
    ASSUME Patient, TypeOK, SerialInv, WholeInv, NEW s \in Slots, Active(s)
    PROVE /\ pass[s] \in PassType /\ pass[s].tick \in Ticks /\ PassInv(pass[s])
          /\ pass[s].tick = IF pass[s].phase = "advanced" THEN currentTick ELSE currentTick + 1
          /\ \A u \in Slots : u # s => pass[u].phase = "free"
<1>1. pass[s] \in PassType /\ pass[s].tick > 0
  BY DEF TypeOK
<1>2. pass[s].tick \in Ticks
  BY <1>1, BoundsAssumption DEF PassType, Ticks
<1> QED
  BY <1>1, <1>2 DEF SerialInv, OneLoop, WholeInv, Active

\* A step of the pass in flight that leaves the counters of its tick alone.
LEMMA QuietStep ==
    ASSUME Patient, TypeOK, SerialInv, WholeInv, NEW s \in Slots, Active(s),
           UNCHANGED <<currentTick, economyRuns, acted, captured>>,
           NEW p, pass' = [pass EXCEPT ![s] = p], PassInv(p),
           p.phase \in Begun <=> pass[s].phase \in Begun,
           p.phase = "captured" <=> pass[s].phase = "captured"
    PROVE WholeInv' /\ UNCHANGED Serial!vars
<1>1. /\ \A u \in Slots : u # s => pass'[u] = pass[u] /\ pass[u].phase = "free"
      /\ pass'[s] = p
  BY OnlyPass DEF TypeOK
<1>2. WholeInv'
  <2>1. (\A t \in Ticks : t > currentTick + 1 => Fresh(t))'
    BY DEF WholeInv, Fresh
  <2>2. (\A u \in Slots : pass[u].phase \notin Begun)' => \A u \in Slots : pass[u].phase \notin Begun
    BY <1>1
  <2>3. \A u \in Slots : PassInv(pass[u])'
    BY <1>1 DEF WholeInv, PassInv
  <2> QED
    BY <2>1, <2>2, <2>3 DEF WholeInv, Fresh
<1>3. Stage' = Stage
  BY <1>1 DEF Stage, Begun
<1> QED
  BY <1>2, <1>3 DEF Serial!vars

\* Every step is a step of SerialTicks or changes nothing it sees.
LEMMA SerialSimulation ==
    ASSUME Patient, MaxCrashes = 0, TypeOK, SerialInv, WholeInv, [Next]_vars
    PROVE WholeInv' /\ [Serial!Next]_Serial!vars
<1> USE DEF control, history
<1> SUFFICES WholeInv' /\ (Serial!Next \/ UNCHANGED Serial!vars)
  OBVIOUS
<1>1. CASE PlaySend \/ PlayCommit \/ Pause \/ InjectEvent \/ LoopStop \/ UNCHANGED vars
  <2>1. UNCHANGED <<currentTick, pass, economyRuns, acted, captured>>
    BY <1>1 DEF PlaySend, PlayCommit, Pause, InjectEvent, LoopStop, vars
  <2> QED
    BY <2>1 DEF WholeInv, Fresh, PassInv, Serial!vars, Stage
<1>2. ASSUME NEW s \in Slots, LoopStart(s) PROVE WholeInv' /\ UNCHANGED Serial!vars
  <2>1. \A u \in Slots : pass[u].phase = "free"
    BY <1>2 DEF LoopStart, SerialInv, OneLoop, Active, TypeOK
  <2>2. /\ UNCHANGED <<currentTick, economyRuns, acted, captured>>
        /\ \A u \in Slots : u # s => pass'[u] = pass[u]
        /\ pass'[s].phase = "started" /\ \A a \in Agents : pass'[s].turn[a] = "none"
    BY <1>2 DEF LoopStart, NoTurns, TypeOK
  <2>3. Stage = "economy" /\ Stage' = "economy"
    BY <2>1, <2>2 DEF Stage
  <2> QED
    BY <2>1, <2>2, <2>3 DEF WholeInv, Fresh, PassInv, Begun, Serial!vars
<1>3. ASSUME NEW s \in Slots, RunEconomy(s) PROVE WholeInv' /\ Serial!Economy
  <2> DEFINE t == pass[s].tick
  <2>1. /\ t \in Ticks /\ t = currentTick + 1 /\ PassInv(pass[s])
        /\ \A u \in Slots : u # s => pass[u].phase = "free"
    BY <1>3, OnlyPass DEF RunEconomy, Active
  <2>2. Fresh(t)
    BY <1>3, <2>1 DEF RunEconomy, WholeInv, Begun
  <2>3. /\ pass' = [pass EXCEPT ![s].phase = "economy"]
        /\ economyRuns' = [economyRuns EXCEPT ![t] = 1]
        /\ UNCHANGED <<currentTick, acted, captured>>
    BY <1>3, <2>1, <2>2 DEF RunEconomy, Fresh, Inc, TypeOK
  <2>4. /\ \A u \in Slots : u # s => pass'[u] = pass[u]
        /\ pass'[s].phase = "economy" /\ pass'[s].tick = t /\ pass'[s].turn = pass[s].turn
    BY <2>3 DEF TypeOK, PassType
  <2>5. Stage = "economy" /\ Stage' = "agents"
    BY <1>3, <2>1, <2>4 DEF RunEconomy, Stage
  <2>6. WholeInv'
    <3>1. (\A n \in Ticks : n > currentTick + 1 => Fresh(n))'
      BY <2>1, <2>3 DEF WholeInv, Fresh, TypeOK
    <3>2. PassInv(pass[s])'
      BY <1>3, <2>1, <2>2, <2>3, <2>4 DEF RunEconomy, PassInv, Fresh
    <3>3. \A u \in Slots : u # s => PassInv(pass[u])'
      BY <2>1, <2>3, <2>4 DEF WholeInv, PassInv
    <3> QED
      BY <2>4, <3>1, <3>2, <3>3 DEF WholeInv, Begun
  <2>7. Serial!Economy
    <3>1. currentTick < MaxTick
      BY <2>1, BoundsAssumption DEF TypeOK, Ticks
    <3> QED
      BY <2>1, <2>2, <2>3, <2>5, <3>1 DEF Serial!Economy, Fresh
  <2> QED
    BY <2>6, <2>7
<1>4. ASSUME NEW s \in Slots, FanOut(s) \/ Finalize(s) PROVE WholeInv' /\ UNCHANGED Serial!vars
  <2>1. /\ pass[s] \in PassType /\ PassInv(pass[s]) /\ Active(s)
    BY <1>4, OnlyPass DEF FanOut, Finalize, Active
  <2>2. UNCHANGED <<currentTick, economyRuns, acted, captured>>
    BY <1>4 DEF FanOut, Finalize
  <2>3. PICK p : /\ pass' = [pass EXCEPT ![s] = p] /\ PassInv(p)
                 /\ p.phase \in {"turns", "closing"}
    <3>1. CASE FanOut(s)
      <4> DEFINE p == [pass[s] EXCEPT !.phase = IF alive = {} THEN "closing" ELSE "turns",
                                      !.turn = [a \in Agents |-> IF a \in alive THEN "queued" ELSE "none"]]
      <4>1. pass' = [pass EXCEPT ![s] = p]
        BY <3>1 DEF FanOut, TypeOK
      <4>2. /\ p.phase = (IF alive = {} THEN "closing" ELSE "turns") /\ p.tick = pass[s].tick
            /\ \A a \in Agents : p.turn[a] = IF a \in alive THEN "queued" ELSE "none"
        BY <2>1 DEF PassType
      <4> HIDE DEF p
      <4>3. PassInv(p)
        BY <2>1, <3>1, <4>2 DEF FanOut, PassInv
      <4> QED
        BY <4>1, <4>2, <4>3
    <3>2. CASE Finalize(s)
      <4> DEFINE p == [pass[s] EXCEPT !.phase = "closing"]
      <4>1. pass' = [pass EXCEPT ![s] = p]
        BY <3>2 DEF Finalize, TypeOK
      <4>2. p.phase = "closing" /\ p.tick = pass[s].tick /\ p.turn = pass[s].turn
        BY <2>1 DEF PassType
      <4> HIDE DEF p
      <4>3. PassInv(p)
        BY <2>1, <3>2, <4>2 DEF Finalize, PassInv
      <4> QED
        BY <4>1, <4>2, <4>3
    <3> QED
      BY <1>4, <3>1, <3>2
  <2>4. pass[s].phase \in {"economy", "turns"}
    BY <1>4 DEF FanOut, Finalize
  <2> QED
    BY <2>1, <2>2, <2>3, <2>4, QuietStep DEF Begun
<1>5. ASSUME NEW s \in Slots, NEW a \in Agents, TurnStart(s, a)
      PROVE WholeInv' /\ UNCHANGED Serial!vars
  <2>1. /\ pass[s] \in PassType /\ PassInv(pass[s]) /\ Active(s)
    BY <1>5, OnlyPass DEF TurnStart, Active, WholeInv, PassInv
  <2> DEFINE p == [pass[s] EXCEPT !.turn[a] = IF a \in alive THEN "acting" ELSE "returned"]
  <2>2. UNCHANGED <<currentTick, economyRuns, acted, captured>> /\ pass' = [pass EXCEPT ![s] = p]
    BY <1>5 DEF TurnStart, TypeOK
  <2>3. /\ p.phase = pass[s].phase /\ p.tick = pass[s].tick
        /\ \A b \in Agents : b # a => p.turn[b] = pass[s].turn[b]
        /\ pass[s].turn[a] = "queued" /\ p.turn[a] \in {"acting", "returned"}
    BY <1>5, <2>1 DEF TurnStart, PassType
  <2>4. PassInv(p)
    <3> HIDE DEF p
    <3> QED
      BY <2>1, <2>3 DEF PassInv
  <2> HIDE DEF p
  <2> QED
    BY <2>1, <2>2, <2>3, <2>4, QuietStep
<1>6. ASSUME NEW s \in Slots, NEW a \in Agents, TurnReturn(s, a)
      PROVE WholeInv' /\ (Serial!Act(a) \/ UNCHANGED Serial!vars)
  <2> DEFINE t == pass[s].tick
  <2>1. Active(s)
    BY <1>6 DEF TurnReturn, Active, WholeInv, PassInv
  <2>2. /\ pass[s] \in PassType /\ t \in Ticks /\ PassInv(pass[s])
        /\ pass[s].phase = "turns" /\ t = currentTick + 1
        /\ \A u \in Slots : u # s => pass[u].phase = "free"
    <3>1. pass[s] \in PassType /\ PassInv(pass[s])
      BY <2>1, OnlyPass
    <3>2. pass[s].phase = "turns"
      BY <1>6, <3>1 DEF TurnReturn, PassInv, PassType, Phases
    <3> QED
      BY <2>1, <3>1, <3>2, OnlyPass
  <2>3. acted[t][a] = 0 /\ captured[t] = 0
    BY <1>6, <2>2 DEF TurnReturn, PassInv
  <2>4. /\ pass' = [pass EXCEPT ![s].turn[a] = "returned"]
        /\ UNCHANGED <<currentTick, economyRuns, captured>>
        /\ acted' = [acted EXCEPT ![t][a] = 1] \/ acted' = acted
    BY <1>6, <2>3 DEF TurnReturn, Apply, Inc
  <2>5. /\ \A u \in Slots : u # s => pass'[u] = pass[u]
        /\ pass'[s].phase = "turns" /\ pass'[s].tick = t
        /\ \A b \in Agents : pass'[s].turn[b] = IF b = a THEN "returned" ELSE pass[s].turn[b]
    BY <2>2, <2>4 DEF TypeOK, PassType
  <2>6. /\ \A n \in Ticks : n # t => acted'[n] = acted[n]
        /\ \A b \in Agents : b # a => acted'[t][b] = acted[t][b]
    <3> HIDE DEF t
    <3> QED
      BY <2>4 DEF TypeOK
  <2>7. Stage = "agents" /\ Stage' = "agents"
    BY <2>2, <2>5 DEF Stage
  <2>8. WholeInv'
    <3>1. (\A n \in Ticks : n > currentTick + 1 => Fresh(n))'
      BY <2>2, <2>4, <2>6 DEF WholeInv, Fresh, Ticks
    <3>2. PassInv(pass[s])'
      BY <2>2, <2>3, <2>4, <2>5, <2>6 DEF PassInv
    <3>3. \A u \in Slots : u # s => PassInv(pass[u])'
      BY <2>2, <2>5 DEF WholeInv, PassInv
    <3> QED
      BY <2>5, <3>1, <3>2, <3>3 DEF WholeInv, Begun
  <2>9. Serial!Act(a) \/ UNCHANGED Serial!vars
    BY <2>2, <2>3, <2>4, <2>7 DEF Serial!Act, Serial!vars
  <2> QED
    BY <2>8, <2>9
<1>7. ASSUME NEW s \in Slots, Capture(s) PROVE WholeInv' /\ Serial!Capture
  <2> DEFINE t == pass[s].tick
  <2>1. /\ pass[s] \in PassType /\ t \in Ticks /\ PassInv(pass[s]) /\ t = currentTick + 1
        /\ \A u \in Slots : u # s => pass[u].phase = "free"
    BY <1>7, OnlyPass DEF Capture, Active
  <2>2. captured[t] = 0 /\ pass[s].phase = "closing"
    BY <1>7, <2>1 DEF Capture, PassInv
  <2>3. /\ pass' = [pass EXCEPT ![s].phase = "captured"]
        /\ captured' = [captured EXCEPT ![t] = 1]
        /\ UNCHANGED <<currentTick, acted, economyRuns>>
    BY <1>7, <2>2 DEF Capture, Inc
  <2>4. /\ \A u \in Slots : u # s => pass'[u] = pass[u]
        /\ pass'[s].phase = "captured" /\ pass'[s].turn = pass[s].turn
    BY <2>1, <2>3 DEF TypeOK, PassType
  <2>5. Stage = "agents" /\ Stage' = "captured"
    BY <2>1, <2>2, <2>4 DEF Stage
  <2>6. WholeInv'
    <3>1. (\A n \in Ticks : n > currentTick + 1 => Fresh(n))'
      BY <2>1, <2>3 DEF WholeInv, Fresh, Ticks, TypeOK
    <3>2. PassInv(pass[s])'
      BY <2>1, <2>2, <2>4 DEF PassInv
    <3>3. \A u \in Slots : u # s => PassInv(pass[u])'
      BY <2>1, <2>4 DEF WholeInv, PassInv
    <3> QED
      BY <2>4, <3>1, <3>2, <3>3 DEF WholeInv, Begun
  <2>7. Serial!Capture
    BY <2>1, <2>2, <2>3, <2>5 DEF Serial!Capture
  <2> QED
    BY <2>6, <2>7
<1>8. ASSUME NEW s \in Slots, Advance(s) PROVE WholeInv' /\ Serial!Advance
  <2>1. /\ pass[s] \in PassType /\ PassInv(pass[s]) /\ pass[s].tick = currentTick + 1
        /\ \A u \in Slots : u # s => pass[u].phase = "free"
    BY <1>8, OnlyPass DEF Advance, Active
  <2>2. /\ pass' = [pass EXCEPT ![s].phase = "advanced"] /\ currentTick' = currentTick + 1
        /\ UNCHANGED <<acted, economyRuns, captured>>
    BY <1>8, <2>1 DEF Advance
  <2>3. /\ \A u \in Slots : u # s => pass'[u] = pass[u]
        /\ pass'[s].phase = "advanced" /\ pass'[s].turn = pass[s].turn
    BY <2>1, <2>2 DEF TypeOK, PassType
  <2>4. Stage = "captured" /\ Stage' = "economy"
    BY <1>8, <2>1, <2>3 DEF Advance, Stage
  <2>5. WholeInv'
    <3>1. (\A n \in Ticks : n > currentTick => Fresh(n))'
      BY <2>2 DEF WholeInv, Fresh, Ticks, TypeOK
    <3>2. \A u \in Slots : PassInv(pass[u])'
      BY <1>8, <2>1, <2>3 DEF Advance, WholeInv, PassInv
    <3> QED
      BY <2>2, <3>1, <3>2 DEF WholeInv, TypeOK, Ticks
  <2> QED
    BY <2>2, <2>4, <2>5 DEF Serial!Advance
<1>9. ASSUME NEW s \in Slots, Requeue(s) PROVE WholeInv' /\ UNCHANGED Serial!vars
  <2>1. Active(s) /\ pass[s].phase = "advanced"
    BY <1>9 DEF Requeue, Active
  <2>2. PassInv(FreePass) /\ FreePass.phase = "free"
    BY DEF PassInv, FreePass, NoTurns
  <2>3. UNCHANGED <<currentTick, economyRuns, acted, captured>>
        /\ pass' = [pass EXCEPT ![s] = FreePass]
    BY <1>9 DEF Requeue
  <2> QED
    BY <2>1, <2>2, <2>3, QuietStep DEF Begun
<1>10. ASSUME NEW s \in Slots
       PROVE /\ ~LoseTask(s) /\ ~ChordFails(s)
             /\ \A a \in Agents : ~TurnRedelivered(s, a) /\ ~TurnLost(s, a)
  BY DEF LoseTask, ChordFails, TurnRedelivered, TurnLost, TypeOK, WholeInv, PassInv
<1> QED
  BY <1>1, <1>2, <1>3, <1>4, <1>5, <1>6, <1>7, <1>8, <1>9, <1>10
     DEF Next, Work, TurnStep, Serial!Next

\* With one loop and no worker dying, the loop implements SerialTicks: a tick
\* is whole, and they come in order.
THEOREM LoopImplementsSerialTicks ==
    ASSUME Patient, MaxCrashes = 0 PROVE Spec => ImplementsSerialTicks
<1>1. Init => WholeInv /\ Serial!Init
  BY WholeInit
<1>2. TypeOK /\ SerialInv /\ WholeInv /\ [Next]_vars => WholeInv' /\ [Serial!Next]_Serial!vars
  BY SerialSimulation
<1> QED
  BY <1>1, <1>2, TypeCorrect, SerialCorrect, PTL DEF Spec, ImplementsSerialTicks, Serial!Spec

=============================================================================
