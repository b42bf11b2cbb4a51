------------------------------ MODULE PolityProofs ------------------------------
(***************************************************************************)
(* Proofs about Politics, for any agents, groups, bounds and failures.     *)
(*                                                                         *)
(* The history of a government is one chain: what counts is that a         *)
(* transition stamps its row with the tick before and a coup, which comes  *)
(* later in the cycle, with the tick that runs.                            *)
(***************************************************************************)
EXTENDS Politics, FiniteLemmas, TLAPS

\* Each row ends where the next begins, and the last is open.
Chained(h) ==
    /\ \A i \in 1 .. Len(h) - 1 : h[i].to = h[i + 1].from
    /\ h # << >> => Last(h).to = Open

\* The last row, if there is one, is the regime g.
InForce(g, h) == h # << >> => Last(h).type = g.type /\ Last(h).from = g.formed

\* No row ends before it begins, and the last has begun by t.
Forward(h, t) ==
    /\ \A i \in 1 .. Len(h) - 1 : h[i].from <= h[i].to
    /\ h # << >> => Last(h).from <= t

GovFields == {"type", "head", "ruling", "formed", "lastElection", "stable"}

\* A regime with its history, whose rows have begun by t unless a tick failed.
RegimeInv(g, h, t) ==
    /\ DOMAIN g = GovFields /\ g.type \in Types
    /\ h \in Seq(Row) /\ Chained(h) /\ InForce(g, h)
    /\ failures = 0 => Forward(h, t)

HistInv ==
    /\ tick \in Nat \ {0} /\ failures \in Nat
    /\ RegimeInv(gov, history, IF stage = "closing" THEN tick ELSE tick - 1)

LEMMA TransitionsAreTypes == \A type \in Types : Transitions(type) \subseteq Types
BY DEF Transitions, Types

LEMMA LaterIsForward ==
    ASSUME NEW h \in Seq(Row), NEW t \in Nat \ {0}, Forward(h, t - 1) PROVE Forward(h, t)
<1>1. ASSUME h # << >> PROVE Last(h).from <= t
  <2>1. Len(h) \in 1 .. Len(h)
    BY <1>1
  <2>2. h[Len(h)] \in Row
    BY <2>1
  <2>3. Last(h).from \in Nat
    BY <2>2 DEF Row, Last
  <2> QED
    BY <1>1, <2>3 DEF Forward
<1> QED
  BY <1>1 DEF Forward

\* n continues the chain h with a row of that type, begun at t and still open.
Continues(n, h, type, t) ==
    /\ n \in Seq(Row) /\ Chained(n) /\ n # << >>
    /\ Last(n).type = type /\ Last(n).from = t
    /\ Forward(h, t) => Forward(n, t)

\* What a new row does to a chain.
LEMMA NewRowStep ==
    ASSUME NEW h \in Seq(Row), Chained(h), NEW type \in Types, NEW t \in Nat,
           NEW cause \in {"indicator_threshold", "coup"}
    PROVE Continues(NewRow(h, type, t, cause), h, type, t)
<1> DEFINE n == NewRow(h, type, t, cause)
           row == [type |-> type, from |-> t, to |-> Open, cause |-> cause]
           c == Close(h, t)
<1>1. row \in Row /\ row.type = type /\ row.from = t /\ row.to = Open
  BY DEF Row
<1>2. /\ c \in Seq(Row) /\ Len(c) = Len(h)
      /\ \A i \in 1 .. Len(h) : c[i] = IF h[i].to = Open THEN [h[i] EXCEPT !.to = t] ELSE h[i]
  <2>1. c = [i \in 1 .. Len(h) |-> IF h[i].to = Open THEN [h[i] EXCEPT !.to = t] ELSE h[i]]
    BY DEF Close
  <2>2. ASSUME NEW i \in 1 .. Len(h) PROVE h[i] \in Row /\ [h[i] EXCEPT !.to = t] \in Row
    <3>1. h[i] \in Row
      OBVIOUS
    <3> QED
      BY <3>1 DEF Row
  <2> HIDE DEF c
  <2> QED
    BY <2>1, <2>2
<1>3. ASSUME NEW i \in 1 .. Len(h)
      PROVE /\ c[i].from = h[i].from
            /\ c[i].to = IF i = Len(h) THEN t ELSE h[i].to
  <2>1. h[i] \in Row
    OBVIOUS
  <2>2. CASE i = Len(h)
    <3>1. h[i].to = Open
      BY <2>2 DEF Chained, Last
    <3>2. c[i] = [h[i] EXCEPT !.to = t]
      BY <1>2, <3>1
    <3> QED
      BY <2>1, <2>2, <3>2 DEF Row
  <2>3. CASE i # Len(h)
    <3>1. i \in 1 .. Len(h) - 1 /\ i + 1 \in 1 .. Len(h)
      BY <2>3
    <3>2. h[i].to = h[i + 1].from /\ h[i + 1] \in Row
      BY <3>1 DEF Chained
    <3>3. h[i].to # Open
      BY <3>2 DEF Row, Open
    <3> QED
      BY <1>2, <2>3, <3>3
  <2> QED
    BY <2>2, <2>3
<1>4. n = Append(c, row)
  BY DEF NewRow
<1> HIDE DEF c, row, n
<1>5. /\ n \in Seq(Row) /\ Len(n) = Len(h) + 1 /\ n # << >> /\ Last(n) = row
      /\ \A i \in 1 .. Len(h) : n[i] = c[i]
  BY <1>1, <1>2, <1>4 DEF Last
<1>6. Chained(n)
  <2>1. ASSUME NEW i \in 1 .. Len(n) - 1 PROVE n[i].to = n[i + 1].from
    <3>1. i \in 1 .. Len(h)
      BY <1>5
    <3>2. CASE i = Len(h)
      BY <1>1, <1>3, <1>5, <3>1, <3>2 DEF Last
    <3>3. CASE i # Len(h)
      <4>1. i + 1 \in 1 .. Len(h) /\ i \in 1 .. Len(h) - 1
        BY <3>1, <3>3
      <4> QED
        BY <1>3, <1>5, <3>1, <3>3, <4>1 DEF Chained
    <3> QED
      BY <3>2, <3>3
  <2> QED
    BY <1>1, <1>5, <2>1 DEF Chained
<1>7. ASSUME Forward(h, t) PROVE Forward(n, t)
  <2>1. ASSUME NEW i \in 1 .. Len(n) - 1 PROVE n[i].from <= n[i].to
    <3>1. i \in 1 .. Len(h) /\ n[i].from = h[i].from
      BY <1>3, <1>5
    <3>2. CASE i = Len(h)
      <4>1. h # << >> /\ Last(h).from <= t
        BY <1>7, <3>1 DEF Forward
      <4> QED
        BY <1>3, <1>5, <3>1, <3>2, <4>1 DEF Last
    <3>3. CASE i # Len(h)
      <4>1. i \in 1 .. Len(h) - 1
        BY <3>1, <3>3
      <4> QED
        BY <1>3, <1>5, <1>7, <3>1, <3>3, <4>1 DEF Forward
    <3> QED
      BY <3>2, <3>3
  <2> QED
    BY <1>1, <1>5, <2>1 DEF Forward
<1>8. Continues(n, h, type, t)
  BY <1>1, <1>5, <1>6, <1>7 DEF Continues
<1> QED
  BY <1>8 DEF n

\* A regime that follows another: a transition, an election, a coup.
LEMMA TransitionStep ==
    ASSUME NEW r, tick \in Nat \ {0}, RegimeInv(r.gov, r.history, tick - 1),
           NEW s \in Transitioned(r)
    PROVE RegimeInv(s.gov, s.history, tick - 1)
<1>1. PICK type \in Transitions(r.gov.type) :
        s = Regime([r.gov EXCEPT !.type = type, !.formed = tick - 1],
                   NewRow(r.history, type, tick - 1, "indicator_threshold"))
  BY DEF Transitioned
<1>2. type \in Types /\ tick - 1 \in Nat
  BY TransitionsAreTypes DEF RegimeInv
<1>3. /\ s.gov = [r.gov EXCEPT !.type = type, !.formed = tick - 1]
      /\ s.history = NewRow(r.history, type, tick - 1, "indicator_threshold")
  BY <1>1 DEF Regime
<1>4. DOMAIN s.gov = GovFields /\ s.gov.type = type /\ s.gov.formed = tick - 1
  BY <1>3 DEF RegimeInv, GovFields
<1>5. Continues(s.history, r.history, type, tick - 1)
  <2>1. r.history \in Seq(Row) /\ Chained(r.history)
    BY DEF RegimeInv
  <2>2. Continues(NewRow(r.history, type, tick - 1, "indicator_threshold"),
                  r.history, type, tick - 1)
    BY <1>2, <2>1, NewRowStep
  <2> QED
    BY <1>3, <2>2
<1> QED
  BY <1>2, <1>4, <1>5 DEF Continues, RegimeInv, InForce

LEMMA ElectionStep ==
    ASSUME NEW r, RegimeInv(r.gov, r.history, tick - 1), DOMAIN r = {"gov", "history"},
           NEW s \in Elected(r)
    PROVE RegimeInv(s.gov, s.history, tick - 1)
<1>1. CASE s = r
  BY <1>1
<1>2. ASSUME NEW a \in Leaders,
             s = [r EXCEPT !.gov.head = a, !.gov.ruling = group[a], !.gov.lastElection = tick]
      PROVE RegimeInv(s.gov, s.history, tick - 1)
  <2>1. s.history = r.history
    BY <1>2
  <2>2. /\ DOMAIN s.gov = GovFields /\ s.gov.type = r.gov.type /\ s.gov.formed = r.gov.formed
    BY <1>2 DEF RegimeInv, GovFields
  <2> QED
    BY <2>1, <2>2 DEF RegimeInv, InForce
<1> QED
  BY <1>1, <1>2 DEF Elected

LEMMA CoupStep ==
    ASSUME NEW r, tick \in Nat \ {0}, RegimeInv(r.gov, r.history, tick - 1),
           NEW s \in Overthrown(r)
    PROVE RegimeInv(s.gov, s.history, tick)
<1>1. PICK f \in Plotters(r.gov) :
        s = Regime([r.gov EXCEPT !.type = "autocracy", !.formed = tick,
                                 !.head = leader[f], !.ruling = f],
                   NewRow(r.history, "autocracy", tick, "coup"))
  BY DEF Overthrown
<1>2. /\ s.gov = [r.gov EXCEPT !.type = "autocracy", !.formed = tick,
                               !.head = leader[f], !.ruling = f]
      /\ s.history = NewRow(r.history, "autocracy", tick, "coup")
  BY <1>1 DEF Regime
<1>3. /\ DOMAIN s.gov = GovFields /\ s.gov.type = "autocracy" /\ s.gov.formed = tick
      /\ "autocracy" \in Types /\ "coup" \in {"indicator_threshold", "coup"}
  BY <1>2 DEF RegimeInv, GovFields, Types
<1>4. Continues(s.history, r.history, "autocracy", tick)
  <2>1. r.history \in Seq(Row) /\ Chained(r.history) /\ tick \in Nat
    BY DEF RegimeInv
  <2>2. Continues(NewRow(r.history, "autocracy", tick, "coup"), r.history, "autocracy", tick)
    BY <1>3, <2>1, NewRowStep
  <2> QED
    BY <1>2, <2>2
<1>5. Forward(r.history, tick - 1) => Forward(r.history, tick)
  BY LaterIsForward DEF RegimeInv
<1> QED
  BY <1>3, <1>4, <1>5 DEF Continues, RegimeInv, InForce

LEMMA CycleStep == ASSUME HistInv, PoliticalCycle PROVE HistInv'
<1>1. /\ stage = "politics" /\ stage' = "closing" /\ tick' = tick /\ failures' = failures
      /\ tick \in Nat \ {0} /\ failures \in Nat
  BY DEF PoliticalCycle, HistInv
<1> DEFINE r0 == Regime(gov, history)
<1>2. PICK r1 \in {r0} \cup Transitioned(r0) : \E r2 \in Elected(r1) :
      \E r3 \in {r2} \cup Overthrown(r2), stable \in BOOLEAN :
        gov' = [r3.gov EXCEPT !.stable = stable] /\ history' = r3.history
  BY DEF PoliticalCycle
<1>3. PICK r2 \in Elected(r1) : \E r3 \in {r2} \cup Overthrown(r2), stable \in BOOLEAN :
        gov' = [r3.gov EXCEPT !.stable = stable] /\ history' = r3.history
  BY <1>2
<1>4. PICK r3 \in {r2} \cup Overthrown(r2), stable \in BOOLEAN :
        gov' = [r3.gov EXCEPT !.stable = stable] /\ history' = r3.history
  BY <1>3
<1>5. RegimeInv(r0.gov, r0.history, tick - 1) /\ DOMAIN r0 = {"gov", "history"}
  BY <1>1 DEF HistInv, Regime
<1> HIDE DEF r0
<1>6. RegimeInv(r1.gov, r1.history, tick - 1)
  BY <1>1, <1>2, <1>5, TransitionStep
<1>7. DOMAIN r1 = {"gov", "history"}
  BY <1>2, <1>5 DEF Transitioned, Regime
<1>8. RegimeInv(r2.gov, r2.history, tick - 1)
  BY <1>3, <1>6, <1>7, ElectionStep
<1>9. RegimeInv(r3.gov, r3.history, tick)
  <2>1. CASE r3 = r2
    BY <1>1, <1>8, <2>1, LaterIsForward DEF RegimeInv
  <2>2. CASE r3 \in Overthrown(r2)
    BY <1>1, <1>8, <2>2, CoupStep
  <2> QED
    BY <1>4, <2>1, <2>2
<1>10. RegimeInv(gov, history, tick)'
  <2>1. DOMAIN gov' = GovFields /\ gov'.type = r3.gov.type /\ gov'.formed = r3.gov.formed
    BY <1>4, <1>9 DEF RegimeInv, GovFields
  <2> QED
    BY <1>1, <1>4, <1>9, <2>1 DEF RegimeInv, InForce
<1> QED
  BY <1>1, <1>10 DEF HistInv

\* What the factions' steps do to the clock: the tick that runs closes with the
\* political cycle, and a failed tick is repeated.
LEMMA ClockStep ==
    ASSUME HistInv, Turns \/ Review \/ Fail \/ EndTick
    PROVE \/ failures' = failures + 1 /\ tick' = tick /\ stage' # "closing"
          \/ failures' = failures /\ tick' = tick /\ stage # "closing" /\ stage' # "closing"
          \/ failures' = failures /\ tick' = tick + 1 /\ stage = "closing" /\ stage' # "closing"
<1>1. CASE Turns
  BY <1>1 DEF Turns, BeginReview, FormGroup, JoinGroup, Decide, Die, counts
<1>2. CASE Review
  <2>1. CASE UpdateGroupCohesion \/ UpdateGroupLeadership \/ CheckDissolution
    BY <2>1 DEF UpdateGroupCohesion, UpdateGroupLeadership, CheckDissolution, Reviewing
  <2>2. CASE CheckSchism
    BY <2>2 DEF CheckSchism, Reviewing
  <2>3. CASE DetectAndPropose
    BY <2>3 DEF DetectAndPropose, counts
  <2>4. CASE Join \/ Form \/ EndReview
    BY <2>4 DEF Join, Form, EndReview, counts
  <2> QED
    BY <1>2, <2>1, <2>2, <2>3, <2>4 DEF Review
<1>3. CASE Fail
  BY <1>3 DEF Fail
<1>4. CASE EndTick
  BY <1>4 DEF EndTick, counts
<1> QED
  BY <1>1, <1>2, <1>3, <1>4

LEMMA HistInvNext == HistInv /\ [Next]_vars => HistInv'
<1> SUFFICES ASSUME HistInv, [Next]_vars PROVE HistInv'
  OBVIOUS
<1>1. CASE PoliticalCycle
  BY <1>1, CycleStep
<1>2. CASE (Turns \/ Review \/ Fail \/ EndTick) /\ UNCHANGED polityVars
  <2>1. gov' = gov /\ history' = history
    BY <1>2 DEF polityVars
  <2>2. CASE failures' = failures + 1 /\ tick' = tick /\ stage' # "closing"
    BY <2>1, <2>2 DEF HistInv, RegimeInv, Chained, InForce, Last
  <2>3. CASE failures' = failures /\ tick' = tick /\ stage # "closing" /\ stage' # "closing"
    BY <2>1, <2>3 DEF HistInv, RegimeInv, Chained, InForce, Forward, Last
  <2>4. CASE failures' = failures /\ tick' = tick + 1 /\ stage = "closing" /\ stage' # "closing"
    <3>1. tick' - 1 = tick /\ tick' \in Nat \ {0}
      BY <2>4 DEF HistInv
    <3> QED
      BY <2>1, <2>4, <3>1 DEF HistInv, RegimeInv, Chained, InForce, Forward, Last
  <2> QED
    BY <1>2, <2>2, <2>3, <2>4, ClockStep
<1>3. CASE UNCHANGED vars
  BY <1>3 DEF vars, factionVars, polityVars, counts, HistInv, RegimeInv, Chained, InForce, Forward, Last
<1> QED
  BY <1>1, <1>2, <1>3 DEF Next

LEMMA HistInvInit == Init => HistInv
<1> SUFFICES ASSUME Init PROVE HistInv
  OBVIOUS
<1>1. /\ tick = 1 /\ failures = 0 /\ stage = "turns" /\ history = << >>
      /\ DOMAIN gov = GovFields /\ gov.type = InitialType
  BY DEF Init, FactionInit, GovFields
<1> QED
  BY <1>1, PoliticsAssumption DEF HistInv, RegimeInv, Chained, InForce, Forward

\* The history of regimes has no gap and no overlap, and its last row is the
\* regime in force, whatever transitions, elections and coups fall together and
\* however many ticks fail and are repeated.
THEOREM HistoryHasNoGap == Spec => []HistoryContiguous
<1>1. HistInv => HistoryContiguous
  <2> SUFFICES ASSUME HistInv, history # << >> PROVE HistoryContiguous
    BY DEF HistoryContiguous
  <2>1. Len(history) \in Nat /\ Chained(history) /\ InForce(gov, history)
    BY DEF HistInv, RegimeInv
  <2>2. failures = 0 => \A i \in 1 .. Len(history) - 1 : history[i].from <= history[i].to
    BY DEF HistInv, RegimeInv, Forward
  <2> QED
    BY <2>1, <2>2 DEF HistoryContiguous, Chained, InForce, Last
<1> QED
  BY <1>1, HistInvInit, HistInvNext, PTL DEF Spec

-----------------------------------------------------------------------------
(* What the powerful skim.                                                   *)

WealthInv ==
    /\ alive \subseteq Agents
    /\ purse \in [Agents -> Int] /\ worldWealth \in Int
    /\ WealthConserved

\* Each of S takes one.
LEMMA SkimStep ==
    ASSUME WealthInv, ProcessCorruption, alive' = alive PROVE WealthInv'
<1> DEFINE S == InPower \cap Unscrupulous
           took == [a \in Agents |-> IF a \in S THEN 1 ELSE 0]
           ones == [a \in Agents |-> 1]
<1>1. CASE UNCHANGED <<worldWealth, purse>>
  BY <1>1 DEF WealthInv, WealthConserved
<1>2. CASE ~UNCHANGED <<worldWealth, purse>>
  <2>1. /\ worldWealth' = worldWealth - Cardinality(S)
        /\ purse' = [a \in Agents |-> IF a \in S THEN purse[a] + 1 ELSE purse[a]]
    BY <1>2 DEF ProcessCorruption, Takings
  <2>2. S \in SUBSET Agents /\ IsFiniteSet(S) /\ IsFiniteSet(Agents)
    BY FactionAssumption, FS_Subset DEF WealthInv, InPower, Leaders
  <2>3. Cardinality(S) \in Nat
    BY <2>2, FS_CardinalityType
  <2>4. SumFunctionOnSet(took, Agents) = Cardinality(S)
    <3>1. took = [a \in Agents |-> IF a \in S THEN ones[a] ELSE 0]
      OBVIOUS
    <3>2. SumFunctionOnSet(ones, S) = Cardinality(S)
      BY <2>2, SumOnes
    <3>3. SumFunctionOnSet(ones, S) = SumFunctionOnSet([a \in Agents |-> IF a \in S THEN ones[a] ELSE 0], Agents)
      <4>1. \A x \in Agents : ones[x] \in Int
        OBVIOUS
      <4> HIDE DEF ones, S
      <4> QED
        BY <2>2, <4>1, SumPart
    <3> QED
      BY <3>1, <3>2, <3>3
  <2>5. \A a \in Agents : purse[a] \in Int /\ took[a] \in Int /\ purse'[a] = purse[a] + took[a]
    BY <2>1 DEF WealthInv
  <2> HIDE DEF S, took
  <2>6. SumFunctionOnSet(purse', Agents) = SumFunctionOnSet(purse, Agents) + SumFunctionOnSet(took, Agents)
    BY <2>2, <2>5, SumPlus
  <2>7. SumFunctionOnSet(purse, Agents) \in Int
    BY <2>2, <2>5, SumIsInt
  <2>8. purse' \in [Agents -> Int]
    BY <2>1 DEF WealthInv
  <2> QED
    BY <2>1, <2>3, <2>4, <2>6, <2>7, <2>8 DEF WealthInv, WealthConserved
<1> QED
  BY <1>1, <1>2

LEMMA AliveShrinks ==
    ASSUME Turns \/ Review \/ Fail \/ EndTick PROVE alive' \subseteq alive
<1>1. CASE Turns
  BY <1>1 DEF Turns, BeginReview, FormGroup, JoinGroup, Decide, Die, people
<1>2. CASE Review
  BY <1>2 DEF Review, UpdateGroupCohesion, UpdateGroupLeadership, CheckDissolution, CheckSchism,
       Reviewing, DetectAndPropose, Join, Form, EndReview, people
<1>3. CASE Fail \/ EndTick
  BY <1>3 DEF Fail, EndTick, people
<1> QED
  BY <1>1, <1>2, <1>3

LEMMA WealthInvInit == Init => WealthInv
<1> SUFFICES ASSUME Init PROVE WealthInv
  OBVIOUS
<1>1. SumFunctionOnSet(purse, Agents) = 0
  BY FactionAssumption, SumZero DEF Init
<1> QED
  BY <1>1, PoliticsAssumption DEF Init, FactionInit, WealthInv, WealthConserved

LEMMA WealthInvNext == WealthInv /\ [Next]_vars => WealthInv'
<1> SUFFICES ASSUME WealthInv, [Next]_vars PROVE WealthInv'
  OBVIOUS
<1>1. CASE PoliticalCycle
  BY <1>1, SkimStep DEF PoliticalCycle, people
<1>2. CASE (Turns \/ Review \/ Fail \/ EndTick) /\ UNCHANGED polityVars
  BY <1>2, AliveShrinks DEF polityVars, WealthInv, WealthConserved
<1>3. CASE UNCHANGED vars
  BY <1>3 DEF vars, factionVars, people, polityVars, WealthInv, WealthConserved
<1> QED
  BY <1>1, <1>2, <1>3 DEF Next

\* For any agents and regimes: what the powerful skim is what the world loses,
\* also when one agent leads several groups and the state.
THEOREM SkimmingConservesWealth == Spec => []WealthConserved
<1>1. WealthInv => WealthConserved
  BY DEF WealthInv
<1> QED
  BY <1>1, WealthInvInit, WealthInvNext, PTL DEF Spec

-----------------------------------------------------------------------------
(* The types of the factions.                                                *)

UnderReview == {"cohesion", "leadership", "dissolution", "schism"}

FactionInv ==
    /\ FactionTypeOK
    /\ \A k \in DOMAIN todo : todo[k] \in made
    /\ stage \in UnderReview => todo # << >>
    /\ stage = "proposals" => todo = << >>
    /\ \A k \in DOMAIN joins : joins[k].target \in made

LEMMA SomeAreIndices ==
    ASSUME NEW T, IsFiniteSet(T), T \subseteq Int, NEW S, S \subseteq T PROVE Indices(S)
<1>1. IsFiniteSet(S)
  BY FS_Subset
<1>2. S \subseteq Int
  OBVIOUS
<1> QED
  BY <1>1, <1>2 DEF Indices

LEMMA GroupsAreFinite ==
    IsFiniteSet(Groups) /\ Groups \subseteq Int /\ IsFiniteSet(Agents) /\ Agents \subseteq Int
<1>1. Groups \subseteq Int
  BY FactionAssumption
<1>2. Agents \subseteq Int
  BY FactionAssumption
<1> QED
  BY <1>1, <1>2, FactionAssumption

LEMMA HeadOf ==
    ASSUME NEW S, NEW q, q \in Seq(S), q # << >>
    PROVE /\ Head(q) \in S /\ Tail(q) \in Seq(S) /\ Head(q) = q[1] /\ 1 \in DOMAIN q
          /\ \A k \in DOMAIN Tail(q) : k + 1 \in DOMAIN q /\ Tail(q)[k] = q[k + 1]
          /\ \A k \in DOMAIN q : k = 1 \/ (k - 1 \in DOMAIN Tail(q) /\ Tail(q)[k - 1] = q[k])
OBVIOUS

LEMMA NewOnes == \A g \in NewGroup : g \in Groups /\ g \notin made
BY DEF NewGroup

LEMMA BestOf == \A S : Best(S) \subseteq S
BY DEF Best

\* The group under review.
LEMMA ThisIs ==
    ASSUME FactionInv, stage \in UnderReview
    PROVE This \in made /\ This \in Groups /\ todo # << >> /\ todo \in Seq(Groups)
<1>1. todo \in Seq(Groups) /\ todo # << >>
  BY DEF FactionInv, FactionTypeOK
<1> QED
  BY <1>1, HeadOf DEF FactionInv, This

LEMMA BandsAre ==
    ASSUME NEW c, c \in Bands PROVE Lower(c) \subseteq Bands /\ Near(c) \subseteq Bands /\ Even \in Bands
BY DEF Bands, Lower, Near, Even

\* The groups of a review are listed once, each of them.
LEMMA ActiveInOrder ==
    ASSUME FactionInv
    PROVE /\ InOrder(Active) \in Seq(Groups) /\ Active \subseteq made
          /\ \A k \in DOMAIN InOrder(Active) : InOrder(Active)[k] \in Active
          /\ \A g \in Active : \E k \in DOMAIN InOrder(Active) : InOrder(Active)[k] = g
          /\ InOrder(Active) = << >> <=> Active = {}
<1>1. Active \subseteq made /\ Active \subseteq Groups
  BY DEF Active, FactionInv, FactionTypeOK
<1>2. Indices(Active)
  BY <1>1, GroupsAreFinite, SomeAreIndices
<1> DEFINE n == Cardinality(Active)
<1>3. n \in Nat /\ (n = 0 <=> Active = {})
  BY <1>2, FS_CardinalityType, FS_EmptySet DEF Indices
<1>4. InOrder(Active) \in [1 .. n -> Active]
  BY <1>2, InOrderIs DEF Ascending
<1>5. \A g \in Active : \E k \in 1 .. n : InOrder(Active)[k] = g
  BY <1>2, InOrderCovers
<1> HIDE DEF n
<1>6. InOrder(Active) \in Seq(Groups) /\ DOMAIN InOrder(Active) = 1 .. n
  BY <1>1, <1>3, <1>4
<1>7. InOrder(Active) = << >> <=> n = 0
  BY <1>3, <1>4
<1> QED
  BY <1>1, <1>3, <1>4, <1>5, <1>6, <1>7

LEMMA FactionInvInit == FactionInit => FactionInv
<1> SUFFICES ASSUME FactionInit PROVE FactionInv
  OBVIOUS
<1>1. group \in [Agents -> Groups \cup {None}] /\ made \subseteq Groups
      /\ group \in [Agents -> made \cup {None}]
  BY FactionAssumption DEF FactionInit
<1>2. \A g \in made : (CHOOSE a \in Members(g) : \A b \in Members(g) : a <= b) \in Agents
  <2> SUFFICES ASSUME NEW g \in made
               PROVE \E a \in Members(g) : a \in Agents /\ \A b \in Members(g) : a <= b
    BY DEF Members
  <2>1. Members(g) \subseteq Nat /\ Members(g) # {} /\ Members(g) \subseteq Agents
    BY FactionAssumption DEF FactionInit, Members
  <2> QED
    BY <2>1, NatMin
<1>3. leader \in [Groups -> Agents \cup {None}] /\ parent \in [Groups -> made \cup {None}]
  BY <1>2 DEF FactionInit
<1>4. cohesion \in [Groups -> Bands]
  BY DEF FactionInit, Bands, Even
<1>5. proposal \in [Agents -> [at : -1 .. MaxTick, others : SUBSET Agents]]
  <2>1. -1 \in -1 .. MaxTick
    BY FactionAssumption
  <2> QED
    BY <2>1 DEF FactionInit, NoProposal
<1>6. tick \in 1 .. MaxTick /\ events \in 0 .. MaxEvents /\ failures \in 0 .. MaxFailures
  BY FactionAssumption DEF FactionInit
<1>7. born \in Births
  BY DEF FactionInit, Births
<1>8. stage = "turns" /\ stage \in Stages /\ stage \notin UnderReview
  BY DEF FactionInit, Stages, UnderReview
<1> QED
  BY <1>1, <1>3, <1>4, <1>5, <1>6, <1>7, <1>8 DEF FactionInv, FactionTypeOK, FactionInit

LEMMA TurnsFactions ==
    ASSUME FactionInv, Turns PROVE FactionInv'
<1>1. ASSUME NEW a \in Agents, FormGroup(a) \/ JoinGroup(a) PROVE FactionInv'
  <2>1. PICK action \in {"form", "join"}, target \in Groups \cup {None} : Decide(a, action, target)
    BY <1>1 DEF FormGroup, JoinGroup, FactionInv, FactionTypeOK
  <2> DEFINE d == [agent |-> a, action |-> action, target |-> target]
  <2>2. d \in Decisions
    BY DEF Decisions
  <2>3. log' = Append(log, d) /\ log \in Seq(Decisions)
    BY <2>1 DEF Decide, FactionInv, FactionTypeOK
  <2> HIDE DEF d
  <2>4. log' \in Seq(Decisions)
    BY <2>2, <2>3
  <2>5. acted' \subseteq Agents /\ events' \in 0 .. MaxEvents
    BY <2>1, FactionAssumption DEF Decide, Event, FactionInv, FactionTypeOK
  <2> QED
    BY <2>1, <2>4, <2>5 DEF Decide, people, rows, FactionInv, FactionTypeOK
<1>2. ASSUME NEW a \in Agents, Die(a) PROVE FactionInv'
  <2>1. alive' \subseteq Agents /\ events' \in 0 .. MaxEvents
    BY <1>2, FactionAssumption DEF Die, Event, FactionInv, FactionTypeOK
  <2> QED
    BY <1>2, <2>1 DEF Die, rows, plans, FactionInv, FactionTypeOK
<1>3. CASE BeginReview
  <2>1. /\ stage' \in {"politics", "proposals", "cohesion"} /\ stage' \in Stages
        /\ stage' \in UnderReview => todo' # << >>
        /\ stage' = "proposals" => todo' = << >>
        /\ todo' \in Seq(Groups) /\ \A k \in DOMAIN todo' : todo'[k] \in made
    <3>1. CASE tick % Interval # 0
      BY <1>3, <3>1 DEF BeginReview, Stages, UnderReview
    <3>2. CASE tick % Interval = 0
      BY <1>3, <3>2, ActiveInOrder DEF BeginReview, Stages, UnderReview
    <3> QED
      BY <3>1, <3>2
  <2> QED
    BY <1>3, <2>1 DEF BeginReview, people, rows, plans, counts, FactionInv, FactionTypeOK
<1> QED
  BY <1>1, <1>2, <1>3 DEF Turns

LEMMA CohesionFactions ==
    ASSUME FactionInv, UpdateGroupCohesion PROVE FactionInv'
<1>1. stage = "cohesion" /\ stage' = "leadership" /\ stage \in UnderReview
      /\ stage' \in Stages /\ stage' # "proposals"
  BY DEF UpdateGroupCohesion, Reviewing, UnderReview, Stages
<1>2. cohesion' \in [Groups -> Bands]
  <2>1. cohesion \in [Groups -> Bands]
    BY DEF FactionInv, FactionTypeOK
  <2>2. PICK c \in Bands : cohesion' = cohesion \/ cohesion' = [cohesion EXCEPT ![This] = c]
    BY <2>1 DEF UpdateGroupCohesion, Near, Bands
  <2> QED
    BY <2>1, <2>2
<1> QED
  BY <1>1, <1>2, ThisIs DEF UpdateGroupCohesion, Reviewing, plans, FactionInv, FactionTypeOK

LEMMA LeadershipFactions ==
    ASSUME FactionInv, UpdateGroupLeadership PROVE FactionInv'
<1>1. stage = "leadership" /\ stage' = "dissolution" /\ stage \in UnderReview
      /\ stage' \in Stages /\ stage' # "proposals"
  BY DEF UpdateGroupLeadership, Reviewing, UnderReview, Stages
<1>2. This \in Groups
  BY <1>1, ThisIs
<1>3. leader' \in [Groups -> Agents \cup {None}]
  <2>1. leader \in [Groups -> Agents \cup {None}]
    BY DEF FactionInv, FactionTypeOK
  <2>2. ASSUME NEW S, S \subseteq Agents, ElectNewLeader(S)
        PROVE leader' \in [Groups -> Agents \cup {None}]
    BY <2>1, <2>2, BestOf DEF ElectNewLeader
  <2>3. Living(This) \subseteq Agents
    BY DEF Living, Members
  <2>4. \/ leader' = leader
        \/ ElectNewLeader(Living(This)) \/ ElectNewLeader(Living(This) \ {leader[This]})
    BY DEF UpdateGroupLeadership
  <2> QED
    BY <2>1, <2>2, <2>3, <2>4
<1>4. cohesion' \in [Groups -> Bands]
  <2>1. cohesion \in [Groups -> Bands]
    BY DEF FactionInv, FactionTypeOK
  <2>2. cohesion' = cohesion \/ \E c \in Lower(cohesion[This]) : cohesion' = [cohesion EXCEPT ![This] = c]
    BY DEF UpdateGroupLeadership
  <2> QED
    BY <1>2, <2>1, <2>2, BandsAre
<1>5. events' \in 0 .. MaxEvents
  BY FactionAssumption DEF UpdateGroupLeadership, Event, FactionInv, FactionTypeOK
<1> QED
  BY <1>1, <1>3, <1>4, <1>5, ThisIs
  DEF UpdateGroupLeadership, Reviewing, plans, FactionInv, FactionTypeOK

LEMMA DissolutionFactions ==
    ASSUME FactionInv, CheckDissolution PROVE FactionInv'
<1>1. stage = "dissolution" /\ stage' = "schism" /\ stage \in UnderReview
      /\ stage' \in Stages /\ stage' # "proposals"
  BY DEF CheckDissolution, Reviewing, UnderReview, Stages
<1>2. group' \in [Agents -> made \cup {None}]
  BY DEF CheckDissolution, FactionInv, FactionTypeOK
<1> QED
  BY <1>1, <1>2, ThisIs DEF CheckDissolution, Reviewing, plans, rows, FactionInv, FactionTypeOK

\* A group more.
LEMMA MadeGroup ==
    ASSUME FactionInv, NEW g, g \in Groups, NEW S, S \subseteq Agents, NEW from \in made \cup {None},
           MakeGroup(g, S, from)
    PROVE /\ made' \subseteq Groups /\ made \subseteq made' /\ g \in made'
          /\ group' \in [Agents -> made' \cup {None}]
          /\ leader' \in [Groups -> Agents \cup {None}] /\ parent' \in [Groups -> made' \cup {None}]
          /\ born' \in Births
<1>1. made' = made \cup {g} /\ made \subseteq Groups
  BY DEF MakeGroup, FactionInv, FactionTypeOK
<1>2. group' \in [Agents -> made' \cup {None}]
  BY <1>1 DEF MakeGroup, FactionInv, FactionTypeOK
<1>3. leader' \in [Groups -> Agents \cup {None}]
  BY BestOf DEF MakeGroup, FactionInv, FactionTypeOK
<1>4. parent' \in [Groups -> made' \cup {None}]
  BY <1>1 DEF MakeGroup, FactionInv, FactionTypeOK
<1>5. born' \in Births
  BY DEF MakeGroup, FactionInv, FactionTypeOK, Births
<1> QED
  BY <1>1, <1>2, <1>3, <1>4, <1>5

LEMMA SchismFactions ==
    ASSUME FactionInv, CheckSchism PROVE FactionInv'
<1>1. stage = "schism" /\ stage \in UnderReview /\ todo' = Tail(todo)
      /\ stage' = IF Len(todo) = 1 THEN "proposals" ELSE "cohesion"
  BY DEF CheckSchism, Reviewing, UnderReview
<1>2. todo \in Seq(Groups) /\ todo # << >> /\ This \in made /\ This \in Groups
  BY <1>1, ThisIs
<1>3. /\ stage' \in Stages
      /\ stage' \in UnderReview => todo' # << >>
      /\ stage' = "proposals" => todo' = << >>
  <2>1. CASE Len(todo) = 1
    <3>1. todo' = << >>
      BY <1>1, <1>2, <2>1
    <3> QED
      BY <1>1, <2>1, <3>1 DEF Stages, UnderReview
  <2>2. CASE Len(todo) # 1
    <3>1. todo' # << >>
      <4>1. Len(todo) \in Nat /\ Len(todo) # 0
        BY <1>2
      <4>2. Len(Tail(todo)) = Len(todo) - 1
        BY <1>2
      <4>3. Len(Tail(todo)) # 0
        BY <2>2, <4>1, <4>2
      <4> DEFINE rest == Tail(todo)
      <4>4. rest \in Seq(Groups) /\ Len(rest) # 0
        BY <1>2, <4>3
      <4> HIDE DEF rest
      <4>5. rest # << >>
        BY <4>4
      <4> QED
        BY <1>1, <4>5 DEF rest
    <3> QED
      BY <1>1, <2>2, <3>1 DEF Stages
  <2> QED
    BY <2>1, <2>2
<1>4. todo' \in Seq(Groups) /\ \A k \in DOMAIN todo' : todo'[k] \in made
  BY <1>1, <1>2, HeadOf DEF FactionInv
<1>5. CASE UNCHANGED <<group, rows, born, events>>
  BY <1>3, <1>4, <1>5 DEF CheckSchism, Reviewing, plans, rows, FactionInv, FactionTypeOK
<1>6. CASE Secede
  <2>1. PICK clique \in Cliques, g \in NewGroup :
          /\ MakeGroup(g, clique \cap Living(This), This)
          /\ \E c \in Lower(cohesion[This]) : cohesion' = [cohesion EXCEPT ![This] = c, ![g] = Even]
    BY <1>6 DEF Secede
  <2>2. g \in Groups /\ clique \cap Living(This) \subseteq Agents
    BY NewOnes DEF Living, Members
  <2>3. cohesion' \in [Groups -> Bands]
    <3>1. cohesion \in [Groups -> Bands]
      BY DEF FactionInv, FactionTypeOK
    <3> QED
      BY <1>2, <2>1, <2>2, <3>1, BandsAre
  <2>4. events' \in 0 .. MaxEvents
    BY <1>6, FactionAssumption DEF Secede, Event, FactionInv, FactionTypeOK
  <2>5. /\ made' \subseteq Groups /\ made \subseteq made'
        /\ group' \in [Agents -> made' \cup {None}]
        /\ leader' \in [Groups -> Agents \cup {None}] /\ parent' \in [Groups -> made' \cup {None}]
        /\ born' \in Births
    BY <1>2, <2>1, <2>2, MadeGroup
  <2>6. \A k \in DOMAIN todo' : todo'[k] \in made'
    BY <1>4, <2>5
  <2>7. UNCHANGED <<tick, alive, proposal, plans, acted, failures>>
    BY DEF CheckSchism, Reviewing
  <2>8. \A k \in DOMAIN joins' : joins'[k].target \in made'
    BY <2>5, <2>7 DEF FactionInv, plans
  <2> QED
    BY <1>3, <1>4, <2>3, <2>4, <2>5, <2>6, <2>7, <2>8 DEF plans, FactionInv, FactionTypeOK
<1> QED
  BY <1>5, <1>6 DEF CheckSchism

LEMMA PeopleInOrder ==
    ASSUME NEW S, S \subseteq Agents PROVE InOrder(S) \in Seq(Agents)
<1> DEFINE n == Cardinality(S)
<1>1. Indices(S)
  BY GroupsAreFinite, SomeAreIndices
<1>2. n \in Nat
  BY <1>1, FS_CardinalityType DEF Indices
<1>3. InOrder(S) \in [1 .. n -> S]
  BY <1>1, InOrderIs DEF Ascending
<1> HIDE DEF n
<1> QED
  BY <1>2, <1>3

\* Clusters are of agents, whoever has common ground with whom.
LEMMA ClusterIs ==
    ASSUME NEW a \in Agents, NEW others, others \in Seq(Agents), NEW bond
    PROVE ClusterOf(a, others, bond) \in SUBSET Agents
<1>1. ClusterOf(a, others, bond) = Folded(Joined(bond), {a}, others)
  BY DEF ClusterOf, Folded, FoldLeft, MapThenFoldSet
<1> DEFINE J == Joined(bond)
<1>2. ASSUME NEW c \in SUBSET Agents, NEW b \in Agents PROVE J[<<c, b>>] \in SUBSET Agents
  BY DEF Joined
<1>3. {a} \in SUBSET Agents
  OBVIOUS
<1> HIDE DEF J
<1>4. Folded(J, {a}, others) \in SUBSET Agents
  BY <1>2, <1>3, FoldType
<1> QED
  BY <1>1, <1>4 DEF J

LEMMA ClustersAre ==
    ASSUME FactionInv, NEW bond PROVE Clusters(bond) \in SUBSET SUBSET Agents
<1> DEFINE F == Found(bond)
           q == InOrder(Ungrouped)
<1>1. Clusters(bond) = Folded(F, {}, q)
  BY DEF Clusters, Folded, FoldLeft, MapThenFoldSet
<1>2. Ungrouped \subseteq Agents
  BY DEF Ungrouped, FactionInv, FactionTypeOK
<1>3. q \in Seq(Agents)
  BY <1>2, PeopleInOrder
<1>4. ASSUME NEW found \in SUBSET SUBSET Agents, NEW a \in Agents
      PROVE F[<<found, a>>] \in SUBSET SUBSET Agents
  <2> DEFINE free == {b \in Ungrouped : b > a /\ b \notin UNION found}
             c == ClusterOf(a, InOrder(free), bond)
  <2>1. InOrder(free) \in Seq(Agents)
    BY <1>2, PeopleInOrder
  <2>2. c \in SUBSET Agents
    BY <2>1, ClusterIs
  <2>3. F[<<found, a>>] = IF a \in UNION found \/ Cardinality(c) < MinMembers THEN found
                          ELSE found \cup {c}
    BY DEF Found
  <2> HIDE DEF c, F
  <2> QED
    BY <2>2, <2>3
<1>5. {} \in SUBSET SUBSET Agents
  OBVIOUS
<1> DEFINE T == SUBSET SUBSET Agents
           base == {}
<1>6. base \in T /\ \A w \in T : \A a \in Agents : F[<<w, a>>] \in T
  BY <1>4, <1>5
<1>7. T = SUBSET SUBSET Agents /\ base = {}
  OBVIOUS
<1> HIDE DEF F, q, T, base
<1>8. Folded(F, base, q) \in T
  BY <1>3, <1>6, FoldType
<1> QED
  BY <1>1, <1>7, <1>8

\* The decisions at some places of the log.
LEMMA LoggedAre ==
    ASSUME FactionInv, NEW I, I \subseteq DOMAIN log
    PROVE /\ Indices(I) /\ Cardinality(I) \in Nat
          /\ Those(log, I) \in Seq({log[i] : i \in I}) /\ DOMAIN Those(log, I) = 1 .. Cardinality(I)
          /\ {log[i] : i \in I} \subseteq Decisions
<1>1. log \in Seq(Decisions)
  BY DEF FactionInv, FactionTypeOK
<1>2. DOMAIN log = 1 .. Len(log) /\ Len(log) \in Nat
  BY <1>1
<1>3. IsFiniteSet(DOMAIN log) /\ DOMAIN log \subseteq Int
  BY <1>2, FS_Interval
<1>4. Indices(I)
  BY <1>3, SomeAreIndices
<1> DEFINE X == {log[i] : i \in I}
<1>5. \A i \in I : log[i] \in X
  OBVIOUS
<1>6. X \subseteq Decisions
  BY <1>1
<1> HIDE DEF X
<1>7. Those(log, I) \in Seq(X)
  BY <1>4, <1>5, ThoseType
<1>8. Cardinality(I) \in Nat /\ DOMAIN Those(log, I) = 1 .. Cardinality(I)
  BY <1>4, ThoseAre
<1> QED
  BY <1>4, <1>6, <1>7, <1>8 DEF X

\* Whoever asked, in whatever order, and nobody else.
LEMMA JoinOrderIs ==
    ASSUME FactionInv, NEW asked, asked \subseteq DOMAIN log
    PROVE JoinOrder(asked) \in Seq({log[i] : i \in asked})
<1> DEFINE firsts == {i \in asked : \A j \in asked : log[j].target = log[i].target => i <= j}
           X == {log[i] : i \in asked}
           q == InOrder(firsts)
           U == Under(asked)
<1>1. JoinOrder(asked) = Folded(U, << >>, q)
  BY DEF JoinOrder, Folded, FoldLeft, MapThenFoldSet
<1>2. q \in Seq(asked)
  <2> DEFINE n == Cardinality(firsts)
  <2>1. Indices(firsts) /\ n \in Nat
    BY LoggedAre
  <2>2. q \in [1 .. n -> firsts]
    BY <2>1, InOrderIs DEF Ascending
  <2> HIDE DEF n, q
  <2> QED
    BY <2>1, <2>2
<1>3. ASSUME NEW js \in Seq(X), NEW i \in asked PROVE U[<<js, i>>] \in Seq(X)
  <2> DEFINE I == {j \in asked : log[j].target = log[i].target}
             t == Those(log, I)
  <2>1. t \in Seq({log[j] : j \in I})
    BY LoggedAre
  <2>2. {log[j] : j \in I} \subseteq X
    OBVIOUS
  <2>3. js \in Seq(Decisions)
    <3>1. X \subseteq Decisions
      BY LoggedAre
    <3> HIDE DEF X
    <3> QED
      BY <1>3, <3>1
  <2>4. U[<<js, i>>] = js \o t
    BY <2>3 DEF Under
  <2> HIDE DEF t, U, X, I
  <2>5. t \in Seq(X)
    BY <2>1, <2>2
  <2> QED
    BY <2>4, <2>5
<1>4. << >> \in Seq(X)
  OBVIOUS
<1> DEFINE T == Seq(X)
           base == << >>
<1>5. base \in T /\ \A w \in T : \A i \in asked : U[<<w, i>>] \in T
  BY <1>3, <1>4
<1>6. T = Seq(X) /\ base = << >>
  OBVIOUS
<1> HIDE DEF U, q, X, T, base
<1>7. Folded(U, base, q) \in T
  BY <1>2, <1>5, FoldType
<1> QED
  BY <1>1, <1>6, <1>7 DEF X

\* What the decisions of a review come to: who joins was in no group and joins
\* one there is, and who is to found one was in none either.
LEMMA PlansAre ==
    ASSUME FactionInv, DetectAndPropose
    PROVE /\ joins' \in Seq(Decisions) /\ formers' \in Seq(Agents)
          /\ \A k \in DOMAIN joins' :
                joins'[k].target \in made /\ joins'[k].agent \in Agents /\ group[joins'[k].agent] = None
          /\ \A k \in DOMAIN formers' : group[formers'[k]] = None
<1> DEFINE free == {i \in DOMAIN log : group[log[i].agent] = None}
           forming == {i \in free : log[i].action = "form"}
           joining == {i \in free : log[i].action = "join" /\ log[i].target \in Active}
           n == Cardinality(forming)
           t == Those(log, forming)
           f == [k \in 1 .. n |-> t[k].agent]
           X == {log[i] : i \in joining}
           Y == {log[i] : i \in forming}
<1>1. joins' = JoinOrder(joining) /\ formers' \in {<< >>, f}
  BY DEF DetectAndPropose
<1>2. joins' \in Seq(X) /\ X \subseteq Decisions
  BY <1>1, JoinOrderIs, LoggedAre
<1>3. t \in Seq(Y) /\ DOMAIN t = 1 .. n /\ n \in Nat /\ Y \subseteq Decisions
  BY LoggedAre
<1>4. \A d \in X : d.target \in made /\ group[d.agent] = None
  BY DEF Active
<1>5. \A d \in Y : group[d.agent] = None
  OBVIOUS
<1> HIDE DEF X, Y, n, t
<1>6. \A k \in DOMAIN joins' : joins'[k] \in X
  BY <1>2
<1>7. \A d \in Decisions : d.agent \in Agents
  BY DEF Decisions
<1>8. \A k \in 1 .. n : t[k] \in Y
  BY <1>3
<1>9. \A k \in 1 .. n : f[k] \in Agents /\ group[f[k]] = None
  BY <1>3, <1>5, <1>7, <1>8
<1>10. f \in [1 .. n -> Agents] /\ DOMAIN f = 1 .. n
  BY <1>9
<1> HIDE DEF f
<1>11. f \in Seq(Agents)
  BY <1>3, <1>10
<1>12. formers' \in Seq(Agents) /\ \A k \in DOMAIN formers' : group[formers'[k]] = None
  <2>1. CASE formers' = f
    BY <1>9, <1>10, <1>11, <2>1
  <2>2. CASE formers' = << >>
    BY <2>2
  <2> QED
    BY <1>1, <2>1, <2>2
<1>13. joins' \in Seq(Decisions)
  BY <1>2
<1> QED
  BY <1>2, <1>4, <1>6, <1>7, <1>12, <1>13

LEMMA DetectFactions ==
    ASSUME FactionInv, DetectAndPropose PROVE FactionInv'
<1>1. PICK bond \in Bonds :
        proposal' = [a \in Agents |->
            IF Proposed(a, tick - Recent) \/ ~\E c \in Clusters(bond) : a \in c
            THEN proposal[a]
            ELSE [at |-> tick,
                  others |-> (CHOOSE c \in Clusters(bond) : a \in c) \ {a}]]
  BY DEF DetectAndPropose
<1>2. proposal' \in [Agents -> [at : -1 .. MaxTick, others : SUBSET Agents]]
  <2> DEFINE chosen(a) == CHOOSE c \in Clusters(bond) : a \in c
             new(a) == [at |-> tick, others |-> chosen(a) \ {a}]
  <2>1. Clusters(bond) \in SUBSET SUBSET Agents
    BY ClustersAre
  <2>2. tick \in -1 .. MaxTick
    BY FactionAssumption DEF FactionInv, FactionTypeOK
  <2>3. \A a \in Agents : (\E c \in Clusters(bond) : a \in c) => chosen(a) \subseteq Agents
    BY <2>1
  <2> HIDE DEF chosen
  <2>4. \A a \in Agents : (\E c \in Clusters(bond) : a \in c) =>
            new(a) \in [at : -1 .. MaxTick, others : SUBSET Agents]
    BY <2>2, <2>3
  <2>5. proposal' = [a \in Agents |->
            IF Proposed(a, tick - Recent) \/ ~\E c \in Clusters(bond) : a \in c
            THEN proposal[a] ELSE new(a)]
    BY <1>1 DEF chosen
  <2>6. proposal \in [Agents -> [at : -1 .. MaxTick, others : SUBSET Agents]]
    BY DEF FactionInv, FactionTypeOK
  <2> HIDE DEF new
  <2> QED
    BY <2>4, <2>5, <2>6
<1>3. stage = "proposals" /\ stage' = "decisions" /\ stage' \in Stages /\ stage' \notin UnderReview
  BY DEF DetectAndPropose, Stages, UnderReview
<1>4. UNCHANGED <<tick, todo, people, rows, log, used, acted, counts, born>>
  BY DEF DetectAndPropose
<1> QED
  BY <1>2, <1>3, <1>4, PlansAre DEF people, rows, counts, FactionInv, FactionTypeOK

\* The next to join.
LEMMA NextToJoin ==
    ASSUME FactionInv, joins # << >>
    PROVE /\ Head(joins) = joins[1] /\ 1 \in DOMAIN joins /\ Head(joins) \in Decisions
          /\ Head(joins).agent \in Agents /\ Head(joins).target \in made
          /\ Head(joins).target \in Groups /\ Tail(joins) \in Seq(Decisions)
          /\ \A k \in DOMAIN Tail(joins) : k + 1 \in DOMAIN joins /\ Tail(joins)[k] = joins[k + 1]
<1>1. joins \in Seq(Decisions)
  BY DEF FactionInv, FactionTypeOK
<1>2. /\ Head(joins) = joins[1] /\ 1 \in DOMAIN joins /\ Head(joins) \in Decisions
      /\ Tail(joins) \in Seq(Decisions)
      /\ \A k \in DOMAIN Tail(joins) : k + 1 \in DOMAIN joins /\ Tail(joins)[k] = joins[k + 1]
  BY <1>1, HeadOf
<1>3. \A d \in Decisions : d.agent \in Agents
  BY DEF Decisions
<1>4. joins[1].target \in made /\ made \subseteq Groups
  BY <1>2 DEF FactionInv, FactionTypeOK
<1> QED
  BY <1>2, <1>3, <1>4

LEMMA JoinFactions ==
    ASSUME FactionInv, Join PROVE FactionInv'
<1> DEFINE d == Head(joins)
<1>1. joins # << >> /\ stage = "decisions"
  BY DEF Join
<1>2. d.agent \in Agents /\ d.target \in made /\ d.target \in Groups
      /\ joins' \in Seq(Decisions) /\ \A k \in DOMAIN joins' : joins'[k].target \in made
  BY <1>1, NextToJoin DEF Join, FactionInv
<1>3. group' = [group EXCEPT ![d.agent] = d.target]
      /\ \E c \in Lower(cohesion[d.target]) : cohesion' = [cohesion EXCEPT ![d.target] = c]
  BY DEF Join
<1> HIDE DEF d
<1>4. group' \in [Agents -> made \cup {None}]
  BY <1>2, <1>3 DEF FactionInv, FactionTypeOK
<1>5. cohesion' \in [Groups -> Bands]
  <2>1. cohesion \in [Groups -> Bands]
    BY DEF FactionInv, FactionTypeOK
  <2> QED
    BY <1>2, <1>3, <2>1, BandsAre
<1>6. UNCHANGED <<tick, stage, todo, alive, made, leader, parent, proposal, log, formers,
                  used, acted, counts, born>>
  BY DEF Join
<1> QED
  BY <1>1, <1>2, <1>4, <1>5, <1>6 DEF counts, UnderReview, FactionInv, FactionTypeOK

\* The next to found a group, and whom they name.
LEMMA NextToForm ==
    ASSUME FactionInv, formers # << >>
    PROVE /\ Head(formers) = formers[1] /\ 1 \in DOMAIN formers /\ Head(formers) \in Agents
          /\ Tail(formers) \in Seq(Agents) /\ Founders(Head(formers)) \subseteq Agents
          /\ \A k \in DOMAIN Tail(formers) :
                k + 1 \in DOMAIN formers /\ Tail(formers)[k] = formers[k + 1]
<1>1. formers \in Seq(Agents)
  BY DEF FactionInv, FactionTypeOK
<1>2. /\ Head(formers) = formers[1] /\ 1 \in DOMAIN formers /\ Head(formers) \in Agents
      /\ Tail(formers) \in Seq(Agents)
      /\ \A k \in DOMAIN Tail(formers) :
            k + 1 \in DOMAIN formers /\ Tail(formers)[k] = formers[k + 1]
  BY <1>1, HeadOf
<1> DEFINE rest == Tail(formers)
<1>3. \A k \in DOMAIN rest : rest[k] \in Agents
  <2>1. rest \in Seq(Agents)
    BY <1>2
  <2> HIDE DEF rest
  <2> QED
    BY <2>1
<1>4. ToSet(rest) \subseteq Agents
  BY <1>3 DEF ToSet
<1>5. Founders(Head(formers)) \subseteq Agents
  BY <1>2, <1>4 DEF Founders
<1> QED
  BY <1>2, <1>5

LEMMA FormFactions ==
    ASSUME FactionInv, Form PROVE FactionInv'
<1> DEFINE a == Head(formers)
           S == Founders(a)
<1>1. formers # << >> /\ stage = "decisions" /\ formers' = Tail(formers)
      /\ UNCHANGED <<tick, stage, todo, alive, proposal, log, joins, acted, counts>>
  BY DEF Form
<1>2. S \subseteq Agents /\ formers' \in Seq(Agents)
  BY <1>1, NextToForm
<1>3. \/ UNCHANGED <<used, group, rows, born>>
      \/ used' = used \cup S /\ UNCHANGED <<group, rows, born>>
      \/ used' = used \cup S /\ \E g \in NewGroup :
            MakeGroup(g, S, None) /\ cohesion' = [cohesion EXCEPT ![g] = Even]
  BY DEF Form
<1> HIDE DEF a, S
<1>4. used' \subseteq Agents
  BY <1>2, <1>3 DEF FactionInv, FactionTypeOK
<1>5. CASE UNCHANGED <<group, rows, born>>
  BY <1>1, <1>2, <1>4, <1>5 DEF rows, counts, UnderReview, FactionInv, FactionTypeOK
<1>6. ASSUME NEW g \in NewGroup, MakeGroup(g, S, None), cohesion' = [cohesion EXCEPT ![g] = Even]
      PROVE FactionInv'
  <2>1. /\ made' \subseteq Groups /\ made \subseteq made'
        /\ group' \in [Agents -> made' \cup {None}]
        /\ leader' \in [Groups -> Agents \cup {None}] /\ parent' \in [Groups -> made' \cup {None}]
        /\ born' \in Births
    <3>1. g \in Groups /\ None \in made \cup {None}
      BY <1>6, NewOnes
    <3> QED
      BY <1>2, <1>6, <3>1, MadeGroup
  <2>2. cohesion' \in [Groups -> Bands]
    <3>1. cohesion \in [Groups -> Bands] /\ Even \in Bands
      BY DEF FactionInv, FactionTypeOK, Even, Bands
    <3> QED
      BY <1>6, <3>1
  <2>3. \A k \in DOMAIN joins' : joins'[k].target \in made'
    BY <1>1, <2>1 DEF FactionInv
  <2>4. \A k \in DOMAIN todo' : todo'[k] \in made'
    BY <1>1, <2>1 DEF FactionInv
  <2> QED
    BY <1>1, <1>2, <1>4, <2>1, <2>2, <2>3, <2>4 DEF counts, UnderReview, FactionInv, FactionTypeOK
<1> QED
  BY <1>3, <1>5, <1>6

LEMMA RestFactions ==
    ASSUME FactionInv, EndReview \/ Fail \/ EndTick PROVE FactionInv'
<1>1. CASE EndReview
  BY <1>1 DEF EndReview, people, rows, counts, Stages, UnderReview, FactionInv, FactionTypeOK
<1>2. CASE Fail
  <2>1. events' \in 0 .. MaxEvents /\ failures' \in 0 .. MaxFailures
    BY <1>2, FactionAssumption DEF Fail, Event, FactionInv, FactionTypeOK
  <2>2. born' \in Births
    BY <1>2 DEF Fail, Births
  <2>3. stage' \in Stages /\ stage' \notin UnderReview /\ stage' # "proposals"
    BY <1>2 DEF Fail, Stages, UnderReview
  <2> QED
    BY <1>2, <2>1, <2>2, <2>3 DEF Fail, people, rows, FactionInv, FactionTypeOK
<1>3. CASE EndTick
  <2>1. tick' \in 1 .. MaxTick
    BY <1>3, FactionAssumption DEF EndTick, FactionInv, FactionTypeOK
  <2>2. born' \in Births
    BY <1>3 DEF EndTick, Births
  <2>3. stage' \in Stages /\ stage' \notin UnderReview /\ stage' # "proposals"
    BY <1>3 DEF EndTick, Stages, UnderReview
  <2>4. log' \in Seq(Decisions)
    BY <1>3 DEF EndTick, FactionInv, FactionTypeOK
  <2> QED
    BY <1>3, <2>1, <2>2, <2>3, <2>4 DEF EndTick, people, rows, counts, FactionInv, FactionTypeOK
<1> QED
  BY <1>1, <1>2, <1>3

LEMMA ReviewFactions == ASSUME FactionInv, Turns \/ Review \/ Fail \/ EndTick PROVE FactionInv'
BY TurnsFactions, CohesionFactions, LeadershipFactions, DissolutionFactions, SchismFactions,
   DetectFactions, JoinFactions, FormFactions, RestFactions DEF Review

-----------------------------------------------------------------------------
(* The types of the government.                                              *)

Moments == 0 .. MaxTick
Heads == Agents \cup {None}
Parties == made \cup {None}
Governments == [type : Types, head : Heads, ruling : Parties, formed : Moments,
                lastElection : Moments, stable : BOOLEAN]

\* A regime of the cycle that runs, with what has become of the history.
Regimes(r) ==
    /\ r.gov \in Governments
    /\ r.history \in Seq(Row) /\ Len(r.history) >= Len(history)

PolityInv ==
    /\ FactionInv /\ HistInv /\ WealthInv
    /\ gov \in Governments
    /\ worldWealth \in Nat /\ purse \in [Agents -> Nat]

LEMMA MomentsAre ==
    FactionInv => tick \in Moments /\ tick - 1 \in Moments /\ tick \in Nat \ {0} /\ tick - 1 \in Nat
BY FactionAssumption DEF FactionInv, FactionTypeOK, Moments

LEMMA LenHistory == HistInv => Len(history) \in Nat
BY DEF HistInv, RegimeInv

LEMMA NewRowIs ==
    ASSUME NEW h \in Seq(Row), NEW type \in Types, NEW t \in Nat,
           NEW cause \in {"indicator_threshold", "coup"}
    PROVE NewRow(h, type, t, cause) \in Seq(Row) /\ Len(NewRow(h, type, t, cause)) = Len(h) + 1
<1> DEFINE row == [type |-> type, from |-> t, to |-> Open, cause |-> cause]
           c == Close(h, t)
<1>1. row \in Row
  BY DEF Row
<1>2. c = [i \in 1 .. Len(h) |-> IF h[i].to = Open THEN [h[i] EXCEPT !.to = t] ELSE h[i]]
  BY DEF Close
<1>3. ASSUME NEW i \in 1 .. Len(h) PROVE h[i] \in Row /\ [h[i] EXCEPT !.to = t] \in Row
  <2>1. h[i] \in Row
    OBVIOUS
  <2> QED
    BY <2>1 DEF Row
<1> HIDE DEF c
<1>4. c \in Seq(Row) /\ Len(c) = Len(h)
  BY <1>2, <1>3
<1>5. NewRow(h, type, t, cause) = Append(c, row)
  BY DEF NewRow, c
<1> HIDE DEF row
<1> QED
  BY <1>1, <1>4, <1>5

LEMMA TransitionIs ==
    ASSUME FactionInv, HistInv, NEW r, Regimes(r), NEW s \in Transitioned(r) PROVE Regimes(s)
<1>1. PICK type \in Transitions(r.gov.type) :
        s = Regime([r.gov EXCEPT !.type = type, !.formed = tick - 1],
                   NewRow(r.history, type, tick - 1, "indicator_threshold"))
  BY DEF Transitioned
<1>2. r.gov.type \in Types /\ r.gov \in Governments /\ r.history \in Seq(Row)
      /\ Len(r.history) >= Len(history)
  BY DEF Regimes, Governments
<1>3. type \in Types
  BY <1>2, TransitionsAreTypes
<1>4. s.gov = [r.gov EXCEPT !.type = type, !.formed = tick - 1]
      /\ s.history = NewRow(r.history, type, tick - 1, "indicator_threshold")
  BY <1>1 DEF Regime
<1>5. s.gov \in Governments
  BY <1>2, <1>3, <1>4, MomentsAre DEF Governments
<1>6. s.history \in Seq(Row) /\ Len(s.history) = Len(r.history) + 1
  BY <1>2, <1>3, <1>4, NewRowIs, MomentsAre
<1>7. Len(s.history) >= Len(history)
  BY <1>2, <1>6, LenHistory
<1> QED
  BY <1>5, <1>6, <1>7 DEF Regimes

LEMMA ElectionIs ==
    ASSUME FactionInv, HistInv, NEW r, Regimes(r), DOMAIN r = {"gov", "history"}, NEW s \in Elected(r)
    PROVE Regimes(s)
<1>1. CASE s = r
  BY <1>1
<1>2. ASSUME NEW a \in Leaders,
             s = [r EXCEPT !.gov.head = a, !.gov.ruling = group[a], !.gov.lastElection = tick]
      PROVE Regimes(s)
  <2>1. s.history = r.history
    BY <1>2
  <2>2. s.gov = [r.gov EXCEPT !.head = a, !.ruling = group[a], !.lastElection = tick]
    BY <1>2
  <2>3. a \in Heads /\ group[a] \in Parties
    BY DEF Leaders, Heads, Parties, FactionInv, FactionTypeOK
  <2>4. s.gov \in Governments
    BY <2>2, <2>3, MomentsAre DEF Regimes, Governments
  <2> QED
    BY <2>1, <2>4 DEF Regimes
<1> QED
  BY <1>1, <1>2 DEF Elected

LEMMA CoupIs ==
    ASSUME FactionInv, HistInv, NEW r, Regimes(r), NEW s \in Overthrown(r) PROVE Regimes(s)
<1>1. PICK f \in Plotters(r.gov) :
        s = Regime([r.gov EXCEPT !.type = "autocracy", !.formed = tick,
                                 !.head = leader[f], !.ruling = f],
                   NewRow(r.history, "autocracy", tick, "coup"))
  BY DEF Overthrown
<1>2. s.gov = [r.gov EXCEPT !.type = "autocracy", !.formed = tick, !.head = leader[f], !.ruling = f]
      /\ s.history = NewRow(r.history, "autocracy", tick, "coup")
  BY <1>1 DEF Regime
<1>3. leader[f] \in Heads /\ f \in Parties /\ "autocracy" \in Types
  BY DEF Plotters, Heads, Parties, Types, FactionInv, FactionTypeOK
<1>4. s.gov \in Governments
  BY <1>2, <1>3, MomentsAre DEF Regimes, Governments
<1>5. r.history \in Seq(Row) /\ Len(r.history) >= Len(history)
  BY DEF Regimes
<1>6. s.history \in Seq(Row) /\ Len(s.history) = Len(r.history) + 1
  BY <1>2, <1>3, <1>5, NewRowIs, MomentsAre
<1> QED
  BY <1>4, <1>5, <1>6, LenHistory DEF Regimes

LEMMA CycleTypes ==
    ASSUME PolityInv, PoliticalCycle
    PROVE FactionInv' /\ gov' \in Governments' /\ worldWealth' \in Nat /\ purse' \in [Agents -> Nat]
<1>1. /\ stage' = "closing" /\ ProcessCorruption
      /\ UNCHANGED <<tick, todo, people, rows, proposal, plans, acted, failures, born>>
  BY DEF PoliticalCycle
<1> DEFINE r0 == Regime(gov, history)
<1>2. PICK r1 \in {r0} \cup Transitioned(r0) : \E r2 \in Elected(r1) :
      \E r3 \in {r2} \cup Overthrown(r2), stable \in BOOLEAN :
        gov' = [r3.gov EXCEPT !.stable = stable] /\ history' = r3.history
        /\ events' = events + Len(r3.history) - Len(history) /\ events' <= MaxEvents
  BY DEF PoliticalCycle
<1>3. PICK r2 \in Elected(r1) : \E r3 \in {r2} \cup Overthrown(r2), stable \in BOOLEAN :
        gov' = [r3.gov EXCEPT !.stable = stable] /\ history' = r3.history
        /\ events' = events + Len(r3.history) - Len(history) /\ events' <= MaxEvents
  BY <1>2
<1>4. PICK r3 \in {r2} \cup Overthrown(r2), stable \in BOOLEAN :
        gov' = [r3.gov EXCEPT !.stable = stable] /\ history' = r3.history
        /\ events' = events + Len(r3.history) - Len(history) /\ events' <= MaxEvents
  BY <1>3
<1>5. FactionInv /\ HistInv
  BY DEF PolityInv
<1>6. Regimes(r0) /\ DOMAIN r0 = {"gov", "history"}
  BY <1>5 DEF PolityInv, Regimes, Regime, HistInv, RegimeInv
<1> HIDE DEF r0
<1>7. Regimes(r1) /\ DOMAIN r1 = {"gov", "history"}
  BY <1>2, <1>5, <1>6, TransitionIs DEF Transitioned, Regime
<1>8. Regimes(r2)
  BY <1>3, <1>5, <1>7, ElectionIs
<1>9. Regimes(r3)
  BY <1>4, <1>5, <1>8, CoupIs
<1>10. gov' \in Governments'
  <2>1. gov' \in Governments
    BY <1>4, <1>9 DEF Regimes, Governments
  <2> QED
    BY <1>1, <2>1 DEF rows, Governments, Parties
<1>11. events' \in 0 .. MaxEvents
  <2>1. Len(r3.history) \in Nat /\ Len(r3.history) >= Len(history) /\ Len(history) \in Nat
    BY <1>5, <1>9, LenHistory DEF Regimes
  <2>2. events \in Nat /\ MaxEvents \in Nat
    BY <1>5, FactionAssumption DEF FactionInv, FactionTypeOK
  <2> QED
    BY <1>4, <2>1, <2>2
<1>12. FactionInv'
  BY <1>1, <1>5, <1>11 DEF people, rows, plans, Stages, UnderReview, FactionInv, FactionTypeOK
<1>13. worldWealth' \in Nat /\ purse' \in [Agents -> Nat]
  <2> DEFINE S == InPower \cap Unscrupulous
  <2>1. CASE UNCHANGED <<worldWealth, purse>>
    BY <2>1 DEF PolityInv
  <2>2. CASE ~UNCHANGED <<worldWealth, purse>>
    <3>1. /\ ~(Cardinality(S) > worldWealth) /\ worldWealth' = worldWealth - Cardinality(S)
          /\ purse' = [a \in Agents |-> IF a \in S THEN purse[a] + 1 ELSE purse[a]]
      BY <1>1, <2>2 DEF ProcessCorruption, Takings
    <3>2. IsFiniteSet(S)
      BY FactionAssumption, FS_Subset DEF PolityInv, WealthInv, InPower, Leaders
    <3>3. Cardinality(S) \in Nat
      BY <3>2, FS_CardinalityType
    <3> HIDE DEF S
    <3>4. worldWealth' \in Nat
      BY <3>1, <3>3 DEF PolityInv
    <3>5. purse' \in [Agents -> Nat]
      BY <3>1 DEF PolityInv
    <3> QED
      BY <3>4, <3>5
  <2> QED
    BY <2>1, <2>2
<1> QED
  BY <1>10, <1>12, <1>13

\* A group is never forgotten.
LEMMA MadeGrows == ASSUME Turns \/ Review \/ Fail \/ EndTick PROVE made \subseteq made'
<1>1. CASE Turns
  BY <1>1 DEF Turns, BeginReview, FormGroup, JoinGroup, Decide, Die, rows
<1>2. CASE Review
  BY <1>2 DEF Review, UpdateGroupCohesion, UpdateGroupLeadership, CheckDissolution, CheckSchism,
       DetectAndPropose, Join, Form, EndReview, rows, MakeGroup, Secede
<1>3. CASE Fail \/ EndTick
  BY <1>3 DEF Fail, EndTick, rows
<1> QED
  BY <1>1, <1>2, <1>3

LEMMA PolityInvNext == PolityInv /\ [Next]_vars => PolityInv'
<1> SUFFICES ASSUME PolityInv, [Next]_vars PROVE PolityInv'
  OBVIOUS
<1>1. HistInv' /\ WealthInv'
  BY HistInvNext, WealthInvNext DEF PolityInv
<1>2. CASE PoliticalCycle
  BY <1>1, <1>2, CycleTypes DEF PolityInv
<1>3. CASE (Turns \/ Review \/ Fail \/ EndTick) /\ UNCHANGED polityVars
  <2>1. FactionInv' /\ made \subseteq made'
    BY <1>3, ReviewFactions, MadeGrows DEF PolityInv
  <2>2. gov' \in Governments'
    BY <1>3, <2>1 DEF polityVars, PolityInv, Governments, Parties
  <2> QED
    BY <1>1, <1>3, <2>1, <2>2 DEF polityVars, PolityInv
<1>4. CASE UNCHANGED vars
  BY <1>1, <1>4 DEF vars, factionVars, people, rows, plans, counts, polityVars,
     PolityInv, FactionInv, FactionTypeOK, Governments, Parties
<1> QED
  BY <1>2, <1>3, <1>4 DEF Next

LEMMA PolityInvInit == Init => PolityInv
<1> SUFFICES ASSUME Init PROVE PolityInv
  OBVIOUS
<1>1. FactionInv
  BY FactionInvInit DEF Init
<1>2. gov \in Governments
  <2>1. 0 \in Moments
    BY FactionAssumption DEF Moments
  <2> QED
    BY <2>1, PoliticsAssumption DEF Init, Governments, Heads, Parties
<1>3. worldWealth \in Nat /\ purse \in [Agents -> Nat]
  BY PoliticsAssumption DEF Init
<1> QED
  BY <1>1, <1>2, <1>3, HistInvInit, WealthInvInit DEF PolityInv

\* Whoever rules is an agent or nobody, the ruling group is one there is, also
\* when it has been dissolved; every leader, parent and member refers to what
\* exists; nothing is owed to the world and no purse holds more than it had.
THEOREM PolityIsTyped == Spec => []TypeOK
<1>1. PolityInv => TypeOK
  <2> SUFFICES ASSUME PolityInv PROVE TypeOK
    OBVIOUS
  <2>1. SumFunctionOnSet(purse, Agents) \in Nat
    BY FactionAssumption, SumIsNat DEF PolityInv
  <2>2. worldWealth + SumFunctionOnSet(purse, Agents) = WorldWealth /\ worldWealth \in Nat
    BY DEF PolityInv, WealthInv, WealthConserved
  <2>3. worldWealth \in 0 .. WorldWealth
    BY <2>1, <2>2, PoliticsAssumption
  <2>4. \A a \in Agents : purse[a] <= WorldWealth
    <3> SUFFICES ASSUME NEW a \in Agents PROVE purse[a] <= WorldWealth
      OBVIOUS
    <3>1. SumFunctionOnSet(purse, Agents) = purse[a] + SumFunctionOnSet(purse, Agents \ {a})
      <4>1. \A x \in Agents : purse[x] \in Int
        BY DEF PolityInv
      <4> QED
        BY <4>1, FactionAssumption, SumRemove
    <3>2. IsFiniteSet(Agents \ {a})
      BY FactionAssumption, FS_Subset
    <3>3. SumFunctionOnSet(purse, Agents \ {a}) \in Nat
      BY <3>2, SumIsNat DEF PolityInv
    <3>4. purse[a] \in Nat
      BY DEF PolityInv
    <3> QED
      BY <2>1, <2>2, <3>1, <3>3, <3>4, PoliticsAssumption
  <2>5. purse \in [Agents -> 0 .. WorldWealth]
    BY <2>4, PoliticsAssumption DEF PolityInv
  <2>6. history \in Seq(Row) /\ FactionTypeOK
    BY DEF PolityInv, HistInv, RegimeInv, FactionInv
  <2>7. gov \in [type : Types, head : Agents \cup {None}, ruling : made \cup {None},
                 formed : 0 .. MaxTick, lastElection : 0 .. MaxTick, stable : BOOLEAN]
    BY DEF PolityInv, Governments, Heads, Parties, Moments
  <2> QED
    BY <2>3, <2>5, <2>6, <2>7 DEF TypeOK
<1> QED
  BY <1>1, PolityInvInit, PolityInvNext, PTL DEF Spec

-----------------------------------------------------------------------------
(* The founders of a review.                                                 *)

\* Those who have founded no group in this review.
Unclaimed == {a \in Agents : \A g \in Groups : a \notin born[g]}

BornInv ==
    /\ \A g \in Groups : born[g] # {} =>
        /\ g \in made /\ Cardinality(born[g]) >= MinMembers
        /\ born[g] \subseteq Members(g) /\ leader[g] \in born[g]
    /\ \A k \in DOMAIN todo : born[todo[k]] = {}
    /\ stage = "turns" => \A g \in Groups : born[g] = {}
    /\ stage = "decisions" =>
        /\ \A k \in DOMAIN joins : joins[k].agent \in Unclaimed
        /\ \A k \in DOMAIN formers : formers[k] \in used \/ formers[k] \in Unclaimed

LEMMA NobodyIsUnclaimed ==
    ASSUME FactionInv, BornInv, NEW a \in Agents, group[a] = None PROVE a \in Unclaimed
<1> SUFFICES ASSUME NEW g \in Groups, a \in born[g] PROVE FALSE
  BY DEF Unclaimed
<1>1. group[a] = g
  BY DEF BornInv, Members
<1> QED
  BY <1>1, FactionAssumption

LEMMA MemberIsUnclaimed ==
    ASSUME FactionInv, BornInv, NEW g \in Groups, born[g] = {}, NEW a \in Members(g)
    PROVE a \in Unclaimed
BY DEF Unclaimed, BornInv, Members

\* A group of people nobody has claimed.
LEMMA BornGroup ==
    ASSUME FactionInv, BornInv, NEW g \in NewGroup, NEW S, S \subseteq Agents,
           Cardinality(S) >= MinMembers, S \subseteq Unclaimed, NEW from, MakeGroup(g, S, from)
    PROVE /\ \A h \in Groups : born'[h] # {} =>
                /\ h \in made' /\ Cardinality(born'[h]) >= MinMembers
                /\ born'[h] \subseteq Members(h)' /\ leader'[h] \in born'[h]
          /\ g \in Groups /\ g \notin made /\ born'[g] = S
          /\ \A h \in Groups \ {g} : born'[h] = born[h]
<1>1. g \in Groups /\ g \notin made
  BY NewOnes
<1>2. /\ born \in [Groups -> SUBSET Agents] /\ leader \in [Groups -> Agents \cup {None}]
      /\ group \in [Agents -> made \cup {None}]
  BY DEF FactionInv, FactionTypeOK, Births
<1>3. made' = made \cup {g} /\ born' = [born EXCEPT ![g] = S]
      /\ group' = [a \in Agents |-> IF a \in S THEN g ELSE group[a]]
  BY DEF MakeGroup
<1>4. PICK b \in S : leader' = [leader EXCEPT ![g] = b]
  BY BestOf DEF MakeGroup
<1>5. born'[g] = S /\ \A h \in Groups \ {g} : born'[h] = born[h]
  BY <1>1, <1>2, <1>3
<1>6. ASSUME NEW h \in Groups, born'[h] # {}
      PROVE /\ h \in made' /\ Cardinality(born'[h]) >= MinMembers
            /\ born'[h] \subseteq Members(h)' /\ leader'[h] \in born'[h]
  <2>1. CASE h = g
    BY <1>1, <1>2, <1>3, <1>4, <1>5, <2>1 DEF Members
  <2>2. CASE h # g
    <3>1. born'[h] = born[h] /\ born[h] # {}
      BY <1>5, <1>6, <2>2
    <3>2. h \in made /\ Cardinality(born[h]) >= MinMembers
          /\ born[h] \subseteq Members(h) /\ leader[h] \in born[h]
      BY <3>1 DEF BornInv
    <3>3. leader'[h] = leader[h]
      BY <1>1, <1>2, <1>4, <2>2
    <3>4. \A a \in born[h] : a \notin S
      BY DEF Unclaimed
    <3>5. born[h] \subseteq Members(h)'
      BY <1>2, <1>3, <3>2, <3>4 DEF Members
    <3> QED
      BY <1>3, <3>1, <3>2, <3>3, <3>5
  <2> QED
    BY <2>1, <2>2
<1> QED
  BY <1>1, <1>5, <1>6

LEMMA TurnsBorn == ASSUME FactionInv, BornInv, Turns PROVE BornInv'
<1>1. stage = "turns" /\ UNCHANGED <<group, made, leader, born>> /\ stage' # "decisions"
  BY DEF Turns, BeginReview, FormGroup, JoinGroup, Decide, Die, people, rows
<1>2. \A g \in Groups : born[g] = {}
  BY <1>1 DEF BornInv
<1>3. \A k \in DOMAIN todo' : todo'[k] \in Groups
  <2>1. CASE BeginReview
    BY <2>1, ActiveInOrder DEF BeginReview, Active, FactionInv, FactionTypeOK
  <2>2. CASE UNCHANGED todo
    BY <2>2 DEF FactionInv, FactionTypeOK
  <2> QED
    BY <2>1, <2>2 DEF Turns, FormGroup, JoinGroup, Decide, Die
<1>4. \A k \in DOMAIN todo' : born'[todo'[k]] = {}
  BY <1>1, <1>2, <1>3
<1> QED
  BY <1>1, <1>2, <1>4 DEF BornInv

LEMMA VisitBorn ==
    ASSUME FactionInv, BornInv, UpdateGroupCohesion \/ UpdateGroupLeadership \/ CheckDissolution
    PROVE BornInv'
<1>1. /\ stage \in UnderReview /\ stage' \in UnderReview
      /\ UNCHANGED <<todo, made, born, joins, formers, used>>
  BY DEF UpdateGroupCohesion, UpdateGroupLeadership, CheckDissolution, Reviewing, plans, rows, UnderReview
<1>2. This \in Groups /\ born[This] = {}
  BY <1>1, ThisIs, HeadOf DEF BornInv, This
<1>3. leader \in [Groups -> Agents \cup {None}]
  BY DEF FactionInv, FactionTypeOK
<1>4. \A g \in Groups : g # This => leader'[g] = leader[g]
  BY <1>2, <1>3 DEF UpdateGroupCohesion, UpdateGroupLeadership, CheckDissolution, ElectNewLeader, rows
<1>5. \A g \in Groups : g # This => Members(g) \subseteq Members(g)'
  BY FactionAssumption DEF Members, UpdateGroupCohesion, UpdateGroupLeadership, CheckDissolution
<1>6. stage' # "turns" /\ stage' # "decisions"
  BY <1>1 DEF UnderReview
<1>7. \A g \in Groups : born'[g] # {} =>
        /\ g \in made' /\ Cardinality(born'[g]) >= MinMembers
        /\ born'[g] \subseteq Members(g)' /\ leader'[g] \in born'[g]
  BY <1>1, <1>2, <1>4, <1>5 DEF BornInv
<1>8. \A k \in DOMAIN todo' : born'[todo'[k]] = {}
  BY <1>1 DEF BornInv
<1> QED
  BY <1>6, <1>7, <1>8 DEF BornInv

LEMMA SchismBorn == ASSUME FactionInv, BornInv, CheckSchism PROVE BornInv'
<1>1. /\ stage = "schism" /\ stage \in UnderReview /\ todo' = Tail(todo)
      /\ stage' \in {"proposals", "cohesion"}
  BY DEF CheckSchism, Reviewing, UnderReview
<1>2. todo \in Seq(Groups) /\ todo # << >> /\ This \in made /\ This \in Groups
  BY <1>1, ThisIs
<1>3. born[This] = {} /\ \A k \in DOMAIN todo' : k + 1 \in DOMAIN todo /\ todo'[k] = todo[k + 1]
  BY <1>1, <1>2, HeadOf DEF BornInv, This
<1>4. CASE UNCHANGED <<group, rows, born, events>>
  BY <1>1, <1>3, <1>4 DEF BornInv, rows, Members
<1>5. CASE Secede
  <2>1. PICK clique \in Cliques, g \in NewGroup :
          /\ Cardinality(clique \cap Living(This)) >= MinMembers
          /\ MakeGroup(g, clique \cap Living(This), This)
    BY <1>5 DEF Secede
  <2> DEFINE S == clique \cap Living(This)
  <2>2. S \subseteq Members(This) /\ S \subseteq Agents
    BY DEF Living, Members
  <2>3. S \subseteq Unclaimed
    BY <1>2, <1>3, <2>2, MemberIsUnclaimed
  <2> HIDE DEF S
  <2>4. /\ \A h \in Groups : born'[h] # {} =>
              /\ h \in made' /\ Cardinality(born'[h]) >= MinMembers
              /\ born'[h] \subseteq Members(h)' /\ leader'[h] \in born'[h]
        /\ g \notin made /\ \A h \in Groups \ {g} : born'[h] = born[h]
    <3>1. Cardinality(S) >= MinMembers /\ MakeGroup(g, S, This)
      BY <2>1 DEF S
    <3> QED
      BY <2>2, <2>3, <3>1, BornGroup
  <2>5. \A k \in DOMAIN todo' : born'[todo'[k]] = {}
    <3> SUFFICES ASSUME NEW k \in DOMAIN todo' PROVE born'[todo'[k]] = {}
      OBVIOUS
    <3>1. k + 1 \in DOMAIN todo /\ todo'[k] = todo[k + 1]
      BY <1>3
    <3>2. todo'[k] \in made /\ todo'[k] \in Groups /\ born[todo'[k]] = {}
      BY <3>1 DEF FactionInv, FactionTypeOK, BornInv
    <3> QED
      BY <2>4, <3>2
  <2> QED
    BY <1>1, <2>4, <2>5 DEF BornInv
<1> QED
  BY <1>4, <1>5 DEF CheckSchism

LEMMA DetectBorn == ASSUME FactionInv, BornInv, DetectAndPropose PROVE BornInv'
<1>1. /\ stage' = "decisions" /\ UNCHANGED <<todo, group, made, leader, born, used>>
  BY DEF DetectAndPropose, people, rows
<1>2. \A a \in Agents : group[a] = None => a \in Unclaimed
  BY NobodyIsUnclaimed
<1>3. Unclaimed' = Unclaimed
  BY <1>1 DEF Unclaimed
<1>4. \A k \in DOMAIN joins' : joins'[k].agent \in Unclaimed'
  BY <1>2, <1>3, PlansAre
<1>5. \A k \in DOMAIN formers' : formers'[k] \in Unclaimed'
  <2>1. \A k \in DOMAIN formers' : formers'[k] \in Agents
    BY PlansAre
  <2> QED
    BY <1>2, <1>3, <2>1, PlansAre
<1> QED
  BY <1>1, <1>4, <1>5 DEF BornInv, Members

LEMMA JoinBorn == ASSUME FactionInv, BornInv, Join PROVE BornInv'
<1> DEFINE d == Head(joins)
<1>1. /\ joins # << >> /\ stage = "decisions" /\ stage' = "decisions" /\ joins' = Tail(joins)
      /\ group' = [group EXCEPT ![d.agent] = d.target]
      /\ UNCHANGED <<todo, made, leader, born, formers, used>>
  BY DEF Join
<1>2. /\ d.agent \in Agents /\ d.agent \in Unclaimed
      /\ \A k \in DOMAIN joins' : k + 1 \in DOMAIN joins /\ joins'[k] = joins[k + 1]
  BY <1>1, NextToJoin DEF BornInv
<1> HIDE DEF d
<1>3. \A g \in Groups : born[g] # {} => born[g] \subseteq Members(g)'
  <2> SUFFICES ASSUME NEW g \in Groups, NEW a \in born[g] PROVE a \in Members(g)'
    OBVIOUS
  <2>1. a \in Members(g) /\ a # d.agent
    BY <1>2 DEF BornInv, Unclaimed
  <2> QED
    BY <1>1, <2>1 DEF Members, FactionInv, FactionTypeOK
<1>4. \A k \in DOMAIN joins' : joins'[k].agent \in Unclaimed'
  BY <1>1, <1>2 DEF BornInv, Unclaimed
<1>5. \A k \in DOMAIN formers' : formers'[k] \in used' \/ formers'[k] \in Unclaimed'
  BY <1>1 DEF BornInv, Unclaimed
<1> QED
  BY <1>1, <1>3, <1>4, <1>5 DEF BornInv

LEMMA FormBorn == ASSUME FactionInv, BornInv, Form PROVE BornInv'
<1> DEFINE a == Head(formers)
           S == Founders(a)
<1>1. /\ formers # << >> /\ stage = "decisions" /\ stage' = "decisions"
      /\ formers' = Tail(formers) /\ joins = << >> /\ UNCHANGED <<todo, joins>>
  BY DEF Form
<1>2. /\ S \subseteq Agents /\ formers' \in Seq(Agents)
      /\ a = formers[1] /\ 1 \in DOMAIN formers
      /\ \A k \in DOMAIN formers' : k + 1 \in DOMAIN formers /\ formers'[k] = formers[k + 1]
  BY <1>1, NextToForm
<1>3. \A k \in DOMAIN formers' : formers'[k] \in used \/ formers'[k] \in Unclaimed
  BY <1>1, <1>2 DEF BornInv
<1>4. a \in used \/ S \subseteq Unclaimed
  <2>1. a \in used \/ a \in Unclaimed
    BY <1>1, <1>2 DEF BornInv
  <2>2. \A b \in S : b = a \/ \E k \in DOMAIN formers' : b = formers'[k] /\ b \notin used
    BY <1>1 DEF Founders, ToSet
  <2> HIDE DEF a, S
  <2> QED
    BY <1>3, <2>1, <2>2
<1>5. \/ UNCHANGED <<used, group, rows, born>>
      \/ used' = used \cup S /\ UNCHANGED <<group, rows, born>>
      \/ /\ a \notin used /\ used' = used \cup S /\ Cardinality(S) >= MinMembers
         /\ \E g \in NewGroup : MakeGroup(g, S, None)
  <2>1. IsFiniteSet(S)
    BY <1>2, FactionAssumption, FS_Subset
  <2>2. Cardinality(S) \in Nat
    BY <2>1, FS_CardinalityType
  <2>3. Cardinality(S) < MinMembers \/ Cardinality(S) >= MinMembers
    BY <2>2, FactionAssumption
  <2> QED
    BY <2>3 DEF Form
<1> HIDE DEF a, S
<1>6. CASE UNCHANGED <<group, rows, born>>
  <2>1. \A k \in DOMAIN formers' : formers'[k] \in used' \/ formers'[k] \in Unclaimed'
    BY <1>3, <1>5, <1>6 DEF Unclaimed
  <2> QED
    BY <1>1, <1>6, <2>1 DEF rows, BornInv, Members
<1>7. ASSUME NEW g \in NewGroup, a \notin used, used' = used \cup S, Cardinality(S) >= MinMembers,
             MakeGroup(g, S, None)
      PROVE BornInv'
  <2>1. /\ \A h \in Groups : born'[h] # {} =>
              /\ h \in made' /\ Cardinality(born'[h]) >= MinMembers
              /\ born'[h] \subseteq Members(h)' /\ leader'[h] \in born'[h]
        /\ g \in Groups /\ g \notin made /\ born'[g] = S
        /\ \A h \in Groups \ {g} : born'[h] = born[h]
    BY <1>2, <1>4, <1>7, BornGroup
  <2>2. \A k \in DOMAIN todo' : born'[todo'[k]] = {}
    <3>1. \A k \in DOMAIN todo : todo[k] \in made /\ todo[k] \in Groups /\ born[todo[k]] = {}
      BY DEF FactionInv, FactionTypeOK, BornInv
    <3> QED
      BY <1>1, <2>1, <3>1
  <2>3. \A k \in DOMAIN formers' : formers'[k] \in used' \/ formers'[k] \in Unclaimed'
    BY <1>3, <1>7, <2>1 DEF Unclaimed
  <2> QED
    BY <1>1, <2>1, <2>2, <2>3 DEF BornInv
<1> QED
  BY <1>5, <1>6, <1>7

LEMMA RestBorn ==
    ASSUME FactionInv, BornInv, EndReview \/ Fail \/ EndTick \/ PoliticalCycle PROVE BornInv'
<1>1. CASE EndReview \/ PoliticalCycle
  BY <1>1 DEF EndReview, PoliticalCycle, people, rows, BornInv, Members
<1>2. CASE Fail \/ EndTick
  <2>1. \A g \in Groups : born'[g] = {}
    BY <1>2 DEF Fail, EndTick
  <2>2. \A k \in DOMAIN todo' : todo'[k] \in Groups
    BY <1>2 DEF Fail, EndTick, FactionInv, FactionTypeOK
  <2> QED
    BY <1>2, <2>1, <2>2 DEF Fail, EndTick, BornInv
<1> QED
  BY <1>1, <1>2

LEMMA BornInvNext == ASSUME FactionInv, BornInv, [Next]_vars PROVE BornInv'
<1>1. CASE UNCHANGED vars
  BY <1>1 DEF vars, factionVars, people, rows, plans, BornInv, Members, Unclaimed
<1> QED
  BY <1>1, TurnsBorn, VisitBorn, SchismBorn, DetectBorn, JoinBorn, FormBorn, RestBorn DEF Next, Review

\* Whatever is decided, by whom and in whatever order, and whoever joins another
\* group first: no founder is claimed by two groups of one review.
THEOREM FoundersStay == Spec => []NoFounderPoached
<1>1. Init => BornInv
  BY DEF Init, FactionInit, BornInv
<1>2. PolityInv /\ BornInv /\ [Next]_vars => BornInv'
  BY BornInvNext DEF PolityInv
<1>3. BornInv => NoFounderPoached
  BY DEF BornInv, NoFounderPoached
<1> QED
  BY <1>1, <1>2, <1>3, PolityInvInit, PolityInvNext, PTL DEF Spec

-----------------------------------------------------------------------------
(* The leaders after a review.                                               *)

\* The group is led by one of its own, or its leader has seceded.
Led(g) ==
    Living(g) # {} =>
        \/ IsLeader(leader[g], g)
        \/ \E h \in Groups : parent[h] = g /\ leader[g] \in born[h]

Pending == {todo[k] : k \in DOMAIN todo}

LedInv ==
    /\ stage \in UnderReview \cup {"proposals"} => \A g \in Active \ Pending : Led(g)
    /\ stage \in {"dissolution", "schism"} => Led(This)

LEMMA ThisIsPending ==
    ASSUME FactionInv, stage \in UnderReview PROVE This \in Pending /\ This \in Groups
<1>1. 1 \in DOMAIN todo /\ This = todo[1]
  BY ThisIs, HeadOf DEF This
<1> QED
  BY <1>1, ThisIs DEF Pending

\* A step that changes nothing but the row and the members of the group under
\* review leaves the others led as they are.
LEMMA OthersLed ==
    ASSUME FactionInv, stage \in UnderReview, UNCHANGED <<todo, made, parent, born, alive>>,
           \A g \in Groups : g # This =>
               leader'[g] = leader[g] /\ cohesion'[g] = cohesion[g] /\ Members(g)' = Members(g)
    PROVE LedInv => \A g \in (Active \ Pending)' : Led(g)'
<1> SUFFICES ASSUME LedInv, NEW g \in (Active \ Pending)' PROVE Led(g)'
  OBVIOUS
<1>1. Pending' = Pending /\ Active' \subseteq Groups
  BY DEF Pending, Active, FactionInv, FactionTypeOK
<1>2. g \in Groups /\ g # This
  BY <1>1, ThisIsPending
<1>3. g \in Active \ Pending
  BY <1>1, <1>2 DEF Active
<1>4. Living(g)' = Living(g) /\ leader'[g] = leader[g]
  BY <1>2 DEF Living
<1>5. Led(g)
  BY <1>3 DEF LedInv
<1> QED
  BY <1>4, <1>5 DEF Led, IsLeader

LEMMA CohesionLed == ASSUME FactionInv, LedInv, UpdateGroupCohesion PROVE LedInv'
<1>1. /\ stage \in UnderReview /\ stage' = "leadership"
      /\ UNCHANGED <<todo, group, made, leader, parent, born, alive>>
  BY DEF UpdateGroupCohesion, Reviewing, UnderReview
<1>2. \A g \in Groups : g # This => cohesion'[g] = cohesion[g]
  BY DEF UpdateGroupCohesion, FactionInv, FactionTypeOK
<1>3. \A g \in (Active \ Pending)' : Led(g)'
  BY <1>1, <1>2, OthersLed DEF Members
<1> QED
  BY <1>1, <1>3 DEF LedInv

LEMMA LeadershipLed == ASSUME FactionInv, LedInv, UpdateGroupLeadership PROVE LedInv'
<1>1. /\ stage \in UnderReview /\ stage' = "dissolution"
      /\ UNCHANGED <<todo, group, made, parent, born, alive>>
  BY DEF UpdateGroupLeadership, Reviewing, UnderReview
<1>2. This \in Groups /\ leader \in [Groups -> Agents \cup {None}] /\ cohesion \in [Groups -> Bands]
  BY <1>1, ThisIs DEF FactionInv, FactionTypeOK
<1>3. \A g \in Groups : g # This => leader'[g] = leader[g] /\ cohesion'[g] = cohesion[g]
  BY <1>2 DEF UpdateGroupLeadership, ElectNewLeader
<1>4. \A g \in (Active \ Pending)' : Led(g)'
  BY <1>1, <1>3, OthersLed DEF Members
<1>5. Living(This)' = Living(This) /\ This' = This
  BY <1>1 DEF Living, Members, This
<1>6. Living(This) # {} => leader'[This] \in Living(This)
  <2>1. ASSUME NEW S, S \subseteq Living(This), ElectNewLeader(S), S # {}
        PROVE leader'[This] \in Living(This)
    BY <1>2, <2>1, BestOf DEF ElectNewLeader
  <2>2. CASE LeaderLost(This) /\ ElectNewLeader(Living(This))
    BY <2>1, <2>2
  <2>3. CASE leader' = leader /\ ~LeaderLost(This)
    BY <2>3 DEF LeaderLost, IsLeader
  <2>4. CASE ~LeaderLost(This) /\ ElectNewLeader(Living(This) \ {leader[This]})
    <3>1. CASE Living(This) \ {leader[This]} = {}
      BY <2>3, <2>4, <3>1 DEF ElectNewLeader
    <3>2. CASE Living(This) \ {leader[This]} # {}
      BY <2>1, <2>4, <3>2
    <3> QED
      BY <3>1, <3>2
  <2> QED
    BY <2>2, <2>3, <2>4 DEF UpdateGroupLeadership
<1>7. Led(This)'
  BY <1>5, <1>6 DEF Led, IsLeader
<1> QED
  BY <1>1, <1>4, <1>7 DEF LedInv, UnderReview

LEMMA DissolutionLed == ASSUME FactionInv, LedInv, CheckDissolution PROVE LedInv'
<1>1. /\ stage = "dissolution" /\ stage \in UnderReview /\ stage' = "schism"
      /\ UNCHANGED <<todo, rows, born, alive>>
  BY DEF CheckDissolution, Reviewing, UnderReview
<1>2. This \in Groups /\ This' = This /\ Led(This)
  BY <1>1, ThisIs DEF This, LedInv
<1>3. \A g \in Groups : g # This => Members(g)' = Members(g)
  BY FactionAssumption DEF CheckDissolution, Members
<1>4. \A g \in (Active \ Pending)' : Led(g)'
  BY <1>1, <1>3, OthersLed DEF rows
<1>5. CASE UNCHANGED group
  BY <1>1, <1>2, <1>4, <1>5 DEF LedInv, Led, IsLeader, Living, Members, rows
<1>6. CASE group' = [a \in Agents |-> IF group[a] = This THEN None ELSE group[a]]
  <2>1. Living(This)' = {}
    BY <1>2, <1>6, FactionAssumption DEF Living, Members
  <2> QED
    BY <1>1, <1>2, <1>4, <2>1 DEF LedInv, Led
<1> QED
  BY <1>5, <1>6 DEF CheckDissolution

LEMMA SchismLed == ASSUME FactionInv, BornInv, LedInv, CheckSchism PROVE LedInv'
<1>1. /\ stage = "schism" /\ stage \in UnderReview /\ todo' = Tail(todo)
      /\ stage' \in {"proposals", "cohesion"} /\ UNCHANGED alive
  BY DEF CheckSchism, Reviewing, UnderReview
<1>2. /\ todo \in Seq(Groups) /\ todo # << >> /\ This \in Groups /\ This = todo[1]
      /\ \A k \in DOMAIN todo : k = 1 \/ (k - 1 \in DOMAIN todo' /\ todo'[k - 1] = todo[k])
  BY <1>1, ThisIs, HeadOf DEF This
<1>3. Pending \subseteq Pending' \cup {This}
  BY <1>2 DEF Pending
<1>4. \A g \in Active : g \in Pending' \/ Led(g)
  <2>1. Led(This)
    BY <1>1 DEF LedInv
  <2> QED
    BY <1>1, <1>3, <2>1 DEF LedInv
<1>5. CASE UNCHANGED <<group, rows, born, events>>
  BY <1>1, <1>4, <1>5 DEF LedInv, Led, IsLeader, Living, Members, rows, Active
<1>6. CASE Secede
  <2>1. PICK clique \in Cliques, g \in NewGroup :
          /\ Cardinality(clique \cap Living(This)) >= MinMembers
          /\ MakeGroup(g, clique \cap Living(This), This)
          /\ \E c \in Lower(cohesion[This]) : cohesion' = [cohesion EXCEPT ![This] = c, ![g] = Even]
    BY <1>6 DEF Secede
  <2> DEFINE S == clique \cap Living(This)
  <2>2. S \subseteq Living(This)
    OBVIOUS
  <2>3. MakeGroup(g, S, This)
    BY <2>1
  <2> HIDE DEF S
  <2>4. /\ leader \in [Groups -> Agents \cup {None}] /\ cohesion \in [Groups -> Bands]
        /\ parent \in [Groups -> made \cup {None}] /\ born \in [Groups -> SUBSET Agents]
        /\ group \in [Agents -> made \cup {None}] /\ made \subseteq Groups
    BY DEF FactionInv, FactionTypeOK, Births
  <2>5. g \in Groups /\ g \notin made /\ This \in made
    BY <1>1, NewOnes, ThisIs
  <2>6. /\ made' = made \cup {g} /\ parent' = [parent EXCEPT ![g] = This]
        /\ born' = [born EXCEPT ![g] = S]
        /\ group' = [a \in Agents |-> IF a \in S THEN g ELSE group[a]]
    BY <2>3 DEF MakeGroup
  <2>7. PICK b \in S : leader' = [leader EXCEPT ![g] = b]
    BY <2>3, BestOf DEF MakeGroup
  <2>8. born[g] = {}
    BY <2>5 DEF BornInv
  <2>9. Led(g)'
    BY <1>1, <2>2, <2>4, <2>5, <2>6, <2>7 DEF Led, IsLeader, Living, Members
  <2>10. ASSUME NEW f \in made, Led(f) PROVE Led(f)'
    <3>1. f \in Groups /\ f # g /\ leader'[f] = leader[f]
      BY <2>4, <2>5, <2>7
    <3>2. Living(f)' \subseteq Living(f)
      BY <1>1, <2>6, <3>1 DEF Living, Members
    <3>3. ASSUME NEW h \in Groups, parent[h] = f, leader[f] \in born[h]
          PROVE parent'[h] = f /\ leader'[f] \in born'[h]
      BY <2>4, <2>6, <2>8, <3>1, <3>3
    <3>4. ASSUME leader[f] \in Living(f), leader[f] \notin Living(f)'
          PROVE parent'[g] = f /\ leader'[f] \in born'[g]
      <4>1. leader[f] \in S
        BY <1>1, <2>6, <3>4 DEF Living, Members
      <4>2. f = This
        BY <2>2, <3>4, <4>1 DEF Living, Members
      <4> QED
        BY <2>4, <2>5, <2>6, <3>1, <4>1, <4>2
    <3>5. SUFFICES ASSUME Living(f)' # {}
                   PROVE leader'[f] \in Living(f)'
                         \/ \E h \in Groups : parent'[h] = f /\ leader'[f] \in born'[h]
      BY DEF Led, IsLeader
    <3>6. CASE leader[f] \in Living(f)
      BY <2>5, <3>1, <3>4, <3>6
    <3>7. CASE \E h \in Groups : parent[h] = f /\ leader[f] \in born[h]
      BY <3>3, <3>7
    <3> QED
      BY <2>10, <3>2, <3>5, <3>6, <3>7 DEF Led, IsLeader
  <2>11. Active' \subseteq Active \cup {g, This}
    BY <2>1, <2>4, <2>5, <2>6 DEF Active
  <2>12. Led(This)
    BY <1>1 DEF LedInv
  <2>13. \A f \in Active' : f \in Pending' \/ Led(f)'
    BY <1>4, <2>5, <2>9, <2>10, <2>11, <2>12 DEF Active
  <2> QED
    BY <1>1, <2>13 DEF LedInv
<1> QED
  BY <1>5, <1>6 DEF CheckSchism

LEMMA LedInvNext == ASSUME FactionInv, BornInv, LedInv, [Next]_vars PROVE LedInv'
<1>1. CASE BeginReview
  <2>1. CASE stage' = "politics"
    BY <2>1 DEF LedInv, UnderReview
  <2>2. CASE todo' = InOrder(Active) /\ stage' \in {"proposals", "cohesion"}
    <3>1. Active' = Active
      BY <1>1 DEF BeginReview, rows, Active
    <3>2. Active \subseteq Pending'
      BY <2>2, ActiveInOrder DEF Pending
    <3> QED
      BY <2>2, <3>1, <3>2 DEF LedInv
  <2> QED
    BY <1>1, <2>1, <2>2 DEF BeginReview
<1>2. CASE stage' \in {"turns", "decisions", "politics", "closing"}
  BY <1>2 DEF LedInv, UnderReview
<1>3. CASE UNCHANGED vars
  BY <1>3 DEF vars, factionVars, people, rows, LedInv, Led, IsLeader, Living, Members, Active, Pending, This
<1>4. CASE \/ \E a \in Agents : FormGroup(a) \/ JoinGroup(a) \/ Die(a)
           \/ DetectAndPropose \/ Join \/ Form \/ EndReview \/ Fail \/ EndTick \/ PoliticalCycle
  BY <1>2, <1>4 DEF FormGroup, JoinGroup, Decide, Die, DetectAndPropose, Join, Form, EndReview,
     Fail, EndTick, PoliticalCycle
<1> QED
  BY <1>1, <1>3, <1>4, CohesionLed, LeadershipLed, DissolutionLed, SchismLed DEF Next, Turns, Review

\* Whoever dies, leaves or secedes: a review leaves no group with living members
\* to a leader who is not one of them, unless it is the leader of a group that
\* seceded in this review.
THEOREM GroupsAreLed == Spec => []LeadershipRepaired
<1>1. Init => BornInv /\ LedInv
  BY DEF Init, FactionInit, BornInv, LedInv, UnderReview
<1>2. PolityInv /\ BornInv /\ LedInv /\ [Next]_vars => BornInv' /\ LedInv'
  BY BornInvNext, LedInvNext DEF PolityInv
<1>3. PolityInv /\ LedInv => LeadershipRepaired
  <2> SUFFICES ASSUME PolityInv, LedInv, stage = "proposals", NEW g \in Active, Living(g) # {}
               PROVE \/ IsLeader(leader[g], g)
                     \/ \E h \in Groups : parent[h] = g /\ leader[g] \in born[h]
    BY DEF LeadershipRepaired
  <2>1. Pending = {}
    BY DEF Pending, PolityInv, FactionInv
  <2> QED
    BY <2>1 DEF LedInv, Led
<1> QED
  BY <1>1, <1>2, <1>3, PolityInvInit, PolityInvNext, PTL DEF Spec

=============================================================================
