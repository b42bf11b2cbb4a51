------------------------------ MODULE Households ------------------------------
(***************************************************************************)
(* Births, what the newborn inherit, deaths, and emergency flight          *)
(* (demography/fertility.py, inheritance.py, mortality.py, migration.py),  *)
(* with the avoid_conception decision of simulation/engine.py.             *)
(*                                                                         *)
(* No orchestrator calls the demography functions yet: the order of a tick *)
(* is that of the design (births and deaths, flight, then the turns), and  *)
(* who dies and who has starved for long enough are inputs.                *)
(*                                                                         *)
(* Data: traits and education in percent, ranks of class 0..4 and 5 for    *)
(* the enslaved (noise and means of ranks in tenths), ages as at the start, *)
(* wages in units, shares in sixtieths, so that every comparison is exact. *)
(* A stream of random numbers is a function of the tick: it is seeded by   *)
(* simulation, tick and phase.                                             *)
(*                                                                         *)
(* Variants (..Unclamped, ..AtOnce, ..NowOnly, ..SameTick) are the         *)
(* plausible slips the properties are tested against.                      *)
(***************************************************************************)
EXTENDS Integers, SequencesExt, Orders

CONSTANTS
    N,             \* agents there are or will be, by id
    Zones,         \* zones, by id
    Founder,       \* the agents at the start; the others are yet unborn
    Eras,          \* templates: [rule, couple, planned, ceiling, floor]
    Draw,          \* what the inheritance stream of each tick draws
    Payrolls,      \* what the economy may pay per tick: wage of a role by zone
    Center,        \* where each zone is, on a line
    Scale, Pace,   \* metres of a unit of the map, metres walked in a tick
    PresentValue,  \* of a flow of one per tick, by years, in tenths
    AdulthoodAge,
    Poor,          \* bound: who may starve
    Deciders,      \* bound: who may decide to avoid conception
    Window,        \* flight_trigger_ticks
    WageWindow, WorkWindow,
    MaxTick, MaxDeaths  \* bounds

People == 1 .. N
NoOne == 0
NoZone == 0

Ranks == 0 .. 5
Enslaved == 5
Working == 3
Ages == 0 .. 99
Percent == 0 .. 100
Draws == [trait : Int, school : Int, rank : Int, gender : Int]
Anyone == People \cup {NoOne}
PersonType ==
    [life : {"unborn", "alive", "dead"}, zone : Zones, age : Ages, sex : {"female", "male"},
     role : BOOLEAN, rank : Ranks, intelligence : Percent, education : Percent,
     mother : Anyone, father : Anyone, spouse : Anyone]

ASSUME HouseholdsAssumption ==
    /\ N \in Nat /\ IsFiniteSet(Zones) /\ Zones \subseteq Nat \ {NoZone} /\ Zones # {}
    /\ DOMAIN Founder \subseteq People /\ \A a \in DOMAIN Founder : Founder[a] \in PersonType
    /\ Draw \in Seq(Draws)
    /\ MaxTick \in Nat /\ MaxTick <= Len(Draw) /\ MaxDeaths \in Nat
    /\ Payrolls \subseteq [Zones -> Nat] /\ Poor \cup Deciders \subseteq People
    /\ Window \in Nat \ {0} /\ WageWindow \in Nat \ {0} /\ WorkWindow \in 1 .. WageWindow
    /\ Scale \in Nat \ {0} /\ Pace \in Nat \ {0} /\ AdulthoodAge \in Nat

VARIABLES
    now,        \* Simulation.current_tick: the tick worked on is the next
    phase,      \* "demography", then "turns"
    era,        \* the template of the simulation
    person,     \* Agent rows and their active couple
    wages,      \* wage rows of the last ticks, the latest first
    flag,       \* AgentFertilityState.avoid_conception_flag_tick
    flights,    \* MIGRATION events of the last Window ticks, in order
    crises,     \* TRAPPED_CRISIS events of the tick, with their witnesses
    masses,     \* MASS_FLIGHT events of the tick
    delivered,  \* history: who has given birth in this tick
    unwilling,  \* history: who chose to avoid conception in the last turns
    was,        \* history: the zone of everybody before the flight of the tick
    deaths      \* history: bounds the deaths

vars == <<now, phase, era, person, wages, flag, flights, crises, masses,
          delivered, unwilling, was, deaths>>

Never == -2

FlightType ==
    [tick : 1 .. MaxTick, head : People, members : SUBSET People, from : Zones, to : Zones]

Living == {a \in People : person[a].life = "alive"}
In(z) == {a \in Living : person[a].zone = z}
Worked == now + 1

Clamp(lo, hi, x) == IF x < lo THEN lo ELSE IF x > hi THEN hi ELSE x

Unborn ==
    [life |-> "unborn", zone |-> CHOOSE z \in Zones : TRUE, age |-> 0, sex |-> "female",
     role |-> FALSE, rank |-> Working, intelligence |-> 0, education |-> 0,
     mother |-> NoOne, father |-> NoOne, spouse |-> NoOne]

Init ==
    /\ now = 0 /\ phase = "demography" /\ era \in Eras
    /\ person = [a \in People |-> IF a \in DOMAIN Founder THEN Founder[a] ELSE Unborn]
    /\ wages = << >> /\ flag = [a \in People |-> Never]
    /\ flights = << >> /\ crises = {} /\ masses = {}
    /\ delivered = {} /\ unwilling = {} /\ was = << >> /\ deaths = 0

-----------------------------------------------------------------------------
(* What the newborn inherit.                                                 *)

\* Half of what the mean of the parents differs from that of the era is
\* passed on, a quarter when the father is unknown; noise is added, and the
\* result is kept within its range.  fathers has one value or none.
EraMean == 50
Transmitted(mothers, fathers, noise) ==
    EraMean + noise +
        (SumFunctionOnSet([v \in fathers |-> v - EraMean], fathers) + mothers - EraMean) \div 4
InheritTraitUnclamped(mothers, fathers, noise) == Transmitted(mothers, fathers, noise)
InheritTrait(mothers, fathers, noise) == Clamp(0, 100, Transmitted(mothers, fathers, noise))

\* Everything below is of a mother m with draw d; the father is her partner.
Fathers(m) == {person[m].spouse} \ {NoOne}
Intelligence(m, d) ==
    InheritTrait(person[m].intelligence, {person[f].intelligence : f \in Fathers(m)}, d.trait)
Education(m, d) ==
    InheritTrait(person[m].education, {person[f].education : f \in Fathers(m)}, d.school)

\* Ranks of class are computed in tenths; a computed rank is that of a free
\* class, however low the parents'.  A half is rounded to the even rank.
FreeRank(tenths) ==
    LET down == tenths \div 10
        up == tenths % 10 > 5 \/ (tenths % 10 = 5 /\ down % 2 = 1)
    IN Clamp(0, Enslaved - 1, IF up THEN down + 1 ELSE down)
ParentRank(m) == IF Fathers(m) = {} THEN person[m].rank ELSE person[person[m].spouse].rank
ZoneClassMean(z) ==
    IF In(z) = {} THEN 10 * Working
    ELSE (10 * SumFunctionOnSet([a \in In(z) |-> person[a].rank], In(z))) \div Cardinality(In(z))

ClarkRegression(m, d) ==
    FreeRank((70 * ParentRank(m) + 3 * ZoneClassMean(person[m].zone)) \div 10 + d.rank)
BeckerTomes(m, d) ==
    FreeRank((40 * ParentRank(m) + 6 * ZoneClassMean(person[m].zone)) \div 10 + d.rank)
Meritocratic(m, d) ==
    LET merit == (Intelligence(m, d) + Education(m, d)) \div 2
        meritRank == ((100 - merit) * 10 * (Enslaved - 1)) \div 100
    IN FreeRank((20 * ParentRank(m) + 8 * meritRank) \div 10)
SocialClass(m, d) ==
    CASE era.rule = "clark_regression" -> ClarkRegression(m, d)
      [] era.rule = "becker_tomes_elasticity_0.4" -> BeckerTomes(m, d)
      [] era.rule = "meritocratic" -> Meritocratic(m, d)
      [] OTHER -> ParentRank(m)

\* 105 boys for 100 girls; the draw is in percent.
Gender(d) == IF 205 * d.gender < 100 * 105 THEN "male" ELSE "female"

Newborn(m) ==
    LET d == Draw[Worked] IN
    [Unborn EXCEPT !.life = "alive", !.zone = person[m].zone, !.sex = Gender(d),
                   !.intelligence = Intelligence(m, d), !.education = Education(m, d),
                   !.rank = SocialClass(m, d), !.mother = m, !.father = person[m].spouse]

-----------------------------------------------------------------------------
(* Births and deaths.                                                        *)

\* The choice of the last turns: they were taken at the tick before.
AvoidingSameTick(a) == flag[a] = now
Avoiding(a) == flag[a] = now - 1

\* Whether there is any fertility at an age.
Hadwiger(age) == IF age \in 12 .. 50 THEN 1 ELSE 0

\* In hundredths: full below 80 % of the ceiling, falling to nothing at the
\* ceiling, and the floor of the template from there on.
Malthusian(population) ==
    IF era.ceiling <= 0 \/ 10 * population < 8 * era.ceiling THEN 100
    ELSE IF population < era.ceiling
         THEN 100 - (100 * (10 * population - 8 * era.ceiling)) \div (2 * era.ceiling)
         ELSE era.floor

MayBear(m) ==
    /\ person[m].sex = "female" /\ m \in Living \ delivered
    /\ era.couple => person[m].spouse # NoOne
    /\ ~Avoiding(m)
    /\ Hadwiger(person[m].age) * Malthusian(Cardinality(Living)) > 0

\* [does the mother die, does the child live]
ChildbirthOutcomes == {<<FALSE, TRUE>>, <<TRUE, TRUE>>, <<TRUE, FALSE>>}

Buried(rows, a) ==
    [b \in People |->
        IF b = a THEN [rows[b] EXCEPT !.life = "dead", !.spouse = NoOne]
        ELSE IF rows[b].spouse = a THEN [rows[b] EXCEPT !.spouse = NoOne] ELSE rows[b]]

Birth(m) ==
    /\ phase = "demography" /\ now < MaxTick /\ MayBear(m)
    /\ \E c \in People, outcome \in ChildbirthOutcomes :
        /\ person[c].life = "unborn" /\ \A b \in 1 .. c - 1 : person[b].life # "unborn"
        /\ outcome[1] => deaths < MaxDeaths
        /\ LET born == IF outcome[2] THEN [person EXCEPT ![c] = Newborn(m)] ELSE person
           IN person' = IF outcome[1] THEN Buried(born, m) ELSE born
        /\ deaths' = IF outcome[1] THEN deaths + 1 ELSE deaths
    /\ delivered' = delivered \cup {m}
    /\ UNCHANGED <<now, phase, era, wages, flag, flights, crises, masses, unwilling, was>>

\* The hazard is never nought, at any age.
Die(a) ==
    /\ phase = "demography" /\ now < MaxTick /\ deaths < MaxDeaths /\ a \in Living
    /\ person' = Buried(person, a) /\ deaths' = deaths + 1
    /\ UNCHANGED <<now, phase, era, wages, flag, flights, crises, masses, delivered, unwilling, was>>

-----------------------------------------------------------------------------
(* Where one may flee to.                                                    *)

\* Paid to agent a over the last ticks; the row counts for the zone the agent
\* is in now.
Earned(a, window) == MapThenSumSet(LAMBDA i : wages[i][a], 1 .. window \cap DOMAIN wages)

\* Mean wage of a zone; the length of the window divides every wage alike and
\* is left out.
ZoneWage(z) ==
    IF In(z) = {} THEN 0
    ELSE (60 * MapThenSumSet(LAMBDA a : Earned(a, WageWindow), {a \in People : person[a].zone = z}))
            \div Cardinality(In(z))

RoleHolders(z) == {a \in In(z) : person[a].role}
ZoneEmployment(z) ==
    IF RoleHolders(z) = {} THEN 60
    ELSE (60 * Cardinality({a \in RoleHolders(z) : Earned(a, WorkWindow) > 0}))
            \div Cardinality(RoleHolders(z))

\* What the call finds once and uses for everybody.
ZoneStats == [z \in Zones |-> [wage |-> ZoneWage(z), employment |-> ZoneEmployment(z)]]

\* Ticks on foot, a part of a tick taken for a whole one.
DistanceCost(i, j) ==
    LET units == IF Center[i] < Center[j] THEN Center[j] - Center[i] ELSE Center[i] - Center[j]
    IN (units * Scale + Pace - 1) \div Pace

WorkingLifeEndAge == 62
Annuity(age) == PresentValue[IF age < WorkingLifeEndAge THEN WorkingLifeEndAge - age ELSE 0]

ExpectedGain(stats, age, i, j) ==
    Annuity(age) * (stats[j].employment * stats[j].wage - 60 * stats[i].wage)
        - 10 * 60 * DistanceCost(i, j) * stats[i].wage

MigrationOutlook(stats, a) ==
    [j \in Zones \ {person[a].zone} |-> ExpectedGain(stats, person[a].age, person[a].zone, j)]

\* The best of the other zones, the first of equals; none when it is no gain.
FlightTarget(stats, a) ==
    LET gain == MigrationOutlook(stats, a)
        best == {j \in DOMAIN gain : gain[j] > 0 /\ \A k \in DOMAIN gain : gain[j] >= gain[k]}
    IN IF best = {} THEN NoZone ELSE CHOOSE j \in best : \A k \in best : j <= k

-----------------------------------------------------------------------------
(* Emergency flight.                                                         *)

\* Who goes where the head of a household goes.
Movers(a) ==
    ({person[a].spouse} \cap Living)
        \cup {c \in Living : a \in {person[c].mother, person[c].father} /\ person[c].age < AdulthoodAge}

Migration(a, target) ==
    [tick |-> Worked, head |-> a, members |-> Movers(a), from |-> person[a].zone, to |-> target]

\* One agent of the loop, in the order of ids.  s: where each would flee to,
\* the rows as the loop has written them, who was moved with somebody, the heads and their targets,
\* the events, and who is trapped.  An agent's own zone is the one the query
\* of the loop returned.
FleeAtOnce(s, a) ==
    LET target == s.targets[a] IN
    IF a \in s.relocated THEN s
    ELSE IF target = NoZone THEN [s EXCEPT !.trapped = @ \cup {a}]
    ELSE [s EXCEPT !.rows = [b \in People |-> IF b \in Movers(a) \cup {a} THEN target ELSE @[b]],
                   !.relocated = @ \cup Movers(a),
                   !.events = Append(@, Migration(a, target))]
Flee(s, a) ==
    LET target == s.targets[a] IN
    IF a \in s.relocated THEN s
    ELSE IF target = NoZone THEN [s EXCEPT !.trapped = @ \cup {a}]
    ELSE [s EXCEPT !.rows = [b \in People |-> IF b \in Movers(a) THEN target ELSE @[b]],
                   !.relocated = @ \cup Movers(a),
                   !.heads = @ \cup {<<a, target>>},
                   !.events = Append(@, Migration(a, target))]

Setout(targets) ==
    [targets |-> targets, rows |-> [a \in People |-> person[a].zone], relocated |-> {},
     heads |-> {}, events |-> << >>, trapped |-> {}]
Loop(starving, targets) ==
    LET order == InOrder(starving)
        after[k \in 0 .. Cardinality(starving)] ==
            IF k = 0 THEN Setout(targets) ELSE Flee(after[k - 1], order[k])
    IN after[Cardinality(starving)]

\* The heads' rows are written last.
Settled(s, a) ==
    IF \E h \in s.heads : h[1] = a THEN (CHOOSE h \in s.heads : h[1] = a)[2] ELSE s.rows[a]

\* Everybody alive in a zone where somebody is trapped is told, as the rows
\* stand after the flight.
Crises(s) ==
    {[agent |-> a, zone |-> person[a].zone,
      witnesses |-> {b \in Living : Settled(s, b) = person[a].zone}] : a \in s.trapped}

\* Heads that fled from z earlier in the window, and in all of it.
FledBefore(z) ==
    {e.head : e \in {x \in ToSet(flights) : x.from = z /\ x.tick > Worked - Window /\ x.tick < Worked}}
Fled(s, z) == FledBefore(z) \cup {e.head : e \in {x \in ToSet(s.events) : x.from = z}}

PopulationAtWindowStartNowOnly(z) == Cardinality(In(z))
PopulationAtWindowStart(z) == Cardinality(In(z)) + Cardinality(FledBefore(z))

MassFlights(s) ==
    {[zone |-> z, agents |-> Fled(s, z), population |-> PopulationAtWindowStart(z)] :
        z \in {y \in Zones : /\ PopulationAtWindowStart(y) > 0 /\ Fled(s, y) # {}
                             /\ 10 * Cardinality(Fled(s, y)) > 3 * PopulationAtWindowStart(y)}}

\* process_emergency_flight, in one transaction.  Nobody can have starved for
\* Window ticks before so many are over.
Starving == IF Worked < Window THEN {{}} ELSE SUBSET (Poor \cap Living)
Targets(stats) == [a \in Living |-> FlightTarget(stats, a)]

\* The events of the window that ends with the tick.
Kept == {i \in DOMAIN flights : flights[i].tick > Worked - Window}

Written(s) ==
    /\ person' = [a \in People |-> [person[a] EXCEPT !.zone = Settled(s, a)]]
    /\ flights' = Those(flights, Kept) \o s.events
    /\ crises' = Crises(s) /\ masses' = MassFlights(s)

EmergencyFlight ==
    /\ phase = "demography" /\ now < MaxTick
    /\ \E starving \in Starving : \E targets \in {Targets(stats) : stats \in {ZoneStats}} :
        \E s \in {Loop(starving, targets)} : Written(s)
    /\ was' = [a \in People |-> person[a].zone]
    /\ phase' = "turns" /\ delivered' = {} /\ unwilling' = {}
    /\ UNCHANGED <<now, era, wages, flag, deaths>>

-----------------------------------------------------------------------------
(* The turns, and the end of the tick.                                       *)

\* The decision counts where the template plans its births.
AvoidConception(a) ==
    /\ phase = "turns" /\ a \in Living \cap Deciders
    /\ flag' = IF era.planned THEN [flag EXCEPT ![a] = now] ELSE flag
    /\ unwilling' = IF era.planned THEN unwilling \cup {a} ELSE unwilling
    /\ UNCHANGED <<now, phase, era, person, wages, flights, crises, masses, delivered, was, deaths>>

\* The economy pays every role holder the wage of the zone.
Paid(payroll) ==
    [a \in People |-> IF a \in Living /\ person[a].role THEN payroll[person[a].zone] ELSE 0]

NextTick ==
    /\ phase = "turns" /\ phase' = "demography" /\ now' = now + 1
    /\ \E payroll \in Payrolls :
        wages' = SubSeq(<<Paid(payroll)>> \o wages, 1, IF Len(wages) < WageWindow THEN Len(wages) + 1 ELSE WageWindow)
    /\ crises' = {} /\ masses' = {} /\ was' = << >>
    /\ UNCHANGED <<era, person, flag, flights, delivered, unwilling, deaths>>

Next ==
    \/ \E a \in People : Birth(a) \/ Die(a) \/ AvoidConception(a)
    \/ EmergencyFlight
    \/ NextTick

Spec == Init /\ [][Next]_vars

-----------------------------------------------------------------------------
(* Properties.                                                               *)

\* Everything stays within its range: traits, ranks of class, zones, parents
\* and partners, and what the events name.
TypeOK ==
    /\ now \in 0 .. MaxTick /\ phase \in {"demography", "turns"} /\ era \in Eras
    /\ person \in [People -> PersonType]
    /\ Len(wages) <= WageWindow
    /\ \A i \in DOMAIN wages : wages[i] \in [People -> Nat]
    /\ flag \in [People -> {Never} \cup 0 .. MaxTick]
    /\ \A i \in DOMAIN flights : flights[i] \in FlightType
    /\ crises \subseteq [agent : People, zone : Zones, witnesses : SUBSET People]
    /\ masses \subseteq [zone : Zones, agents : SUBSET People, population : 1 .. 2 * N]
    /\ delivered \subseteq People /\ unwilling \subseteq People
    /\ deaths \in 0 .. MaxDeaths

\* process_emergency_flight moves households through one set of objects and
\* the loop holds another, whose rows it writes last.  When all is written,
\* the events tell where everybody is: a head where its own event says, the
\* others where the last event that lists them says, and nobody else moved.
ThisTick == {i \in DOMAIN flights : flights[i].tick = Worked}
ToldBy(a) ==
    LET own == {i \in ThisTick : flights[i].head = a}
        lists == {i \in ThisTick : a \in flights[i].members}
    IN IF own # {} THEN flights[CHOOSE i \in own : TRUE].to
       ELSE IF lists # {} THEN flights[CHOOSE i \in lists : \A j \in lists : j <= i].to
       ELSE was[a]
FlightsTellTheTruth ==
    phase = "turns" =>
        /\ \A a \in People : person[a].zone = ToldBy(a)
        /\ \A i, j \in ThisTick : i # j => flights[i].head # flights[j].head

\* A mass flight compares the agents that fled in the window with those who
\* were there when it began, as migration.py:1412 asks: never more of them
\* than there were, and each with an event of its own in the window.
MassFlightMeasured ==
    \A m \in masses :
        /\ Cardinality(m.agents) <= m.population
        /\ \A a \in m.agents : \E i \in DOMAIN flights :
            /\ flights[i].head = a /\ flights[i].from = m.zone
            /\ flights[i].tick \in (Worked - Window) + 1 .. Worked

\* The flag is written with current_tick in the turns of a tick and compared
\* with current_tick - 1 in the births of another: a choice holds in the
\* births that follow the turns it was made in, and in no other.
ChoiceLastsOneTick ==
    phase = "demography" => \A a \in People : Avoiding(a) <=> a \in unwilling

=============================================================================
