-------------------------- MODULE HouseholdsProofs --------------------------
(***************************************************************************)
(* Proofs about Households, for any people, zones, templates and bounds.   *)
(***************************************************************************)
EXTENDS Households, FiniteLemmas

\* The flag and the memory of the last turns go together: in the births of a
\* tick the flags of the turns before are one behind the counter, in the turns
\* they are level with it, and no flag is ahead.
FlagInv ==
    /\ now \in Nat /\ phase \in {"demography", "turns"}
    /\ flag \in [People -> Int] /\ unwilling \subseteq People
    /\ phase = "demography" =>
        \A a \in People : flag[a] < now /\ (flag[a] = now - 1 <=> a \in unwilling)
    /\ phase = "turns" =>
        \A a \in People : flag[a] <= now /\ (flag[a] = now <=> a \in unwilling)

LEMMA FlagInvInit == Init => FlagInv
BY DEF Init, FlagInv, Never

LEMMA FlagInvStep == FlagInv /\ [Next]_vars => FlagInv'
<1> SUFFICES ASSUME FlagInv, [Next]_vars PROVE FlagInv'
  OBVIOUS
<1> USE DEF FlagInv
<1>1. ASSUME NEW a \in People, Birth(a) PROVE FlagInv'
  BY <1>1 DEF Birth
<1>2. ASSUME NEW a \in People, Die(a) PROVE FlagInv'
  BY <1>2 DEF Die
<1>3. ASSUME NEW a \in People, AvoidConception(a) PROVE FlagInv'
  <2>1. CASE era.planned
    <3>1. flag' = [flag EXCEPT ![a] = now] /\ unwilling' = unwilling \cup {a}
      BY <1>3, <2>1 DEF AvoidConception
    <3> QED
      BY <1>3, <3>1 DEF AvoidConception
  <2>2. CASE ~era.planned
    BY <1>3, <2>2 DEF AvoidConception
  <2> QED
    BY <2>1, <2>2
<1>4. CASE EmergencyFlight
  BY <1>4 DEF EmergencyFlight
<1>5. CASE NextTick
  BY <1>5 DEF NextTick
<1>6. CASE UNCHANGED vars
  BY <1>6 DEF vars
<1> QED
  BY <1>1, <1>2, <1>3, <1>4, <1>5, <1>6 DEF Next

\* A choice to avoid conception holds in the births that follow the turns it
\* was made in and in no other, for any number of ticks.
THEOREM ChoicesLastOneTick == Spec => []ChoiceLastsOneTick
<1>1. FlagInv => ChoiceLastsOneTick
  BY DEF FlagInv, ChoiceLastsOneTick, Avoiding
<1> QED
  BY <1>1, FlagInvInit, FlagInvStep, PTL DEF Spec

-----------------------------------------------------------------------------
(* Numbers and rows stay in their ranges.                                    *)

LEMMA RangesAre ==
    /\ Percent \subseteq Int /\ Ranks \subseteq Int /\ Working \in Ranks
    /\ 0 \in Ages /\ 0 \in Percent /\ NoOne \in Anyone
    /\ \A a \in Anyone : a # NoOne => a \in People
BY DEF Percent, Ranks, Working, Ages, Anyone

LEMMA ClampedPercent == ASSUME NEW x \in Int PROVE Clamp(0, 100, x) \in Percent
BY DEF Clamp, Percent

LEMMA PeopleAreFinite ==
    /\ IsFiniteSet(People) /\ Cardinality(People) = N /\ N \in Nat /\ People \subseteq Nat
<1>1. N \in Nat
  BY HouseholdsAssumption
<1>2. IsFiniteSet(1 .. N) /\ Cardinality(1 .. N) = N
  BY <1>1, FS_Interval
<1> QED
  BY <1>1, <1>2 DEF People

LEMMA SomeAreFinite ==
    ASSUME NEW S \in SUBSET People
    PROVE IsFiniteSet(S) /\ Cardinality(S) \in 0 .. N /\ (S # {} => Cardinality(S) >= 1)
<1>1. IsFiniteSet(S) /\ Cardinality(S) <= N /\ Cardinality(S) \in Nat
  BY PeopleAreFinite, FS_Subset, FS_CardinalityType
<1>2. S # {} => Cardinality(S) # 0
  BY <1>1, FS_EmptySet
<1> QED
  BY <1>1, <1>2, PeopleAreFinite

LEMMA PersonFields ==
    ASSUME NEW p \in PersonType
    PROVE /\ p.zone \in Zones /\ p.rank \in Ranks /\ p.spouse \in Anyone
          /\ p.intelligence \in Percent /\ p.education \in Percent
          /\ [p EXCEPT !.life = "dead", !.spouse = NoOne] \in PersonType
          /\ [p EXCEPT !.spouse = NoOne] \in PersonType
          /\ \A z \in Zones : [p EXCEPT !.zone = z] \in PersonType
<1>1. NoOne \in Anyone
  BY RangesAre
<1> QED
  BY <1>1 DEF PersonType

LEMMA UnbornIn == Unborn \in PersonType
<1>1. (CHOOSE z \in Zones : TRUE) \in Zones
  BY HouseholdsAssumption
<1> QED
  BY <1>1, RangesAre DEF Unborn, PersonType

LEMMA RowsAre ==
    ASSUME person \in [People -> PersonType], NEW a \in People
    PROVE /\ person[a] \in PersonType /\ person[a].zone \in Zones /\ person[a].rank \in Ranks
          /\ person[a].spouse \in Anyone
          /\ person[a].intelligence \in Percent /\ person[a].education \in Percent
<1>1. person[a] \in PersonType
  <2> HIDE DEF PersonType, People
  <2> QED
    OBVIOUS
<1> QED
  BY <1>1, PersonFields

\* A trait is kept within its range whatever the parents' and the noise.
LEMMA TraitIn ==
    ASSUME NEW m \in Percent, NEW fs, IsFiniteSet(fs), fs \subseteq Percent, NEW noise \in Int
    PROVE InheritTrait(m, fs, noise) \in Percent
<1> DEFINE g == [v \in fs |-> v - EraMean]
           t == SumFunctionOnSet(g, fs)
<1>1. \A v \in fs : g[v] \in Int
  BY RangesAre DEF EraMean
<1>2. t \in Int
  <2> HIDE DEF g
  <2> QED
    BY <1>1, SumIsInt
<1> HIDE DEF t
<1>3. Transmitted(m, fs, noise) = EraMean + noise + (t + m - EraMean) \div 4
  BY DEF Transmitted, t
<1>4. Transmitted(m, fs, noise) \in Int
  BY <1>2, <1>3, RangesAre DEF EraMean
<1> QED
  BY <1>4, ClampedPercent DEF InheritTrait

LEMMA FreeRankIn == ASSUME NEW x \in Int PROVE FreeRank(x) \in Ranks
BY DEF FreeRank, Clamp, Ranks, Enslaved

LEMMA FathersAre ==
    ASSUME person \in [People -> PersonType], NEW m \in People
    PROVE /\ Fathers(m) \subseteq People /\ IsFiniteSet(Fathers(m))
          /\ Fathers(m) # {} => person[m].spouse \in People
<1>1. Fathers(m) \subseteq People /\ (Fathers(m) # {} => person[m].spouse \in People)
  BY RowsAre, RangesAre DEF Fathers
<1> QED
  BY <1>1, SomeAreFinite

LEMMA TraitsIn ==
    ASSUME person \in [People -> PersonType], NEW m \in People,
           NEW d, d.trait \in Int, d.school \in Int
    PROVE Intelligence(m, d) \in Percent /\ Education(m, d) \in Percent
<1> DEFINE i == [f \in Fathers(m) |-> person[f].intelligence]
           e == [f \in Fathers(m) |-> person[f].education]
<1>1. Fathers(m) \subseteq People /\ IsFiniteSet(Fathers(m))
  BY FathersAre
<1>2. \A f \in Fathers(m) : i[f] \in Percent /\ e[f] \in Percent
  BY <1>1, RowsAre
<1>3. /\ {person[f].intelligence : f \in Fathers(m)} = {i[f] : f \in Fathers(m)}
      /\ {person[f].education : f \in Fathers(m)} = {e[f] : f \in Fathers(m)}
  OBVIOUS
<1>4. DOMAIN i = Fathers(m) /\ DOMAIN e = Fathers(m)
  OBVIOUS
<1> HIDE DEF i, e
<1>5. IsFiniteSet({i[f] : f \in Fathers(m)}) /\ IsFiniteSet({e[f] : f \in Fathers(m)})
  BY <1>1, <1>4, ImageIsFinite
<1>6. {i[f] : f \in Fathers(m)} \subseteq Percent /\ {e[f] : f \in Fathers(m)} \subseteq Percent
  BY <1>2
<1>7. person[m].intelligence \in Percent /\ person[m].education \in Percent
  BY RowsAre
<1> QED
  BY <1>3, <1>5, <1>6, <1>7, TraitIn DEF Intelligence, Education

LEMMA ZoneMeanIn ==
    ASSUME person \in [People -> PersonType], NEW z PROVE ZoneClassMean(z) \in Int
<1> DEFINE f == [a \in In(z) |-> person[a].rank]
           t == SumFunctionOnSet(f, In(z))
<1>1. In(z) \subseteq People
  BY DEF In, Living
<1>2. IsFiniteSet(In(z)) /\ Cardinality(In(z)) \in 0 .. N /\ (In(z) # {} => Cardinality(In(z)) >= 1)
  BY <1>1, SomeAreFinite
<1>3. \A a \in In(z) : f[a] \in Int
  BY <1>1, RowsAre, RangesAre
<1>4. t \in Int
  <2> HIDE DEF f
  <2> QED
    BY <1>2, <1>3, SumIsInt
<1> HIDE DEF t
<1>5. ZoneClassMean(z) = IF In(z) = {} THEN 10 * Working ELSE (10 * t) \div Cardinality(In(z))
  BY DEF ZoneClassMean, t
<1>6. CASE In(z) = {}
  BY <1>5, <1>6 DEF Working
<1>7. CASE In(z) # {}
  BY <1>2, <1>4, <1>5, <1>7
<1> QED
  BY <1>6, <1>7

LEMMA ClassIn ==
    ASSUME person \in [People -> PersonType], NEW m \in People,
           NEW d, d.trait \in Int, d.school \in Int, d.rank \in Int
    PROVE SocialClass(m, d) \in Ranks
<1>1. ParentRank(m) \in Ranks
  BY FathersAre, RowsAre DEF ParentRank
<1>2. ParentRank(m) \in Int /\ ZoneClassMean(person[m].zone) \in Int
  BY <1>1, RangesAre, ZoneMeanIn
<1>3. Intelligence(m, d) \in Int /\ Education(m, d) \in Int
  BY TraitsIn, RangesAre
<1>4. ClarkRegression(m, d) \in Ranks
  <2> DEFINE x == (70 * ParentRank(m) + 3 * ZoneClassMean(person[m].zone)) \div 10 + d.rank
  <2>1. x \in Int
    BY <1>2
  <2> HIDE DEF x
  <2> QED
    BY <2>1, FreeRankIn DEF ClarkRegression, x
<1>5. BeckerTomes(m, d) \in Ranks
  <2> DEFINE x == (40 * ParentRank(m) + 6 * ZoneClassMean(person[m].zone)) \div 10 + d.rank
  <2>1. x \in Int
    BY <1>2
  <2> HIDE DEF x
  <2> QED
    BY <2>1, FreeRankIn DEF BeckerTomes, x
<1>6. Meritocratic(m, d) \in Ranks
  <2> DEFINE merit == (Intelligence(m, d) + Education(m, d)) \div 2
             r == ((100 - merit) * 10 * (Enslaved - 1)) \div 100
             x == (20 * ParentRank(m) + 8 * r) \div 10
  <2>1. r \in Int
    BY <1>3 DEF Enslaved
  <2> HIDE DEF r
  <2>2. x \in Int
    BY <1>2, <2>1
  <2> HIDE DEF x
  <2>3. Meritocratic(m, d) = FreeRank(x)
    BY DEF Meritocratic, x, r
  <2> QED
    BY <2>2, <2>3, FreeRankIn
<1> QED
  BY <1>1, <1>4, <1>5, <1>6 DEF SocialClass

LEMMA NewbornIn ==
    ASSUME person \in [People -> PersonType], NEW m \in People, now \in 0 .. MaxTick, now < MaxTick
    PROVE Newborn(m) \in PersonType
<1> DEFINE d == Draw[Worked]
<1>1. d.trait \in Int /\ d.school \in Int /\ d.rank \in Int
  <2>1. Worked \in DOMAIN Draw
    BY HouseholdsAssumption DEF Worked
  <2>2. d \in Draws
    <3> HIDE DEF Draws
    <3> QED
      BY <2>1, HouseholdsAssumption
  <2> HIDE DEF d
  <2> QED
    BY <2>2 DEF Draws
<1> HIDE DEF d
<1>2. /\ Intelligence(m, d) \in Percent /\ Education(m, d) \in Percent
      /\ SocialClass(m, d) \in Ranks
  BY <1>1, TraitsIn, ClassIn
<1>3. Gender(d) \in {"female", "male"} /\ m \in Anyone
  BY DEF Gender, Anyone
<1>4. person[m].zone \in Zones /\ person[m].spouse \in Anyone
  BY RowsAre
<1>5. Newborn(m) = [Unborn EXCEPT !.life = "alive", !.zone = person[m].zone, !.sex = Gender(d),
                       !.intelligence = Intelligence(m, d), !.education = Education(m, d),
                       !.rank = SocialClass(m, d), !.mother = m, !.father = person[m].spouse]
  BY DEF Newborn, d
<1> DEFINE z == person[m].zone
           f == person[m].spouse
           sex == Gender(d)
           i == Intelligence(m, d)
           e == Education(m, d)
           r == SocialClass(m, d)
<1>6. /\ z \in Zones /\ sex \in {"female", "male"} /\ i \in Percent /\ e \in Percent
      /\ r \in Ranks /\ f \in Anyone
  BY <1>2, <1>3, <1>4
<1>7. Newborn(m) = [Unborn EXCEPT !.life = "alive", !.zone = z, !.sex = sex, !.intelligence = i,
                       !.education = e, !.rank = r, !.mother = m, !.father = f]
  BY <1>5
<1> HIDE DEF z, f, sex, i, e, r
<1>8. ASSUME NEW p \in PersonType
      PROVE [p EXCEPT !.life = "alive", !.zone = z, !.sex = sex, !.intelligence = i,
                      !.education = e, !.rank = r, !.mother = m, !.father = f] \in PersonType
  <2>1. [p EXCEPT !.life = "alive", !.zone = z, !.sex = sex, !.intelligence = i] \in PersonType
    BY <1>6 DEF PersonType
  <2>2. ASSUME NEW q \in PersonType
        PROVE [q EXCEPT !.education = e, !.rank = r, !.mother = m, !.father = f] \in PersonType
    BY <1>3, <1>6 DEF PersonType
  <2> QED
    BY <2>1, <2>2
<1> QED
  BY <1>7, <1>8, UnbornIn

LEMMA BuriedIn ==
    ASSUME NEW rows \in [People -> PersonType], NEW a PROVE Buried(rows, a) \in [People -> PersonType]
<1>1. \A b \in People : rows[b] \in PersonType
  <2> HIDE DEF PersonType, People
  <2> QED
    OBVIOUS
<1> DEFINE f == [b \in People |-> [rows[b] EXCEPT !.life = "dead", !.spouse = NoOne]]
           g == [b \in People |-> [rows[b] EXCEPT !.spouse = NoOne]]
<1>2. \A b \in People : f[b] \in PersonType /\ g[b] \in PersonType
  BY <1>1, PersonFields
<1>3. Buried(rows, a) = [b \in People |-> IF b = a THEN f[b] ELSE IF rows[b].spouse = a THEN g[b] ELSE rows[b]]
  BY DEF Buried
<1> HIDE DEF PersonType, f, g
<1> QED
  BY <1>1, <1>2, <1>3

-----------------------------------------------------------------------------
(* A flight: the loop over the starving, step by step.                       *)

LEMMA LivingAre == Living \subseteq People /\ \A z : In(z) \subseteq Living
BY DEF Living, In

LEMMA MoversAre == ASSUME NEW a PROVE Movers(a) \subseteq Living
BY DEF Movers

LEMMA TargetIn == ASSUME NEW stats, NEW a PROVE FlightTarget(stats, a) \in Zones \cup {NoZone}
<1> DEFINE gain == MigrationOutlook(stats, a)
           best == {j \in DOMAIN gain : gain[j] > 0 /\ \A k \in DOMAIN gain : gain[j] >= gain[k]}
<1>1. best \subseteq Zones
  BY DEF MigrationOutlook
<1>2. FlightTarget(stats, a) = IF best = {} THEN NoZone ELSE CHOOSE j \in best : \A k \in best : j <= k
  BY DEF FlightTarget
<1> HIDE DEF best
<1>3. CASE best = {}
  BY <1>2, <1>3
<1>4. CASE best # {}
  <2>1. \E j \in best : \A k \in best : j <= k
    BY <1>1, <1>4, HouseholdsAssumption, NatMin
  <2> QED
    BY <1>1, <1>2, <1>4, <2>1
<1> QED
  BY <1>3, <1>4

Flocks ==
    [targets : [Living -> Zones \cup {NoZone}], rows : [People -> Zones],
     relocated : SUBSET People, heads : SUBSET (People \X Zones), events : Seq(FlightType),
     trapped : SUBSET Living]

\* The events among done tell where the loop has moved whom.
Tells(s, done) ==
    /\ \A i \in DOMAIN s.events :
        /\ s.events[i] = Migration(s.events[i].head, s.events[i].to)
        /\ s.events[i].head \in done
        /\ <<s.events[i].head, s.events[i].to>> \in s.heads
    /\ \A h \in s.heads : \E i \in DOMAIN s.events : s.events[i].head = h[1] /\ s.events[i].to = h[2]
    /\ \A i, j \in DOMAIN s.events : i # j => s.events[i].head # s.events[j].head
    /\ \A a \in People :
        /\ (\A i \in DOMAIN s.events : a \notin s.events[i].members) => s.rows[a] = person[a].zone
        /\ \A i \in DOMAIN s.events :
            /\ a \in s.events[i].members
            /\ \A j \in DOMAIN s.events : a \in s.events[j].members => j <= i
            => s.rows[a] = s.events[i].to

LEMMA MigrationIn ==
    ASSUME person \in [People -> PersonType], now \in 0 .. MaxTick, now < MaxTick,
           NEW a \in Living, NEW z \in Zones
    PROVE /\ Migration(a, z) \in FlightType
          /\ Migration(a, z).head = a /\ Migration(a, z).to = z /\ Migration(a, z).members = Movers(a)
          /\ Migration(a, z).tick = Worked /\ Migration(a, z).from = person[a].zone
<1>1. a \in People /\ person[a].zone \in Zones /\ Movers(a) \subseteq People
  BY LivingAre, MoversAre, RowsAre
<1>2. Worked \in 1 .. MaxTick
  BY HouseholdsAssumption DEF Worked
<1> QED
  BY <1>1, <1>2 DEF Migration, FlightType

LEMMA FlocksAre ==
    ASSUME NEW s \in Flocks
    PROVE /\ s.targets \in [Living -> Zones \cup {NoZone}] /\ s.rows \in [People -> Zones]
          /\ s.relocated \subseteq People /\ s.heads \subseteq People \X Zones
          /\ s.events \in Seq(FlightType) /\ s.trapped \subseteq Living
          /\ \A a \in Living : [s EXCEPT !.trapped = @ \cup {a}] \in Flocks
<1> HIDE DEF FlightType, People, Living
<1> QED
  BY DEF Flocks

\* What one flight does.
LEMMA FleeIs ==
    ASSUME NEW s \in Flocks, NEW a \in Living, a \notin s.relocated, s.targets[a] # NoZone
    PROVE LET m == Migration(a, s.targets[a])
              r == Flee(s, a)
          IN /\ r.targets = s.targets /\ r.trapped = s.trapped
             /\ r.rows = [b \in People |-> IF b \in Movers(a) THEN s.targets[a] ELSE s.rows[b]]
             /\ r.relocated = s.relocated \cup Movers(a)
             /\ r.heads = s.heads \cup {<<a, s.targets[a]>>}
             /\ r.events = Append(s.events, m)
             /\ r = [targets |-> r.targets, rows |-> r.rows, relocated |-> r.relocated,
                     heads |-> r.heads, events |-> r.events, trapped |-> r.trapped]
<1> HIDE DEF FlightType, People, Living, Movers, Migration
<1> QED
  BY DEF Flee, Flocks

LEMMA FleeIn ==
    ASSUME person \in [People -> PersonType], now \in 0 .. MaxTick, now < MaxTick,
           NEW s \in Flocks, NEW a \in Living
    PROVE Flee(s, a) \in Flocks
<1> DEFINE z == s.targets[a]
           m == Migration(a, z)
           r == Flee(s, a)
<1>1. CASE a \in s.relocated
  BY <1>1 DEF Flee
<1>2. CASE a \notin s.relocated /\ z = NoZone
  BY <1>2, FlocksAre DEF Flee
<1>3. CASE a \notin s.relocated /\ z # NoZone
  <2>1. z \in Zones /\ m \in FlightType /\ Movers(a) \subseteq People /\ a \in People
    <3>1. z \in Zones
      BY <1>3, FlocksAre
    <3> QED
      BY <3>1, LivingAre, MoversAre, MigrationIn
  <2>2. r.events \in Seq(FlightType)
    <3> HIDE DEF FlightType, m, r
    <3>1. r.events = Append(s.events, m)
      BY <1>3, FleeIs DEF m, r
    <3> QED
      BY <2>1, <3>1, FlocksAre
  <2>3. r.rows \in [People -> Zones] /\ r.relocated \subseteq People /\ r.heads \subseteq People \X Zones
    <3> HIDE DEF People, z, r
    <3>1. /\ r.rows = [b \in People |-> IF b \in Movers(a) THEN z ELSE s.rows[b]]
          /\ r.relocated = s.relocated \cup Movers(a)
          /\ r.heads = s.heads \cup {<<a, z>>}
      BY <1>3, FleeIs DEF z, r
    <3> QED
      BY <2>1, <3>1, FlocksAre
  <2> HIDE DEF r
  <2>4. /\ r.targets = s.targets /\ r.trapped = s.trapped
        /\ r = [targets |-> r.targets, rows |-> r.rows, relocated |-> r.relocated,
                heads |-> r.heads, events |-> r.events, trapped |-> r.trapped]
    BY <1>3, FleeIs DEF r
  <2>5. r \in Flocks
    <3> HIDE DEF FlightType, People, Living
    <3> QED
      BY <2>2, <2>3, <2>4, FlocksAre DEF Flocks
  <2> QED
    BY <2>5 DEF r
<1> QED
  BY <1>1, <1>2, <1>3

LEMMA FleeTells ==
    ASSUME person \in [People -> PersonType], now \in 0 .. MaxTick, now < MaxTick,
           NEW s \in Flocks, NEW done, Tells(s, done), NEW a \in Living, a \notin done
    PROVE Tells(Flee(s, a), done \cup {a})
<1> DEFINE z == s.targets[a]
           m == Migration(a, z)
           r == Flee(s, a)
           n == Len(s.events) + 1
<1>1. CASE a \in s.relocated \/ z = NoZone
  <2>1. r.events = s.events /\ r.heads = s.heads /\ r.rows = s.rows
    BY <1>1 DEF Flee, Flocks
  <2> HIDE DEF r
  <2>2. Tells(s, done \cup {a})
    BY DEF Tells
  <2>3. Tells(r, done \cup {a})
    <3> DEFINE d == done \cup {a}
    <3> HIDE DEF d
    <3>1. /\ \A i \in DOMAIN r.events :
                /\ r.events[i] = Migration(r.events[i].head, r.events[i].to)
                /\ r.events[i].head \in d
                /\ <<r.events[i].head, r.events[i].to>> \in r.heads
          /\ \A h \in r.heads : \E i \in DOMAIN r.events : r.events[i].head = h[1] /\ r.events[i].to = h[2]
          /\ \A i, j \in DOMAIN r.events : i # j => r.events[i].head # r.events[j].head
      BY <2>1, <2>2 DEF Tells, d
    <3>2. \A b \in People :
            /\ (\A i \in DOMAIN r.events : b \notin r.events[i].members) => r.rows[b] = person[b].zone
            /\ \A i \in DOMAIN r.events :
                /\ b \in r.events[i].members
                /\ \A j \in DOMAIN r.events : b \in r.events[j].members => j <= i
                => r.rows[b] = r.events[i].to
      BY <2>1, <2>2 DEF Tells
    <3> QED
      BY <3>1, <3>2 DEF Tells, d
  <2> QED
    BY <2>3 DEF r
<1>2. CASE a \notin s.relocated /\ z # NoZone
  <2>1. z \in Zones
    BY <1>2, FlocksAre
  <2>2. /\ m \in FlightType /\ m.head = a /\ m.to = z /\ m.members = Movers(a)
    BY <2>1, MigrationIn
  <2>3. m = Migration(m.head, m.to)
    BY <2>2
  <2> HIDE DEF m
  <2>4. /\ r.rows = [b \in People |-> IF b \in Movers(a) THEN z ELSE s.rows[b]]
        /\ r.heads = s.heads \cup {<<a, z>>} /\ r.events = Append(s.events, m)
    BY <1>2, FleeIs DEF m
  <2> HIDE DEF r, z
  <2>5. /\ DOMAIN r.events = DOMAIN s.events \cup {n} /\ n \notin DOMAIN s.events
        /\ \A i \in DOMAIN s.events : r.events[i] = s.events[i] /\ i <= n
        /\ r.events[n] = m /\ n \in Nat /\ DOMAIN s.events \subseteq Nat
    <3>1. s.events \in Seq(FlightType)
      BY FlocksAre
    <3> HIDE DEF FlightType
    <3> QED
      BY <2>2, <2>4, <3>1
  <2> HIDE DEF n
  <2>6. \A i \in DOMAIN r.events :
            /\ r.events[i] = Migration(r.events[i].head, r.events[i].to)
            /\ r.events[i].head \in done \cup {a}
            /\ <<r.events[i].head, r.events[i].to>> \in r.heads
    <3>1. ASSUME NEW i \in DOMAIN s.events
          PROVE /\ s.events[i] = Migration(s.events[i].head, s.events[i].to)
                /\ s.events[i].head \in done
                /\ <<s.events[i].head, s.events[i].to>> \in s.heads
      BY DEF Tells
    <3>2. ASSUME NEW i \in DOMAIN s.events
          PROVE /\ r.events[i] = Migration(r.events[i].head, r.events[i].to)
                /\ r.events[i].head \in done \cup {a}
                /\ <<r.events[i].head, r.events[i].to>> \in r.heads
      BY <2>4, <2>5, <3>1
    <3>3. /\ r.events[n] = Migration(r.events[n].head, r.events[n].to)
          /\ r.events[n].head \in done \cup {a}
          /\ <<r.events[n].head, r.events[n].to>> \in r.heads
      <4>1. r.events[n] = m
        BY <2>5
      <4>2. <<m.head, m.to>> \in r.heads
        BY <2>2, <2>4
      <4> QED
        BY <2>2, <2>3, <4>1, <4>2
    <3> QED
      BY <2>5, <3>2, <3>3
  <2>7. \A h \in r.heads : \E i \in DOMAIN r.events : r.events[i].head = h[1] /\ r.events[i].to = h[2]
    <3>1. ASSUME NEW h \in s.heads
          PROVE \E i \in DOMAIN r.events : r.events[i].head = h[1] /\ r.events[i].to = h[2]
      BY <2>5 DEF Tells
    <3>2. r.events[n].head = a /\ r.events[n].to = z /\ n \in DOMAIN r.events
      BY <2>2, <2>5
    <3> QED
      BY <2>4, <3>1, <3>2
  <2>8. \A i, j \in DOMAIN r.events : i # j => r.events[i].head # r.events[j].head
    <3>1. \A i \in DOMAIN s.events : s.events[i].head # a
      BY DEF Tells
    <3>2. \A i, j \in DOMAIN s.events : i # j => s.events[i].head # s.events[j].head
      BY DEF Tells
    <3> QED
      BY <2>2, <2>5, <3>1, <3>2
  <2>9. ASSUME NEW b \in People, \A i \in DOMAIN r.events : b \notin r.events[i].members
        PROVE r.rows[b] = person[b].zone
    <3>1. b \notin Movers(a) /\ \A i \in DOMAIN s.events : b \notin s.events[i].members
      BY <2>2, <2>5, <2>9
    <3> QED
      BY <2>4, <3>1 DEF Tells
  <2>10. ASSUME NEW b \in People, NEW i \in DOMAIN r.events, b \in r.events[i].members,
                \A j \in DOMAIN r.events : b \in r.events[j].members => j <= i
         PROVE r.rows[b] = r.events[i].to
    <3>1. CASE b \in Movers(a)
      <4>1. i = n
        BY <2>2, <2>5, <2>10, <3>1
      <4> QED
        BY <2>2, <2>4, <2>5, <3>1, <4>1
    <3>2. CASE b \notin Movers(a)
      <4>1. i \in DOMAIN s.events /\ r.events[i] = s.events[i]
        BY <2>2, <2>5, <2>10, <3>2
      <4>2. \A j \in DOMAIN s.events : b \in s.events[j].members => j <= i
        BY <2>5, <2>10
      <4>3. s.rows[b] = s.events[i].to
        BY <2>10, <4>1, <4>2 DEF Tells
      <4> QED
        BY <2>4, <3>2, <4>1, <4>3
    <3> QED
      BY <3>1, <3>2
  <2>11. Tells(r, done \cup {a})
    BY <2>6, <2>7, <2>8, <2>9, <2>10 DEF Tells
  <2> QED
    BY <2>11 DEF r
<1> QED
  BY <1>1, <1>2

LEMMA LoopIs ==
    ASSUME person \in [People -> PersonType], now \in 0 .. MaxTick, now < MaxTick,
           NEW starving \in SUBSET Living, NEW targets \in [Living -> Zones \cup {NoZone}]
    PROVE Loop(starving, targets) \in Flocks /\ Tells(Loop(starving, targets), starving)
<1> DEFINE n == Cardinality(starving)
           order == InOrder(starving)
           start == Setout(targets)
           after == CHOOSE g : g = [k \in 0 .. n |-> IF k = 0 THEN start ELSE Flee(g[k - 1], order[k])]
<1>1. Indices(starving) /\ n \in Nat
  BY LivingAre, SomeAreFinite, PeopleAreFinite DEF Indices
<1>2. /\ order \in [1 .. n -> starving]
      /\ \A i, j \in 1 .. n : i < j => order[i] < order[j]
  BY <1>1, InOrderIs DEF Ascending
<1>3. start \in Flocks
  <2>1. [a \in People |-> person[a].zone] \in [People -> Zones]
    BY RowsAre
  <2>2. << >> \in Seq(FlightType)
    <3> HIDE DEF FlightType
    <3> QED
      OBVIOUS
  <2> HIDE DEF FlightType, People, Living
  <2> QED
    BY <2>1, <2>2 DEF Setout, Flocks
<1>4. Loop(starving, targets) = after[n]
  BY DEF Loop
<1>5. after = [k \in 0 .. n |-> IF k = 0 THEN start ELSE Flee(after[k - 1], order[k])]
  <2> DEFINE step == [p \in (1 .. n) \X Flocks |-> Flee(p[2], order[p[1]])]
  <2>1. \A k \in 1 .. n, w \in Flocks : step[<<k, w>>] = Flee(w, order[k])
    OBVIOUS
  <2>2. \A k \in 1 .. n : \A w \in Flocks : step[<<k, w>>] \in Flocks
    BY <1>2, <2>1, FleeIn
  <2> HIDE DEF step, start, n, order
  <2>3. PICK f \in [0 .. n -> Flocks] :
            f[0] = start /\ \A k \in 1 .. n : f[k] = step[<<k, f[k - 1]>>]
    <3>1. n \in Nat
      BY <1>1
    <3>2. Stepwise(n, Flocks, start, step) # {}
      BY <1>3, <2>2, <3>1, StepsExist
    <3> QED
      BY <3>2 DEF Stepwise
  <2>4. \A k \in 1 .. n : f[k] = Flee(f[k - 1], order[k])
    <3>1. \A k \in 1 .. n : f[k - 1] \in Flocks
      BY <1>1
    <3> QED
      BY <2>1, <2>3, <3>1
  <2>5. f = [k \in 0 .. n |-> IF k = 0 THEN start ELSE Flee(f[k - 1], order[k])]
    BY <1>1, <2>3, <2>4
  <2> QED
    BY <2>5
<1> HIDE DEF after, order, start, n
<1> DEFINE done(k) == {order[j] : j \in 1 .. k}
           T == {k \in 0 .. n : after[k] \in Flocks /\ Tells(after[k], done(k))}
<1>6. 0 \in T
  <2>1. after[0] = start
    BY <1>1, <1>5
  <2>2. start.events = << >> /\ start.heads = {} /\ start.rows = [a \in People |-> person[a].zone]
    BY DEF start, Setout
  <2>3. Tells(start, done(0))
    BY <2>2 DEF Tells
  <2> QED
    BY <1>1, <1>3, <2>1, <2>3
<1>7. ASSUME NEW k \in 1 .. n, k - 1 \in T PROVE k \in T
  <2>1. after[k] = Flee(after[k - 1], order[k])
    BY <1>1, <1>5
  <2>2. order[k] \in Living /\ order[k] \in starving
    BY <1>2
  <2>3. order[k] \notin done(k - 1)
    <3>1. \A j \in 1 .. n : order[j] \in Nat
      BY <1>2, LivingAre, PeopleAreFinite
    <3>2. \A j \in 1 .. k - 1 : j \in 1 .. n /\ j < k
      BY <1>1
    <3>3. \A j \in 1 .. k - 1 : order[j] < order[k]
      BY <1>2, <3>2
    <3> QED
      BY <3>1, <3>2, <3>3
  <2>4. done(k) = done(k - 1) \cup {order[k]}
    <3>1. 1 .. k = (1 .. k - 1) \cup {k}
      BY <1>1
    <3> QED
      BY <3>1
  <2>5. after[k] \in Flocks
    BY <1>7, <2>1, <2>2, FleeIn
  <2>6. Tells(after[k], done(k))
    <3> HIDE DEF done
    <3> QED
      BY <1>7, <2>1, <2>2, <2>3, <2>4, FleeTells
  <2> QED
    BY <1>1, <2>5, <2>6
<1>8. n \in T
  <2> HIDE DEF T
  <2> QED
    BY <1>1, <1>6, <1>7, CountUp
<1>9. done(n) \subseteq starving
  BY <1>2
<1>10. Tells(after[n], starving)
  BY <1>8, <1>9 DEF Tells
<1> QED
  BY <1>4, <1>8, <1>10

\* Where everybody is when all rows are written: a head where its own event
\* says, the others where the loop left them.
LEMMA SettledIs ==
    ASSUME NEW s \in Flocks, NEW done, Tells(s, done), NEW a \in People
    PROVE /\ Settled(s, a) \in Zones
          /\ \A i \in DOMAIN s.events : s.events[i].head = a => Settled(s, a) = s.events[i].to
          /\ (\A i \in DOMAIN s.events : s.events[i].head # a) => Settled(s, a) = s.rows[a]
<1> DEFINE own == {h \in s.heads : h[1] = a}
           c == CHOOSE h \in s.heads : h[1] = a
<1>1. Settled(s, a) = IF own # {} THEN c[2] ELSE s.rows[a]
  BY DEF Settled
<1>2. own # {} => c \in s.heads /\ c[1] = a
  OBVIOUS
<1>3. s.rows[a] \in Zones /\ (own # {} => c[2] \in Zones)
  BY <1>2, FlocksAre
<1> HIDE DEF c
<1>4. ASSUME NEW i \in DOMAIN s.events, s.events[i].head = a PROVE Settled(s, a) = s.events[i].to
  <2>1. <<a, s.events[i].to>> \in own
    BY <1>4 DEF Tells
  <2>2. PICK j \in DOMAIN s.events : s.events[j].head = c[1] /\ s.events[j].to = c[2]
    BY <1>2, <2>1 DEF Tells
  <2>3. s.events[j].head = a
    BY <1>2, <2>1, <2>2
  <2>4. \A k, l \in DOMAIN s.events : k # l => s.events[k].head # s.events[l].head
    BY DEF Tells
  <2>5. j = i
    BY <1>4, <2>3, <2>4
  <2> QED
    BY <1>1, <2>1, <2>2, <2>5
<1>5. ASSUME \A i \in DOMAIN s.events : s.events[i].head # a PROVE own = {}
  <2>1. \A h \in s.heads : \E i \in DOMAIN s.events : s.events[i].head = h[1]
    BY DEF Tells
  <2> QED
    BY <1>5, <2>1
<1> QED
  BY <1>1, <1>3, <1>4, <1>5

LEMMA JoinedAre ==
    ASSUME NEW X, NEW p \in Seq(X), NEW q \in Seq(X)
    PROVE /\ p \o q \in Seq(X) /\ Len(p) \in Nat
          /\ \A i \in DOMAIN p : i \in DOMAIN (p \o q) /\ (p \o q)[i] = p[i]
          /\ \A i \in DOMAIN q : Len(p) + i \in DOMAIN (p \o q) /\ (p \o q)[Len(p) + i] = q[i]
          /\ \A i \in DOMAIN (p \o q) :
                i \in DOMAIN p \/ (i - Len(p) \in DOMAIN q /\ i = Len(p) + (i - Len(p)))
          /\ DOMAIN (p \o q) \subseteq Nat /\ DOMAIN q \subseteq Nat
OBVIOUS

-----------------------------------------------------------------------------
(* Types.                                                                    *)

Witnesses == [agent : People, zone : Zones, witnesses : SUBSET People]
Masses == [zone : Zones, agents : SUBSET People, population : 1 .. 2 * N]

TypeInv ==
    /\ now \in 0 .. MaxTick /\ phase \in {"demography", "turns"} /\ era \in Eras
    /\ phase = "turns" => now < MaxTick
    /\ person \in [People -> PersonType]
    /\ wages \in Seq([People -> Nat]) /\ Len(wages) <= WageWindow
    /\ flag \in [People -> {Never} \cup 0 .. MaxTick]
    /\ flights \in Seq(FlightType)
    /\ \A i \in DOMAIN flights : flights[i].tick <= IF phase = "turns" THEN Worked ELSE now
    /\ crises \subseteq Witnesses /\ masses \subseteq Masses
    /\ delivered \subseteq People /\ unwilling \subseteq People
    /\ deaths \in 0 .. MaxDeaths

LEMMA FlightFields ==
    ASSUME NEW e \in FlightType
    PROVE e.tick \in Int /\ e.head \in People /\ e.from \in Zones /\ e.to \in Zones /\ e.members \subseteq People
<1> HIDE DEF People
<1> QED
  BY DEF FlightType

LEMMA EventsAre ==
    ASSUME flights \in Seq(FlightType), NEW i \in DOMAIN flights PROVE flights[i] \in FlightType
<1> HIDE DEF FlightType
<1> QED
  OBVIOUS

LEMMA KeptAre ==
    ASSUME TypeInv
    PROVE /\ Those(flights, Kept) \in Seq(FlightType)
          /\ \A i \in Kept : \E k \in DOMAIN Those(flights, Kept) : Those(flights, Kept)[k] = flights[i]
          /\ \A k \in DOMAIN Those(flights, Kept) :
                \E i \in DOMAIN flights : Those(flights, Kept)[k] = flights[i]
<1>1. flights \in Seq(FlightType)
  BY DEF TypeInv
<1>2. IsFiniteSet(DOMAIN flights) /\ DOMAIN flights \subseteq Int
  <2>1. Len(flights) \in Nat /\ DOMAIN flights = 1 .. Len(flights)
    <3> HIDE DEF FlightType
    <3> QED
      BY <1>1
  <2> QED
    BY <2>1, FS_Interval
<1>3. Indices(Kept)
  BY <1>2, FS_Subset DEF Kept, Indices
<1>4. \A i \in Kept : flights[i] \in FlightType
  BY <1>1, EventsAre DEF Kept
<1>5. Those(flights, Kept) \in Seq(FlightType)
  BY <1>3, <1>4, ThoseType
<1>6. /\ DOMAIN Those(flights, Kept) = 1 .. Cardinality(Kept)
      /\ \A k \in 1 .. Cardinality(Kept) :
            InOrder(Kept)[k] \in Kept /\ Those(flights, Kept)[k] = flights[InOrder(Kept)[k]]
  BY <1>3, ThoseAre
<1>7. ASSUME NEW i \in Kept
      PROVE \E k \in DOMAIN Those(flights, Kept) : Those(flights, Kept)[k] = flights[i]
  <2>1. PICK k \in 1 .. Cardinality(Kept) : InOrder(Kept)[k] = i
    BY <1>3, InOrderCovers
  <2> QED
    BY <1>6, <2>1
<1>8. Kept \subseteq DOMAIN flights
  BY DEF Kept
<1> QED
  BY <1>5, <1>6, <1>7, <1>8

\* What process_emergency_flight does.
LEMMA FlightIs ==
    ASSUME TypeInv, EmergencyFlight
    PROVE \E s \in Flocks, done \in SUBSET Living : Tells(s, done) /\ Written(s)
<1>1. PICK starving \in Starving, targets \in {Targets(x) : x \in {ZoneStats}} :
        Written(Loop(starving, targets))
  BY DEF EmergencyFlight
<1>2. starving \in SUBSET Living
  BY DEF Starving
<1>3. targets \in [Living -> Zones \cup {NoZone}]
  BY TargetIn DEF Targets
<1>4. Loop(starving, targets) \in Flocks /\ Tells(Loop(starving, targets), starving)
  BY <1>2, <1>3, LoopIs DEF TypeInv, EmergencyFlight
<1> QED
  BY <1>1, <1>2, <1>4

LEMMA TypeInit == Init => TypeInv
<1> SUFFICES ASSUME Init PROVE TypeInv
  OBVIOUS
<1>1. person \in [People -> PersonType]
  <2>1. \A a \in DOMAIN Founder : Founder[a] \in PersonType
    BY HouseholdsAssumption
  <2> HIDE DEF PersonType, People
  <2> QED
    BY <2>1, UnbornIn DEF Init
<1>2. flights = << >> /\ wages = << >>
  BY DEF Init
<1>3. flights \in Seq(FlightType) /\ DOMAIN flights = {}
  <2> HIDE DEF FlightType
  <2> QED
    BY <1>2
<1>4. wages \in Seq([People -> Nat]) /\ Len(wages) <= WageWindow
  <2> HIDE DEF People
  <2> QED
    BY <1>2, HouseholdsAssumption
<1>5. /\ now \in 0 .. MaxTick /\ phase = "demography" /\ era \in Eras
      /\ flag \in [People -> {Never} \cup 0 .. MaxTick]
      /\ crises = {} /\ masses = {} /\ delivered = {} /\ unwilling = {} /\ deaths \in 0 .. MaxDeaths
  BY HouseholdsAssumption DEF Init
<1> QED
  BY <1>1, <1>3, <1>4, <1>5 DEF TypeInv

LEMMA BirthType == ASSUME TypeInv, NEW m \in People, Birth(m) PROVE TypeInv'
<1>1. PICK c \in People, outcome \in ChildbirthOutcomes :
        /\ outcome[1] => deaths < MaxDeaths
        /\ LET born == IF outcome[2] THEN [person EXCEPT ![c] = Newborn(m)] ELSE person
           IN person' = IF outcome[1] THEN Buried(born, m) ELSE born
        /\ deaths' = IF outcome[1] THEN deaths + 1 ELSE deaths
  BY DEF Birth
<1>2. /\ phase = "demography" /\ now < MaxTick /\ delivered' = delivered \cup {m}
      /\ UNCHANGED <<now, phase, era, wages, flag, flights, crises, masses, unwilling, was>>
  BY DEF Birth
<1>3. person \in [People -> PersonType] /\ Newborn(m) \in PersonType
  BY <1>2, NewbornIn DEF TypeInv
<1> DEFINE born == IF outcome[2] THEN [person EXCEPT ![c] = Newborn(m)] ELSE person
<1>4. born \in [People -> PersonType]
  <2> HIDE DEF PersonType, People
  <2> QED
    BY <1>3
<1>5. person' \in [People -> PersonType]
  <2> HIDE DEF born
  <2>1. person' = IF outcome[1] THEN Buried(born, m) ELSE born
    BY <1>1 DEF born
  <2> QED
    BY <1>4, <2>1, BuriedIn
<1>6. deaths' \in 0 .. MaxDeaths
  BY <1>1, HouseholdsAssumption DEF TypeInv
<1> HIDE DEF born
<1> QED
  BY <1>2, <1>5, <1>6 DEF TypeInv

LEMMA DieType == ASSUME TypeInv, NEW a \in People, Die(a) PROVE TypeInv'
<1>1. /\ person' = Buried(person, a) /\ deaths < MaxDeaths /\ deaths' = deaths + 1
      /\ phase = "demography"
      /\ UNCHANGED <<now, phase, era, wages, flag, flights, crises, masses, delivered, unwilling, was>>
  BY DEF Die
<1>2. person' \in [People -> PersonType]
  BY <1>1, BuriedIn DEF TypeInv
<1>3. deaths' \in 0 .. MaxDeaths
  BY <1>1, HouseholdsAssumption DEF TypeInv
<1> QED
  BY <1>1, <1>2, <1>3 DEF TypeInv

LEMMA AvoidType == ASSUME TypeInv, NEW a \in People, AvoidConception(a) PROVE TypeInv'
<1>1. /\ flag' = flag \/ flag' = [flag EXCEPT ![a] = now]
      /\ unwilling' \subseteq People /\ phase = "turns"
      /\ UNCHANGED <<now, phase, era, person, wages, flights, crises, masses, delivered, was, deaths>>
  BY DEF AvoidConception, TypeInv
<1>2. flag' \in [People -> {Never} \cup 0 .. MaxTick]
  <2>1. flag \in [People -> {Never} \cup 0 .. MaxTick] /\ now \in 0 .. MaxTick
    BY DEF TypeInv
  <2> HIDE DEF People
  <2> QED
    BY <1>1, <2>1
<1>3. Worked' = Worked
  BY <1>1 DEF Worked
<1> QED
  BY <1>1, <1>2, <1>3 DEF TypeInv

LEMMA NextTickType == ASSUME TypeInv, NextTick PROVE TypeInv'
<1>1. PICK payroll \in Payrolls :
        wages' = SubSeq(<<Paid(payroll)>> \o wages, 1, IF Len(wages) < WageWindow THEN Len(wages) + 1 ELSE WageWindow)
  BY DEF NextTick
<1>2. /\ phase = "turns" /\ phase' = "demography" /\ now' = now + 1 /\ crises' = {} /\ masses' = {}
      /\ UNCHANGED <<era, person, flag, flights, delivered, unwilling, deaths>>
  BY DEF NextTick
<1>3. Paid(payroll) \in [People -> Nat]
  <2>1. payroll \in [Zones -> Nat] /\ \A a \in People : person[a].zone \in Zones
    BY HouseholdsAssumption, RowsAre DEF TypeInv
  <2>2. \A a \in People : payroll[person[a].zone] \in Nat
    BY <2>1
  <2> QED
    BY <2>2 DEF Paid
<1>4. wages' \in Seq([People -> Nat]) /\ Len(wages') <= WageWindow
  <2> DEFINE p == Paid(payroll)
             T == [People -> Nat]
             q == <<p>> \o wages
             n == IF Len(wages) < WageWindow THEN Len(wages) + 1 ELSE WageWindow
  <2>1. p \in T /\ wages \in Seq(T) /\ Len(wages) <= WageWindow
    BY <1>3 DEF TypeInv
  <2>2. WageWindow \in Nat \ {0}
    BY HouseholdsAssumption
  <2> HIDE DEF p, T
  <2>3. q \in Seq(T) /\ Len(q) = Len(wages) + 1 /\ n \in 1 .. Len(q) /\ n <= WageWindow
    BY <2>1, <2>2
  <2>4. wages' = SubSeq(q, 1, n)
    BY <1>1 DEF p
  <2> HIDE DEF q, n
  <2>5. wages' \in Seq(T) /\ Len(wages') = n
    BY <2>3, <2>4
  <2> QED
    BY <2>3, <2>5 DEF T
<1>5. now' \in 0 .. MaxTick
  BY <1>2, HouseholdsAssumption DEF TypeInv
<1>6. \A i \in DOMAIN flights' : flights'[i].tick <= now'
  BY <1>2 DEF TypeInv, Worked
<1> QED
  BY <1>2, <1>4, <1>5, <1>6 DEF TypeInv

LEMMA FledAre ==
    ASSUME TypeInv, NEW s \in Flocks, NEW z
    PROVE FledBefore(z) \subseteq People /\ Fled(s, z) \subseteq People
<1>1. \A i \in DOMAIN flights : flights[i].head \in People
  BY EventsAre, FlightFields DEF TypeInv
<1>2. \A i \in DOMAIN s.events : s.events[i].head \in People
  <2>1. s.events \in Seq(FlightType)
    BY FlocksAre
  <2>2. \A i \in DOMAIN s.events : s.events[i] \in FlightType
    <3> HIDE DEF FlightType
    <3> QED
      BY <2>1
  <2> QED
    BY <2>2, FlightFields
<1>3. FledBefore(z) \subseteq People
  BY <1>1 DEF FledBefore, ToSet
<1> QED
  BY <1>2, <1>3 DEF Fled, ToSet

LEMMA EmergencyFlightType == ASSUME TypeInv, EmergencyFlight PROVE TypeInv'
<1>1. PICK s \in Flocks, done \in SUBSET Living : Tells(s, done) /\ Written(s)
  BY FlightIs
<1>2. /\ phase = "demography" /\ now < MaxTick /\ phase' = "turns" /\ delivered' = {} /\ unwilling' = {}
      /\ UNCHANGED <<now, era, wages, flag, deaths>>
  BY DEF EmergencyFlight
<1>3. person' \in [People -> PersonType]
  <2>1. \A a \in People : person[a] \in PersonType /\ Settled(s, a) \in Zones
    BY <1>1, SettledIs, RowsAre DEF TypeInv
  <2>2. \A a \in People : [person[a] EXCEPT !.zone = Settled(s, a)] \in PersonType
    BY <2>1, PersonFields
  <2> HIDE DEF PersonType, People
  <2> QED
    BY <1>1, <2>2 DEF Written
<1>4. flights' \in Seq(FlightType) /\ \A i \in DOMAIN flights' : flights'[i].tick <= Worked
  <2> DEFINE p == Those(flights, Kept)
  <2>1. p \in Seq(FlightType) /\ s.events \in Seq(FlightType) /\ flights' = p \o s.events
    BY <1>1, KeptAre, FlocksAre DEF Written
  <2>2. \A k \in DOMAIN p : p[k].tick <= Worked
    <3>1. \A i \in DOMAIN flights : flights[i].tick <= now /\ flights[i].tick \in Int
      BY <1>2, EventsAre, FlightFields DEF TypeInv
    <3>2. \A i \in DOMAIN flights : flights[i].tick <= Worked
      BY <3>1 DEF Worked, TypeInv
    <3> QED
      BY <3>2, KeptAre
  <2>3. \A i \in DOMAIN s.events : s.events[i].tick <= Worked
    <3>1. \A i \in DOMAIN s.events : s.events[i] = Migration(s.events[i].head, s.events[i].to)
      BY <1>1 DEF Tells
    <3>2. \A a, z : Migration(a, z).tick = Worked
      BY DEF Migration
    <3> QED
      BY <3>1, <3>2 DEF Worked, TypeInv
  <2> HIDE DEF p, FlightType
  <2>4. /\ flights' \in Seq(FlightType)
        /\ \A i \in DOMAIN p : flights'[i] = p[i]
        /\ \A i \in DOMAIN s.events : flights'[Len(p) + i] = s.events[i]
        /\ \A i \in DOMAIN flights' :
            i \in DOMAIN p \/ (i - Len(p) \in DOMAIN s.events /\ i = Len(p) + (i - Len(p)))
    BY <2>1, JoinedAre
  <2> QED
    BY <2>2, <2>3, <2>4
<1>5. crises' \subseteq Witnesses
  <2>1. s.trapped \subseteq People
    BY FlocksAre, LivingAre
  <2>2. \A a \in People : person[a].zone \in Zones
    BY RowsAre DEF TypeInv
  <2>3. Living \subseteq People
    BY LivingAre
  <2> QED
    BY <1>1, <2>1, <2>2, <2>3 DEF Written, Crises, Witnesses
<1>6. masses' \subseteq Masses
  <2>1. ASSUME NEW z \in Zones, PopulationAtWindowStart(z) > 0
        PROVE PopulationAtWindowStart(z) \in 1 .. 2 * N
    <3>1. In(z) \subseteq People /\ FledBefore(z) \subseteq People
      BY LivingAre, FledAre
    <3>2. Cardinality(In(z)) \in 0 .. N /\ Cardinality(FledBefore(z)) \in 0 .. N
      BY <3>1, SomeAreFinite
    <3> QED
      BY <2>1, <3>2, PeopleAreFinite DEF PopulationAtWindowStart
  <2>2. \A z \in Zones : Fled(s, z) \subseteq People
    BY FledAre
  <2> QED
    BY <1>1, <2>1, <2>2 DEF Written, MassFlights, Masses
<1>7. Worked' = Worked
  BY <1>2 DEF Worked
<1> QED
  BY <1>2, <1>3, <1>4, <1>5, <1>6, <1>7 DEF TypeInv

LEMMA TypeNext == ASSUME TypeInv, [Next]_vars PROVE TypeInv'
<1>1. CASE UNCHANGED vars
  BY <1>1 DEF vars, TypeInv, Worked
<1> QED
  BY <1>1, BirthType, DieType, AvoidType, EmergencyFlightType, NextTickType DEF Next

\* Whatever is born, dies, flees and decides, every trait, rank, zone, parent
\* and partner stays within its range, and the events name people and zones.
THEOREM HouseholdsAreTyped == Spec => []TypeOK
<1>1. TypeInv => TypeOK
  <2> SUFFICES ASSUME TypeInv PROVE TypeOK
    OBVIOUS
  <2>1. \A i \in DOMAIN wages : wages[i] \in [People -> Nat]
    <3> DEFINE T == [People -> Nat]
    <3>1. wages \in Seq(T)
      BY DEF TypeInv
    <3> HIDE DEF T
    <3>2. \A i \in DOMAIN wages : wages[i] \in T
      BY <3>1
    <3> QED
      BY <3>2 DEF T
  <2>2. \A i \in DOMAIN flights : flights[i] \in FlightType
    BY EventsAre DEF TypeInv
  <2> QED
    BY <2>1, <2>2 DEF TypeInv, TypeOK, Witnesses, Masses
<1> QED
  BY <1>1, TypeInit, TypeNext, PTL DEF Spec

-----------------------------------------------------------------------------
(* The events tell the truth, and a mass flight is measured against those    *)
(* who were there.                                                           *)

\* Where the events of a flight are among those that are kept.
LEMMA EventsKept ==
    ASSUME TypeInv, EmergencyFlight, NEW s \in Flocks, NEW done, Tells(s, done), Written(s)
    PROVE LET K == Len(Those(flights, Kept)) IN
          /\ K \in Nat /\ DOMAIN s.events \subseteq Nat
          /\ \A i \in DOMAIN s.events : K + i \in DOMAIN flights' /\ flights'[K + i] = s.events[i]
          /\ \A i \in DOMAIN s.events : s.events[i].tick = Worked
          /\ \A i \in Kept : \E k \in DOMAIN flights' : flights'[k] = flights[i]
          /\ \A i \in DOMAIN flights' :
                flights'[i].tick = Worked => i - K \in DOMAIN s.events /\ i = K + (i - K)
<1> DEFINE p == Those(flights, Kept)
           K == Len(p)
<1>1. p \in Seq(FlightType) /\ s.events \in Seq(FlightType) /\ flights' = p \o s.events
  BY KeptAre, FlocksAre DEF Written
<1>2. \A k \in DOMAIN p : \E i \in DOMAIN flights : p[k] = flights[i]
  BY KeptAre
<1>3. \A i \in Kept : \E k \in DOMAIN p : p[k] = flights[i]
  BY KeptAre
<1>4. \A i \in DOMAIN flights : flights[i].tick # Worked
  <2>1. phase = "demography"
    BY DEF EmergencyFlight
  <2>2. \A i \in DOMAIN flights : flights[i].tick <= now /\ flights[i].tick \in Int
    BY <2>1, EventsAre, FlightFields DEF TypeInv
  <2> QED
    BY <2>2 DEF Worked, TypeInv
<1>5. \A i \in DOMAIN s.events : s.events[i].tick = Worked
  <2>1. \A i \in DOMAIN s.events : s.events[i] = Migration(s.events[i].head, s.events[i].to)
    BY DEF Tells
  <2>2. \A a, z : Migration(a, z).tick = Worked
    BY DEF Migration
  <2> QED
    BY <2>1, <2>2
<1> HIDE DEF p, FlightType
<1>6. /\ K \in Nat /\ DOMAIN s.events \subseteq Nat
      /\ \A i \in DOMAIN p : i \in DOMAIN flights' /\ flights'[i] = p[i]
      /\ \A i \in DOMAIN s.events : K + i \in DOMAIN flights' /\ flights'[K + i] = s.events[i]
      /\ \A i \in DOMAIN flights' :
          i \in DOMAIN p \/ (i - K \in DOMAIN s.events /\ i = K + (i - K))
  BY <1>1, JoinedAre
<1>7. \A i \in DOMAIN p : flights'[i].tick # Worked
  BY <1>2, <1>4, <1>6
<1>8. \A i \in Kept : \E k \in DOMAIN flights' : flights'[k] = flights[i]
  BY <1>3, <1>6
<1> QED
  BY <1>5, <1>6, <1>7, <1>8 DEF p

LEMMA FlightTells == ASSUME TypeInv, EmergencyFlight PROVE FlightsTellTheTruth'
<1>1. PICK s \in Flocks, done \in SUBSET Living : Tells(s, done) /\ Written(s)
  BY FlightIs
<1>2. PICK K \in Nat :
        /\ DOMAIN s.events \subseteq Nat
        /\ \A i \in DOMAIN s.events : K + i \in DOMAIN flights' /\ flights'[K + i] = s.events[i]
        /\ \A i \in DOMAIN s.events : s.events[i].tick = Worked
        /\ \A i \in DOMAIN flights' :
              flights'[i].tick = Worked => i - K \in DOMAIN s.events /\ i = K + (i - K)
  BY <1>1, EventsKept
<1>3. Worked' = Worked /\ was' = [a \in People |-> person[a].zone]
  BY DEF EmergencyFlight, Worked
<1> DEFINE today == {i \in DOMAIN flights' : flights'[i].tick = Worked}
<1>4. ThisTick' = today
  BY <1>3 DEF ThisTick
<1>5. \A i \in today : i - K \in DOMAIN s.events /\ i = K + (i - K) /\ flights'[i] = s.events[i - K]
  BY <1>2
<1>6. \A i \in DOMAIN s.events : K + i \in today
  BY <1>2
<1>7. ASSUME NEW a \in People PROVE person'[a].zone = ToldBy(a)'
  <2> DEFINE own == {i \in today : flights'[i].head = a}
             lists == {i \in today : a \in flights'[i].members}
             c == CHOOSE i \in own : TRUE
             d == CHOOSE i \in lists : \A j \in lists : j <= i
  <2>1. ToldBy(a)' = IF own # {} THEN flights'[c].to
                     ELSE IF lists # {} THEN flights'[d].to ELSE was'[a]
    BY <1>4 DEF ToldBy
  <2>2. person'[a].zone = Settled(s, a)
    <3>1. person'[a] = [person[a] EXCEPT !.zone = Settled(s, a)]
      BY <1>1 DEF Written
    <3>2. person[a] \in PersonType
      BY RowsAre DEF TypeInv
    <3> QED
      BY <3>1, <3>2 DEF PersonType
  <2>3. CASE own # {}
    <3>1. c \in own
      BY <2>3
    <3> HIDE DEF c
    <3>2. c - K \in DOMAIN s.events /\ flights'[c] = s.events[c - K] /\ flights'[c].head = a
      BY <1>5, <3>1
    <3>3. Settled(s, a) = s.events[c - K].to
      BY <1>1, <3>2, SettledIs
    <3> QED
      BY <2>1, <2>2, <2>3, <3>2, <3>3
  <2>4. CASE own = {}
    <3>1. \A i \in DOMAIN s.events : s.events[i].head # a
      BY <1>2, <1>6, <2>4
    <3>2. Settled(s, a) = s.rows[a]
      BY <1>1, <3>1, SettledIs
    <3>3. CASE lists = {}
      <4>1. \A i \in DOMAIN s.events : a \notin s.events[i].members
        BY <1>2, <1>6, <3>3
      <4>2. s.rows[a] = person[a].zone
        BY <1>1, <4>1 DEF Tells
      <4> QED
        BY <1>3, <2>1, <2>2, <2>4, <3>2, <3>3, <4>2
    <3>4. CASE lists # {}
      <4>1. \E i \in lists : \A j \in lists : j <= i
        <5>1. flights' \in Seq(FlightType)
          BY TypeNext DEF TypeInv, Next
        <5>2. Len(flights') \in Nat /\ DOMAIN flights' = 1 .. Len(flights')
          <6> HIDE DEF FlightType
          <6> QED
            BY <5>1
        <5>3. IsFiniteSet(DOMAIN flights') /\ DOMAIN flights' \subseteq Int
          BY <5>2, FS_Interval
        <5>4. IsFiniteSet(lists) /\ lists \subseteq Int
          BY <5>3, FS_Subset
        <5> HIDE DEF lists
        <5> QED
          BY <3>4, <5>4, MaxIn
      <4>2. d \in lists /\ \A j \in lists : j <= d
        BY <4>1
      <4> HIDE DEF d
      <4>3. /\ d - K \in DOMAIN s.events /\ d = K + (d - K) /\ flights'[d] = s.events[d - K]
            /\ a \in s.events[d - K].members
        BY <1>5, <4>2
      <4>4. \A j \in DOMAIN s.events : a \in s.events[j].members => j <= d - K
        <5>1. \A j \in DOMAIN s.events : a \in s.events[j].members => K + j \in lists
          BY <1>2, <1>6
        <5>2. \A j \in DOMAIN s.events : a \in s.events[j].members => K + j <= d
          BY <4>2, <5>1
        <5>3. d - K \in Nat
          BY <1>2, <4>3
        <5> QED
          BY <1>2, <4>3, <5>2, <5>3
      <4>5. s.rows[a] = s.events[d - K].to
        BY <1>1, <4>3, <4>4 DEF Tells
      <4> QED
        BY <2>1, <2>2, <2>4, <3>2, <3>4, <4>3, <4>5
    <3> QED
      BY <3>3, <3>4
  <2> QED
    BY <2>3, <2>4
<1>8. ASSUME NEW i \in ThisTick', NEW j \in ThisTick', i # j PROVE flights'[i].head # flights'[j].head
  <2>1. /\ i - K \in DOMAIN s.events /\ flights'[i] = s.events[i - K] /\ i = K + (i - K)
        /\ j - K \in DOMAIN s.events /\ flights'[j] = s.events[j - K] /\ j = K + (j - K)
    BY <1>4, <1>5
  <2>2. i - K # j - K
    BY <1>8, <2>1
  <2> QED
    BY <1>1, <2>1, <2>2 DEF Tells
<1> QED
  BY <1>7, <1>8 DEF FlightsTellTheTruth

\* Whatever households are split, followed and skipped, the events of a tick
\* tell where everybody is when the flight is over.
THEOREM FlightsAreTold == Spec => []FlightsTellTheTruth
<1>1. Init => FlightsTellTheTruth
  BY DEF Init, FlightsTellTheTruth
<1>2. ASSUME TypeInv, FlightsTellTheTruth, [Next]_vars PROVE FlightsTellTheTruth'
  <2>1. ASSUME UNCHANGED <<now, phase, person, flights, was>> PROVE FlightsTellTheTruth'
    <3>1. ThisTick' = ThisTick /\ person' = person /\ phase' = phase /\ flights' = flights
      BY <2>1 DEF ThisTick, Worked
    <3>2. \A a \in People : ToldBy(a)' = ToldBy(a)
      BY <2>1, <3>1 DEF ToldBy
    <3> QED
      BY <1>2, <3>1, <3>2 DEF FlightsTellTheTruth
  <2>2. ASSUME phase' = "demography" PROVE FlightsTellTheTruth'
    BY <2>2 DEF FlightsTellTheTruth
  <2>3. ASSUME NEW a \in People, Birth(a) \/ Die(a) \/ AvoidConception(a) PROVE FlightsTellTheTruth'
    BY <2>1, <2>2, <2>3 DEF Birth, Die, AvoidConception
  <2>4. CASE NextTick
    BY <2>2, <2>4 DEF NextTick
  <2>5. CASE UNCHANGED vars
    BY <2>1, <2>5 DEF vars
  <2> QED
    BY <1>2, <2>3, <2>4, <2>5, FlightTells DEF Next
<1> QED
  BY <1>1, <1>2, TypeInit, TypeNext, PTL DEF Spec

LEMMA FlightMeasured == ASSUME TypeInv, EmergencyFlight PROVE MassFlightMeasured'
<1>1. PICK s \in Flocks, done \in SUBSET Living : Tells(s, done) /\ Written(s)
  BY FlightIs
<1>2. PICK K \in Nat :
        /\ \A i \in DOMAIN s.events : K + i \in DOMAIN flights' /\ flights'[K + i] = s.events[i]
        /\ \A i \in DOMAIN s.events : s.events[i].tick = Worked
        /\ \A i \in Kept : \E k \in DOMAIN flights' : flights'[k] = flights[i]
  BY <1>1, EventsKept
<1>3. Worked' = Worked /\ Worked \in Int /\ Window \in Nat \ {0}
  BY HouseholdsAssumption DEF EmergencyFlight, Worked, TypeInv
<1>4. ASSUME NEW z \in Zones, NEW a \in Fled(s, z)
      PROVE \E i \in DOMAIN flights' :
                /\ flights'[i].head = a /\ flights'[i].from = z
                /\ flights'[i].tick \in (Worked - Window) + 1 .. Worked
  <2>1. CASE a \in FledBefore(z)
    <3>1. PICK i \in DOMAIN flights :
            /\ a = flights[i].head /\ flights[i].from = z
            /\ flights[i].tick > Worked - Window /\ flights[i].tick < Worked
      BY <2>1 DEF FledBefore, ToSet
    <3>2. flights[i].tick \in (Worked - Window) + 1 .. Worked
      <4>1. flights[i].tick \in Int
        BY EventsAre, FlightFields DEF TypeInv
      <4> QED
        BY <1>3, <3>1, <4>1
    <3>3. i \in Kept
      BY <3>1 DEF Kept
    <3> QED
      BY <1>2, <3>1, <3>2, <3>3
  <2>2. CASE a \notin FledBefore(z)
    <3>1. PICK i \in DOMAIN s.events : a = s.events[i].head /\ s.events[i].from = z
      BY <2>2 DEF Fled, ToSet
    <3>2. Worked \in (Worked - Window) + 1 .. Worked
      BY <1>3
    <3> QED
      BY <1>2, <3>1, <3>2
  <2> QED
    BY <2>1, <2>2
<1>5. ASSUME NEW z \in Zones PROVE Cardinality(Fled(s, z)) <= PopulationAtWindowStart(z)
  <2> DEFINE B == FledBefore(z)
             H == {e.head : e \in {x \in ToSet(s.events) : x.from = z}}
  <2>1. H \subseteq In(z)
    <3>1. ASSUME NEW i \in DOMAIN s.events, s.events[i].from = z PROVE s.events[i].head \in In(z)
      <4>1. s.events[i] = Migration(s.events[i].head, s.events[i].to) /\ s.events[i].head \in done
        BY <1>1 DEF Tells
      <4>2. \A b, t : Migration(b, t).from = person[b].zone
        BY DEF Migration
      <4> QED
        BY <3>1, <4>1, <4>2 DEF In
    <3> QED
      BY <3>1 DEF ToSet
  <2>2. IsFiniteSet(In(z)) /\ IsFiniteSet(B)
    BY LivingAre, FledAre, SomeAreFinite
  <2>3. IsFiniteSet(H) /\ Cardinality(H) <= Cardinality(In(z))
    BY <2>1, <2>2, FS_Subset
  <2>4. Fled(s, z) = B \cup H
    BY DEF Fled
  <2> HIDE DEF B, H
  <2>5. /\ Cardinality(B) \in Nat /\ Cardinality(H) \in Nat /\ Cardinality(In(z)) \in Nat
        /\ Cardinality(B \cup H) <= Cardinality(B) + Cardinality(H)
    <3>1. /\ Cardinality(B \cup H) = Cardinality(B) + Cardinality(H) - Cardinality(B \cap H)
          /\ IsFiniteSet(B \cap H)
      BY <2>2, <2>3, FS_Union, FS_Intersection
    <3>2. Cardinality(B \cap H) \in Nat /\ Cardinality(B) \in Nat /\ Cardinality(H) \in Nat
      BY <2>2, <2>3, <3>1, FS_CardinalityType
    <3> QED
      BY <2>2, <3>1, <3>2, FS_CardinalityType
  <2>6. PopulationAtWindowStart(z) = Cardinality(In(z)) + Cardinality(B)
    BY DEF PopulationAtWindowStart, B
  <2>7. Cardinality(Fled(s, z)) = Cardinality(B \cup H)
    BY <2>4
  <2>8. Cardinality(B \cup H) \in Nat
    BY <2>2, <2>3, FS_Union, FS_CardinalityType
  <2>9. \A b, h, n, u \in Nat : u <= b + h /\ h <= n => u <= n + b
    OBVIOUS
  <2> QED
    BY <2>3, <2>5, <2>6, <2>7, <2>8, <2>9
<1>6. ASSUME NEW m \in masses'
      PROVE /\ Cardinality(m.agents) <= m.population
            /\ \A a \in m.agents : \E i \in DOMAIN flights' :
                /\ flights'[i].head = a /\ flights'[i].from = m.zone
                /\ flights'[i].tick \in (Worked' - Window) + 1 .. Worked'
  <2>1. PICK z \in Zones : m = [zone |-> z, agents |-> Fled(s, z), population |-> PopulationAtWindowStart(z)]
    BY <1>1 DEF Written, MassFlights
  <2>2. m.zone = z /\ m.agents = Fled(s, z) /\ m.population = PopulationAtWindowStart(z)
    BY <2>1
  <2> QED
    BY <1>3, <1>4, <1>5, <2>2
<1> QED
  BY <1>6 DEF MassFlightMeasured

\* A mass flight never counts more agents than were there when the window
\* began, and each it counts has fled from there within the window.
THEOREM MassFlightsAreMeasured == Spec => []MassFlightMeasured
<1>1. Init => MassFlightMeasured
  BY DEF Init, MassFlightMeasured
<1>2. ASSUME TypeInv, MassFlightMeasured, [Next]_vars PROVE MassFlightMeasured'
  <2>1. ASSUME UNCHANGED <<now, flights, masses>> PROVE MassFlightMeasured'
    BY <1>2, <2>1 DEF MassFlightMeasured, Worked
  <2>2. ASSUME NEW a \in People, Birth(a) \/ Die(a) \/ AvoidConception(a) PROVE MassFlightMeasured'
    BY <2>1, <2>2 DEF Birth, Die, AvoidConception
  <2>3. CASE NextTick
    BY <2>3 DEF NextTick, MassFlightMeasured
  <2>4. CASE UNCHANGED vars
    BY <2>1, <2>4 DEF vars
  <2> QED
    BY <1>2, <2>2, <2>3, <2>4, FlightMeasured DEF Next
<1> QED
  BY <1>1, <1>2, TypeInit, TypeNext, PTL DEF Spec

=============================================================================
