----------------------------- MODULE HearsayProofs -----------------------------
(***************************************************************************)
(* Proofs about Hearsay: types, the length of chains of tellers, opinions  *)
(* that follow the news they are drawn from, and news that reaches every   *)
(* neighbour of whom it is about.                                          *)
(***************************************************************************)
EXTENDS Hearsay, FiniteLemmas

Telling == {"direct", "hearsay", "rumor"}
Phases == {"turns", "public", "closing"} \cup Telling
Stories == [memory : DOMAIN memories, rows : SUBSET ties, informed : SUBSET Agents, told : Nat]

\* What a memory that is passed on is like.
MemoryOf(m) == m.source # "public" => m.origin \in Agents

TypeInv ==
    /\ tick \in Ticks /\ phase \in Phases /\ ties \subseteq TieRows
    /\ memories \in Seq(MemoryType) /\ \A i \in DOMAIN memories : MemoryOf(memories[i])
    /\ image \in [Agents -> [Agents -> Score]] /\ reputation \in [Agents -> [Agents -> Score]]
    /\ rated \in [Agents -> [Agents -> Nat]] /\ failures \in Nat
    /\ alive \subseteq Agents /\ acted \subseteq Agents
    /\ pending \subseteq DOMAIN memories
    /\ phase \in Telling =>
        /\ story = NoStory \/ story \in Stories
        /\ \A i \in pending : memories[i].source = phase
        /\ story # NoStory => memories[story.memory].source = phase
    /\ phase \notin Telling => story = NoStory

-----------------------------------------------------------------------------
(* Numbers and words stay in their ranges.                                   *)

LEMMA ScaleIs ==
    /\ Scale \subseteq Nat /\ Scale \subseteq Int
    /\ 0 \in Scale /\ 100 \in Scale /\ 500 \in Scale /\ 1000 \in Scale
BY DEF Scale

LEMMA ScoreIs == Score \subseteq Int /\ 0 \in Score
BY DEF Score

LEMMA TicksAre == Ticks \subseteq Int
BY HearsayAssumption DEF Ticks

LEMMA ClampedScore == ASSUME NEW x \in Int PROVE Clamp(-1000, 1000, x) \in Score
BY DEF Clamp, Score

LEMMA ClampedScale == ASSUME NEW x \in Int PROVE Clamp(0, 1000, x) \in Scale
BY DEF Clamp, Scale

LEMMA MovedIn ==
    ASSUME NEW s \in Int, NEW d \in Int PROVE Moved(s, d) \in Score
BY DEF Moved, Clamp, Score

LEMMA ProductIn == ASSUME NEW x \in Int, NEW y \in Int PROVE x * y \in Int
OBVIOUS

LEMMA DecayedIn ==
    ASSUME NEW r \in Scale
    PROVE /\ Decayed(r) \in Scale /\ Damped(Decayed(r)) \in Scale
          /\ Damped(Decayed(r)) <= Decayed(r)
BY DEF Decayed, Damped, Scale

LEMMA SentimentIn == ASSUME NEW w \in Words PROVE Sentiment(w) \in Int
BY DEF Sentiment, Abs

LEMMA WeightIn == ASSUME NEW w \in Words PROVE Weight(w.deed) \in Scale
<1>1. w.deed \in {"betray", "argue", "help", "rest", "event"}
  BY DEF Words
<1> QED
  BY <1>1 DEF Weight, Scale

LEMMA ImageDeltaIn == ASSUME NEW deed PROVE ImageDelta(deed) \in Int
BY DEF ImageDelta

LEMMA EffectsIn ==
    ASSUME NEW deed
    PROVE InteractionEffects(deed).sentiment \in Score /\ InteractionEffects(deed).strength \in Scale
<1>1. -800 \in Score /\ -200 \in Score /\ 150 \in Score /\ 0 \in Score
  BY DEF Score
<1>2. 300 \in Scale /\ 100 \in Scale /\ 0 \in Scale
  BY DEF Scale
<1> QED
  BY <1>1, <1>2 DEF InteractionEffects

LEMMA RewordedIn ==
    ASSUME NEW w \in Words, NEW t \in Tempers PROVE Reworded[<<w, t>>] \in Words
BY DEF Reworded, Words

LEMMA DistortedIn ==
    ASSUME NEW w \in Words, NEW a \in Agents PROVE Distorted(w, a) \in Words
<1>1. Traits[a] \in Seq(Tempers)
  BY HearsayAssumption
<1>2. Folded(Reworded, w, Traits[a]) \in Words
  <2> HIDE DEF Reworded, Words, Tempers
  <2> QED
    BY <1>1, RewordedIn, FoldType
<1> QED
  BY <1>2 DEF Distorted, Folded

LEMMA TieFields ==
    ASSUME NEW r \in TieRows
    PROVE /\ r.from \in Agents /\ r.to \in Agents /\ r.strength \in Scale /\ r.sentiment \in Score
          /\ \A s \in Scale, f \in Score : [r EXCEPT !.sentiment = f, !.strength = s] \in TieRows
          /\ \A s \in Scale : [r EXCEPT !.strength = s] \in TieRows
BY DEF TieRows

LEMMA MemoryFields ==
    ASSUME NEW m \in MemoryType
    PROVE /\ m.agent \in Agents /\ m.words \in Words /\ m.weight \in Scale
          /\ m.reliability \in Scale /\ m.hops \in Nat
          /\ m.tick \in Ticks /\ m.origin \in Agents \cup {NoOne}
          /\ m.source \in {"direct", "hearsay", "rumor", "public"}
          /\ [m EXCEPT !.active = FALSE] \in MemoryType
<1> HIDE DEF Words
<1> QED
  BY DEF MemoryType

LEMMA MemoryIn ==
    ASSUME tick \in Ticks, NEW a \in Agents, NEW words \in Words, NEW weight \in Scale,
           NEW source \in {"direct", "hearsay", "rumor", "public"}, NEW r \in Scale,
           NEW origin \in Agents \cup {NoOne}, NEW hops \in Nat
    PROVE Memory(a, words, weight, source, r, origin, hops) \in MemoryType
<1> HIDE DEF Words
<1> QED
  BY DEF Memory, MemoryType

LEMMA FadedIn ==
    ASSUME NEW r \in TieRows PROVE Faded(r) \in TieRows
<1>1. r.strength \in Int
  BY TieFields, ScaleIs
<1>2. Abs(r.sentiment) \in Int
  <2>1. r.sentiment \in Int
    BY TieFields, ScoreIs
  <2> QED
    BY <2>1 DEF Abs
<1> DEFINE x == 1000 - (8 * Abs(r.sentiment)) \div 10
<1>3. x \in Int
  BY <1>2
<1> HIDE DEF x
<1>4. FadeRate * x \in Int
  BY <1>3, HearsayAssumption, ProductIn
<1> DEFINE y == r.strength - (FadeRate * x) \div 1000
<1>5. y \in Int
  BY <1>1, <1>4
<1>6. Faded(r) = [r EXCEPT !.strength = Clamp(0, 1000, y)]
  BY DEF Faded, x
<1> DEFINE z == Clamp(0, 1000, y)
<1>7. z \in Scale /\ Faded(r) = [r EXCEPT !.strength = z]
  <2> HIDE DEF y
  <2> QED
    BY <1>5, <1>6, ClampedScale
<1> HIDE DEF z
<1> QED
  BY <1>7, TieFields

LEMMA EvolvedIn ==
    ASSUME NEW rows \in SUBSET TieRows PROVE Evolved(rows) \subseteq TieRows
BY FadedIn DEF Evolved

-----------------------------------------------------------------------------
(* Types.                                                                    *)

LEMMA TypeInit == Init => TypeInv
<1> SUFFICES ASSUME Init PROVE TypeInv
  OBVIOUS
<1>1. NoScores \in [Agents -> [Agents -> Score]] /\ NoScores \in [Agents -> [Agents -> Nat]]
  BY ScoreIs DEF NoScores
<1>2. memories = << >>
  BY DEF Init
<1>3. memories \in Seq(MemoryType) /\ \A i \in DOMAIN memories : MemoryOf(memories[i])
  BY <1>2
<1>4. tick \in Ticks
  BY HearsayAssumption DEF Init, Ticks
<1> QED
  BY <1>1, <1>3, <1>4, HearsayAssumption DEF Init, TypeInv, Phases, Telling

\* A memory more.
LEMMA AppendedType ==
    ASSUME memories \in Seq(MemoryType), NEW m \in MemoryType, memories' = Append(memories, m)
    PROVE /\ memories' \in Seq(MemoryType)
          /\ Len(memories) + 1 \in DOMAIN memories' /\ memories'[Len(memories) + 1] = m
          /\ Len(memories) + 1 \notin DOMAIN memories
          /\ DOMAIN memories' = DOMAIN memories \cup {Len(memories) + 1}
          /\ \A i \in DOMAIN memories : i \in DOMAIN memories' /\ memories'[i] = memories[i]
<1> HIDE DEF MemoryType
<1> QED
  OBVIOUS

LEMMA RelationshipType ==
    ASSUME TypeInv, NEW a \in Agents, NEW b \in Agents, NEW deed, UpdateRelationship(a, b, deed)
    PROVE ties' \subseteq TieRows
<1> DEFINE e == InteractionEffects(deed)
           old == {r \in ties : r.from = a /\ r.to = b}
           Changed(r) == [r EXCEPT !.sentiment = Clamp(-1000, 1000, @ + e.sentiment),
                                   !.strength = Clamp(0, 1000, @ + e.strength)]
           first == [from |-> a, to |-> b, strength |-> e.strength, sentiment |-> e.sentiment, since |-> tick]
<1>1. ties' = (ties \ old) \cup IF old = {} THEN {first} ELSE {Changed(r) : r \in old}
  BY DEF UpdateRelationship
<1>2. e.sentiment \in Score /\ e.strength \in Scale
  BY EffectsIn
<1> HIDE DEF e
<1>3. first \in TieRows
  <2>1. tick \in Int
    BY TicksAre DEF TypeInv
  <2> QED
    BY <1>2, <2>1 DEF TieRows
<1>4. ASSUME NEW r \in TieRows PROVE Changed(r) \in TieRows
  <2> DEFINE x == r.sentiment + e.sentiment
             y == r.strength + e.strength
  <2>1. x \in Int /\ y \in Int
    <3>1. r.sentiment \in Int /\ r.strength \in Int
      <4>1. r.sentiment \in Score /\ r.strength \in Scale
        BY TieFields
      <4> QED
        BY <4>1, ScaleIs, ScoreIs
    <3>2. e.sentiment \in Int /\ e.strength \in Int
      BY <1>2, ScaleIs, ScoreIs
    <3> QED
      BY <3>1, <3>2
  <2>2. Changed(r) = [r EXCEPT !.sentiment = Clamp(-1000, 1000, x), !.strength = Clamp(0, 1000, y)]
    OBVIOUS
  <2> HIDE DEF x, y, Changed
  <2>3. Clamp(-1000, 1000, x) \in Score /\ Clamp(0, 1000, y) \in Scale
    BY <2>1, ClampedScale, ClampedScore
  <2> QED
    <3> DEFINE f == Clamp(-1000, 1000, x)
               v == Clamp(0, 1000, y)
    <3>1. f \in Score /\ v \in Scale /\ Changed(r) = [r EXCEPT !.sentiment = f, !.strength = v]
      BY <2>2, <2>3
    <3> HIDE DEF f, v
    <3> QED
      BY <3>1, TieFields
<1>5. old \subseteq TieRows /\ ties \subseteq TieRows
  BY DEF TypeInv
<1> HIDE DEF old, first, Changed
<1> QED
  BY <1>1, <1>3, <1>4, <1>5

LEMMA ActType == ASSUME TypeInv, NEW a \in Agents, Act(a) PROVE TypeInv'
<1>1. PICK d \in Deeds[a] :
        /\ RememberOwnDeed(a, d)
        /\ \/ UNCHANGED <<ties, image>>
           \/ \E b \in alive \ {a} : UpdateRelationship(a, b, d.deed) /\ UpdateImage(a, b, d.deed)
  BY DEF Act
<1>2. d \in Words
  BY HearsayAssumption
<1>3. /\ phase = "turns" /\ story = NoStory /\ acted' = acted \cup {a}
      /\ UNCHANGED <<tick, phase, reputation, alive, happened, pending, story, rated, failures>>
  BY DEF Act, TypeInv, Telling
<1> DEFINE m == Memory(a, d, Weight(d.deed), "direct", 1000, a, 0)
<1>4. m \in MemoryType /\ MemoryOf(m)
  <2>1. Weight(d.deed) \in Scale /\ tick \in Ticks
    BY <1>2, WeightIn DEF TypeInv
  <2> QED
    BY <1>2, <2>1, MemoryIn, ScaleIs DEF MemoryOf, Memory
<1> HIDE DEF m
<1>5. memories' = memories \/ memories' = Append(memories, m)
  BY <1>1 DEF RememberOwnDeed, m
<1>6. /\ memories' \in Seq(MemoryType) /\ \A i \in DOMAIN memories' : MemoryOf(memories'[i])
      /\ DOMAIN memories \subseteq DOMAIN memories'
  <2>1. memories \in Seq(MemoryType) /\ \A i \in DOMAIN memories : MemoryOf(memories[i])
    BY DEF TypeInv
  <2> QED
    BY <1>4, <1>5, <2>1, AppendedType
<1>7. ties' \subseteq TieRows
  BY <1>1, RelationshipType DEF TypeInv
<1>8. image' \in [Agents -> [Agents -> Score]]
  <2>1. ASSUME NEW b \in Agents, UpdateImage(a, b, d.deed) PROVE image' \in [Agents -> [Agents -> Score]]
    <3>1. image \in [Agents -> [Agents -> Score]] /\ image[a][b] \in Int
      <4>1. image \in [Agents -> [Agents -> Score]]
        BY DEF TypeInv
      <4>2. image[a][b] \in Score
        BY <4>1
      <4> QED
        BY <4>1, <4>2, ScoreIs
    <3>2. Moved(image[a][b], ImageDelta(d.deed)) \in Score
      BY <3>1, ImageDeltaIn, MovedIn
    <3> QED
      BY <2>1, <3>1, <3>2 DEF UpdateImage
  <2> QED
    BY <1>1, <2>1 DEF TypeInv
<1> QED
  BY <1>3, <1>6, <1>7, <1>8 DEF TypeInv, Telling

LEMMA TurnsType ==
    ASSUME TypeInv, InjectEvent \/ StartSharing \/ \E a \in Agents : Die(a) PROVE TypeInv'
<1>1. CASE InjectEvent \/ \E a \in Agents : Die(a)
  BY <1>1 DEF InjectEvent, Die, TypeInv, Telling
<1>2. CASE StartSharing
  BY <1>2 DEF StartSharing, TypeInv, Telling, Phases, PassOf
<1> QED
  BY <1>1, <1>2

LEMMA TakeType == ASSUME TypeInv, TakeStory PROVE TypeInv'
<1>1. PICK i \in pending :
        /\ pending' = pending \ {i}
        /\ story' = IF Spent(memories[i]) THEN NoStory
                    ELSE GoOn([memory |-> i, rows |-> Ties(memories[i].agent),
                               informed |-> AlreadyInformed(memories[i].origin), told |-> 0])
  BY DEF TakeStory
<1>2. /\ phase \in Telling
      /\ UNCHANGED <<tick, phase, ties, memories, image, reputation, alive, happened, acted,
                   rated, deeds, failures>>
  BY DEF TakeStory, Telling
<1>3. Ties(memories[i].agent) \subseteq ties
  BY DEF Ties
<1>4. AlreadyInformed(memories[i].origin) \subseteq Agents
  <2>1. \A j \in DOMAIN memories : memories[j] \in MemoryType
    <3> HIDE DEF MemoryType
    <3> QED
      BY DEF TypeInv
  <2>2. \A j \in DOMAIN memories : memories[j].agent \in Agents
    BY <2>1, MemoryFields
  <2> QED
    BY <2>2 DEF AlreadyInformed
<1>5. i \in DOMAIN memories /\ memories[i].source = phase
  BY <1>2 DEF TypeInv
<1>6. story' = NoStory \/ (story' \in Stories /\ story'.memory = i)
  BY <1>1, <1>3, <1>4, <1>5 DEF Stories, GoOn
<1> QED
  BY <1>1, <1>2, <1>5, <1>6 DEF TypeInv, Stories

\* What is told, and to whom.
LEMMA SourceIs ==
    ASSUME TypeInv, story # NoStory
    PROVE /\ phase \in Telling /\ story \in Stories /\ story.memory \in DOMAIN memories
          /\ Source \in MemoryType /\ Source.source = phase /\ Source.origin \in Agents
          /\ Source.agent \in Agents
<1>1. /\ phase \in Telling /\ story \in Stories /\ story.memory \in DOMAIN memories
      /\ Source \in MemoryType /\ Source.source = phase /\ MemoryOf(Source)
  <2> HIDE DEF MemoryType
  <2> QED
    BY DEF TypeInv, Stories, Source
<1> QED
  BY <1>1 DEF MemoryOf, Telling, MemoryType

LEMMA OtherIs ==
    ASSUME TypeInv, NEW tie \in ties, NEW a PROVE Other(tie, a) \in Agents
BY DEF TypeInv, TieRows, Other

LEMMA JudgedType ==
    ASSUME TypeInv, story # NoStory, NEW b \in Agents
    PROVE /\ Judged(b) \in [Agents -> [Agents -> Score]]
          /\ Rated(b) \in [Agents -> [Agents -> Nat]]
<1>1. Source.origin \in Agents /\ Source.words \in Words /\ Source.reliability \in Scale
  BY SourceIs, MemoryFields
<1>2. Sentiment(Source.words) \in Int /\ Decayed(Source.reliability) \in Int
  <2>1. \A r \in Scale : Decayed(r) \in Int
    BY DecayedIn, ScaleIs
  <2> HIDE DEF Words
  <2> QED
    BY <1>1, <2>1, SentimentIn
<1>3. Sentiment(Source.words) * Decayed(Source.reliability) \in Int
  BY <1>2, ProductIn
<1> DEFINE x == (Sentiment(Source.words) * Decayed(Source.reliability)) \div 20
<1>4. x \in Int
  BY <1>3
<1>5. Judged(b) = [reputation EXCEPT ![b][Source.origin] = Moved(@, x)]
  BY DEF Judged
<1> HIDE DEF x
<1>6. reputation \in [Agents -> [Agents -> Score]] /\ reputation[b][Source.origin] \in Int
  <2>1. reputation \in [Agents -> [Agents -> Score]]
    BY DEF TypeInv
  <2>2. reputation[b][Source.origin] \in Score
    BY <1>1, <2>1
  <2> QED
    BY <2>1, <2>2, ScoreIs
<1>7. Moved(reputation[b][Source.origin], x) \in Score
  BY <1>4, <1>6, MovedIn
<1>8. Judged(b) \in [Agents -> [Agents -> Score]]
  BY <1>1, <1>5, <1>6, <1>7
<1>9. Rated(b) \in [Agents -> [Agents -> Nat]]
  BY <1>1 DEF Rated, TypeInv
<1> QED
  BY <1>8, <1>9

LEMMA ToldType ==
    ASSUME TypeInv, story # NoStory, NEW tie, NEW b \in Agents
    PROVE /\ Told(b, tie) \in MemoryType /\ MemoryOf(Told(b, tie))
          /\ Told(b, tie).agent = b /\ Told(b, tie).origin = Source.origin
          /\ Told(b, tie).tick = tick /\ Told(b, tie).hops = Source.hops + 1
          /\ \/ Told(b, tie).source = IF phase = "direct" THEN "hearsay" ELSE "rumor"
             \/ Told(b, tie).source = "rumor"
          /\ Told(b, tie).reliability <= Decayed(Source.reliability)
<1>1. /\ Source.origin \in Agents /\ Source.words \in Words /\ Source.reliability \in Scale
      /\ Source.agent \in Agents /\ Source.weight \in Scale /\ Source.hops \in Nat
      /\ tick \in Ticks
  BY SourceIs, MemoryFields DEF TypeInv
<1> DEFINE w == Distorted(Source.words, Source.agent)
           r == Decayed(Source.reliability)
           next == IF phase = "direct" THEN "hearsay" ELSE "rumor"
<1>2. w \in Words /\ r \in Scale /\ Damped(r) \in Scale /\ Damped(r) <= r
  <2>1. w \in Words
    BY <1>1, DistortedIn
  <2> QED
    BY <1>1, <2>1, DecayedIn
<1>3. \/ Told(b, tie) = Memory(b, w, Source.weight, next, r, Source.origin, Source.hops + 1)
      \/ Told(b, tie) = Memory(b, w, 100, "rumor", Damped(r), Source.origin, Source.hops + 1)
  BY DEF Told
<1>4. next \in {"hearsay", "rumor"} /\ Source.hops + 1 \in Nat
  BY <1>1
<1>5. Told(b, tie) \in MemoryType
  <2> DEFINE h == Source.hops + 1
  <2>1. next \in {"direct", "hearsay", "rumor", "public"} /\ h \in Nat
    BY <1>4
  <2>2. /\ Memory(b, w, Source.weight, next, r, Source.origin, h) \in MemoryType
        /\ Memory(b, w, 100, "rumor", Damped(r), Source.origin, h) \in MemoryType
    <3> HIDE DEF w, r, next, h, Words
    <3> QED
      BY <1>1, <1>2, <2>1, MemoryIn, ScaleIs
  <2> QED
    BY <1>3, <2>2
<1>6. /\ Told(b, tie).agent = b /\ Told(b, tie).origin = Source.origin
      /\ Told(b, tie).tick = tick /\ Told(b, tie).hops = Source.hops + 1
      /\ Told(b, tie).source = next \/ Told(b, tie).source = "rumor"
      /\ Told(b, tie).reliability = r \/ Told(b, tie).reliability = Damped(r)
  <2> HIDE DEF w, r, next
  <2> QED
    BY <1>3 DEF Memory
<1>7. MemoryOf(Told(b, tie))
  BY <1>1, <1>6 DEF MemoryOf
<1>8. Told(b, tie).reliability <= r
  <2>1. r \in Int /\ Damped(r) \in Int
    BY <1>2, ScaleIs
  <2> HIDE DEF r
  <2> QED
    BY <1>2, <1>6, <2>1
<1> QED
  BY <1>5, <1>6, <1>7, <1>8

LEMMA ShareType == ASSUME TypeInv, Share PROVE TypeInv'
<1>1. /\ story # NoStory /\ phase \in Telling
      /\ UNCHANGED <<tick, phase, ties, image, alive, happened, pending, acted, deeds, failures>>
  BY SourceIs DEF Share
<1>2. PICK tie \in story.rows : PassOver(tie) \/ Tell(tie)
  BY DEF Share
<1>3. /\ story \in Stories /\ tie \in ties /\ Other(tie, Source.agent) \in Agents
  BY <1>1, SourceIs, OtherIs DEF Stories
<1> DEFINE b == Other(tie, Source.agent)
<1>4. \A s \in Stories : GoOn(s) = NoStory \/ (GoOn(s) \in Stories /\ GoOn(s).memory = s.memory)
  BY DEF GoOn
<1>5. CASE PassOver(tie)
  <2>1. [story EXCEPT !.rows = @ \ {tie}] \in Stories
    BY <1>3 DEF Stories
  <2>2. /\ UNCHANGED <<memories, reputation, rated>>
        /\ story' = NoStory \/ (story' \in Stories /\ story'.memory = story.memory)
    BY <1>3, <1>4, <1>5, <2>1 DEF PassOver, Stories
  <2>3. Stories' = Stories
    BY <1>1, <2>2 DEF Stories
  <2> QED
    BY <1>1, <2>2, <2>3 DEF TypeInv
<1>6. CASE Tell(tie)
  <2> DEFINE next == [story EXCEPT !.rows = @ \ {tie}, !.informed = @ \cup {b}, !.told = @ + 1]
  <2>1. next \in Stories /\ next.memory = story.memory
    <3> HIDE DEF b
    <3>1. story.told + 1 \in Nat /\ story.informed \cup {b} \in SUBSET Agents
          /\ story.rows \ {tie} \in SUBSET ties
      BY <1>3 DEF Stories, b
    <3> QED
      BY <1>3, <3>1 DEF Stories
  <2>2. /\ reputation' = Judged(b) /\ rated' = Rated(b) /\ memories' = Append(memories, Told(b, tie))
        /\ story' = NoStory \/ (story' \in Stories /\ story'.memory = story.memory)
    BY <1>4, <1>6, <2>1 DEF Tell
  <2>3. Told(b, tie) \in MemoryType /\ MemoryOf(Told(b, tie))
    BY <1>1, <1>3, ToldType
  <2>4. memories \in Seq(MemoryType) /\ \A i \in DOMAIN memories : MemoryOf(memories[i])
    BY DEF TypeInv
  <2>5. /\ memories' \in Seq(MemoryType) /\ \A i \in DOMAIN memories' : MemoryOf(memories'[i])
        /\ \A i \in DOMAIN memories : i \in DOMAIN memories' /\ memories'[i] = memories[i]
    BY <2>2, <2>3, <2>4, AppendedType
  <2>6. Stories \subseteq Stories'
    BY <1>1, <2>5 DEF Stories
  <2>7. reputation' \in [Agents -> [Agents -> Score]] /\ rated' \in [Agents -> [Agents -> Nat]]
    BY <1>1, <1>3, <2>2, JudgedType
  <2>8. pending' \subseteq DOMAIN memories' /\ \A i \in pending' : memories'[i].source = phase'
    BY <1>1, <2>5 DEF TypeInv
  <2>9. story' # NoStory => memories'[story'.memory].source = phase'
    <3>1. memories[story.memory].source = phase /\ story.memory \in DOMAIN memories
      BY <1>1, SourceIs DEF Source
    <3> QED
      BY <1>1, <2>2, <2>5, <3>1
  <2>10. story' = NoStory \/ story' \in Stories'
    BY <2>2, <2>6
  <2> QED
    BY <1>1, <2>5, <2>7, <2>8, <2>9, <2>10 DEF TypeInv
<1> QED
  BY <1>2, <1>5, <1>6

LEMMA NextPassIs ==
    ASSUME NextPass
    PROVE /\ phase \in Telling
          /\ phase' = CASE phase = "direct" -> "hearsay" [] phase = "hearsay" -> "rumor" [] OTHER -> "public"
<1>1. /\ Passes[1] = "direct" /\ Passes[2] = "hearsay" /\ Passes[3] = "rumor" /\ Passes[4] = "public"
  BY DEF Passes
<1>2. phase \in Telling /\ phase' = Passes[(CHOOSE n \in 1 .. 3 : Passes[n] = phase) + 1]
  BY DEF NextPass, Telling
<1>3. PICK n \in 1 .. 3 : n = CHOOSE k \in 1 .. 3 : Passes[k] = phase
  BY <1>1, <1>2 DEF Telling
<1>4. Passes[n] = phase
  BY <1>1, <1>2, <1>3 DEF Telling
<1>5. phase' = Passes[n + 1]
  BY <1>2, <1>3
<1>6. n = 1 \/ n = 2 \/ n = 3
  OBVIOUS
<1>7. CASE n = 1
  BY <1>1, <1>2, <1>4, <1>5, <1>7
<1>8. CASE n = 2
  BY <1>1, <1>2, <1>4, <1>5, <1>8
<1>9. CASE n = 3
  BY <1>1, <1>2, <1>4, <1>5, <1>9
<1> QED
  BY <1>6, <1>7, <1>8, <1>9

LEMMA NextPassType == ASSUME TypeInv, NextPass PROVE TypeInv'
<1>1. /\ phase' \in Phases /\ pending' = PassOf(phase') /\ story' = NoStory
      /\ UNCHANGED <<tick, ties, memories, image, reputation, alive, happened, acted,
                     rated, deeds, failures>>
  BY NextPassIs DEF NextPass, Phases, Telling
<1>2. pending' \subseteq DOMAIN memories /\ \A i \in pending' : memories[i].source = phase'
  BY <1>1 DEF PassOf
<1> QED
  BY <1>1, <1>2 DEF TypeInv

\* What a broadcast adds.
LEMMA BroadcastIs ==
    ASSUME TypeInv, Broadcast
    PROVE /\ memories' \in Seq(MemoryType) /\ DOMAIN memories \subseteq DOMAIN memories'
          /\ \A i \in DOMAIN memories : memories'[i] = memories[i]
          /\ \A i \in DOMAIN memories' \ DOMAIN memories :
                \E a \in alive : memories'[i] = Public(a)
<1> DEFINE f == [a \in Unaware |-> Public(a)]
           P == {f[a] : a \in Unaware}
           new == SetToSeq(P)
<1>1. Unaware \subseteq Agents /\ Unaware \subseteq alive /\ IsFiniteSet(Unaware)
  BY HearsayAssumption, FS_Subset DEF Unaware, TypeInv
<1>2. P = {Public(a) : a \in Unaware}
  OBVIOUS
<1>3. IsFiniteSet(P)
  <2> HIDE DEF f
  <2>1. DOMAIN f = Unaware
    BY DEF f
  <2> QED
    BY <1>1, <2>1, ImageIsFinite
<1>4. \A a \in Agents : Public(a) \in MemoryType
  <2> SUFFICES ASSUME NEW a \in Agents PROVE Public(a) \in MemoryType
    OBVIOUS
  <2> DEFINE w == [deed |-> "event", remark |-> "none"]
  <2>1. w \in Words /\ tick \in Ticks
    BY DEF Words, TypeInv
  <2>2. Public(a) = Memory(a, w, 500, "public", 1000, NoOne, 0)
    BY DEF Public
  <2>3. /\ NoOne \in Agents \cup {NoOne} /\ 500 \in Scale /\ 1000 \in Scale /\ 0 \in Nat
        /\ "public" \in {"direct", "hearsay", "rumor", "public"}
    BY ScaleIs
  <2> HIDE DEF w, Words
  <2>4. Memory(a, w, 500, "public", 1000, NoOne, 0) \in MemoryType
    BY <2>1, <2>3 DEF Memory, MemoryType
  <2> QED
    BY <2>2, <2>4
<1>5. P \subseteq MemoryType /\ \A m \in P : \E a \in alive : m = Public(a)
  BY <1>1, <1>2, <1>4
<1>6. memories' = memories \/ memories' = memories \o new
  BY <1>2 DEF Broadcast
<1> HIDE DEF P
<1>7. new \in Seq(P) /\ new \in Seq(MemoryType)
  BY <1>3, <1>5, SetToSeqIs
<1> HIDE DEF new
<1>8. memories \in Seq(MemoryType)
  BY DEF TypeInv
<1>9. CASE memories' = memories \o new
  <2> HIDE DEF MemoryType
  <2>1. /\ memories' \in Seq(MemoryType) /\ Len(memories') = Len(memories) + Len(new)
        /\ \A i \in 1 .. Len(memories) : memories'[i] = memories[i]
        /\ \A i \in Len(memories) + 1 .. Len(memories) + Len(new) : memories'[i] = new[i - Len(memories)]
    BY <1>7, <1>8, <1>9
  <2>2. \A i \in DOMAIN memories' \ DOMAIN memories :
            i \in Len(memories) + 1 .. Len(memories) + Len(new) /\ i - Len(memories) \in 1 .. Len(new)
    BY <1>7, <1>8, <2>1
  <2>3. \A k \in 1 .. Len(new) : new[k] \in P
    BY <1>7
  <2>4. \A i \in DOMAIN memories' \ DOMAIN memories : memories'[i] \in P
    BY <2>1, <2>2, <2>3
  <2>5. DOMAIN memories \subseteq DOMAIN memories' /\ DOMAIN memories = 1 .. Len(memories)
    BY <1>7, <1>8, <2>1
  <2> QED
    BY <1>5, <2>1, <2>4, <2>5
<1> QED
  BY <1>6, <1>8, <1>9

LEMMA BroadcastType == ASSUME TypeInv, Broadcast PROVE TypeInv'
<1>1. /\ memories' \in Seq(MemoryType) /\ DOMAIN memories \subseteq DOMAIN memories'
      /\ \A i \in DOMAIN memories : memories'[i] = memories[i]
      /\ \A i \in DOMAIN memories' \ DOMAIN memories : \E a \in alive : memories'[i] = Public(a)
  BY BroadcastIs
<1>2. \A a \in alive : MemoryOf(Public(a))
  BY DEF MemoryOf, Public, Memory
<1>3. \A i \in DOMAIN memories' : MemoryOf(memories'[i])
  BY <1>1, <1>2 DEF TypeInv
<1>4. /\ phase = "public" /\ phase' = "closing"
      /\ UNCHANGED <<tick, ties, image, reputation, alive, happened, pending, story, acted,
                     rated, deeds, failures>>
  BY DEF Broadcast
<1> QED
  BY <1>1, <1>3, <1>4 DEF TypeInv, Telling, Phases

\* Forgetting changes nothing but what is active.
LEMMA DecayIs ==
    ASSUME TypeInv, DecayMemories
    PROVE /\ memories' \in Seq(MemoryType) /\ DOMAIN memories' = DOMAIN memories
          /\ \A i \in DOMAIN memories :
                memories'[i] = memories[i] \/ memories'[i] = [memories[i] EXCEPT !.active = FALSE]
<1>1. memories \in Seq(MemoryType)
  BY DEF TypeInv
<1>2. \A m \in MemoryType : [m EXCEPT !.active = FALSE] \in MemoryType
  BY MemoryFields
<1>3. CASE memories' = memories
  BY <1>1, <1>3
<1>4. CASE memories' = [i \in DOMAIN memories |->
                IF Forgotten(memories[i]) THEN [memories[i] EXCEPT !.active = FALSE] ELSE memories[i]]
  <2> HIDE DEF MemoryType
  <2>1. \A i \in DOMAIN memories : memories[i] \in MemoryType
    BY <1>1
  <2>2. DOMAIN memories' = 1 .. Len(memories) /\ Len(memories) \in Nat
    BY <1>1, <1>4
  <2>3. \A i \in 1 .. Len(memories) : memories'[i] \in MemoryType
    BY <1>1, <1>2, <1>4, <2>1
  <2>4. memories' \in [1 .. Len(memories) -> MemoryType]
    BY <1>4, <2>2, <2>3
  <2> QED
    BY <1>1, <1>4, <2>2, <2>4
<1> QED
  BY <1>3, <1>4 DEF DecayMemories

LEMMA FinishType == ASSUME TypeInv, FinishTick PROVE TypeInv'
<1>1. /\ phase = "closing" /\ phase' = "turns" /\ tick < MaxTick /\ tick' = tick + 1
      /\ ties' = Evolved(ties) /\ DecayMemories /\ acted' = {}
      /\ UNCHANGED <<image, reputation, alive, pending, story, rated, deeds, failures>>
  BY DEF FinishTick
<1>2. /\ memories' \in Seq(MemoryType) /\ DOMAIN memories' = DOMAIN memories
      /\ \A i \in DOMAIN memories :
            memories'[i] = memories[i] \/ memories'[i] = [memories[i] EXCEPT !.active = FALSE]
  BY <1>1, DecayIs
<1>3. \A i \in DOMAIN memories' : MemoryOf(memories'[i])
  <2>1. \A i \in DOMAIN memories : memories[i] \in MemoryType /\ MemoryOf(memories[i])
    BY DEF TypeInv
  <2>2. \A m \in MemoryType : MemoryOf(m) => MemoryOf([m EXCEPT !.active = FALSE])
    BY DEF MemoryOf, MemoryType
  <2> HIDE DEF MemoryType, MemoryOf
  <2> QED
    BY <1>2, <2>1, <2>2
<1>4. ties' \subseteq TieRows
  BY <1>1, EvolvedIn DEF TypeInv
<1>5. tick' \in Ticks
  BY <1>1, HearsayAssumption DEF TypeInv, Ticks
<1> QED
  BY <1>1, <1>2, <1>3, <1>4, <1>5 DEF TypeInv, Telling, Phases

LEMMA FailType == ASSUME TypeInv, FailFinalize PROVE TypeInv'
<1>1. /\ phase' = "turns" /\ acted' = {} /\ pending' = {} /\ story' = NoStory
      /\ failures' = failures + 1 /\ UNCHANGED <<tick, memories, image, alive, happened, deeds>>
  BY DEF FailFinalize
<1>2. ties' \subseteq TieRows
  <2>1. CASE UNCHANGED ties
    BY <2>1 DEF TypeInv
  <2>2. ASSUME NEW rows \in SUBSET ties, ties' = (ties \ rows) \cup Evolved(rows)
        PROVE ties' \subseteq TieRows
    BY <2>2, EvolvedIn DEF TypeInv
  <2> QED
    BY <2>1, <2>2 DEF FailFinalize
<1>3. reputation' \in [Agents -> [Agents -> Score]] /\ rated' \in [Agents -> [Agents -> Nat]]
  <2>1. CASE UNCHANGED <<reputation, rated>>
    BY <2>1 DEF TypeInv
  <2>2. ASSUME story # NoStory, NEW tie \in story.rows,
               reputation' = Judged(Other(tie, Source.agent)), rated' = Rated(Other(tie, Source.agent))
        PROVE reputation' \in [Agents -> [Agents -> Score]] /\ rated' \in [Agents -> [Agents -> Nat]]
    <3>1. tie \in ties
      BY <2>2, SourceIs DEF Stories
    <3> QED
      BY <2>2, <3>1, OtherIs, JudgedType
  <2> QED
    BY <2>1, <2>2 DEF FailFinalize
<1> QED
  BY <1>1, <1>2, <1>3 DEF TypeInv, Telling, Phases

LEMMA TypeNext == TypeInv /\ [Next]_vars => TypeInv'
<1> SUFFICES ASSUME TypeInv, [Next]_vars PROVE TypeInv'
  OBVIOUS
<1>1. CASE UNCHANGED vars
  BY <1>1 DEF vars, TypeInv, Stories
<1> QED
  BY <1>1, ActType, TurnsType, TakeType, ShareType, NextPassType, BroadcastType, FinishType, FailType
     DEF Next

\* Scores, sentiments and strengths stay within their ranges, memories name
\* agents, and what is told and what it is told to exists.
THEOREM HearsayIsTyped == Spec => []TypeOK
<1>1. TypeInv => TypeOK
  <2> SUFFICES ASSUME TypeInv PROVE TypeOK
    OBVIOUS
  <2>1. phase \in {"turns"} \cup ToSet(Passes)
    <3>1. /\ DOMAIN Passes = 1 .. 5 /\ Passes[1] = "direct" /\ Passes[2] = "hearsay"
          /\ Passes[3] = "rumor" /\ Passes[4] = "public" /\ Passes[5] = "closing"
      BY DEF Passes
    <3> QED
      BY <3>1 DEF ToSet, TypeInv, Phases, Telling
  <2>2. story.rows \subseteq ties
    BY DEF TypeInv, Stories, NoStory
  <2>3. \A h, t \in Agents : image[h][t] \in Score /\ reputation[h][t] \in Score
    BY DEF TypeInv
  <2>4. \A i \in DOMAIN memories : memories[i] \in MemoryType
    <3> HIDE DEF MemoryType
    <3> QED
      BY DEF TypeInv
  <2> QED
    BY <2>1, <2>2, <2>3, <2>4 DEF TypeOK, TypeInv
<1> QED
  BY <1>1, TypeInit, TypeNext, PTL DEF Spec

-----------------------------------------------------------------------------
(* The length of a chain of tellers.                                         *)

\* The most reliability that is left after so many hops.
Carry == <<1000, 700, 490, 343, 240, 168, 117, 81>>

Limit == IF MaxHops < 2 THEN 2 ELSE MaxHops

\* What a memory's source and reliability say of the hops behind it.
Fits(m) ==
    /\ m.hops \in 0 .. Limit
    /\ m.source = "direct" => m.hops = 0
    /\ m.source = "hearsay" => m.hops = 1
    /\ m.reliability <= Carry[m.hops + 1]

ChainInv ==
    /\ \A i \in DOMAIN memories : Fits(memories[i])
    /\ story # NoStory => ~Spent(Source)

LEMMA LimitIs == Limit \in 2 .. 7 /\ MaxHops <= Limit
BY HearsayAssumption DEF Limit

LEMMA CarryIs ==
    /\ DOMAIN Carry = 1 .. 8 /\ Carry[1] = 1000 /\ Carry[2] = 700 /\ Carry[3] = 490 /\ Carry[4] = 343
    /\ Carry[5] = 240 /\ Carry[6] = 168 /\ Carry[7] = 117 /\ Carry[8] = 81
BY DEF Carry

LEMMA CarryFalls ==
    ASSUME NEW h \in 0 .. 6, NEW r \in Scale, r <= Carry[h + 1] PROVE Decayed(r) <= Carry[h + 2]
<1>1. r \in Int /\ (h = 0 \/ h = 1 \/ h = 2 \/ h = 3 \/ h = 4 \/ h = 5 \/ h = 6)
  BY ScaleIs
<1> QED
  BY <1>1, CarryIs DEF Decayed

\* Of the bounds of EstimateHop, so many are above what so many hops leave.
Bounds == {837, 586, 410, 287, 201, 141, 98}

LEMMA BoundsAre ==
    /\ IsFiniteSet(Bounds)
    /\ {} \subseteq Bounds /\ Cardinality({}) = 0
    /\ {837} \subseteq Bounds /\ Cardinality({837}) = 1
    /\ {837, 586} \subseteq Bounds /\ Cardinality({837, 586}) = 2
    /\ {837, 586, 410} \subseteq Bounds /\ Cardinality({837, 586, 410}) = 3
    /\ {837, 586, 410, 287} \subseteq Bounds /\ Cardinality({837, 586, 410, 287}) = 4
    /\ {837, 586, 410, 287, 201} \subseteq Bounds /\ Cardinality({837, 586, 410, 287, 201}) = 5
    /\ {837, 586, 410, 287, 201, 141} \subseteq Bounds
    /\ Cardinality({837, 586, 410, 287, 201, 141}) = 6 /\ Cardinality(Bounds) = 7
<1>1. IsFiniteSet({}) /\ Cardinality({}) = 0
  BY FS_EmptySet
<1>2. IsFiniteSet({837}) /\ Cardinality({837}) = 1
  BY FS_Singleton
<1>3. IsFiniteSet({837, 586}) /\ Cardinality({837, 586}) = 2
  <2>1. {837, 586} = {837} \cup {586} /\ 586 \notin {837}
    OBVIOUS
  <2> QED
    BY <1>2, <2>1, FS_AddElement
<1>4. IsFiniteSet({837, 586, 410}) /\ Cardinality({837, 586, 410}) = 3
  <2>1. {837, 586, 410} = {837, 586} \cup {410} /\ 410 \notin {837, 586}
    OBVIOUS
  <2> QED
    BY <1>3, <2>1, FS_AddElement
<1>5. IsFiniteSet({837, 586, 410, 287}) /\ Cardinality({837, 586, 410, 287}) = 4
  <2>1. {837, 586, 410, 287} = {837, 586, 410} \cup {287} /\ 287 \notin {837, 586, 410}
    OBVIOUS
  <2> QED
    BY <1>4, <2>1, FS_AddElement
<1>6. IsFiniteSet({837, 586, 410, 287, 201}) /\ Cardinality({837, 586, 410, 287, 201}) = 5
  <2>1. {837, 586, 410, 287, 201} = {837, 586, 410, 287} \cup {201} /\ 201 \notin {837, 586, 410, 287}
    OBVIOUS
  <2> QED
    BY <1>5, <2>1, FS_AddElement
<1>7. IsFiniteSet({837, 586, 410, 287, 201, 141}) /\ Cardinality({837, 586, 410, 287, 201, 141}) = 6
  <2>1. /\ {837, 586, 410, 287, 201, 141} = {837, 586, 410, 287, 201} \cup {141}
        /\ 141 \notin {837, 586, 410, 287, 201}
    OBVIOUS
  <2> QED
    BY <1>6, <2>1, FS_AddElement
<1>8. IsFiniteSet(Bounds) /\ Cardinality(Bounds) = 7
  <2>1. /\ Bounds = {837, 586, 410, 287, 201, 141} \cup {98} /\ 98 \notin {837, 586, 410, 287, 201, 141}
    BY DEF Bounds
  <2> QED
    BY <1>7, <2>1, FS_AddElement
<1>9. /\ {837} \subseteq Bounds /\ {837, 586} \subseteq Bounds /\ {837, 586, 410} \subseteq Bounds
      /\ {837, 586, 410, 287} \subseteq Bounds /\ {837, 586, 410, 287, 201} \subseteq Bounds
      /\ {837, 586, 410, 287, 201, 141} \subseteq Bounds
  BY DEF Bounds
<1> QED
  BY <1>1, <1>2, <1>3, <1>4, <1>5, <1>6, <1>7, <1>8, <1>9

\* The hop that is read back is never too low.
LEMMA HopNotTooLow ==
    ASSUME NEW h \in 0 .. 7, NEW r \in Scale, r <= Carry[h + 1] PROVE EstimateHop(r) >= h
<1> DEFINE Below == {bound \in Bounds : r < bound}
<1>1. EstimateHop(r) = Cardinality(Below)
  BY DEF EstimateHop, Bounds
<1>2. r \in Int
  BY ScaleIs
<1> HIDE DEF Below
<1>3. IsFiniteSet(Below)
  BY BoundsAre, FS_Subset DEF Below
<1>4. Cardinality(Below) \in Nat
  BY <1>3, FS_CardinalityType
<1>5. \A S \in SUBSET Below : Cardinality(S) <= Cardinality(Below)
  BY <1>3, FS_Subset
<1>6. h = 0 \/ h = 1 \/ h = 2 \/ h = 3 \/ h = 4 \/ h = 5 \/ h = 6 \/ h = 7
  OBVIOUS
<1>7. CASE h = 0
  BY <1>1, <1>4, <1>7
<1>8. CASE h = 1
  <2>1. {837} \subseteq Below
    BY <1>2, <1>8, CarryIs, BoundsAre DEF Below
  <2> QED
    BY <1>1, <1>5, <1>8, <2>1, BoundsAre
<1>9. CASE h = 2
  <2>1. {837, 586} \subseteq Below
    BY <1>2, <1>9, CarryIs, BoundsAre DEF Below
  <2> QED
    BY <1>1, <1>5, <1>9, <2>1, BoundsAre
<1>10. CASE h = 3
  <2>1. {837, 586, 410} \subseteq Below
    BY <1>2, <1>10, CarryIs, BoundsAre DEF Below
  <2> QED
    BY <1>1, <1>5, <1>10, <2>1, BoundsAre
<1>11. CASE h = 4
  <2>1. {837, 586, 410, 287} \subseteq Below
    BY <1>2, <1>11, CarryIs, BoundsAre DEF Below
  <2> QED
    BY <1>1, <1>5, <1>11, <2>1, BoundsAre
<1>12. CASE h = 5
  <2>1. {837, 586, 410, 287, 201} \subseteq Below
    BY <1>2, <1>12, CarryIs, BoundsAre DEF Below
  <2> QED
    BY <1>1, <1>5, <1>12, <2>1, BoundsAre
<1>13. CASE h = 6
  <2>1. {837, 586, 410, 287, 201, 141} \subseteq Below
    BY <1>2, <1>13, CarryIs, BoundsAre DEF Below
  <2> QED
    BY <1>1, <1>5, <1>13, <2>1, BoundsAre
<1>14. CASE h = 7
  <2>1. Bounds \subseteq Below
    BY <1>2, <1>14, CarryIs DEF Below, Bounds
  <2> QED
    BY <1>1, <1>5, <1>14, <2>1, BoundsAre
<1> QED
  BY <1>6, <1>7, <1>8, <1>9, <1>10, <1>11, <1>12, <1>13, <1>14

\* What is told has come one hop further, and no further than it may.
LEMMA ToldFits ==
    ASSUME TypeInv, ChainInv, story # NoStory, NEW tie, NEW b \in Agents
    PROVE Fits(Told(b, tie))
<1> DEFINE t == Told(b, tie)
           h == Source.hops
           r == Source.reliability
<1>1. /\ t.hops = h + 1 /\ t.reliability <= Decayed(r)
      /\ \/ t.source = IF phase = "direct" THEN "hearsay" ELSE "rumor"
         \/ t.source = "rumor"
      /\ t \in MemoryType
  BY ToldType
<1>2. Fits(Source) /\ ~Spent(Source) /\ Source \in MemoryType /\ Source.source = phase /\ phase \in Telling
  BY SourceIs DEF ChainInv, Source
<1>3. h \in Nat /\ r \in Scale /\ t.reliability \in Scale
  BY <1>1, <1>2, MemoryFields
<1>4. h < Limit /\ (phase = "direct" => h = 0)
  <2>1. CASE phase = "direct"
    BY <1>2, <2>1, LimitIs DEF Fits
  <2>2. CASE phase = "hearsay"
    BY <1>2, <2>2, LimitIs DEF Fits
  <2>3. CASE phase = "rumor"
    <3>1. h \in 0 .. 7 /\ r <= Carry[h + 1]
      BY <1>2, LimitIs DEF Fits
    <3>2. EstimateHop(r) >= h
      BY <1>3, <3>1, HopNotTooLow
    <3>3. ~(EstimateHop(r) >= MaxHops)
      BY <1>2, <2>3 DEF Spent
    <3>4. EstimateHop(r) \in Nat
      <4>1. {bound \in Bounds : r < bound} \in SUBSET Bounds
        OBVIOUS
      <4>2. EstimateHop(r) = Cardinality({bound \in Bounds : r < bound})
        BY DEF EstimateHop, Bounds
      <4> QED
        BY <4>1, <4>2, BoundsAre, FS_Subset, FS_CardinalityType
    <3>5. MaxHops \in Nat
      BY HearsayAssumption
    <3>6. h < MaxHops
      BY <1>3, <3>2, <3>3, <3>4, <3>5
    <3> QED
      BY <1>3, <2>3, <3>5, <3>6, LimitIs
  <2> QED
    BY <1>2, <2>1, <2>2, <2>3 DEF Telling
<1>5. t.hops \in 0 .. Limit /\ h \in 0 .. 6
  BY <1>1, <1>3, <1>4, LimitIs
<1>6. Decayed(r) <= Carry[h + 2]
  BY <1>2, <1>3, <1>5, CarryFalls DEF Fits
<1>7. t.reliability <= Carry[t.hops + 1]
  <2>1. h + 1 + 1 = h + 2 /\ Carry[h + 2] \in Int
    <3>1. h = 0 \/ h = 1 \/ h = 2 \/ h = 3 \/ h = 4 \/ h = 5 \/ h = 6
      BY <1>5
    <3> QED
      BY <3>1, CarryIs
  <2>2. t.reliability \in Int /\ Decayed(r) \in Int
    BY <1>3, DecayedIn, ScaleIs
  <2>3. t.reliability <= Carry[h + 2]
    <3> HIDE DEF t, h, r
    <3> QED
      BY <1>1, <1>6, <2>1, <2>2
  <2> QED
    BY <1>1, <2>1, <2>3
<1>8. /\ t.source = "direct" => t.hops = 0
      /\ t.source = "hearsay" => t.hops = 1
  BY <1>1, <1>4
<1> QED
  BY <1>5, <1>7, <1>8 DEF Fits

LEMMA ChainNext == ASSUME TypeInv, TypeInv', ChainInv, [Next]_vars PROVE ChainInv'
<1>1. ASSUME NEW a \in Agents, Act(a) PROVE ChainInv'
  <2>1. PICK d \in Deeds[a] : RememberOwnDeed(a, d)
    BY <1>1 DEF Act
  <2> DEFINE m == Memory(a, d, Weight(d.deed), "direct", 1000, a, 0)
  <2>2. Fits(m)
    BY CarryIs, LimitIs DEF Fits, Memory
  <2> HIDE DEF m
  <2>3. memories' = memories \/ memories' = Append(memories, m)
    BY <2>1 DEF RememberOwnDeed, m
  <2>4. \A i \in DOMAIN memories' : Fits(memories'[i])
    <3>1. CASE memories' = memories
      BY <3>1 DEF ChainInv
    <3>2. CASE memories' = Append(memories, m)
      <4>1. memories \in Seq(MemoryType) /\ \A i \in DOMAIN memories : Fits(memories[i])
        BY DEF TypeInv, ChainInv
      <4> HIDE DEF MemoryType, Fits
      <4> QED
        BY <2>2, <3>2, <4>1
    <3> QED
      BY <2>3, <3>1, <3>2
  <2>5. story' = NoStory
    BY <1>1 DEF Act, TypeInv, Telling
  <2> QED
    BY <2>4, <2>5 DEF ChainInv
<1>2. CASE InjectEvent \/ StartSharing \/ NextPass \/ FailFinalize \/ \E a \in Agents : Die(a)
  <2>1. memories' = memories /\ story' = NoStory
    BY <1>2 DEF InjectEvent, StartSharing, NextPass, FailFinalize, Die, TypeInv, Telling
  <2> QED
    BY <2>1 DEF ChainInv
<1>3. CASE TakeStory
  <2>1. PICK i \in pending :
          story' = IF Spent(memories[i]) THEN NoStory
                   ELSE GoOn([memory |-> i, rows |-> Ties(memories[i].agent),
                              informed |-> AlreadyInformed(memories[i].origin), told |-> 0])
    BY <1>3 DEF TakeStory
  <2>2. memories' = memories
    BY <1>3 DEF TakeStory
  <2>3. story' # NoStory => story'.memory = i /\ ~Spent(memories[i])
    BY <2>1 DEF GoOn
  <2> QED
    BY <2>2, <2>3 DEF ChainInv, Source
<1>4. CASE Share
  <2>1. PICK tie \in story.rows : PassOver(tie) \/ Tell(tie)
    BY <1>4 DEF Share
  <2>2. story # NoStory /\ story \in Stories /\ story.memory \in DOMAIN memories
    BY <1>4, SourceIs DEF Share
  <2>3. tie \in ties /\ Other(tie, Source.agent) \in Agents
    BY <2>2, OtherIs DEF Stories
  <2> DEFINE b == Other(tie, Source.agent)
  <2>4. /\ memories' = memories \/ memories' = Append(memories, Told(b, tie))
        /\ story' # NoStory => story'.memory = story.memory
    BY <2>1, <2>2 DEF PassOver, Tell, GoOn, Stories
  <2>5. Fits(Told(b, tie))
    BY <2>2, <2>3, ToldFits
  <2>6. /\ \A i \in DOMAIN memories' : Fits(memories'[i])
        /\ memories'[story.memory] = memories[story.memory]
    <3>1. memories \in Seq(MemoryType) /\ \A i \in DOMAIN memories : Fits(memories[i])
      BY DEF TypeInv, ChainInv
    <3> HIDE DEF MemoryType, Fits, b
    <3> QED
      BY <2>2, <2>4, <2>5, <3>1
  <2>7. ~Spent(memories[story.memory])
    BY <2>2 DEF ChainInv, Source
  <2> QED
    BY <2>4, <2>6, <2>7 DEF ChainInv, Source
<1>5. CASE Broadcast
  <2>1. \A a \in alive : Fits(Public(a))
    BY CarryIs, LimitIs DEF Fits, Public, Memory
  <2>2. \A i \in DOMAIN memories' : Fits(memories'[i])
    <3> HIDE DEF Fits
    <3> QED
      BY <1>5, <2>1, BroadcastIs DEF ChainInv
  <2>3. story' = NoStory
    BY <1>5 DEF Broadcast, TypeInv, Telling
  <2> QED
    BY <2>2, <2>3 DEF ChainInv
<1>6. CASE FinishTick
  <2>1. /\ DOMAIN memories' = DOMAIN memories
        /\ \A i \in DOMAIN memories :
            memories'[i] = memories[i] \/ memories'[i] = [memories[i] EXCEPT !.active = FALSE]
    BY <1>6, DecayIs DEF FinishTick
  <2>2. \A i \in DOMAIN memories : memories[i] \in MemoryType
    <3> HIDE DEF MemoryType
    <3> QED
      BY DEF TypeInv
  <2>3. \A m \in MemoryType : Fits(m) => Fits([m EXCEPT !.active = FALSE])
    <3> SUFFICES ASSUME NEW m \in MemoryType, Fits(m) PROVE Fits([m EXCEPT !.active = FALSE])
      OBVIOUS
    <3> DEFINE k == [m EXCEPT !.active = FALSE]
    <3>1. k.hops = m.hops /\ k.source = m.source /\ k.reliability = m.reliability
      BY DEF MemoryType
    <3> HIDE DEF k
    <3>2. Fits(k)
      BY <3>1 DEF Fits
    <3> QED
      BY <3>2 DEF k
  <2>4. \A i \in DOMAIN memories' : Fits(memories'[i])
    <3> HIDE DEF Fits, MemoryType
    <3> QED
      BY <2>1, <2>2, <2>3 DEF ChainInv
  <2>5. story' = NoStory
    BY <1>6 DEF FinishTick, TypeInv, Telling
  <2> QED
    BY <2>4, <2>5 DEF ChainInv
<1>7. CASE UNCHANGED vars
  BY <1>7 DEF vars, ChainInv, Source
<1> QED
  BY <1>1, <1>2, <1>3, <1>4, <1>5, <1>6, <1>7 DEF Next

\* However often a tick is repeated and whoever believes what: no chain of
\* tellers is longer than the limit, although nobody counts its hops.
THEOREM NewsEnds == Spec => []ChainsEnd
<1>1. Init => ChainInv
  BY DEF Init, ChainInv
<1>2. TypeInv /\ ChainInv /\ [Next]_vars => ChainInv'
  BY TypeNext, ChainNext
<1>3. ChainInv => ChainsEnd
  BY DEF ChainInv, ChainsEnd, Fits, Limit
<1> QED
  BY <1>1, <1>2, <1>3, TypeInit, TypeNext, PTL DEF Spec

-----------------------------------------------------------------------------
(* Opinions and the news they are drawn from.                                *)

Hearers == {"hearsay", "rumor"}

\* Rows that tell of somebody at the tick of the row.
NewsAt(i, h, t) ==
    memories[i].agent = h /\ memories[i].origin = t /\ memories[i].source \in Hearers

HeardOnce ==
    \A i, j \in DOMAIN memories :
        /\ memories[i].source \in Hearers /\ memories[j].source \in Hearers
        /\ memories[i].agent = memories[j].agent /\ memories[i].origin = memories[j].origin
        /\ memories[i].tick = memories[j].tick
        => i = j

OpinionInv ==
    /\ HeardOnce
    /\ \A h, t \in Agents : rated[h][t] <= Cardinality(News(h, t)) + failures
    /\ story # NoStory => story.informed = AlreadyInformed(Source.origin)

\* A step that adds no news and changes no row of news.
NoNews ==
    /\ DOMAIN memories \subseteq DOMAIN memories'
    /\ \A i \in DOMAIN memories :
        /\ memories'[i].agent = memories[i].agent /\ memories'[i].origin = memories[i].origin
        /\ memories'[i].source = memories[i].source /\ memories'[i].tick = memories[i].tick
    /\ \A i \in DOMAIN memories' \ DOMAIN memories : memories'[i].source \notin Hearers

LEMMA SilentSteps ==
    ASSUME TypeInv, \/ \E a \in Agents : Act(a) \/ Die(a)
                    \/ InjectEvent \/ StartSharing \/ TakeStory \/ NextPass \/ Broadcast
                    \/ FinishTick \/ FailFinalize
    PROVE NoNews
<1>1. \A i \in DOMAIN memories : memories[i] \in MemoryType
  <2> HIDE DEF MemoryType
  <2> QED
    BY DEF TypeInv
<1>2. ASSUME NEW a \in Agents, Act(a) PROVE NoNews
  <2>1. PICK d \in Deeds[a] : RememberOwnDeed(a, d)
    BY <1>2 DEF Act
  <2> DEFINE m == Memory(a, d, Weight(d.deed), "direct", 1000, a, 0)
  <2>2. m.source = "direct"
    BY DEF Memory
  <2> HIDE DEF m
  <2>3. memories' = memories \/ memories' = Append(memories, m)
    BY <2>1 DEF RememberOwnDeed, m
  <2>4. memories \in Seq(MemoryType)
    BY DEF TypeInv
  <2> HIDE DEF MemoryType
  <2> QED
    BY <2>2, <2>3, <2>4 DEF NoNews, Hearers
<1>3. CASE memories' = memories
  BY <1>3 DEF NoNews
<1>4. CASE Broadcast
  <2>1. \A a \in alive : Public(a).source = "public"
    BY DEF Public, Memory
  <2>2. \A i \in DOMAIN memories' \ DOMAIN memories : memories'[i].source \notin Hearers
    BY <1>4, <2>1, BroadcastIs DEF Hearers
  <2> QED
    BY <1>4, <2>2, BroadcastIs DEF NoNews
<1>5. CASE FinishTick
  <2>1. /\ DOMAIN memories' = DOMAIN memories
        /\ \A i \in DOMAIN memories :
            memories'[i] = memories[i] \/ memories'[i] = [memories[i] EXCEPT !.active = FALSE]
    BY <1>5, DecayIs DEF FinishTick
  <2>2. ASSUME NEW m \in MemoryType
        PROVE LET k == [m EXCEPT !.active = FALSE] IN
              k.agent = m.agent /\ k.origin = m.origin /\ k.source = m.source /\ k.tick = m.tick
    BY DEF MemoryType
  <2> HIDE DEF MemoryType
  <2> QED
    BY <1>1, <2>1, <2>2 DEF NoNews
<1> QED
  BY <1>2, <1>3, <1>4, <1>5
     DEF Die, InjectEvent, StartSharing, TakeStory, NextPass, FailFinalize

\* Without news, news is what it was.
LEMMA NewsStays ==
    ASSUME NoNews
    PROVE /\ \A h, t \in Agents : News(h, t)' = News(h, t)
          /\ HeardOnce => HeardOnce'
          /\ tick' = tick => \A o : AlreadyInformed(o)' = AlreadyInformed(o)
<1>1. \A h, t \in Agents : News(h, t)' = News(h, t)
  BY DEF NoNews, News, Hearers
<1>2. HeardOnce => HeardOnce'
  <2>1. \A i \in DOMAIN memories' : memories'[i].source \in Hearers => i \in DOMAIN memories
    BY DEF NoNews
  <2> QED
    BY <2>1 DEF NoNews, HeardOnce
<1>3. ASSUME tick' = tick, NEW o PROVE AlreadyInformed(o)' = AlreadyInformed(o)
  <2> DEFINE J == {j \in DOMAIN memories : /\ memories[j].source \in {"hearsay", "rumor"}
                                           /\ memories[j].origin = o
                                           /\ memories[j].tick = tick}
  <2>1. J' = J
    BY <1>3 DEF NoNews, Hearers
  <2>2. \A j \in J : memories'[j].agent = memories[j].agent
    BY DEF NoNews
  <2>3. AlreadyInformed(o) = {memories[i].agent : i \in J}
    BY DEF AlreadyInformed
  <2>4. AlreadyInformed(o)' = {memories'[i].agent : i \in J'}
    BY DEF AlreadyInformed
  <2> HIDE DEF J
  <2> QED
    BY <2>1, <2>2, <2>3, <2>4
<1> QED
  BY <1>1, <1>2, <1>3

LEMMA NewsIsFinite ==
    ASSUME TypeInv, NEW h, NEW t PROVE IsFiniteSet(News(h, t)) /\ Cardinality(News(h, t)) \in Nat
<1>1. DOMAIN memories = 1 .. Len(memories) /\ Len(memories) \in Nat
  <2> HIDE DEF MemoryType
  <2> QED
    BY DEF TypeInv
<1>2. IsFiniteSet(DOMAIN memories)
  BY <1>1, FS_Interval
<1>3. News(h, t) \subseteq DOMAIN memories
  BY DEF News
<1> QED
  BY <1>2, <1>3, FS_Subset, FS_CardinalityType

\* One more has heard of the origin, who had not.
LEMMA TellNews ==
    ASSUME TypeInv, story # NoStory, NEW tie \in story.rows, Tell(tie), UNCHANGED tick,
           NEW o, o = Source.origin
    PROVE LET b == Other(tie, Source.agent)
              n == Len(memories) + 1
          IN /\ b \in Agents /\ b # o /\ b \in alive /\ b \notin story.informed
             /\ tie \in ties
             /\ n \notin DOMAIN memories /\ DOMAIN memories' = DOMAIN memories \cup {n}
             /\ \A i \in DOMAIN memories : memories'[i] = memories[i]
             /\ memories'[n].agent = b /\ memories'[n].origin = o
             /\ memories'[n].tick = tick /\ memories'[n].source \in Hearers
             /\ memories'[n] \in MemoryType
             /\ AlreadyInformed(o)' = AlreadyInformed(o) \cup {b}
<1> DEFINE b == Other(tie, Source.agent)
           n == Len(memories) + 1
           m == Told(b, tie)
<1>1. b \in Agents /\ ~PassedOver(b) /\ memories' = Append(memories, m) /\ tie \in ties
  BY SourceIs, OtherIs DEF Tell, Stories
<1>2. /\ m \in MemoryType /\ m.agent = b /\ m.origin = o /\ m.tick = tick
      /\ m.source \in Hearers
  BY <1>1, ToldType DEF Hearers
<1>3. memories \in Seq(MemoryType)
  BY DEF TypeInv
<1>4. /\ n \notin DOMAIN memories /\ DOMAIN memories' = DOMAIN memories \cup {n}
      /\ \A i \in DOMAIN memories : memories'[i] = memories[i]
      /\ memories'[n] = m
  <2> HIDE DEF m, MemoryType
  <2> QED
    BY <1>1, <1>2, <1>3, AppendedType
<1> HIDE DEF m, n, b
<1> DEFINE J == {j \in DOMAIN memories : /\ memories[j].source \in {"hearsay", "rumor"}
                                         /\ memories[j].origin = o
                                         /\ memories[j].tick = tick}
           K == {j \in DOMAIN memories' : /\ memories'[j].source \in {"hearsay", "rumor"}
                                         /\ memories'[j].origin = o
                                         /\ memories'[j].tick = tick}
<1>5. K = J \cup {n}
  BY <1>2, <1>4 DEF Hearers
<1>6. AlreadyInformed(o) = {memories[i].agent : i \in J}
  BY DEF AlreadyInformed
<1>7. {memories'[i].agent : i \in K} = {memories[i].agent : i \in J} \cup {b}
  <2>1. \A j \in J : memories'[j].agent = memories[j].agent
    BY <1>4
  <2>2. memories'[n].agent = b
    BY <1>2, <1>4
  <2> HIDE DEF J, K
  <2> QED
    BY <1>5, <2>1, <2>2
<1>8. AlreadyInformed(o)' = {memories'[i].agent : i \in K}
  BY DEF AlreadyInformed
<1> QED
  BY <1>1, <1>2, <1>4, <1>6, <1>7, <1>8 DEF PassedOver, b, n

LEMMA RatedIs ==
    ASSUME TypeInv, story # NoStory, NEW b \in Agents, NEW h \in Agents, NEW t \in Agents
    PROVE /\ Rated(b)[h][t] \in Nat /\ rated[h][t] \in Nat /\ failures \in Nat
          /\ Rated(b)[h][t] <= rated[h][t] + 1
          /\ (h # b \/ t # Source.origin) => Rated(b)[h][t] = rated[h][t]
<1>1. Rated(b) \in [Agents -> [Agents -> Nat]] /\ rated \in [Agents -> [Agents -> Nat]] /\ failures \in Nat
  BY JudgedType DEF TypeInv
<1>2. Rated(b)[h][t] \in Nat /\ rated[h][t] \in Nat
  BY <1>1
<1>3. Source.origin \in Agents
  BY SourceIs
<1>4. Rated(b) = rated \/ Rated(b) = [rated EXCEPT ![b][Source.origin] = @ + 1]
  BY DEF Rated
<1>5. Rated(b)[h][t] = rated[h][t]
      \/ (h = b /\ t = Source.origin /\ Rated(b)[h][t] = rated[h][t] + 1)
  BY <1>1, <1>3, <1>4
<1> QED
  BY <1>1, <1>2, <1>5

LEMMA TellOpinion ==
    ASSUME TypeInv, OpinionInv, story # NoStory, NEW tie \in story.rows, Tell(tie),
           UNCHANGED <<tick, failures>>
    PROVE OpinionInv'
<1> DEFINE b == Other(tie, Source.agent)
           n == Len(memories) + 1
<1>1. PICK o : o = Source.origin
  OBVIOUS
<1>2. /\ b \in Agents /\ b # o /\ b \in alive /\ b \notin story.informed /\ tie \in ties
      /\ n \notin DOMAIN memories /\ DOMAIN memories' = DOMAIN memories \cup {n}
      /\ \A i \in DOMAIN memories : memories'[i] = memories[i]
      /\ memories'[n].agent = b /\ memories'[n].origin = o
      /\ memories'[n].tick = tick /\ memories'[n].source \in Hearers
      /\ AlreadyInformed(o)' = AlreadyInformed(o) \cup {b}
  BY <1>1, TellNews
<1>3. story.informed = AlreadyInformed(o) /\ HeardOnce
  BY <1>1 DEF OpinionInv
<1>4. rated' = Rated(b)
  BY DEF Tell
<1>5. story' # NoStory => story'.memory = story.memory /\ story'.informed = story.informed \cup {b}
  <2>1. story \in Stories
    BY SourceIs
  <2> QED
    BY <2>1 DEF Tell, GoOn, Stories
<1> HIDE DEF b, n
<1>6. \A i \in DOMAIN memories : ~(/\ memories[i].source \in Hearers /\ memories[i].agent = b
                                   /\ memories[i].origin = o /\ memories[i].tick = tick)
  BY <1>2, <1>3 DEF AlreadyInformed, Hearers
<1>7. HeardOnce'
  BY <1>2, <1>3, <1>6 DEF HeardOnce
<1>8. ASSUME NEW h \in Agents, NEW t \in Agents
      PROVE rated'[h][t] <= Cardinality(News(h, t)') + failures'
  <2>1. /\ rated'[h][t] \in Nat /\ rated[h][t] \in Nat /\ failures \in Nat
        /\ rated'[h][t] <= rated[h][t] + 1
        /\ (h # b \/ t # o) => rated'[h][t] = rated[h][t]
    BY <1>1, <1>2, <1>4, RatedIs
  <2>2. rated[h][t] <= Cardinality(News(h, t)) + failures
    BY DEF OpinionInv
  <2>3. IsFiniteSet(News(h, t)) /\ Cardinality(News(h, t)) \in Nat
    BY NewsIsFinite
  <2>4. News(h, t)' = IF h = b /\ t = o THEN News(h, t) \cup {n} ELSE News(h, t)
    BY <1>2 DEF News, Hearers
  <2>5. n \notin News(h, t)
    BY <1>2 DEF News
  <2>6. CASE h = b /\ t = o
    <3>1. Cardinality(News(h, t)') = Cardinality(News(h, t)) + 1
      BY <2>3, <2>4, <2>5, <2>6, FS_AddElement
    <3> QED
      BY <2>1, <2>2, <2>3, <3>1
  <2>7. CASE h # b \/ t # o
    BY <2>1, <2>2, <2>3, <2>4, <2>7
  <2> QED
    BY <2>6, <2>7
<1>9. story' # NoStory => story'.informed = AlreadyInformed(Source.origin)'
  <2> SUFFICES ASSUME story' # NoStory PROVE story'.informed = AlreadyInformed(Source.origin)'
    OBVIOUS
  <2>1. story.memory \in DOMAIN memories
    BY SourceIs
  <2>2. Source' = Source
    BY <1>2, <1>5, <2>1 DEF Source
  <2>3. Source'.origin = o
    BY <1>1, <2>2
  <2>4. AlreadyInformed(Source.origin)' = AlreadyInformed(o)'
    BY <2>3 DEF AlreadyInformed
  <2> QED
    BY <1>2, <1>3, <1>5, <2>4
<1> QED
  BY <1>7, <1>8, <1>9 DEF OpinionInv

LEMMA OpinionNext == ASSUME TypeInv, OpinionInv, [Next]_vars PROVE OpinionInv'
<1>1. CASE Share
  <2>1. PICK tie \in story.rows : PassOver(tie) \/ Tell(tie)
    BY <1>1 DEF Share
  <2>2. CASE Tell(tie)
    BY <1>1, <2>2, TellOpinion DEF Share
  <2>3. CASE PassOver(tie)
    <3>1. story \in Stories
      BY <1>1, SourceIs DEF Share
    <3>2. /\ UNCHANGED <<tick, memories, rated, failures>>
          /\ story' # NoStory => story'.memory = story.memory /\ story'.informed = story.informed
      BY <1>1, <2>3, <3>1 DEF Share, PassOver, GoOn, Stories
    <3> QED
      BY <1>1, <3>2 DEF Share, OpinionInv, HeardOnce, News, Source, AlreadyInformed
  <2> QED
    BY <2>1, <2>2, <2>3
<1>2. ASSUME NoNews, UNCHANGED <<rated, failures>>, story' = NoStory PROVE OpinionInv'
  BY <1>2, NewsStays DEF OpinionInv
<1>3. CASE TakeStory
  <2>1. NoNews /\ UNCHANGED <<tick, memories, rated, failures>>
    BY <1>3, SilentSteps DEF TakeStory
  <2>2. story' # NoStory => story'.informed = AlreadyInformed(memories[story'.memory].origin)
    BY <1>3 DEF TakeStory, GoOn
  <2>3. story' # NoStory => story'.informed = AlreadyInformed(Source.origin)'
    BY <2>1, <2>2 DEF Source, AlreadyInformed
  <2> QED
    BY <2>1, <2>3, NewsStays DEF OpinionInv
<1>4. CASE FailFinalize
  <2>1. NoNews /\ story' = NoStory /\ failures' = failures + 1
    BY <1>4, SilentSteps DEF FailFinalize
  <2>2. ASSUME NEW h \in Agents, NEW t \in Agents
        PROVE rated'[h][t] <= Cardinality(News(h, t)) + failures + 1
    <3>1. rated[h][t] <= Cardinality(News(h, t)) + failures
      BY DEF OpinionInv
    <3>2. Cardinality(News(h, t)) \in Nat /\ rated \in [Agents -> [Agents -> Nat]] /\ failures \in Nat
      BY NewsIsFinite DEF TypeInv
    <3>3. rated[h][t] \in Nat
      BY <3>2
    <3>4. CASE rated' = rated
      BY <3>1, <3>2, <3>3, <3>4
    <3>5. ASSUME story # NoStory, NEW tie \in story.rows, rated' = Rated(Other(tie, Source.agent))
          PROVE rated'[h][t] <= Cardinality(News(h, t)) + failures + 1
      <4>1. tie \in ties
        BY <3>5, SourceIs DEF Stories
      <4>2. Other(tie, Source.agent) \in Agents
        BY <4>1, OtherIs
      <4>3. rated'[h][t] \in Nat /\ rated'[h][t] <= rated[h][t] + 1
        BY <3>5, <4>2, RatedIs
      <4> QED
        BY <3>1, <3>2, <3>3, <4>3
    <3> QED
      BY <1>4, <3>4, <3>5 DEF FailFinalize
  <2>3. \A h, t \in Agents : News(h, t)' = News(h, t)
    BY <2>1, NewsStays
  <2>4. ASSUME NEW h \in Agents, NEW t \in Agents
        PROVE rated'[h][t] <= Cardinality(News(h, t)') + failures'
    <3>1. failures \in Nat /\ Cardinality(News(h, t)) \in Nat
      BY NewsIsFinite DEF TypeInv
    <3>2. Cardinality(News(h, t)) + failures + 1 = Cardinality(News(h, t)') + failures'
      BY <2>1, <2>3, <3>1
    <3> QED
      BY <2>2, <3>2
  <2> QED
    BY <2>1, <2>4, NewsStays DEF OpinionInv
<1>5. CASE \/ \E a \in Agents : Act(a) \/ Die(a)
           \/ InjectEvent \/ StartSharing \/ NextPass \/ Broadcast \/ FinishTick
  <2>1. NoNews
    BY <1>5, SilentSteps
  <2>2. UNCHANGED <<rated, failures>> /\ story' = NoStory
    BY <1>5 DEF Act, Die, InjectEvent, StartSharing, NextPass, Broadcast, FinishTick, TypeInv, Telling
  <2> QED
    BY <1>2, <2>1, <2>2
<1>6. CASE UNCHANGED vars
  BY <1>6 DEF vars, OpinionInv, HeardOnce, News, Source, AlreadyInformed
<1> QED
  BY <1>1, <1>3, <1>4, <1>5, <1>6 DEF Next

LEMMA OpinionInit == Init => OpinionInv
<1> SUFFICES ASSUME Init PROVE OpinionInv
  OBVIOUS
<1>1. DOMAIN memories = {} /\ failures = 0 /\ story = NoStory
  BY DEF Init
<1>2. HeardOnce
  BY <1>1 DEF HeardOnce
<1>3. ASSUME NEW h \in Agents, NEW t \in Agents
      PROVE rated[h][t] <= Cardinality(News(h, t)) + failures
  <2>1. News(h, t) = {} /\ Cardinality({}) = 0
    BY <1>1, FS_EmptySet DEF News
  <2>2. rated[h][t] = 0
    BY DEF Init, NoScores
  <2> QED
    BY <1>1, <2>1, <2>2
<1> QED
  BY <1>1, <1>2, <1>3 DEF OpinionInv

\* An opinion moves with the news it is drawn from: nobody hears twice in a tick
\* of the same agent, and no reputation is updated oftener than there is news
\* and were failures between the two writes.
THEOREM OpinionsAreFounded == Spec => []OpinionsFollowNews
<1>1. Init => OpinionInv
  BY OpinionInit
<1>2. TypeInv /\ OpinionInv /\ [Next]_vars => OpinionInv'
  BY OpinionNext
<1>3. OpinionInv => OpinionsFollowNews
  BY DEF OpinionInv, HeardOnce, OpinionsFollowNews, News, Hearers
<1> QED
  BY <1>1, <1>2, <1>3, TypeInit, TypeNext, PTL DEF Spec

-----------------------------------------------------------------------------
(* News reaches every neighbour of whom it is about.                         *)

Reached(a) == Cardinality(Neighbours(a)) <= MaxRecipients => Neighbours(a) \ {a} \subseteq AlreadyInformed(a)

\* A relationship of a's that leads to nobody who has still to be told.
Settled(r, a) == Other(r, a) = a \/ Other(r, a) \notin alive \/ Other(r, a) \in AlreadyInformed(a)

\* A story of the first pass: it is the agent's own, and whom the relationships
\* already gone through lead to has heard of the agent.
StoryInv(a) ==
    /\ story.rows \subseteq Ties(a)
    /\ \A r \in Ties(a) \ story.rows : Settled(r, a)
    /\ story.told <= Cardinality(AlreadyInformed(a) \cap (Neighbours(a) \ {a}))

ReachInv ==
    /\ \A i \in DOMAIN memories :
        memories[i].source = "direct" => memories[i].origin = memories[i].agent
    /\ phase = "direct" => pending \subseteq PassOf("direct")
    /\ phase = "direct" /\ story # NoStory =>
        /\ story.memory \in PassOf("direct")
        /\ \A a \in Agents : Source.agent = a => StoryInv(a)
    /\ phase = "direct" =>
        \A i \in PassOf("direct"), a \in Agents :
            memories[i].agent = a =>
                i \in pending \/ (story # NoStory /\ story.memory = i) \/ Reached(a)
    /\ phase \in {"hearsay", "rumor", "public"} =>
        \A i \in PassOf("direct"), a \in Agents : memories[i].agent = a => Reached(a)

LEMMA NeighboursAre ==
    ASSUME TypeInv, NEW a
    PROVE /\ IsFiniteSet(Neighbours(a)) /\ Cardinality(Neighbours(a)) \in Nat
          /\ \A b \in Neighbours(a) : b \in alive /\ \E r \in Ties(a) : b = Other(r, a)
<1>1. Neighbours(a) \subseteq Agents
  BY DEF Neighbours, TypeInv
<1>2. IsFiniteSet(Neighbours(a))
  BY <1>1, HearsayAssumption, FS_Subset
<1> QED
  BY <1>2, FS_CardinalityType DEF Neighbours, Ties

\* Once as many as may be told have been told, everybody has.
LEMMA ToldEnough ==
    ASSUME NEW N, IsFiniteSet(N), NEW H, NEW a, NEW n \in Int,
           n <= Cardinality(H \cap (N \ {a})), n >= MaxRecipients, Cardinality(N) <= MaxRecipients
    PROVE N \ {a} \subseteq H
<1> DEFINE K == H \cap (N \ {a})
<1>1. IsFiniteSet(K) /\ Cardinality(K) <= Cardinality(N) /\ (Cardinality(N) = Cardinality(K) => N = K)
  BY FS_Subset
<1>2. Cardinality(K) \in Nat /\ Cardinality(N) \in Nat /\ MaxRecipients \in Int
  BY <1>1, FS_CardinalityType, HearsayAssumption
<1>3. n <= Cardinality(K)
  OBVIOUS
<1>4. N = K
  <2> HIDE DEF K
  <2> QED
    BY <1>1, <1>2, <1>3
<1> QED
  BY <1>4

\* The passes leave the relationships and the living alone, and add no memory
\* that tells of the agent's own doing.
LEMMA PassesKeep ==
    ASSUME UNCHANGED <<tick, ties, alive>>,
           DOMAIN memories \subseteq DOMAIN memories',
           \A i \in DOMAIN memories : memories'[i] = memories[i],
           \A i \in DOMAIN memories' \ DOMAIN memories : memories'[i].source # "direct"
    PROVE /\ PassOf("direct")' = PassOf("direct")
          /\ \A i \in PassOf("direct") : memories'[i] = memories[i]
          /\ \A a : /\ Neighbours(a)' = Neighbours(a) /\ Ties(a)' = Ties(a)
                    /\ AlreadyInformed(a) \subseteq AlreadyInformed(a)'
                    /\ Reached(a) => Reached(a)'
          /\ (\A i \in DOMAIN memories :
                memories[i].source = "direct" => memories[i].origin = memories[i].agent)
             => (\A i \in DOMAIN memories' :
                memories'[i].source = "direct" => memories'[i].origin = memories'[i].agent)
<1>1. PassOf("direct")' = PassOf("direct") /\ \A i \in PassOf("direct") : memories'[i] = memories[i]
  BY DEF PassOf
<1>2. ASSUME NEW a
      PROVE /\ Neighbours(a)' = Neighbours(a) /\ Ties(a)' = Ties(a)
            /\ AlreadyInformed(a) \subseteq AlreadyInformed(a)'
  BY DEF Neighbours, Ties, Other, AlreadyInformed
<1>3. ASSUME NEW a, Reached(a) PROVE Reached(a)'
  <2>1. Reached(a)' =
          (Cardinality(Neighbours(a)') <= MaxRecipients => Neighbours(a)' \ {a} \subseteq AlreadyInformed(a)')
    BY DEF Reached
  <2> QED
    BY <1>2, <1>3, <2>1 DEF Reached
<1> QED
  BY <1>1, <1>2, <1>3

LEMMA ShareReach == ASSUME TypeInv, OpinionInv, ReachInv, Share PROVE ReachInv'
<1>1. /\ story # NoStory /\ story \in Stories /\ story.memory \in DOMAIN memories
      /\ Source.source = phase /\ phase \in Telling /\ Source.agent \in Agents
      /\ UNCHANGED <<tick, phase, ties, alive, pending>>
  BY SourceIs DEF Share
<1>2. PICK tie \in story.rows : PassOver(tie) \/ Tell(tie)
  BY DEF Share
<1>3. PICK a : a = Source.agent
  OBVIOUS
<1>4. PICK o : o = Source.origin
  OBVIOUS
<1> DEFINE b == Other(tie, a)
<1>5. story.informed = AlreadyInformed(o)
  BY <1>1, <1>4 DEF OpinionInv
<1>6. /\ DOMAIN memories \subseteq DOMAIN memories'
      /\ \A i \in DOMAIN memories : memories'[i] = memories[i]
      /\ \A i \in DOMAIN memories' \ DOMAIN memories : memories'[i].source # "direct"
  <2>1. CASE PassOver(tie)
    BY <2>1 DEF PassOver
  <2>2. CASE Tell(tie)
    <3>1. /\ DOMAIN memories' = DOMAIN memories \cup {Len(memories) + 1}
          /\ \A i \in DOMAIN memories : memories'[i] = memories[i]
          /\ memories'[Len(memories) + 1].source \in Hearers
      BY <1>1, <1>4, <2>2, TellNews
    <3> QED
      BY <3>1 DEF Hearers
  <2> QED
    BY <1>2, <2>1, <2>2
<1>7. /\ PassOf("direct")' = PassOf("direct")
      /\ \A i \in PassOf("direct") : memories'[i] = memories[i]
      /\ \A x : /\ Neighbours(x)' = Neighbours(x) /\ Ties(x)' = Ties(x)
                /\ AlreadyInformed(x) \subseteq AlreadyInformed(x)'
                /\ Reached(x) => Reached(x)'
      /\ \A i \in DOMAIN memories' :
            memories'[i].source = "direct" => memories'[i].origin = memories'[i].agent
  BY <1>1, <1>6, PassesKeep DEF ReachInv
<1>8. CASE phase \in {"hearsay", "rumor"}
  <2>1. \A i \in PassOf("direct")', x \in Agents : memories'[i].agent = x => Reached(x)'
    BY <1>7, <1>8 DEF ReachInv
  <2> QED
    BY <1>1, <1>7, <1>8, <2>1 DEF ReachInv
<1>9. CASE phase = "direct"
  <2>1. /\ story.memory \in PassOf("direct")
        /\ \A r \in Ties(a) \ story.rows : Settled(r, a)
        /\ story.rows \subseteq Ties(a)
        /\ story.told <= Cardinality(AlreadyInformed(a) \cap (Neighbours(a) \ {a}))
    BY <1>1, <1>3, <1>9 DEF ReachInv, StoryInv
  <2>2. o = a
    BY <1>1, <1>3, <1>4, <1>9 DEF ReachInv, Source
  <2>3. Settled(tie, a)' /\ \A r \in Ties(a) \ story.rows : Settled(r, a)'
    <3>1. b = a \/ b \notin alive \/ b \in AlreadyInformed(a)'
      <4>1. CASE PassOver(tie)
        BY <1>3, <1>4, <1>5, <1>7, <2>2, <4>1 DEF PassOver, PassedOver
      <4>2. CASE Tell(tie)
        BY <1>1, <1>3, <1>4, <2>2, <4>2, TellNews
      <4> QED
        BY <1>2, <4>1, <4>2
    <3> QED
      BY <1>1, <1>7, <2>1, <3>1 DEF Settled
  <2> DEFINE s == IF PassOver(tie) THEN [story EXCEPT !.rows = @ \ {tie}]
                  ELSE [story EXCEPT !.rows = @ \ {tie}, !.informed = @ \cup {b}, !.told = @ + 1]
             N == Neighbours(a)
             H == AlreadyInformed(a)'
  <2>4. /\ story' = GoOn(s) /\ s.memory = story.memory /\ s.rows = story.rows \ {tie}
        /\ s.told \in Int /\ (story' # NoStory => story' = s)
    BY <1>1, <1>2, <1>3 DEF GoOn, PassOver, Tell, Stories
  <2>5. s.told <= Cardinality(H \cap (N \ {a}))
    <3> DEFINE K == AlreadyInformed(a) \cap (N \ {a})
               L == H \cap (N \ {a})
    <3>1. IsFiniteSet(N) /\ IsFiniteSet(L) /\ IsFiniteSet(K) /\ K \subseteq L
      BY <1>7, NeighboursAre, FS_Subset
    <3>2. Cardinality(K) \in Nat /\ Cardinality(L) \in Nat /\ Cardinality(K) <= Cardinality(L)
      BY <3>1, FS_CardinalityType, FS_Subset
    <3>3. story.told \in Nat /\ story.told <= Cardinality(K)
      BY <1>1, <2>1 DEF Stories
    <3>4. CASE PassOver(tie)
      <4>1. s.told = story.told
        BY <1>1, <3>4 DEF Stories
      <4> HIDE DEF s, K, L
      <4> QED
        BY <3>2, <3>3, <4>1 DEF L
    <3>5. CASE ~PassOver(tie)
      <4>1. Tell(tie) /\ s.told = story.told + 1
        BY <1>1, <1>2, <3>5 DEF Stories
      <4>2. /\ b \in alive /\ b # a /\ b \notin AlreadyInformed(a) /\ tie \in ties
            /\ H = AlreadyInformed(a) \cup {b}
        BY <1>1, <1>3, <1>4, <1>5, <2>2, <4>1, TellNews
      <4>3. b \in N
        <5>1. a \in {tie.from, tie.to}
          BY <2>1 DEF Ties
        <5> QED
          BY <4>2, <5>1 DEF Neighbours
      <4>4. L = K \cup {b} /\ b \notin K
        BY <4>2, <4>3
      <4>5. Cardinality(L) = Cardinality(K) + 1
        BY <3>1, <4>4, FS_AddElement
      <4> HIDE DEF s, K, L
      <4> QED
        BY <3>2, <3>3, <4>1, <4>5 DEF L
    <3> QED
      BY <3>4, <3>5
  <2>6. \A r \in Ties(a) \ s.rows : Settled(r, a)'
    BY <2>3, <2>4
  <2>7. ASSUME s.rows = {} \/ s.told >= MaxRecipients PROVE Reached(a)'
    <3>1. \A r \in Ties(a) \ s.rows : Other(r, a) = a \/ Other(r, a) \notin alive \/ Other(r, a) \in H
      BY <1>1, <2>6 DEF Settled
    <3>2. IsFiniteSet(N) /\ \A x \in N : x \in alive /\ \E r \in Ties(a) : x = Other(r, a)
      BY NeighboursAre
    <3>3. ASSUME Cardinality(N) <= MaxRecipients PROVE N \ {a} \subseteq H
      <4>1. CASE s.rows = {}
        <5> HIDE DEF s, N, H
        <5> QED
          BY <3>1, <3>2, <4>1
      <4>2. CASE s.told >= MaxRecipients
        <5> HIDE DEF s, N, H
        <5> QED
          BY <2>4, <2>5, <3>2, <3>3, <4>2, ToldEnough
      <4> QED
        BY <2>7, <4>1, <4>2
    <3>4. Reached(a)' = (Cardinality(Neighbours(a)') <= MaxRecipients => Neighbours(a)' \ {a} \subseteq H)
      BY DEF Reached
    <3> QED
      BY <1>7, <3>3, <3>4
  <2>8. ASSUME story' # NoStory
        PROVE /\ story'.memory \in PassOf("direct")'
              /\ \A x \in Agents : Source'.agent = x => StoryInv(x)'
    <3>1. story'.memory = story.memory /\ story'.rows = s.rows /\ story'.told = s.told
      BY <2>4, <2>8
    <3>2. Source' = Source
      BY <1>7, <2>1, <3>1 DEF Source
    <3>3. Source'.agent = a
      BY <1>3, <3>2
    <3>4. s.rows \subseteq Ties(a)
      BY <2>1, <2>4
    <3>5. StoryInv(a)'
      <4> HIDE DEF s
      <4> QED
        BY <1>7, <2>5, <2>6, <3>1, <3>4 DEF StoryInv
    <3> QED
      BY <1>7, <2>1, <3>1, <3>3, <3>5
  <2>9. ASSUME NEW i \in PassOf("direct")', NEW x \in Agents, memories'[i].agent = x
        PROVE i \in pending' \/ (story' # NoStory /\ story'.memory = i) \/ Reached(x)'
    <3>1. memories[i].agent = x
      BY <1>7, <2>9
    <3>2. CASE story.memory = i
      <4>1. x = a
        BY <1>3, <3>1, <3>2 DEF Source
      <4>2. Reached(a)' => Reached(x)'
        BY <4>1
      <4>3. story' = NoStory => s.rows = {} \/ s.told >= MaxRecipients
        <5>1. story.memory # 0
          BY <1>1 DEF TypeInv
        <5> QED
          BY <2>4, <5>1 DEF GoOn, NoStory
      <4> QED
        BY <2>4, <2>7, <3>2, <4>2, <4>3
    <3>3. CASE story.memory # i
      <4>1. i \in pending \/ Reached(x)
        BY <1>7, <1>9, <3>1, <3>3 DEF ReachInv
      <4> QED
        BY <1>1, <1>7, <4>1
    <3> QED
      BY <3>2, <3>3
  <2>10. pending' \subseteq PassOf("direct")'
    BY <1>1, <1>7, <1>9 DEF ReachInv
  <2> QED
    BY <1>1, <1>7, <1>9, <2>8, <2>9, <2>10 DEF ReachInv
<1> QED
  BY <1>1, <1>8, <1>9 DEF Telling

LEMMA AgentIs ==
    ASSUME TypeInv, NEW i \in DOMAIN memories PROVE memories[i].agent \in Agents
<1>1. memories[i] \in MemoryType
  <2> HIDE DEF MemoryType
  <2> QED
    BY DEF TypeInv
<1> QED
  BY <1>1, MemoryFields

LEMMA TakeReach == ASSUME TypeInv, ReachInv, TakeStory PROVE ReachInv'
<1>1. /\ phase \in Telling /\ story = NoStory
      /\ UNCHANGED <<tick, phase, ties, memories, alive>>
  BY DEF TakeStory, Telling
<1>2. PICK i \in pending :
        /\ pending' = pending \ {i}
        /\ story' = IF Spent(memories[i]) THEN NoStory
                    ELSE GoOn([memory |-> i, rows |-> Ties(memories[i].agent),
                               informed |-> AlreadyInformed(memories[i].origin), told |-> 0])
  BY DEF TakeStory
<1>3. /\ PassOf("direct")' = PassOf("direct")
      /\ \A x : /\ Neighbours(x)' = Neighbours(x) /\ Ties(x)' = Ties(x)
                /\ Reached(x) => Reached(x)'
      /\ \A j \in DOMAIN memories' :
            memories'[j].source = "direct" => memories'[j].origin = memories'[j].agent
  BY <1>1, PassesKeep DEF ReachInv
<1>4. CASE phase \in {"hearsay", "rumor"}
  BY <1>1, <1>3, <1>4 DEF ReachInv
<1>5. CASE phase = "direct"
  <2>1. PICK a \in Agents : a = memories[i].agent
    BY AgentIs DEF TypeInv
  <2> DEFINE s == [memory |-> i, rows |-> Ties(a), informed |-> AlreadyInformed(memories[i].origin),
                   told |-> 0]
  <2>2. /\ i \in PassOf("direct") /\ story' = GoOn(s)
        /\ story' # NoStory => story' = s
        /\ story' = NoStory => Ties(a) = {}
    <3>1. i \in PassOf("direct") /\ memories[i].source = "direct"
      BY <1>5 DEF ReachInv, PassOf
    <3>2. ~(0 >= MaxRecipients) /\ i # 0
      BY HearsayAssumption DEF TypeInv
    <3> QED
      BY <1>2, <2>1, <3>1, <3>2 DEF Spent, GoOn, NoStory
  <2>3. Ties(a) = {} => Reached(a)'
    <3>1. Ties(a) = {} => Neighbours(a) = {}
      BY DEF Ties, Neighbours
    <3>2. Neighbours(a) = {} => Reached(a)
      BY DEF Reached
    <3> QED
      BY <1>3, <3>1, <3>2
  <2>4. ASSUME story' # NoStory
        PROVE /\ story'.memory \in PassOf("direct")'
              /\ \A x \in Agents : Source'.agent = x => StoryInv(x)'
    <3>1. story'.memory = i /\ story'.rows = Ties(a) /\ story'.told = 0
      BY <2>2, <2>4
    <3>2. Source'.agent = a
      BY <1>1, <2>1, <3>1 DEF Source
    <3>3. Cardinality(AlreadyInformed(a)' \cap (Neighbours(a)' \ {a})) \in Nat
      <4>1. IsFiniteSet(Neighbours(a)')
        BY <1>3, NeighboursAre
      <4> QED
        BY <4>1, FS_Subset, FS_CardinalityType
    <3>4. StoryInv(a)'
      BY <1>3, <3>1, <3>3 DEF StoryInv
    <3> QED
      BY <1>3, <2>2, <3>1, <3>2, <3>4
  <2>5. ASSUME NEW j \in PassOf("direct")', NEW x \in Agents, memories'[j].agent = x
        PROVE j \in pending' \/ (story' # NoStory /\ story'.memory = j) \/ Reached(x)'
    <3>1. CASE j = i
      <4>1. x = a
        BY <1>1, <2>1, <2>5, <3>1
      <4>2. Reached(a)' => Reached(x)'
        BY <4>1
      <4> QED
        BY <2>2, <2>3, <3>1, <4>2
    <3>2. CASE j # i
      <4>1. j \in pending \/ Reached(x)
        BY <1>1, <1>3, <1>5, <2>5 DEF ReachInv
      <4> QED
        BY <1>2, <1>3, <3>2, <4>1
    <3> QED
      BY <3>1, <3>2
  <2>6. pending' \subseteq PassOf("direct")'
    BY <1>2, <1>3, <1>5 DEF ReachInv
  <2> QED
    BY <1>1, <1>3, <1>5, <2>4, <2>5, <2>6 DEF ReachInv
<1> QED
  BY <1>1, <1>4, <1>5 DEF Telling

LEMMA NextPassReach == ASSUME TypeInv, ReachInv, NextPass PROVE ReachInv'
<1>1. /\ story = NoStory /\ pending = {} /\ phase \in Telling
      /\ phase' \in {"hearsay", "rumor", "public"} /\ story' = NoStory
      /\ UNCHANGED <<tick, ties, memories, alive>>
  BY NextPassIs DEF NextPass, Telling
<1>2. /\ PassOf("direct")' = PassOf("direct")
      /\ \A x : Reached(x) => Reached(x)'
      /\ \A j \in DOMAIN memories' :
            memories'[j].source = "direct" => memories'[j].origin = memories'[j].agent
  BY <1>1, PassesKeep DEF ReachInv
<1>3. \A i \in PassOf("direct"), x \in Agents : memories[i].agent = x => Reached(x)
  BY <1>1 DEF ReachInv, Telling
<1>4. \A i \in PassOf("direct")', x \in Agents : memories'[i].agent = x => Reached(x)'
  BY <1>1, <1>2, <1>3
<1> QED
  BY <1>1, <1>2, <1>4 DEF ReachInv

LEMMA ReachNext == ASSUME TypeInv, OpinionInv, ReachInv, [Next]_vars PROVE ReachInv'
<1> DEFINE Own == \A i \in DOMAIN memories :
                    memories[i].source = "direct" => memories[i].origin = memories[i].agent
<1>1. Own
  BY DEF ReachInv
<1>2. ASSUME NEW a \in Agents, Act(a) PROVE ReachInv'
  <2>1. PICK d \in Deeds[a] : RememberOwnDeed(a, d)
    BY <1>2 DEF Act
  <2> DEFINE m == Memory(a, d, Weight(d.deed), "direct", 1000, a, 0)
  <2>2. m \in MemoryType /\ m.origin = m.agent
    <3>1. d \in Words /\ tick \in Ticks
      BY HearsayAssumption DEF TypeInv
    <3> QED
      BY <3>1, WeightIn, MemoryIn, ScaleIs DEF Memory
  <2> HIDE DEF m
  <2>3. memories' = memories \/ memories' = Append(memories, m)
    BY <2>1 DEF RememberOwnDeed, m
  <2>4. memories \in Seq(MemoryType)
    BY DEF TypeInv
  <2>5. Own'
    <3> HIDE DEF MemoryType
    <3> QED
      BY <1>1, <2>2, <2>3, <2>4, AppendedType
  <2>6. phase' = "turns"
    BY <1>2 DEF Act
  <2> QED
    BY <2>5, <2>6 DEF ReachInv
<1>3. CASE StartSharing
  <2>1. /\ phase' = "direct" /\ pending' = PassOf("direct") /\ story' = NoStory
        /\ UNCHANGED <<tick, memories>>
    BY <1>3 DEF StartSharing, TypeInv, Telling
  <2>2. PassOf("direct")' = PassOf("direct")
    BY <2>1 DEF PassOf
  <2> QED
    BY <1>1, <2>1, <2>2 DEF ReachInv
<1>4. CASE Broadcast
  <2>1. \A i \in DOMAIN memories' \ DOMAIN memories : memories'[i].source = "public"
    BY <1>4, BroadcastIs DEF Public, Memory
  <2>2. Own' /\ phase' = "closing"
    BY <1>1, <1>4, <2>1, BroadcastIs DEF Broadcast
  <2> QED
    BY <2>2 DEF ReachInv
<1>5. CASE FinishTick
  <2>1. /\ DOMAIN memories' = DOMAIN memories
        /\ \A i \in DOMAIN memories :
            memories'[i] = memories[i] \/ memories'[i] = [memories[i] EXCEPT !.active = FALSE]
    BY <1>5, DecayIs DEF FinishTick
  <2>2. ASSUME NEW m \in MemoryType
        PROVE LET k == [m EXCEPT !.active = FALSE] IN
              k.agent = m.agent /\ k.origin = m.origin /\ k.source = m.source
    BY DEF MemoryType
  <2>3. \A i \in DOMAIN memories : memories[i] \in MemoryType
    <3> HIDE DEF MemoryType
    <3> QED
      BY DEF TypeInv
  <2>4. \A i \in DOMAIN memories :
            /\ memories'[i].agent = memories[i].agent /\ memories'[i].origin = memories[i].origin
            /\ memories'[i].source = memories[i].source
    <3> HIDE DEF MemoryType
    <3> QED
      BY <2>1, <2>2, <2>3
  <2>6. Own'
    BY <1>1, <2>1, <2>4
  <2>5. phase' = "turns"
    BY <1>5 DEF FinishTick
  <2> QED
    BY <2>5, <2>6 DEF ReachInv
<1>6. ASSUME memories' = memories, phase' = "turns" PROVE ReachInv'
  BY <1>1, <1>6 DEF ReachInv
<1>7. CASE (\E a \in Agents : Die(a)) \/ InjectEvent \/ FailFinalize
  BY <1>6, <1>7 DEF Die, InjectEvent, FailFinalize
<1>8. CASE UNCHANGED vars
  BY <1>8 DEF vars, ReachInv, StoryInv, Settled, Reached, Neighbours, AlreadyInformed, Ties,
              Source, PassOf
<1> QED
  BY <1>2, <1>3, <1>4, <1>5, <1>7, <1>8, TakeReach, ShareReach, NextPassReach DEF Next

\* When the news of a tick is out, every living neighbour of an agent who did
\* something memorable has heard of that agent in this tick, provided the
\* neighbours are no more than may be told.
THEOREM NeighboursHear == Spec => []NewsReachesNeighbours
<1>1. Init => ReachInv
  BY DEF Init, ReachInv
<1>2. TypeInv /\ OpinionInv /\ ReachInv /\ [Next]_vars => ReachInv'
  BY ReachNext
<1>3. TypeInv /\ ReachInv => NewsReachesNeighbours
  <2> SUFFICES ASSUME TypeInv, ReachInv, phase = "public", NEW i \in PassOf("direct"),
                      Cardinality(Neighbours(memories[i].agent)) <= MaxRecipients,
                      NEW b \in Neighbours(memories[i].agent) \ {memories[i].agent}
               PROVE \E j \in DOMAIN memories :
                        /\ memories[j].agent = b /\ memories[j].origin = memories[i].agent
                        /\ memories[j].tick = tick /\ memories[j].source \in {"hearsay", "rumor"}
    BY DEF NewsReachesNeighbours
  <2>1. memories[i].agent \in Agents
    BY AgentIs DEF PassOf
  <2>2. b \in AlreadyInformed(memories[i].agent)
    BY <2>1 DEF ReachInv, Reached
  <2> QED
    BY <2>2 DEF AlreadyInformed
<1>4. Init => OpinionInv
  BY OpinionInit
<1>5. TypeInv /\ OpinionInv /\ [Next]_vars => OpinionInv'
  BY OpinionNext
<1> QED
  BY <1>1, <1>2, <1>3, <1>4, <1>5, TypeInit, TypeNext, PTL DEF Spec

================================================================================
