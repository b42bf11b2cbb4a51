-------------------------------- MODULE Hearsay --------------------------------
(***************************************************************************)
(* What agents do to each other, remember, and hear of each other          *)
(* (agents/information_flow.py, belief.py, distortion.py, reputation.py,   *)
(* relationships.py, memory.py; apply_agent_action and run_memory_decay of *)
(* simulation/engine.py).                                                  *)
(*                                                                         *)
(* Agents act in the turns of a tick; when the turns are over news passes  *)
(* one hop: memories of the tick become hearsay, hearsay of the tick       *)
(* before becomes rumour, and so do its rumours, within limits.  Rows are  *)
(* committed one by one; a closing task that fails leaves what it wrote,   *)
(* and the tick is begun anew when the user presses play.                  *)
(*                                                                         *)
(* Data: words are a deed and a remark; reliability, scores, strength and  *)
(* sentiment are in thousandths, the sentiment of words in tenths.  Mood,  *)
(* health, the type of a relationship and the other effects of an action   *)
(* are left out.                                                           *)
(*                                                                         *)
(* Variants (..Unclamped, ..Late, ..FromOnly, ..HearsayOnly) are the       *)
(* plausible slips the properties are tested against.                      *)
(***************************************************************************)
EXTENDS Integers, SequencesExt

CONSTANTS
    Agents,
    InitialTies,   \* Relationship rows: [from, to, strength, sentiment, since]
    Traits,        \* the active traits of each agent, the most extreme first
    Credulity,     \* 0.6 agreeableness + 0.4 openness of each agent
    Deeds,         \* [deed, remark] each agent may decide on
    Threshold, MaxHops, MaxRecipients, Belief,     \* EPOCHA_INFO_FLOW_ settings
    FadeAge,       \* age at which relationships begin to decay
    FadeRate,      \* DECAY_RATE
    DecayInterval, DecayAge,                       \* of memories
    MaxTick, MaxDeeds, MaxFailures,                \* bounds
    Mortals, DeathTicks, EventTicks, FailTicks     \* bounds: who dies when, ticks with
                                                   \* events, ticks that may fail

NoOne == "nobody"
Words == [deed : {"betray", "argue", "help", "rest", "event"},
          remark : {"none", "disappointed", "let down", "betrayed"}]
\* A trait that distorts, and the end of its scale.
Tempers == {"high neuroticism", "low neuroticism", "high agreeableness", "low agreeableness",
            "high openness", "low openness", "high extraversion", "low extraversion",
            "high conscientiousness", "low conscientiousness"}
Scale == 0 .. 1000
Score == -1000 .. 1000
Ticks == 1 .. MaxTick
TieRows == [from : Agents, to : Agents, strength : Scale, sentiment : Score, since : Int]

\* EstimateHop, in thousandths, counts no further than to seven hops.
ASSUME HearsayAssumption ==
    /\ IsFiniteSet(Agents) /\ NoOne \notin Agents /\ Mortals \subseteq Agents
    /\ InitialTies \subseteq TieRows
    /\ Traits \in [Agents -> Seq(Tempers)] /\ Credulity \in [Agents -> Scale]
    /\ Deeds \in [Agents -> SUBSET Words]
    /\ Threshold \in Scale /\ MaxHops \in 0 .. 7 /\ MaxRecipients \in Nat \ {0}
    /\ Belief \in Int /\ FadeAge \in Int /\ FadeRate \in Int
    /\ DecayInterval \in Nat \ {0} /\ DecayAge \in Nat \ {0}
    /\ MaxTick \in Nat \ {0} /\ MaxDeeds \in Nat /\ MaxFailures \in Nat

VARIABLES
    tick,         \* the tick worked on
    phase,        \* "turns", then the four passes of news, then "closing"
    ties,         \* Relationship rows
    memories,     \* Memory rows, in the order of ids
    image, reputation,   \* ReputationScore: image[h][t] is what h thinks of t
    alive,
    happened,     \* whether an Event was injected at this tick
    pending,      \* the memories the pass has still to propagate
    story,        \* the memory being propagated
    acted,        \* who has taken the turn
    rated,        \* history: updates of h's reputation of t
    deeds, failures   \* history: bounds

vars == <<tick, phase, ties, memories, image, reputation, alive, happened, pending,
          story, acted, rated, deeds, failures>>

Passes == <<"direct", "hearsay", "rumor", "public", "closing">>
NoStory == [memory |-> 0, rows |-> {}, informed |-> {}, told |-> 0]

Clamp(lo, hi, x) == IF x < lo THEN lo ELSE IF x > hi THEN hi ELSE x
Abs(x) == IF x < 0 THEN -x ELSE x
NoScores == [h \in Agents |-> [t \in Agents |-> 0]]

Init ==
    /\ tick = 1 /\ phase = "turns" /\ ties = InitialTies /\ memories = << >>
    /\ image = NoScores /\ reputation = NoScores /\ alive = Agents /\ happened = FALSE
    /\ pending = {} /\ story = NoStory /\ acted = {}
    /\ rated = NoScores /\ deeds = 0 /\ failures = 0

-----------------------------------------------------------------------------
(* Deeds and their effects.                                                  *)

Weight(deed) ==
    CASE deed = "betray" -> 800 [] deed = "argue" -> 400 [] deed = "help" -> 300 [] OTHER -> 50

ImageDelta(deed) ==
    CASE deed = "betray" -> -800 [] deed = "argue" -> -200 [] deed = "help" -> 150 [] OTHER -> 0

InteractionEffects(deed) ==
    CASE deed = "betray" -> [sentiment |-> -800, strength |-> 300]
      [] deed = "argue" -> [sentiment |-> -200, strength |-> 100]
      [] deed = "help" -> [sentiment |-> 150, strength |-> 100]
      [] OTHER -> [sentiment |-> 0, strength |-> 0]

\* Opinions stay within -1 and 1.
MovedUnclamped(score, delta) == score + delta
Moved(score, delta) == Clamp(-1000, 1000, score + delta)

\* A first interaction makes the relationship.
UpdateRelationship(a, b, deed) ==
    LET effects == InteractionEffects(deed)
        old == {r \in ties : r.from = a /\ r.to = b}
    IN ties' = (ties \ old) \cup
        IF old = {}
        THEN {[from |-> a, to |-> b, strength |-> effects.strength,
               sentiment |-> effects.sentiment, since |-> tick]}
        ELSE {[r EXCEPT !.sentiment = Clamp(-1000, 1000, @ + effects.sentiment),
                        !.strength = Clamp(0, 1000, @ + effects.strength)] : r \in old}

\* The scores as the actor's image of whom the deed was done to.
UpdateImage(holder, target, deed) ==
    image' = [image EXCEPT ![holder][target] = Moved(@, ImageDelta(deed))]

Memory(agent, words, weight, source, reliability, origin, hops) ==
    [agent |-> agent, words |-> words, weight |-> weight, source |-> source,
     reliability |-> reliability, tick |-> tick, active |-> TRUE, origin |-> origin, hops |-> hops]

\* Whether the latest of the memories of the last three ticks begins with the
\* same decision, whoever it was who decided.
RecentDuplicate(a, deed) ==
    LET recent == {i \in DOMAIN memories : /\ memories[i].agent = a /\ memories[i].active
                                           /\ memories[i].tick >= tick - 3}
    IN \E i \in recent : (\A j \in recent : j <= i) /\ memories[i].words.deed = deed

RememberOwnDeed(a, d) ==
    memories' = IF RecentDuplicate(a, d.deed) THEN memories
                ELSE Append(memories, Memory(a, d, Weight(d.deed), "direct", 1000, a, 0))

\* apply_agent_action, to somebody or to nobody.
Act(a) ==
    /\ phase = "turns" /\ a \in alive \ acted /\ deeds < MaxDeeds
    /\ acted' = acted \cup {a} /\ deeds' = deeds + 1
    /\ \E d \in Deeds[a] :
        /\ RememberOwnDeed(a, d)
        /\ \/ UNCHANGED <<ties, image>>
           \/ \E b \in alive \ {a} :
                /\ d.deed \notin {"rest", "work", "explore"}
                /\ UpdateRelationship(a, b, d.deed) /\ UpdateImage(a, b, d.deed)
    /\ UNCHANGED <<tick, phase, reputation, alive, happened, pending, story, rated, failures>>

Die(a) ==
    /\ phase = "turns" /\ a \in alive \cap Mortals /\ tick \in DeathTicks
    /\ alive' = alive \ {a}
    /\ UNCHANGED <<tick, phase, ties, memories, image, reputation, happened, pending, story,
                   acted, rated, deeds, failures>>

InjectEvent ==
    /\ phase = "turns" /\ ~happened /\ tick \in EventTicks /\ happened' = TRUE
    /\ UNCHANGED <<tick, phase, ties, memories, image, reputation, alive, pending, story,
                   acted, rated, deeds, failures>>

-----------------------------------------------------------------------------
(* News.                                                                     *)

\* Hops by reliability: log r / log 0.7, rounded.
EstimateHop(r) == Cardinality({bound \in {837, 586, 410, 287, 201, 141, 98} : r < bound})
Decayed(r) == (7 * r) \div 10
Damped(r) == (3 * r) \div 10

SpentLate(m) == m.source = "rumor" /\ EstimateHop(m.reliability) > MaxHops
Spent(m) == m.source = "rumor" /\ EstimateHop(m.reliability) >= MaxHops

\* The memories a pass begins with.
PassOf(source) ==
    {i \in DOMAIN memories :
        /\ memories[i].active /\ memories[i].source = source
        /\ IF source = "direct" THEN memories[i].tick = tick /\ memories[i].weight >= Threshold
           ELSE memories[i].tick = tick - 1}

\* The strongest keyword of the words; of equals a good one.
Sentiment(words) ==
    LET deed == CASE words.deed = "betray" -> -10 [] words.deed = "argue" -> -5
                  [] words.deed = "help" -> 10 [] OTHER -> 0
        remark == IF words.remark = "betrayed" THEN -10 ELSE 0
    IN IF Abs(remark) > Abs(deed) THEN remark ELSE deed

\* Traits are of moderate strength, the second of the three replacements.
Reworded ==
    [p \in Words \X Tempers |-> [p[1] EXCEPT !.remark =
        CASE p[2] \in {"high neuroticism", "low agreeableness"} /\ @ = "disappointed" -> "betrayed"
          [] p[2] \in {"low neuroticism", "high agreeableness"} /\ @ = "betrayed" -> "let down"
          [] OTHER -> @]]
Distorted(words, transmitter) ==
    FoldLeft(LAMBDA w, temper : Reworded[<<w, temper>>], words, Traits[transmitter])

\* What h thinks of t, given the reputations.
CombinedScore(opinions, h, t) == (6 * image[h][t] + 4 * opinions[h][t]) \div 10

ShouldBelieve(opinions, recipient, transmitter, tie, reliability) ==
    LET trust == (tie.strength + Clamp(0, 1000, tie.sentiment)) \div 2
        standing == (CombinedScore(opinions, recipient, transmitter) + 1000) \div 2
    IN 3 * reliability + 2 * trust + 2 * Credulity[recipient] + 3 * standing >= 10 * Belief

\* A relationship carries news both ways.
TiesFromOnly(a) == {r \in ties : r.from = a}
Ties(a) == {r \in ties : a \in {r.from, r.to}}

\* Who has had news of the origin in this tick, from whomever.
AlreadyInformedHearsayOnly(origin) ==
    {memories[i].agent : i \in {j \in DOMAIN memories : /\ memories[j].source = "hearsay"
                                                        /\ memories[j].origin = origin
                                                        /\ memories[j].tick = tick}}
AlreadyInformed(origin) ==
    {memories[i].agent : i \in {j \in DOMAIN memories : /\ memories[j].source \in {"hearsay", "rumor"}
                                                        /\ memories[j].origin = origin
                                                        /\ memories[j].tick = tick}}

StartSharing ==
    /\ phase = "turns" /\ phase' = "direct" /\ pending' = PassOf("direct")
    /\ UNCHANGED <<tick, ties, memories, image, reputation, alive, happened, story, acted,
                   rated, deeds, failures>>

GoOn(s) == IF s.rows = {} \/ s.told >= MaxRecipients THEN NoStory ELSE s

\* The weightiest comes first; the rows of equal weight come in any order.
TakeStory ==
    /\ phase \in {"direct", "hearsay", "rumor"} /\ story = NoStory
    /\ \E i \in pending :
        /\ \A j \in pending : memories[j].weight <= memories[i].weight
        /\ pending' = pending \ {i}
        /\ story' = IF Spent(memories[i]) THEN NoStory
                    ELSE GoOn([memory |-> i, rows |-> Ties(memories[i].agent),
                               informed |-> AlreadyInformed(memories[i].origin), told |-> 0])
    /\ UNCHANGED <<tick, phase, ties, memories, image, reputation, alive, happened, acted,
                   rated, deeds, failures>>

Source == memories[story.memory]
Other(tie, a) == IF tie.from = a THEN tie.to ELSE tie.from
PassedOver(b) == b = Source.origin \/ b \notin alive \/ b \in story.informed

\* The opinion of the deed is formed before the news is believed or not, and
\* counts when the teller's own standing is looked up.
Judged(b) ==
    [reputation EXCEPT ![b][Source.origin] =
        Moved(@, (Sentiment(Source.words) * Decayed(Source.reliability)) \div 20)]
Rated(b) ==
    IF Sentiment(Source.words) = 0 THEN rated ELSE [rated EXCEPT ![b][Source.origin] = @ + 1]

\* What is not believed is remembered as a weak rumour.
Told(b, tie) ==
    LET words == Distorted(Source.words, Source.agent)
        reliability == Decayed(Source.reliability)
    IN IF ShouldBelieve(Judged(b), b, Source.agent, tie, reliability)
       THEN Memory(b, words, Source.weight, IF phase = "direct" THEN "hearsay" ELSE "rumor",
                   reliability, Source.origin, Source.hops + 1)
       ELSE Memory(b, words, 100, "rumor", Damped(reliability), Source.origin, Source.hops + 1)

\* One relationship of the teller, in whatever order the query returns them.
PassOver(tie) ==
    /\ tie \in story.rows /\ PassedOver(Other(tie, Source.agent))
    /\ story' = GoOn([story EXCEPT !.rows = @ \ {tie}])
    /\ UNCHANGED <<memories, reputation, rated>>
Tell(tie) ==
    LET b == Other(tie, Source.agent) IN
    /\ tie \in story.rows /\ ~PassedOver(b)
    /\ reputation' = Judged(b) /\ rated' = Rated(b)
    /\ memories' = Append(memories, Told(b, tie))
    /\ story' = GoOn([story EXCEPT !.rows = @ \ {tie}, !.informed = @ \cup {b}, !.told = @ + 1])
Share ==
    /\ story # NoStory
    /\ \E tie \in story.rows : PassOver(tie) \/ Tell(tie)
    /\ UNCHANGED <<tick, phase, ties, image, alive, happened, pending, acted,
                   deeds, failures>>

NextPass ==
    /\ phase \in {"direct", "hearsay", "rumor"} /\ story = NoStory /\ pending = {}
    /\ phase' = Passes[(CHOOSE n \in 1 .. 3 : Passes[n] = phase) + 1]
    /\ pending' = PassOf(phase')
    /\ UNCHANGED <<tick, ties, memories, image, reputation, alive, happened, story, acted,
                   rated, deeds, failures>>

\* Every living agent learns of the event of the tick, once.
Unaware == {a \in alive : ~\E i \in DOMAIN memories : /\ memories[i].agent = a
                                                      /\ memories[i].source = "public"
                                                      /\ memories[i].tick = tick}
Public(a) == Memory(a, [deed |-> "event", remark |-> "none"], 500, "public", 1000, NoOne, 0)
Broadcast ==
    /\ phase = "public" /\ phase' = "closing"
    /\ memories' = IF happened THEN memories \o SetToSeq({Public(a) : a \in Unaware}) ELSE memories
    /\ UNCHANGED <<tick, ties, image, reputation, alive, happened, pending, story, acted,
                   rated, deeds, failures>>

-----------------------------------------------------------------------------
(* The end of the tick.                                                      *)

\* Old relationships fade, those of strong feelings slowly, and vanish.
Faded(r) == [r EXCEPT !.strength = Clamp(0, 1000, @ - (FadeRate * (1000 - (8 * Abs(r.sentiment)) \div 10)) \div 1000)]
Evolved(rows) ==
    {r \in rows : tick - r.since < FadeAge}
        \cup {f \in {Faded(r) : r \in {x \in rows : tick - x.since >= FadeAge}} : f.strength >= 50}

\* Memories that are neither recent nor strong fade, the weaker the sooner.
Forgotten(m) ==
    LET age == tick - m.tick IN
    /\ m.agent \in alive /\ m.active /\ age > DecayAge /\ m.weight < 600
    /\ age * 1000 > DecayAge * (1000 + 5 * m.weight)
DecayMemories ==
    memories' = IF tick % DecayInterval # 0 THEN memories
                ELSE [i \in DOMAIN memories |->
                        IF Forgotten(memories[i]) THEN [memories[i] EXCEPT !.active = FALSE] ELSE memories[i]]

FinishTick ==
    /\ phase = "closing" /\ tick < MaxTick
    /\ ties' = Evolved(ties) /\ DecayMemories
    /\ tick' = tick + 1 /\ phase' = "turns" /\ acted' = {} /\ happened' = FALSE
    /\ UNCHANGED <<image, reputation, alive, pending, story, rated, deeds, failures>>

\* The closing task fails: between two rows, or between the opinion and the
\* memory it is followed by, or with part of the relationships faded.  The
\* turns and the closing of the tick are begun anew.
FailFinalize ==
    /\ phase # "turns" /\ failures < MaxFailures /\ tick \in FailTicks
    /\ \/ UNCHANGED <<ties, reputation, rated>>
       \/ /\ story # NoStory
          /\ \E tie \in story.rows :
                LET b == Other(tie, Source.agent) IN
                ~PassedOver(b) /\ reputation' = Judged(b) /\ rated' = Rated(b)
          /\ UNCHANGED ties
       \/ /\ phase = "closing"
          /\ \E rows \in SUBSET ties : ties' = (ties \ rows) \cup Evolved(rows)
          /\ UNCHANGED <<reputation, rated>>
    /\ phase' = "turns" /\ acted' = {} /\ pending' = {} /\ story' = NoStory
    /\ failures' = failures + 1
    /\ UNCHANGED <<tick, memories, image, alive, happened, deeds>>

Next ==
    \/ \E a \in Agents : Act(a) \/ Die(a)
    \/ InjectEvent \/ StartSharing \/ TakeStory \/ Share \/ NextPass \/ Broadcast
    \/ FinishTick \/ FailFinalize

Spec == Init /\ [][Next]_vars

-----------------------------------------------------------------------------
(* Properties.                                                               *)

\* Scores, sentiments and strengths stay within their ranges whatever is done
\* and heard, and every row names agents.
MemoryType ==
    [agent : Agents, words : Words, weight : Scale,
     source : {"direct", "hearsay", "rumor", "public"}, reliability : Scale,
     tick : Ticks, active : BOOLEAN, origin : Agents \cup {NoOne}, hops : Nat]
TypeOK ==
    /\ tick \in Ticks /\ phase \in {"turns"} \cup ToSet(Passes)
    /\ ties \subseteq TieRows
    /\ \A i \in DOMAIN memories : memories[i] \in MemoryType
    /\ \A h, t \in Agents : image[h][t] \in Score /\ reputation[h][t] \in Score
    /\ alive \subseteq Agents /\ acted \subseteq Agents
    /\ pending \subseteq DOMAIN memories /\ story.rows \subseteq ties

\* Nobody counts how often news was passed on: the hop is read back from the
\* reliability, which believers and doubters lower differently.  However often
\* a tick is repeated, no chain of tellers is longer than MaxHops (or two:
\* hearsay is passed on whatever the limit).
ChainsEnd ==
    \A i \in DOMAIN memories :
        memories[i].hops <= IF MaxHops < 2 THEN 2 ELSE MaxHops

\* When the news of a tick is out, every living neighbour of an agent who did
\* something memorable has heard of that agent in this tick, whichever of the
\* two the relationship was recorded for and whoever told it, as long as the
\* agent has no more relationships than recipients are allowed.
Neighbours(a) == {Other(r, a) : r \in {x \in ties : a \in {x.from, x.to}}} \cap alive
NewsReachesNeighbours ==
    phase = "public" =>
        \A i \in PassOf("direct") :
            LET a == memories[i].agent IN
            Cardinality(Neighbours(a)) <= MaxRecipients =>
                \A b \in Neighbours(a) \ {a} : \E j \in DOMAIN memories :
                    /\ memories[j].agent = b /\ memories[j].origin = a
                    /\ memories[j].tick = tick /\ memories[j].source \in {"hearsay", "rumor"}

\* An opinion moves with the news it is drawn from: nobody hears twice in a
\* tick of the same agent, not even when the tick is repeated, and there are
\* never more updates of a reputation than pieces of news and failures.
News(h, t) == {i \in DOMAIN memories : /\ memories[i].agent = h /\ memories[i].origin = t
                                       /\ memories[i].source \in {"hearsay", "rumor"}}
OpinionsFollowNews ==
    \A h, t \in Agents :
        /\ rated[h][t] <= Cardinality(News(h, t)) + failures
        /\ \A i, j \in News(h, t) : memories[i].tick = memories[j].tick => i = j

=============================================================================
