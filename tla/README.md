# Epocha in TLA+

Epocha simulates a society: agents driven by a language model live in zones, work, borrow,
trade property, form couples, die and leave estates, under governments that rise and fall.
It is a Django application; Celery workers move each simulation forward tick by tick. These
TLA+ modules model its stateful core, TLC checks them on small instances, and TLAPS proves
every invariant TLC checks for every value of the constants. Paths below are relative to
`src/epocha/apps/` unless they start with `src/`.

| Module | What it is |
| --- | --- |
| `SerialTicks` | abstract specification: ticks that are whole and come in order |
| `TickLoop` | the Celery tick loop, its HTTP handlers, crashes and redelivery |
| `CreditMarket` | loans, collateral, property market, banking aggregate, default cascade |
| `Succession` | couples and the settlement of estates |
| `Households` | births, what the newborn inherit, deaths, emergency flight |
| `Hearsay` | deeds, memories, relationships, reputation, and news passed on hop by hop |
| `Factions` | groups: review, leaders, dissolution, schism, founding and joining |
| `Politics` | government on top of `Factions`: transitions, elections, coups, corruption |
| `Gateway` | one completion of the language model: fallback, keys, retries, request rows |
| `Knowledge` | uploads, the extraction cache and the graphs, on top of `Gateway` |
| `Orders` | finite sets of numbers in order, parts of sequences |
| `FiniteLemmas` | lemmas the proofs share: sums, folds, orders, what is computed step by step |
| `*Proofs` | theorems about `TickLoop`, `CreditMarket`, `Succession`, `Households`, `Hearsay`, `Knowledge` (with `Gateway`), `Politics` (with `Factions`, in `PolityProofs`) |
| `MC*` | small instances for TLC; the `.cfg` files are named `<module>` or `<module>_<question>` |

`tlc -config X.cfg MCModule` runs a check, `tlapm ModuleProofs.tla` a proof.
`PROJECT.json` lists the runs, the source lines each definition stands for, a mutant per
property, the hazards and the theorems.


## 1. The system

### Processes and shared state

* A web process serves requests, each inside one database transaction
  (`ATOMIC_REQUESTS`, `src/config/settings/base.py`).
* Celery workers run three kinds of task: `run_simulation_loop`, `process_agent_turn`, and
  `finalize_tick`. The first starts a tick (economy, then a chord of turns), the last is the
  chord's callback and enqueues the first again. Messages go through Redis; only
  `process_agent_turn` is acknowledged late.
* All state is rows of PostgreSQL. Nothing but the order of messages keeps two ticks of a
  simulation apart, and most rows are read whole, changed and saved whole.

### Inventory

Each entry: *state*; operations; what it talks to; what is hard; what makes it correct.

1. **Tick loop** (`simulation/tasks.py`, `simulation/views.py`, `agents/tasks.py`).
   *`Simulation.status`, `current_tick`; messages in the broker.* play, pause, run the loop,
   fan out, turn, finalize. Calls every other component. Hard: a task sent before its
   transaction commits, two loops at once, a worker that dies, a pause in the middle of a
   tick, nobody left alive. Correct: one tick at a time, whole and in order; a begun tick
   completes; the loop goes on until paused.
2. **Snapshots and crises** (`simulation/snapshot.py`, `simulation/crisis.py`). *A snapshot
   per tick, crisis events.* Called by `finalize_tick`. Hard: the cooldown's window, a tick
   run twice. Correct: no hole in the series, crises of a type keep their distance.
3. **Credit market** (`economy/credit.py`). *`Loan` rows.* Request, issue, service, mature,
   roll over, default, settle, cascade. Shares cash, ownership and the bank's aggregate with
   4 and 5. Hard: long legal sequences; a loan that is over in one list and not in another.
   Correct: one lien per property, one end per loan, books that balance.
4. **Property market** (`economy/property_market.py`). *`PropertyListing`, `Property.owner`.*
   List, expire, match, sell, expropriate. Hard: a listing outlives what it was true of.
   Correct: what is sold is the seller's and free of liens; money moves and is not made.
5. **Banking** (`economy/banking.py`). *`BankingState`: outstanding total, deposits,
   solvency, base rate, confidence.* Hard: an aggregate written from four places.
6. **Economy engine** (`economy/engine.py`, `market.py`, `distribution.py`, `monetary.py`,
   `production.py`). *Inventories, prices, ledger rows, Agent.wealth.* Runs once per tick,
   zone by zone. Hard: inventory rows cached across the zone loop while other functions save
   the same rows. Correct: trades conserve money and goods; prices converge or stay bounded.
7. **Expectations and political feedback** (`economy/expectations.py`,
   `political_feedback.py`). *Beliefs about prices, government indicators.* Numeric.
8. **Economy initialization** (`economy/initialization.py`, templates). One-off.
9. **Agent actions** (`simulation/engine.py`). *The decision log; mood, health, memories,
   relationships of agents.* Turns an answer into effects. Hard: turns run in parallel.
10. **Decision pipeline** (`agents/decision.py`). Prompt, model answer, parsing.
11. **Memory, reputation, relationships, movement** (`agents/*.py`). *Scores per agent pair.*
12. **Information flow** (`agents/information_flow.py`, `belief.py`, `distortion.py`).
    *Memories with an origin and a reliability.* One hop per tick in `finalize_tick`. Hard: the
    hop is not stored but guessed from the reliability; rows commit one by one and a tick whose
    closing task failed is repeated. Correct: chains end, each recipient hears once per tick
    and origin, everybody who should hear does, opinions move with what was heard.
13. **Factions** (`agents/factions.py`). *`Group`, membership, leader, cohesion.* Form, join,
    leave, elect, split, dissolve. Hard: decisions of the last five ticks applied to groups
    that changed. Correct: members, leader and cohesion agree.
14. **Government and politics** (`world/government.py`, `election.py`, `stratification.py`,
    `institutions.py`). *`Government`, its head and type, institutions, social classes.*
    Transition, coup, election. Hard: a coup, an election and a transition in one tick, stamped
    with different tick numbers. Correct: one unbroken history of regimes, wealth skimmed once.
15. **World generation and legacy economy** (`world/generator.py`, `world/economy.py`).
16. **Couples, fertility, mortality** (`demography/couple.py`, ...). *`Couple` rows, intents in
    the decision log.* Resolve intents, separate, dissolve at death, stable matching of
    founders. Hard: an intent is a tick old when it is resolved. Correct: nobody in two
    couples, nobody coupled with the dead.
17. **Inheritance** (`demography/inheritance.py`). *Wealth, loans of lenders, caretakers,
    wards, treasury.* Settles everyone who died in a tick in one transaction. Hard: heirs and
    testators die together, parents in different ticks, shares that are rounded. Correct:
    value conserved, everything passes to somebody who is alive.
18. **Migration** (`demography/migration.py`). *Zones of families, flight events.* Wages and
    outlook by zone; emergency flight of the starving with their families. Hard: one loop
    relocates people it has still to visit. Correct: the events tell where everybody is; a mass
    flight is measured against those who were there.
19. **Knowledge graph** (`knowledge/*.py`). *Documents, chunks, nodes, a cache of extractions.*
    Hard: an upload is one transaction, so that uploads of the same documents wait for, deadlock
    with and roll back each other; a cleanup. Correct: every upload ends; a graph agrees with
    the extraction it refers to, which stays.
20. **LLM adapter** (`llm_adapter/*.py`). *API keys, request rows, a rate window in Redis.*
    Hard: three nested loops (providers, keys, retries). Correct: nobody is given up early, one
    row per provider asked, the provider that is named is the one that answered.
21. **Chat and dashboard** (`chat/consumers.py`, `dashboard/views.py`). Rendering, and the
    same handlers as 1 plus injected events, which may kill agents at any moment.
22. **Users and API shell** (`users/*.py`). Framework code.

Births, deaths, estates and migration (16, 17, 18) have no caller yet: the repository's plans
put them at the start of a tick.

## 2. The models

Every module follows the same conventions. An action is a handler, or one iteration of a
handler's loop when the loop reads what earlier iterations wrote. A "phase" variable
(`stage`, `pass[s].phase`) says where in the handler the process is, and `todo` is the list
the handler read at its start. Definitions introduced as *Variant* are plausible bugs: the
mutants of `PROJECT.json` put them in the place of the real definition and the property must
fail. Variables marked *history* exist for properties or bounds and no guard of the code
reads them. Every bound is a constant and is named "bound" where it is declared.

### TickLoop

A *pass* is one run of `run_simulation_loop` with the chord it launches and its
`finalize_tick`; nothing in the code keeps passes apart, so they live in slots and interleave
at every write.

| Code | Model |
| --- | --- |
| `play`, both views: set status, `delay()`, commit when the request returns | `PlaySend`, `PlayCommit` |
| `pause` | `Pause` |
| `inject_event_view` | `InjectEvent` |
| `run_simulation_loop`: read the row and stop, or start a tick | `LoopStop`, `LoopStart` |
| `run_economy` | `RunEconomy` (its effect is counted per tick number) |
| the chord, or `finalize_tick` inline when nobody lives | `FanOut` |
| `process_agent_turn` | `TurnStart`, `TurnReturn` |
| its redelivery after a worker died | `TurnRedelivered` |
| the process that runs it is killed: the task fails, and with it the chord | `TurnLost`, `ChordFails` |
| the chord's callback; snapshot and crisis; `save(current_tick)`; re-enqueue | `Finalize`, `Capture`, `Advance`, `Requeue` |
| a worker dies in an early-acknowledged task, or the task raises | `LoseTask` |

While a play request is open, its uncommitted update holds the row lock of the simulation:
`Advance` and `Pause` wait for it, while a reader sees the old status. That is the only lock.
`Patient = TRUE` restricts the *user*: play is pressed only when nothing is in flight. The
code asks for no such thing, so the properties that need it are stated under it, and those
that do not are checked without it.

`SerialTicks` says what a reader of the whitepaper expects: economy once, each agent at most
once, one snapshot, then the counter. `ImplementsSerialTicks` maps `TickLoop` to it
(`tick <- currentTick`, `stage` read off the pass in flight).

*Fairness.* `FairSpec` assumes that an open request commits, that live workers take waiting
`run_simulation_loop` messages and carry a pass through, and that each queued turn is run.
That is what a worker pool does while it is up. Nothing forces a user to press play or
pause, an event to be injected or a worker to die; `TurnRedelivered`, `TurnLost` and `LoseTask`
are unfair and bounded by `MaxCrashes`. Fairness of a pass is one WF over all its steps: a pass
is a single task at any time outside the chord.

### CreditMarket

One simulation, one zone, one currency. `stage` follows the credit block of
`economy/engine.py` and the rest of the tick:

    expire -> market -> service -> mature -> settle -> cascade -> rest -> turns -> (expire)

| Code | Model |
| --- | --- |
| `process_property_listings`: expire, then match each buyer | `ExpireListings`, `MatchBuyer` |
| `default_dead_agent_loans` | `DefaultDeadAgentLoans` |
| `service_loans` and the marking of what it returns | `ServiceLoan`, `DefaultUnserviced` |
| `process_maturity` | `MatureLoan` = `Repay`, `RollOver` or `DefaultAtMaturity` |
| `process_defaults` | `StartSettling`, `SettleLoan` (`Seize`, `WriteDown`) |
| `process_default_cascade` | `StartCascade`, `CascadeLevel` |
| `check_solvency` | `CheckSolvency` |
| a zone with nobody alive skips the block | `SkipCredit` |
| wages, trade, rents, taxes; wealth; `recalculate_deposits` | `RestOfEconomy`: the living may earn, keep or spend all |
| `apply_agent_action`: borrow, sell_property, buy_property, others | `Borrow`, `SellProperty`, `BuyProperty`, `OtherTurn` |
| `issue_loan`: the loan and the read of `BankingState`; the save of its total | `IssueLoan` in `Borrow`; `BookLoan` |
| `issue_loan` with an agent as the lender (only tests call it so) | `LendPrivately` |
| `process_expropriation` after a regime change | `EndTick` |
| `inject_event_view` | `InjectEvent` |

Abstractions: amounts are naturals; a loan carries its interest per tick rather than a rate
(a rollover raises it by one where the code raises the rate); the loan-to-value ratio is one
half, the loss threshold one half and the reserve ratio one tenth as in the code's constants
and templates; a listing's price is any of `Prices` (Gordon's formula sets an asking price);
turns run side by side in the one row they share, `BankingState`: any number of borrowers may
have read its total (`booking`) before the first saves it, and each saves what it read plus its
own loan; the rest of a turn touches rows of its own agent and is one step;
the last tick ends with its credit block, so the credit runs set `CHECK_DEADLOCK FALSE`.

### Succession

`stage` is `turns`, `demography`, or the transaction that is open in it: `bonds` for
`resolve_pair_bond_intents`, `estates` for `process_inheritance_batch`. An intent declared in
the turns of one tick is resolved in the demography part of the next, however often and in
whatever order the functions are called there: the orchestrator that will call them is not
in the repository, so `NextTick`, `BeginTurns` and `Die` are external and assume nothing but
that demography comes before the turns.

| Code | Model |
| --- | --- |
| `apply_agent_action` on pair_bond and separate (logged only) | `PairBond`, `Arrange`, `Separate` |
| `resolve_pair_bond_intents` | `ResolvePairBonds`; per proposer `Bond` = `Form`, `RollBack` or `PassOver`; `CommitBonds` |
| `form_couple` refusing an agent and itself, which aborts the transaction | `RollBack` |
| `resolve_separate_intents` | `ResolveSeparations` |
| `resolve_heirs` | `Children`, `Siblings`, `Spouse`, `Nephews` |
| `distribute_estate`, five rules | `Allocation` |
| `process_inheritance_batch` | `OpenEstates`, `SettleEstate` per deceased, eldest first, `CloseEstates` |
| `apply_estate_tax` | `Tax` |
| `transfer_loans_as_lender` | `PassLoans` |
| `dissolve_on_death` | last line of `SettleEstate` about `couples` |
| `assign_orphan_caretaker` | `Orphaned`, `Guardians`, `GuardianOf` |

Abstractions: agents neither age nor are born (a behaviour is a few ticks long); one decision
per agent and tick, about itself or a child; names are unique; amounts are naturals divided
with a remainder, where the code divides floats, and as there the last heir takes what is
left; only active loans; no rule pays the extended family, so it is left out; the batch and
the resolver are transactions and nothing else runs in between, except that their loops are
unfolded. The stable matching that couples the founders is an initial condition
(`InitialCouples`).

### Households

A tick is `demography` (any births, then deaths, then flight) and `turns`. The design puts
them in this order; births, deaths and flight have no caller in the repository, so who dies
and who has starved for long enough are inputs.

| Code | Model |
| --- | --- |
| `tick_birth_probability`, `is_avoid_conception_active_this_tick`, childbirth mortality | `MayBear`, `Avoiding`, `Malthusian`, `ChildbirthOutcomes`, `Birth` |
| `inherit_trait`, the class rules, education, gender | `InheritTrait`, `SocialClass`, `Education`, `Gender`, `Newborn` |
| mortality, whatever its hazard draws | `Die` |
| `compute_zone_wage`, `compute_zone_unemployment`, `compute_expected_gain`, `build_migration_outlook` | `ZoneStats`, `ExpectedGain`, `FlightTarget` |
| `process_emergency_flight`, agent by agent | `Loop`: `Flee` on each of the starving in turn, from `Setout`; then `Settled`, `Crises`, `MassFlights` |
| `set_avoid_conception_flag` in a turn; what the economy pays, and the clock | `AvoidConception`; `NextTick` |

`Loop` is a function of the number of agents visited, inside one action, because the code is one
transaction whose loop reads what earlier iterations
wrote about *who was relocated* but not about *where its own agent is*: the rows of heads are
saved last. Abstractions: traits in percent, ranks and shares as exact fractions; heritability
one half; a stream of random numbers is a function of the tick (all newborns of a tick draw
the same, as in the code); Becker's modulation is always positive and left out.

### Hearsay

`phase` follows the tick: `turns`, the passes `direct`, `hearsay`, `rumor`, `public`, and
`closing`. One memory is propagated at a time (`story`), one relationship at a time, because
each recipient is a row committed by itself and the code reads earlier ones back.

| Code | Model |
| --- | --- |
| `apply_agent_action` where it makes memories, relationships, images | `Act` |
| `propagate_information`: the three passes and their selection | `StartSharing`, `PassOf`, `TakeStory`, `NextPass` |
| one recipient: reputation, belief, distortion, memory | `PassOver`, `Tell` (`Judged`, `ShouldBelieve`, `Distorted`, `Told`) |
| the public broadcast | `InjectEvent`, `Broadcast` |
| `evolve_relationships`, `run_memory_decay` | `Evolved`, `DecayMemories` in `FinishTick` |
| the closing task raises anywhere; the tick is begun anew | `FailFinalize` |

Abstractions: words are a deed and a remark; scores are in thousandths and truncated. Mood,
health, movement and the type of a relationship are left out.

### Factions and Politics

`Politics` EXTENDS `Factions`: the political cycle closes the tick whose turns and review are
those of `Factions`, and reads its leaders, cohesion and members.

| Code | Model |
| --- | --- |
| form_group and join_group decisions, logged | `FormGroup`, `JoinGroup` |
| `process_faction_dynamics`, per active group | `BeginReview`, `UpdateGroupCohesion`, `UpdateGroupLeadership`, `CheckDissolution`, `CheckSchism` |
| `_detect_and_propose_factions`, reading the decisions | `Clusters`, `DetectAndPropose` |
| the rest of `_process_formation_decisions`, `_create_faction` | `Join`, `Form`, `EndReview` |
| a function raises; the tick is repeated | `Fail` |
| `process_political_cycle`: corruption, `check_transitions`, election, `check_coups`, history | `PoliticalCycle` = `ProcessCorruption`, `Transitioned`, `Elected`, `Overthrown` |

The political cycle is one transaction under a lock of the Government row, hence one action.
Abstractions: cohesion is a band between the thresholds the code compares it with; leadership
scores, affinities and votes are the choice they lead to; the indicators are which transition
qualifies and whether the government is stable. `_check_join_existing_groups` only suggests.

### Gateway and Knowledge

`Knowledge` EXTENDS `Gateway`: an upload asks for one completion per chunk, and the chat and
the turns are callers of their own. Callers share nothing in the gateway but everything in
`Knowledge`: documents, chunks, cache. A client is made for one completion (extraction, turns:
`Ask`) or used for several (the group chat, `dashboard/views.py:897` and 931-972: `AskAgain`): the
key in use and the provider last used are the client's and outlive a completion.

| Code | Model |
| --- | --- |
| `complete` of the fallback and of a provider, `_call_api`, `_rotate_key` | `Ask` or `AskAgain`, `Answer`, `GiveUp`, `RateLimited` (`Rotated`, `NextKey`, `Exhausted`), `Refused`; `Done` when the caller goes on |
| the request and its transaction: begin, commit, roll back | `Start`, `Report`, `Fail`, `RollBack`, `Settle` |
| `extract_and_generate`: ingestion, chunks | `IngestDocument`, `Chunk`, `CreateChunks` |
| the cache; extraction by the model; persisting | `CheckCache`, `SaveHit`, `AskModel`, `ExtractFromChunk`, `PersistCache` |
| merging and `materialize_graph` | `Ambiguous`, `Resolved`, `MaterializeGraph`, `Report` |
| any other exception; a deadlock found by the database | `Abort`; `Deadlock` |
| `cleanup_extraction_cache`, after a month | `Age`, `ChooseCandidates`, `DeleteCandidates` |

The only caller of `extract_and_generate` is the POST of `knowledge/api.py`, and
`ATOMIC_REQUESTS` (`config/settings/base.py:25`) makes a request one transaction. A row is
therefore nobody's, an upload's (`NoOne`, `u`) or committed (`Kept`); others see committed rows
only, and whoever writes a unique key that another upload has written, or updates a row it has
updated, waits for its end (`Blocker`). An exception that leaves the transaction usable is
answered with "failed" and *commits* what was written (`Fail`); one raised by the database
outside a savepoint makes the handler's own query raise, and everything is undone (`RollBack`).
Documents and the graph are created behind savepoints, chunks and cache rows are not. The
chunks of a document are one step: the first index decides who may write the others.

Reductions: what a chunk says is a set of mentions and relations; merging is which mentions are
alike; embeddings, texts and citations are left out; each upload has a user of its own; a
document has text. A month passes only while no upload is under way. *Fairness:* an upload that
has begun goes on unless it waits, the database breaks circles of waits, and the API answers or
refuses (`WF(UploadStep)`, `WF(Deadlock)`, `WF(Asked)`); nobody need begin an upload, and
`Abort`, the cleanup and the chat are unfair.


## 3. What TLC checks

| Run | Shows |
| --- | --- |
| `tick_serial` | One patient user, no crash: the loop implements `SerialTicks`; begun ticks complete, paused or not; the loop keeps ticking; crises keep their cooldown |
| `tick_overlap` | Play at any moment, one crash: no hole in the snapshot series, a lasting pause ends every loop |
| `credit` | Liens, listings, owners and the ends of loans stay consistent; the bank's book, nobody's cash below zero, sales that make no money |
| `succession` | Estates conserved, one couple each, loans and orphans provided for, only the living inherit, no escheat past a child or spouse |
| `households` | Flight events tell where everybody ended; mass flights count no more than were there; avoiding conception holds for the one tick it should |
| `hearsay` | Chains of tellers end though hops are guessed; news of a tick reaches every living neighbour; opinions move with news |
| `polity` | Founders belong to their new group and to no other; groups get living leaders; the history of regimes has no gap; skimmed wealth is conserved |
| `knowledge` | A graph's extraction outlives the cleanup and others' rollbacks, and a ready graph agrees with it; no key is left untried; every upload ends, whoever waits for whom |
| `tick_lost_start` | *violated*: play starts the loop |
| `tick_restart` | *violated*: a running simulation survives a worker's death |
| `succession_book` | *violated*: the bank's total is the sum of its active loans |
| `succession_ghosts` | *violated*: death dissolves every couple |

Each module's `TypeOK` is an invariant of its run, and every property of a passing run has a
mutant of the code that breaks it.

### Bounds, and why they are enough

* `tick_serial`: two agents (turns interleave), two slots (a second loop would have room to
  appear), three ticks, two presses of play (stop and resume), cooldown 1 so that both an
  allowed and a forbidden distance occur within three ticks.
* `tick_overlap`: one agent, two slots and two presses are what two concurrent loops take;
  two ticks let one loop overtake the other; one crash hits any step of any pass, or the process
  of any turn.
* `credit`: loans live two ticks, so that interest is serviced before maturity, and a
  borrowing, a rollover, a default and its settlement still fit in three ticks. One loan between
  agents makes cascades and seizure by an agent possible; five rows leave room for each loan's
  rollover (`Room`). Two agents with properties of different value give a buyer, a seller, a
  median and an elite of one. Two borrowers make two saves of the bank's total cross. 2.9 million
  states. The lien properties were also checked with
  loans that fall due after one tick (5.0 million states).
* `succession`: a family of six, one dead before (mother, father, an older and a younger
  minor, an uncle, the late grandmother): every category of kin a rule or the
  caretaker search distinguishes has a member, the uncle lives in another zone, the daughter
  is a minor under some eras and not under others. Five eras, one per rule, with and without
  divorce, tax and implicit consent. Seven units each make every share leave a remainder.
  Two loans are enough for the round among heirs. Two intents may be mutual, competing,
  arranged against chosen, or an agent naming itself. Any subset may die at any time, so
  testators and heirs die together and parents in either order.
* `households`: a child, its mother and old father in one zone, a worker in each of two
  others, and one agent still to be born: a head, a partner and a minor exist in every order of
  ids that the loop distinguishes. The near zone pays less than the far one or more, so that a
  target exists for some and not for others. A flight window of two ticks within three lets
  a flight fall out of it. Four templates cover the four class rules, with couples required or
  not, ceilings reached and floors of zero. One death, at any point.
* `hearsay`: three agents in a row give two hops; the tie between the last two exists in both
  directions, so a neighbour is reachable twice. MaxHops is two, so that the limit bites in three
  ticks. The teller in the middle distorts and the last one doubts. Two deeds, one death, one
  event, one failure at any row of the second tick. 3.2 million states.
* `polity`: four agents and three groups let a group split and a new one be founded out of it;
  every tick is a review, so that decisions, their application and a repeated tick fit in three.
  Three events (decisions, deaths, failures, changes of power) are what a poached founder, a
  lost leader or a coup after a transition take. Two worlds: all in one group, or three without
  any. 6.1 million states.
* `knowledge`: two uploads of the same two documents in opposite orders deadlock on the
  documents when these are new, on their chunks when an earlier upload left the documents alone
  (`Earlier`), and race for the cache when it left the chunks too; a month-old extraction lets
  hits meet the cleanup. Two chunks may speak of an entity in two senses. One provider with three
  keys and one with one, chained, and one retry per key walk each of the three loops of the
  gateway at least twice in all. The chat asks twice (`MaxAsks`), the second time with a client
  of any history: it starts at any key, and its rotation goes past the end of the list. As it
  shares nothing with the uploads, it asks only while none is under way (`Apart`). One unexpected
  exception, at any step. 0.8 million states.
  What is shown is compared with the cache only until the cleanup has deleted a row (`swept`):
  section 5 says what may happen then.

`CHECK_DEADLOCK FALSE` stands where a bound stops the clock or where the work ends (uploads).


## 4. What TLAPS proves

Every invariant and every action property of a passing run is a theorem of its specification, and
so is the refinement of `SerialTicks`. The theorems hold for every set of agents, loans, eras,
providers and for every bound. The assumptions are the named `ASSUME`s of the modules, which TLC
evaluates on every run:

* the types of the constants, with agents, properties, loans, groups, uploads and documents finite
  in number (sums and counts over them mean nothing otherwise), and bounds that leave room for a
  first tick where a module starts in it;
* `Succession`: founders are alive and in one couple at most, founding minors have a living parent;
* `Gateway`: a chain of providers is not empty, nor are its keys;
* `Knowledge`: what a chunk may speak of is a record of mentions and relations; documents are
  numbered in the order of their ids;
* `Households`: founders are of the type of a person, every tick has a draw, wages are natural;
* `Factions`: a ranking has no ties (the code breaks them by the order of its query);
* `Hearsay`: `MaxHops <= 7`, as the table of `EstimateHop` in thousandths counts no further than
  seven hops; the code's default is 3.

### The arguments

* **TickLoop.** `TypeCorrect` is inductive by itself. `SnapshotsHaveNoGap` needs `GapInv`:
  a pass that has not captured its snapshot works on a tick whose predecessor is captured,
  one that has, on a captured tick. `SerialInv` says
  that with a patient user there is at most one message or pass, its tick is
  `currentTick + 1` until it is saved and equal to it afterwards, no crisis lies in the
  future; `OneLoopOnly`, `TicksComeInOrder` and `CrisesKeepTheirDistance` follow, crashes
  included.
  `LoopImplementsSerialTicks` is the refinement, under `Patient` and `MaxCrashes = 0`: neither can
  be left out, since a second loop or a redelivered turn does something twice. `WholeInv` says
  what has happened at the ticks to come: nothing, and at the next one what the pass in flight
  (`PassInv`) has done. `SerialSimulation` then takes each action to a step of `SerialTicks` or to
  a stutter.
* **CreditMarket.** `ShapeCorrect` types the rows. `PhasesKeepTheirRows` (`PhaseOK`) says what
  the rows in `todo` and `failing` are in each phase: without it a settled loan could be
  settled again. From these, `LiensHold` proves `OneLienPerProperty` and `SecurityHeld`
  together, for neither is inductive alone: that a rollover or a sale keeps one needs the
  other. `LiensBlockTransfers`, `EndsAreFinal`, `ListingsAreTheOwners`, `NobodyOverdrawn` and
  `DefaultsSettle` build on them. `MoneyHolds` is about sums: the bank's total, and every total
  a turn has read and not yet saved, leave room below what the bank's rows owe for all that is
  still to be booked, so that whichever save comes last claims too little, never too much;
  they are exact until one save overwrites another (`overwritten`). Write-downs come only when no
  turn is open, and a row that is not over still owes all it was made for (`Whole`): in exact books
  no subtraction stops at zero, where the code clamps it, and in the others the clamp stays below
  what is owed.
  `CreditMarketIsTyped`, `BankBookBalances` and `SalesMakeNoMoney` follow.
* **Succession.** `CouplesAreDisjoint` is inductive over `couples \cup formed`: who proposes
  and who is proposed to must both be free, counting couples of the same resolution.
  `EstateInv` joins `CreditInv` (during a batch only the living have credit), `LoanInv` (loans
  are held by the bank, the living or the dead still to be settled) and `OrphanInv` (a minor
  without parents has been provided for or is noted in the batch). The lemma `HeirsLive`, that
  each of the five rules pays the living only, carries the step. `LoansKeepHolders`,
  `OrphansAreProvidedFor` and `DeadInheritNothing` follow. `EstatesAreConserved` rests on one lemma
  per rule that its shares, remainders included, sum to the estate (`Exact`); the sharia rule
  needs `OneCoupleEach`, for two spouses would each be paid the fixed share that one leaves free.
  `EscheatIsLast` reads the rules the other way: who leaves a child or spouse leaves an heir.
* **Households.** `ChoicesLastOneTick` needs `FlagInv`: whose flag carries which tick in the
  turns and in the demography part. A flag is written with one value of the clock and compared
  with another, which is right only if no tick comes between. `HouseholdsAreTyped` (`TypeInv`)
  bounds what is computed: inherited traits stay percentages, ranks stay fractions, events never
  lie ahead of the clock. `FlightsAreTold` is an invariant of the loop inside one action (`Tells`):
  the events made so far tell where the loop has moved whom, and their heads are among those
  visited and distinct; written at the end (`SettledIs`), rows and events agree.
  `MassFlightsAreMeasured` counts the heads of the window among those who lived in the zone.
* **Hearsay.** `HearsayIsTyped` (`TypeInv`). `NewsEnds` needs `ChainInv`: a memory so many hops
  from its origin has at most the reliability that so many hops of undoubted news leave
  (`Carry`), so that the hop the code reads back from the reliability is never too low, only too
  high. `OpinionsAreFounded` needs `OpinionInv`: the set of those informed, which the code reads
  once per memory and then keeps by hand, is at each step what the rows of the tick say,
  after a failed and repeated tick too; and nobody has two rows of a tick about one agent
  (`HeardOnce`). `NeighboursHear` needs `ReachInv`: whoever was passed over has been informed or
  is out of reach (`Settled`), and the recipients counted against `MaxRecipients` are no more than
  the neighbours who have heard, so that
  a limit as large as the neighbourhood never cuts it short.
* **Factions and Politics.** `PolityIsTyped` (`PolityInv`) carries which groups the review has
  still to visit. `FoundersStay` needs `BornInv`: who joins or founds has founded no group in this
  review, and a group under review was not founded in it. `GroupsAreLed` needs `LedInv`: a group
  the review is through with has a leader among its living members or has lost it to its
  own split, and `BornInv` besides, for a new group must not take the number of one that is
  remembered as the split. `SkimmingConservesWealth` (`WealthInv`) is a sum over the purses.
  `HistoryHasNoGap` needs `HistInv`: the history is a chain (`Chained`) whose last
  row is the government's (`InForce`), and `Forward`: unless a tick failed, its rows have begun by
  the tick before, or by the tick that runs once the political cycle is over. A transition stamps
  its row with the former and a coup, later in the same cycle, with the latter: in this order
  alone no row ends before it begins. `NewRowStep` says what a new row does to a chain;
  `ClockStep` what the factions' steps do to the clock.
* **Gateway and Knowledge.** `AllKeysAreTried` is about the gateway. `Progress` reads the three
  loops of a completion off the history of requests, whichever key it began with: counted backwards
  from the one in use and round the end of the list (`Ago`), as many keys as `keysTried` says were
  tried `MaxRetries + 1` times each, those further back not at all, and of the providers not asked
  yet no key was used. `Rotation` says that `NextKey` moves every key one further back and brings
  the one furthest back into use, wherever the list ends. `CallInv` adds what the rows logged so far say. The property alone is not
  inductive: that a rate-limited provider is given up only at the end needs the keys to be
  visited in order, each to its last retry. `LimitedStays` says that the history behind a row is
  never touched again. `GraphsKeepTheirCache` needs `CacheInv`: from its hit or its insertion
  until it is over an upload holds its cache row (`Holds`), by the row's lock or as its own; once
  it is over, its graph keeps the cleanup away. `OthersUndisturbed` says once for all steps that
  an upload leaves committed rows and the rows and locks of the others alone. `KnowledgeIsTyped`
  (`PipelineInv`) is more than types: an upload that asks the model has a chunk left to ask about,
  nobody has access through a document row another upload has not committed, a cache row counts no
  more hits than uploads that are over, each once and at its end, and no key is asked more often
  than its retries allow.

### The method

Induction over data is replaced by three things. Statements about finite sets are proved by a
minimal counterexample (`FiniteMin`): of the subsets for which one fails there is a smallest, and
an element less it holds. So are the laws of sums over sets (`SumAdd`, `SumRemove`,
`SumChange`, `SumUnion`), of folds (`FoldInvariant`, `FoldType`) and of sets in ascending order
(`InOrderIs`, `InOrderCovers`). What a loop inside an action computes is a recursive function on
numbers; that it exists, and that what holds at its start and is kept by each iteration holds at
its end, are `StepsExist` and `CountUp`. `SortSeq`, `SelectSeq` and `SetToSortSeq` have no
definition the provers can unfold; where a proof depends on the order, the models say the same
with `Orders`, or define it (`ChunkList`, whose places are shown to be a bijection by
`ChunkListIs`).

Only model-checked: `BegunTickCompletes` and `KeepsTicking` (`tick_serial`), `PauseStopsLoops`
(`tick_overlap`) and `UploadsEnd` (`knowledge`), because liveness under fairness speaks of what is
enabled. The four runs that end in a violation are counterexamples and need no proof.


## 5. Where the code and its documents part

Checked by the four runs above that end in a violation:

* `play` sends its task inside the request's transaction. A worker that takes it before the
  commit reads the old status and ends the loop; the simulation shows as running and never
  ticks (`tick_lost_start`).
* A worker that dies in `run_simulation_loop` or `finalize_tick` takes the loop along: only
  the turns are acknowledged late (`tick_restart`).
* Loans that fall to the banking system because their lender died without heirs are not added
  to `total_loans_outstanding`; when they end they are subtracted from it all the same
  (`succession_book`).
* An agent that proposed, died and was settled is coupled all the same (`succession_ghosts`).

Met while modelling and not run:

* Pressed twice, `play` starts two loops, and the slower pass stores its older tick over the
  newer one (`simulation/tasks.py:122`; `Advance` models it).
* `issue_loan` reads `BankingState`, adds its loan and saves the total (`economy/credit.py:359`)
  while other turns do the same: of two borrowers in one tick one may go unbooked. The total then
  lies below what the loans owe, and as it is only ever written by differences it stays there while
  these loans run; the solvency check, which subtracts it from the deposits, is too lenient. It is never above (`BankBook`).
* A child process that is killed in a turn fails the task, for `task_reject_on_worker_lost` is not
  set; the chord then never calls `finalize_tick` and the loop ends, late acknowledgement or not.
* `simulation/engine.py:318` trusts the resolver to filter invalid targets; an agent that
  names itself makes `form_couple` raise, and every couple of that resolution is lost.
* An heir who owes the deceased money becomes its own lender.
* A caretaker who dies is not replaced: the ward's parents are no longer in any batch.
* The database's unique constraint on active couples is per ordered pair, so it does not by
  itself keep an agent out of two couples; the resolver's checks do.
* A bequest is added to `Agent.wealth`, which the next economy tick recomputes from cash,
  goods and property.
* `simulation/engine.py:160` stores the deed as the *actor's* image of the *victim*, where
  `agents/reputation.py:229` describes the holder as the one who observed the target perform it.
* The sentiment of hearsay is taken from the memory's content, "NOT the distorted content"
  (`agents/information_flow.py:235`); from the second hop on that content is already distorted.
  A doubted rumour is so weak that it counts as at the hop limit and is never passed on. With a
  limit of one, news still travels two hops: the hearsay pass does not look at the limit.
* An own deed is not remembered when the last thing heard was the same deed of somebody else
  (the duplicate check compares the beginning of the text).
* A repeated tick may leave a government history row that ends before it begins: transitions
  are stamped with the tick before, coups with the tick that runs (`HistoryContiguous` allows
  it only after a failure).
* A trapped agent is said never to be relocated and to be among those told of its crisis
  (`demography/migration.py:1320`), but a relative with a target takes it along when the loop
  has visited it before; it is then not told.
* A starving minor with a smaller id than its parents flees alone and is then listed as a member
  of the parent's flight; it ends at its own target. Dependants that were taken along are missing
  from the population a mass flight is measured against.
* The Malthusian factor falls to almost zero just below the ceiling and is the floor of the
  template at the ceiling. The newborn keep the model's default age.
* Merging writes `passage_excerpt`, materialization reads `passage_excerpts`
  (`knowledge/materialization.py:162`): no citation is ever made.
* Merging may leave two nodes of one type and canonical name (`knowledge/merge.py:264`), which
  the unique constraint refuses after the cache entry was stored: these documents fail for ever.
* While the model cannot be reached, extraction finds nothing and the empty result is cached.
* `knowledge/tasks.py:148` calls itself "wrapped as a Celery task in production". It is not:
  the request does all of it, model calls included, in its transaction, and holds the unique keys
  of its documents meanwhile. Uploads of the same documents wait for it; in opposite orders
  they deadlock and one fails. As a task, without that transaction, another hazard would appear:
  a document with one chunk is taken to have them all, and chunks are created one by one.
* Of two uploads that extract the same documents at once, the slower fails at the cache's unique
  key, or already at the chunks'. `extract_and_generate` says that it returns a status, but its
  handler queries a broken transaction: the request ends in an error, and its documents, its
  simulation and the record of its model calls (`LLMRequest`) are undone.
* A failed upload has usually no graph yet and shows as `no_graph`; the status written otherwise,
  `failed`, is not among the model's choices.
* A hit is read and saved by two statements. If the cleanup deletes the row in between and another
  upload has stored a new one, the hit is counted on the new row and the graph, made of the old
  extraction, refers to it (TLC finds it when `~swept` is dropped from `GraphsRestOnCache`).


## 6. What is not modelled, and the plan

Not modelled: prompts and answers of the language model (any decision may come), rendering,
accounts and templates; numeric scores (mood, affinity, prestige, expectations, production
and prices) that no modelled guard reads; the probabilities of births and deaths and the
truncated moments behind heritability (numerical analysis); the rate limiter, which has no
caller. `PROJECT.json` gives the status of each of the 22 components and the hazards no
property covers, with the reason.

Done: `TickLoop` against `SerialTicks`; `CreditMarket`; `Succession`; `Factions` and `Politics`;
`Gateway` and `Knowledge`; `Hearsay`; `Households`; proofs of every invariant and every action
property of the passing runs, and of the refinement.

Left, in order:

1. Two more refinements, each with its proof: an abstract loan (active, in default, over) that
   every row of `CreditMarket` implements, and a transaction that leaves all or nothing behind,
   which an upload of `Knowledge` implements up to the rows it committed with a failure.
2. `Exchange` (`economy/market.py`, `distribution.py`): clearing with rationing conserves
   goods and money; the inventory cache of the zone loop against the credit block.
3. `StableMatching` (`demography/couple.py`): the deferred acceptance that founds couples,
   against the definition of stability over all preferences of three and three.
4. `Politics` composed with the expropriation of `CreditMarket` through the event that
   triggers it.

Runs are few on purpose: one per question. Where a later module asks a sharper question than
a run above, it takes that run's place.
