----------------------------- MODULE Succession -----------------------------
(***************************************************************************)
(* Couples and estates (demography/couple.py, demography/inheritance.py):  *)
(* pair_bond and separate intents settled a tick after they were declared, *)
(* and process_inheritance_batch, which settles everyone who died.         *)
(*                                                                         *)
(* The orchestrator that will call these once per tick is not in the code  *)
(* yet, so they are called here in any order, and any number of times, in  *)
(* the demography part of a tick.  Each runs in one transaction of which   *)
(* the iterations of its loop are the steps.                               *)
(*                                                                         *)
(* Data: amounts are naturals, divided with a remainder as floats are      *)
(* divided with a rounding error.  Agents do not age and nobody is born:   *)
(* a behaviour is a few ticks long.  "Eldest" stands for the two orders of *)
(* the code, age descending and birth_tick ascending, both with least id.  *)
(*                                                                         *)
(* A definition introduced as "Variant" is one with a plausible bug, used  *)
(* only to show that a property notices it; Next uses none.                *)
(***************************************************************************)
EXTENDS Integers, FiniteSets, FiniteSetsExt

CONSTANTS
    Agents,          \* agent ids
    Parents,         \* parent_agent and other_parent_agent, where recorded
    Men, Women,      \* by gender; an agent may be neither
    Age, Zone,       \* of each agent
    Eras,            \* era templates a simulation may have
    Loans,           \* ids of the active loans
    InitialLender,   \* lender of each loan
    Balance,         \* remaining_balance of each loan
    InitialAlive,    \* the others died before
    InitialCouples,  \* couples of the founders
    InitialWealth,   \* Agent.wealth
    Matches,         \* bound: pairs an intent may name
    MaxIntents       \* bound: intents declared in all

Bank == 0        \* lender None, "banking"
Nobody == 0      \* caretaker None

Rules == {"primogeniture", "equal_split", "sharia", "matrilineal", "nationalized"}
EraType == [rule : Rules, tax : 0 .. 100, adulthood : Nat,
            divorce : BOOLEAN, implicitConsent : BOOLEAN]
IsCouple(c) == \E x, y \in Agents : x # y /\ c = {x, y}

ASSUME PeopleAssumption ==
    /\ Agents \subseteq Nat \ {0} /\ IsFiniteSet(Agents)
    /\ Parents \in [Agents -> SUBSET Agents]
    /\ Men \subseteq Agents /\ Women \subseteq Agents
    /\ Age \in [Agents -> Nat] /\ InitialAlive \subseteq Agents
    /\ InitialWealth \in [Agents -> Nat]
    /\ Matches \subseteq Agents \X Agents /\ MaxIntents \in Nat
ASSUME FoundersAssumption ==
    /\ \A c \in InitialCouples : IsCouple(c) /\ c \subseteq InitialAlive
    /\ \A c, d \in InitialCouples : c # d => c \cap d = {}
    /\ \A c \in InitialAlive, e \in Eras :
        Age[c] < e.adulthood /\ Parents[c] # {} => Parents[c] \cap InitialAlive # {}
ASSUME BooksAssumption ==
    /\ Eras \subseteq EraType /\ IsFiniteSet(Loans)
    /\ InitialLender \in [Loans -> InitialAlive \cup {Bank}]
    /\ Balance \in [Loans -> Nat]

VARIABLES
    era,        \* the template of the simulation
    stage,      \* the part of the tick, or the transaction that is open
    todo,       \* agents the open transaction has still to process
    alive,      \* agents with is_alive
    unsettled,  \* who died since the last batch
    wealth,     \* Agent.wealth
    treasury,   \* Government.government_treasury
    couples,    \* active couples
    formed,     \* couples formed in the open transaction
    intent,     \* the last decision of each agent, if it is about couples
    credit,     \* pending_credits of the batch
    orphans,    \* orphan_candidates of the batch
    caretaker,  \* caretaker_agent
    wards,      \* agents with the condition "state_ward"
    lender,     \* lender of each loan
    bank,       \* BankingState.total_loans_outstanding
    intents     \* history: intents declared

batch == <<credit, orphans>>
people == <<alive, wealth, treasury, caretaker, wards>>
books == <<lender, bank>>
vars == <<era, stage, todo, alive, unsettled, wealth, treasury, couples, formed, intent,
          credit, orphans, caretaker, wards, lender, bank, intents>>

Stages == {"turns", "demography", "estates", "bonds"}
NoIntent == [kind |-> "none", for |-> 0, match |-> 0]
IntentType == [kind : {"none", "bond", "arrange", "separate"},
               for : Agents \cup {0}, match : Agents \cup {0}]

Total(f, S) == SumFunctionOnSet(f, S)

\* Elders first.
Before(x, y) == Age[x] > Age[y] \/ (Age[x] = Age[y] /\ x < y)
\* The first of a set, as a set of at most one.
Eldest(S) == {x \in S : \A y \in S \ {x} : Before(x, y)}
Least(S) == {x \in S : \A y \in S : x <= y}

Init ==
    /\ era \in Eras
    /\ stage = "turns" /\ todo = {} /\ formed = {}
    /\ alive = InitialAlive /\ unsettled = {}
    /\ wealth = InitialWealth /\ treasury = 0
    /\ couples = InitialCouples
    /\ intent = [a \in Agents |-> NoIntent] /\ intents = 0
    /\ credit = [a \in Agents |-> 0] /\ orphans = {}
    /\ caretaker = [a \in Agents |-> Nobody] /\ wards = {}
    /\ lender = InitialLender
    /\ bank = Total(Balance, {l \in Loans : InitialLender[l] = Bank})

-----------------------------------------------------------------------------
(* The turns: an agent decides, once a tick, for itself or for a child.      *)
(* Nothing checks whom it names.                                             *)

Decide(a, decision) ==
    /\ stage = "turns" /\ a \in alive
    /\ intent[a] = NoIntent /\ intents < MaxIntents
    /\ intent' = [intent EXCEPT ![a] = decision]
    /\ intents' = intents + 1
    /\ UNCHANGED <<era, stage, todo, unsettled, couples, formed, people, batch, books>>

PairBond(a) ==
    \E b \in Agents :
        <<a, b>> \in Matches /\ Decide(a, [kind |-> "bond", for |-> a, match |-> b])
\* (Anyone may arrange a couple; who does plays no part in what follows.)
Arrange(a) ==
    \E c, b \in Agents :
        /\ <<c, b>> \in Matches /\ a \in Parents[c]
        /\ Decide(a, [kind |-> "arrange", for |-> c, match |-> b])
Separate(a) == Decide(a, [kind |-> "separate", for |-> a, match |-> 0])

\* The next tick begins: demography comes before its turns.
NextTick ==
    /\ stage = "turns"
    /\ stage' = "demography"
    /\ UNCHANGED <<era, todo, unsettled, couples, formed, intent, intents, people, batch, books>>

\* The turns of this tick begin; the resolvers read the last tick's log only.
BeginTurns ==
    /\ stage = "demography"
    /\ stage' = "turns"
    /\ intent' = [a \in Agents |-> NoIntent]
    /\ UNCHANGED <<era, todo, unsettled, couples, formed, intents, people, batch, books>>

\* Mortality.  (Whoever an injected event kills during the turns might as well
\* die now: no other turn looks at it.)
Die ==
    /\ stage = "demography"
    /\ \E dead \in SUBSET alive \ {{}} :
        alive' = alive \ dead /\ unsettled' = unsettled \cup dead
    /\ UNCHANGED <<era, stage, todo, wealth, treasury, caretaker, wards, couples, formed,
                   intent, intents, batch, books>>

-----------------------------------------------------------------------------
(* resolve_pair_bond_intents and resolve_separate_intents. *)

\* Names are looked up among the living; who declared the intent is not.
Direct == {a \in Agents : intent[a].kind = "bond" /\ intent[a].match \in alive}
ArrangedFor(c) ==
    {intent[a].match : a \in {b \in Agents : /\ intent[b].kind = "arrange"
                                             /\ intent[b].for = c
                                             /\ {c, intent[b].match} \subseteq alive}}
Proposers == Direct \cup {c \in Agents : ArrangedFor(c) # {}}

\* A child's own choice comes before its parents'.
Target(p) ==
    CHOOSE t \in Agents : t \in IF p \in Direct THEN {intent[p].match} ELSE Least(ArrangedFor(p))
Mutual(p) == Target(p) \in Proposers /\ Target(Target(p)) = p

\* Variant: sees the couples from before the resolution only.
TakenBefore(a) == \E c \in couples : a \in c

Taken(a) == \E c \in couples \cup formed : a \in c

ResolvePairBonds ==
    /\ stage = "demography"
    /\ stage' = "bonds" /\ todo' = Proposers
    /\ UNCHANGED <<era, unsettled, couples, formed, intent, intents, people, batch, books>>

Fit(p) == ~Taken(p) /\ ~Taken(Target(p)) /\ (Mutual(p) \/ era.implicitConsent)

\* Variant: form_couple accepts an agent and itself.
FormAny(p) == Fit(p) /\ formed' = formed \cup {{p, Target(p)}} /\ todo' = todo \ {p}

Form(p) ==
    /\ Fit(p) /\ Target(p) # p
    /\ formed' = formed \cup {{p, Target(p)}}
    /\ todo' = todo \ {p}

\* form_couple refuses to couple an agent with itself, and the exception
\* rolls the whole resolution back.
RollBack(p) ==
    /\ Fit(p) /\ Target(p) = p
    /\ formed' = {} /\ todo' = {}

PassOver(p) == ~Fit(p) /\ todo' = todo \ {p} /\ UNCHANGED formed

Bond ==
    /\ stage = "bonds"
    /\ \E p \in Least(todo) : Form(p) \/ RollBack(p) \/ PassOver(p)
    /\ UNCHANGED <<era, stage, unsettled, couples, intent, intents, people, batch, books>>

CommitBonds ==
    /\ stage = "bonds" /\ todo = {}
    /\ stage' = "demography"
    /\ couples' = couples \cup formed /\ formed' = {}
    /\ UNCHANGED <<era, todo, unsettled, intent, intents, people, batch, books>>

ResolveSeparations ==
    /\ stage = "demography" /\ era.divorce
    /\ couples' = {c \in couples : \A a \in c : intent[a].kind # "separate"}
    /\ UNCHANGED <<era, stage, todo, unsettled, formed, intent, intents, people, batch, books>>

-----------------------------------------------------------------------------
(* Kin, and resolve_heirs.  (No rule pays the extended family.) *)

\* Variant: children who are dead too.
ChildrenEver(d) == {c \in Agents : d \in Parents[c]}

Children(d) == {c \in alive : d \in Parents[c]}
Siblings(d) == {s \in alive \ {d} : Parents[s] \cap Parents[d] # {}}
Grandparents(d) == UNION {Parents[p] : p \in Parents[d]}
AuntsAndUncles(d) == {a \in Agents \ Parents[d] : Parents[a] \cap Grandparents(d) # {}}
Nephews(d) == UNION {Children(s) : s \in Siblings(d) \cap Women}

\* The living partner in the active couple.
Spouse(d) == {s \in alive \ {d} : {d, s} \in couples}

(* distribute_estate. *)

\* Among whom a sharia estate is divided, apart from the spouse's share.
Pool(d) == IF Children(d) # {} THEN Children(d) ELSE Siblings(d)

\* The order in which the heirs are listed: elders first, but a spouse who is
\* listed after the children or siblings.
Listed(d, x, y) ==
    LET after == IF era.rule \in {"equal_split", "sharia"} THEN Spouse(d) \ Pool(d) ELSE {}
    IN  IF (x \in after) = (y \in after) THEN Before(x, y) ELSE y \in after
IsLast(d, x, S) == \A y \in S \ {x} : Listed(d, y, x)
Rank(d, x, S) == Cardinality({y \in S : Listed(d, y, x)})

\* Parts in proportion to units, one or two for each heir; the last takes what
\* is left.
Split(d, S, amount, units) ==
    LET part == [h \in S |-> (units[h] * amount) \div Total(units, S)]
    IN  [h \in S |-> IF IsLast(d, h, S)
                     THEN amount - Total(part, S \ {h}) ELSE part[h]]

\* Variant: daughters and sisters do not succeed.
FirstBornSon(S) == Eldest(S \cap Men)

\* The eldest male, or the eldest.
FirstBorn(S) == IF S \cap Men # {} THEN Eldest(S \cap Men) ELSE Eldest(S)

Primogeniture(d) ==
    IF Children(d) # {} THEN FirstBorn(Children(d))
    ELSE IF Spouse(d) # {} THEN Spouse(d)
    ELSE FirstBorn(Siblings(d))

\* A widower's half or quarter, a widow's quarter or eighth; then twice as
\* much for a man.
ShariaSplit(d, amount) ==
    LET pool == Pool(d)
        fixed == IF Spouse(d) = {} THEN 0
                 ELSE amount \div ((IF Spouse(d) \subseteq Men THEN 2 ELSE 4)
                                   * (IF Children(d) # {} THEN 2 ELSE 1))
        shares == Split(d, pool, amount - fixed, [h \in pool |-> IF h \in Men THEN 2 ELSE 1])
    IN  IF pool = {} THEN [h \in Spouse(d) |-> amount]
        ELSE [h \in pool \cup Spouse(d) |->
                (IF h \in pool THEN shares[h] ELSE 0) + (IF h \in Spouse(d) THEN fixed ELSE 0)]

Equal(d, S, amount) == Split(d, S, amount, [h \in S |-> 1])

Allocation(d, amount) ==
    CASE era.rule = "primogeniture" -> Equal(d, Primogeniture(d), amount)
      [] era.rule = "equal_split" -> Equal(d, Children(d) \cup Spouse(d), amount)
      [] era.rule = "sharia" -> ShariaSplit(d, amount)
      [] era.rule = "matrilineal" -> Equal(d, Nephews(d), amount)
      [] era.rule = "nationalized" -> Equal(d, {}, amount)

-----------------------------------------------------------------------------
(* process_inheritance_batch. *)

OpenEstates ==
    /\ stage = "demography" /\ unsettled # {}
    /\ stage' = "estates" /\ todo' = unsettled
    /\ UNCHANGED <<era, unsettled, couples, formed, intent, intents, people, batch, books>>

\* Variant: a second legacy replaces the first.
CreditedAnew(share) ==
    [a \in Agents |-> IF a \in DOMAIN share THEN share[a] ELSE credit[a]]

\* An heir may inherit from several of the dead.
Credited(share) ==
    [a \in Agents |-> IF a \in DOMAIN share THEN credit[a] + share[a] ELSE credit[a]]

\* Variant: with no heir the loans stay with the dead.
PassLoansToHeirs(d, heirs) ==
    LET mine == {l \in Loans : lender[l] = d} IN
    IF heirs = {} THEN lender' = lender
    ELSE \E heir \in [mine -> heirs] :
            lender' = [l \in Loans |-> IF l \in mine THEN heir[l] ELSE lender[l]]

\* transfer_loans_as_lender: to whoever inherits cash, in turn (the loans are
\* read in no particular order), or to the banking system, whose aggregate
\* stays as it was.
PassLoans(d, heirs) ==
    LET mine == {l \in Loans : lender[l] = d}
        n == Cardinality(heirs)
        many(h) == (Cardinality(mine) + n - 1 - Rank(d, h, heirs)) \div n
    IN  IF heirs = {}
        THEN lender' = [l \in Loans |-> IF l \in mine THEN Bank ELSE lender[l]]
        ELSE \E heir \in [mine -> heirs] :
                /\ \A h \in heirs : Cardinality({l \in mine : heir[l] = h}) = many(h)
                /\ lender' = [l \in Loans |-> IF l \in mine THEN heir[l] ELSE lender[l]]

Tax(estate) == (estate * era.tax) \div 100

\* The eldest of the dead: tax, heirs, loans, and last the couple.
SettleEstate ==
    /\ stage = "estates"
    /\ \E d \in Eldest(todo) :
        LET rest == wealth[d] - Tax(wealth[d])
            share == Allocation(d, rest)
        IN  /\ credit' = Credited(share)
            /\ treasury' = treasury + Tax(wealth[d]) + IF DOMAIN share = {} THEN rest ELSE 0
            /\ PassLoans(d, DOMAIN share)
            /\ couples' = {c \in couples : d \notin c}
            /\ orphans' = orphans \cup Children(d)
            /\ todo' = todo \ {d}
    /\ UNCHANGED <<era, stage, alive, unsettled, wealth, formed, intent, intents,
                   caretaker, wards, bank>>

\* assign_orphan_caretaker: siblings, grandparents, then aunts and uncles, of
\* the same zone if there are any.
Kin(c) == <<Siblings(c), Grandparents(c) \cap alive, AuntsAndUncles(c) \cap alive>>
NearestKin(c, place) ==
    UNION {Eldest(Kin(c)[k] \cap place) :
             k \in Least({k \in 1 .. 3 : Kin(c)[k] \cap place # {}})}
Neighbours(c) == {a \in Agents : Zone[a] = Zone[c]}
Guardians(c) ==
    IF NearestKin(c, Neighbours(c)) # {} THEN NearestKin(c, Neighbours(c))
    ELSE NearestKin(c, Agents)
GuardianOf(c) == IF Guardians(c) = {} THEN Nobody ELSE CHOOSE g \in Guardians(c) : TRUE

\* Variant: only children who lost all their parents in this batch.
OrphanedAtOnce ==
    {c \in orphans : caretaker[c] = Nobody /\ Age[c] < era.adulthood /\ Parents[c] \subseteq unsettled}

Orphaned ==
    {c \in orphans : caretaker[c] = Nobody /\ Age[c] < era.adulthood /\ Parents[c] \cap alive = {}}

\* Wealth is written once, for the dead and the heirs; then the minors nobody
\* is left for.
CloseEstates ==
    /\ stage = "estates" /\ todo = {}
    /\ stage' = "demography"
    /\ wealth' = [a \in Agents |-> IF a \in unsettled THEN credit[a]
                                  ELSE IF credit[a] > 0 THEN wealth[a] + credit[a]
                                  ELSE wealth[a]]
    /\ caretaker' = [a \in Agents |-> IF a \in Orphaned THEN GuardianOf(a) ELSE caretaker[a]]
    /\ wards' = wards \cup {c \in Orphaned : Guardians(c) = {}}
    /\ unsettled' = {} /\ credit' = [a \in Agents |-> 0] /\ orphans' = {}
    /\ UNCHANGED <<era, todo, alive, treasury, couples, formed, intent, intents, books>>

-----------------------------------------------------------------------------
Next ==
    \/ \E a \in Agents : PairBond(a) \/ Arrange(a) \/ Separate(a)
    \/ NextTick \/ BeginTurns \/ Die
    \/ ResolvePairBonds \/ Bond \/ CommitBonds \/ ResolveSeparations
    \/ OpenEstates \/ SettleEstate \/ CloseEstates

Spec == Init /\ [][Next]_vars

-----------------------------------------------------------------------------
(* Properties. *)

TypeOK ==
    /\ era \in Eras /\ stage \in Stages
    /\ todo \subseteq Agents /\ alive \subseteq Agents
    /\ unsettled \subseteq Agents \ alive
    /\ wealth \in [Agents -> Nat] /\ treasury \in Nat /\ credit \in [Agents -> Nat]
    /\ \A c \in couples \cup formed : IsCouple(c)
    /\ intent \in [Agents -> IntentType] /\ intents \in 0 .. MaxIntents
    /\ orphans \subseteq Agents /\ wards \subseteq Agents
    /\ caretaker \in [Agents -> Agents \cup {Nobody}]
    /\ lender \in [Loans -> Agents \cup {Bank}] /\ bank \in Nat

\* An estate is neither lost nor made, whatever the rule, the tax, the order
\* of the deaths and the kinship among the dead.
EstatesConserve ==
    LET settled == IF stage = "estates" THEN unsettled \ todo ELSE {}
    IN  Total(wealth, Agents \ settled) + Total(credit, Agents) + treasury
            = Total(InitialWealth, Agents)

\* Nobody is in two active couples, however intents, resolutions run twice,
\* separations and deaths follow each other.
OneCoupleEach ==
    \A c, d \in couples \cup formed : c # d => c \cap d = {}

\* An active loan is held by the banking system, by somebody living or by
\* somebody whose estate is still to be settled.
LoansHaveHolders ==
    stage # "estates" => \A l \in Loans : lender[l] \in alive \cup unsettled \cup {Bank}

\* A minor who has lost all recorded parents, at once or years apart, has a
\* caretaker or is a ward of the state once they are settled.
OrphansProvidedFor ==
    stage # "estates" =>
        \A c \in alive :
            /\ Age[c] < era.adulthood
            /\ Parents[c] # {} /\ Parents[c] \cap (alive \cup unsettled) = {}
            => caretaker[c] # Nobody \/ c \in wards

\* The dead only lose what they had: nobody dead comes into money, not even
\* when heirs and testators die together.
OnlyTheLivingInherit ==
    [][\A a \in Agents \ alive : wealth'[a] \in {0, wealth[a]}]_vars

\* An estate goes to the state, beyond its tax, only if the deceased leaves
\* neither a living child nor the living partner of an active couple, or
\* under a rule that passes both over.
EscheatOnlyWithoutHeirs ==
    [][\A d \in Agents :
         /\ stage = "estates" /\ d \in todo /\ d \notin todo'
         /\ treasury' > treasury + Tax(wealth[d])
         => \/ era.rule \in {"matrilineal", "nationalized"}
            \/ \A h \in alive : d \notin Parents[h] /\ {d, h} \notin couples]_vars

-----------------------------------------------------------------------------
(* What the documents say and the code does not keep. *)

\* economy/models.py, BankingState.total_loans_outstanding: "Sum of all active
\* loan balances".  A loan that falls to the banking system is not added.
BankingBook ==
    bank = Total(Balance, {l \in Loans : lender[l] = Bank})

\* Demography design, section 5: when a partner dies, "any active Couple they
\* belong to is automatically marked dissolved".  A dead proposer is coupled
\* after its estate was settled.
DeathDissolvesCouples ==
    stage = "turns" =>
        \A c \in couples : c \subseteq alive \cup unsettled

=============================================================================
