-------------------------- MODULE SuccessionProofs --------------------------
(***************************************************************************)
(* For every population, era and bound: nobody is in two couples, active   *)
(* loans keep a holder, orphaned minors are provided for, the dead come    *)
(* into no money, estates are handed out to the last unit and only those   *)
(* without heirs fall to the state.                                        *)
(***************************************************************************)
EXTENDS Succession, FiniteLemmas, TLAPS

-----------------------------------------------------------------------------
(* Couples. *)

\* Who proposes must be free, and so must who is proposed to, counting the
\* couples of the same resolution: couples stay disjoint.
THEOREM CouplesAreDisjoint == Spec => []OneCoupleEach
<1>1. Init => OneCoupleEach
  BY FoundersAssumption DEF Init, OneCoupleEach
<1>2. OneCoupleEach /\ [Next]_vars => OneCoupleEach'
  <2> SUFFICES ASSUME OneCoupleEach, [Next]_vars PROVE OneCoupleEach'
    OBVIOUS
  <2> USE DEF OneCoupleEach
  <2>1. ASSUME NEW p, Form(p), UNCHANGED couples PROVE OneCoupleEach'
    <3>1. \A c \in couples \cup formed : c \cap {p, Target(p)} = {}
      BY <2>1 DEF Form, Fit, Taken
    <3>2. (couples \cup formed)' = (couples \cup formed) \cup {{p, Target(p)}}
      BY <2>1 DEF Form
    <3> QED
      BY <3>1, <3>2
  <2>2. CASE Bond
    <3>1. PICK p : Form(p) \/ RollBack(p) \/ PassOver(p)
      BY <2>2 DEF Bond
    <3>2. UNCHANGED couples
      BY <2>2 DEF Bond
    <3> QED
      BY <2>1, <3>1, <3>2 DEF RollBack, PassOver
  <2>3. CASE CommitBonds
    BY <2>3 DEF CommitBonds
  <2>4. CASE ResolveSeparations
    BY <2>4 DEF ResolveSeparations
  <2>5. CASE SettleEstate
    <3>1. couples' \subseteq couples /\ UNCHANGED formed
      BY <2>5 DEF SettleEstate
    <3> QED
      BY <3>1
  <2>6. CASE UNCHANGED <<couples, formed>>
    BY <2>6
  <2>7. ASSUME NEW a \in Agents, PairBond(a) \/ Arrange(a) \/ Separate(a)
        PROVE UNCHANGED <<couples, formed>>
    BY <2>7 DEF PairBond, Arrange, Separate, Decide
  <2>8. CASE NextTick \/ BeginTurns \/ Die \/ ResolvePairBonds \/ OpenEstates \/ CloseEstates
    BY <2>6, <2>8 DEF NextTick, BeginTurns, Die, ResolvePairBonds, OpenEstates, CloseEstates
  <2>9. CASE UNCHANGED vars
    BY <2>6, <2>9 DEF vars
  <2> QED
    BY <2>2, <2>3, <2>4, <2>5, <2>6, <2>7, <2>8, <2>9 DEF Next
<1> QED
  BY <1>1, <1>2, PTL DEF Spec

-----------------------------------------------------------------------------
(* Estates.  Whoever inherits is alive. *)

LEMMA HeirsLive ==
    ASSUME NEW d, NEW amount, era.rule \in Rules
    PROVE  DOMAIN Allocation(d, amount) \subseteq alive
<1> DEFINE H == DOMAIN Allocation(d, amount)
<1>1. Children(d) \subseteq alive /\ Siblings(d) \subseteq alive /\ Spouse(d) \subseteq alive
  BY DEF Children, Siblings, Spouse
<1>2. \A S : FirstBorn(S) \subseteq S
  BY DEF FirstBorn, Eldest
<1>3. \A S : DOMAIN Equal(d, S, amount) = S
  BY DEF Equal, Split
<1>4. CASE era.rule = "primogeniture"
  <2>1. H = Primogeniture(d)
    BY <1>3, <1>4 DEF Allocation
  <2> QED
    BY <2>1, <1>1, <1>2 DEF Primogeniture
<1>5. CASE era.rule = "equal_split"
  <2>1. H = Children(d) \cup Spouse(d)
    BY <1>3, <1>5 DEF Allocation
  <2> QED
    BY <2>1, <1>1
<1>6. CASE era.rule = "sharia"
  <2>1. H = DOMAIN ShariaSplit(d, amount)
    BY <1>6 DEF Allocation
  <2>2. H \subseteq Children(d) \cup Siblings(d) \cup Spouse(d)
    BY <2>1 DEF ShariaSplit, Pool
  <2> QED
    BY <2>2, <1>1
<1>7. CASE era.rule = "matrilineal"
  <2>1. H = Nephews(d)
    BY <1>3, <1>7 DEF Allocation
  <2> QED
    BY <2>1 DEF Nephews, Children
<1>8. CASE era.rule = "nationalized"
  <2>1. H = {}
    BY <1>3, <1>8 DEF Allocation
  <2> QED
    BY <2>1
<1> QED
  BY <1>4, <1>5, <1>6, <1>7, <1>8 DEF Rules

\* The dead whose estates are still to come.
Pending == IF stage = "estates" THEN todo ELSE unsettled

\* The dead await their batch; only those alive have something coming, and
\* only during a batch.
CreditInv ==
    /\ era.rule \in Rules
    /\ alive \subseteq Agents /\ unsettled \cap alive = {}
    /\ stage = "estates" => todo \subseteq unsettled
    /\ \A a \in Agents : credit[a] # 0 => a \in alive /\ stage = "estates"

\* Loans leave the dead as their estates are settled.
LoanInv == \A l \in Loans : lender[l] \in alive \cup Pending \cup {Bank}

\* Whom the dead leave behind is provided for, or noted for the end of the
\* batch.
OrphanInv ==
    \A c \in Agents :
        /\ c \in alive /\ Age[c] < era.adulthood
        /\ Parents[c] # {} /\ Parents[c] \cap (alive \cup Pending) = {}
        => caretaker[c] # Nobody \/ c \in wards \/ (stage = "estates" /\ c \in orphans)

EstateInv == CreditInv /\ LoanInv /\ OrphanInv

LEMMA EstateInit == Init => EstateInv
<1> SUFFICES ASSUME Init PROVE EstateInv
  OBVIOUS
<1>1. CreditInv
  BY PeopleAssumption, BooksAssumption DEF Init, CreditInv, EraType
<1>2. LoanInv
  BY BooksAssumption DEF Init, LoanInv, Pending
<1>3. OrphanInv
  BY FoundersAssumption DEF Init, OrphanInv, Pending
<1> QED
  BY <1>1, <1>2, <1>3 DEF EstateInv

\* Settling an estate.
LEMMA SettlingKeepsInv == EstateInv /\ SettleEstate => EstateInv'
<1> SUFFICES ASSUME EstateInv, SettleEstate PROVE EstateInv'
  OBVIOUS
<1> USE DEF EstateInv
<1>1. PICK d \in todo :
        LET share == Allocation(d, wealth[d] - Tax(wealth[d]))
        IN  /\ credit' = Credited(share)
            /\ PassLoans(d, DOMAIN share)
            /\ orphans' = orphans \cup Children(d)
            /\ todo' = todo \ {d}
  BY DEF SettleEstate, Eldest
<1> DEFINE share == Allocation(d, wealth[d] - Tax(wealth[d]))
<1>2. DOMAIN share \subseteq alive
  BY HeirsLive DEF CreditInv
<1>3. /\ stage = "estates"
      /\ UNCHANGED <<era, stage, alive, unsettled, caretaker, wards>>
  BY DEF SettleEstate
<1>4. CreditInv'
  BY <1>1, <1>2, <1>3 DEF CreditInv, Credited
<1>5. LoanInv'
  <2> DEFINE mine == {l \in Loans : lender[l] = d}
  <2>1. CASE DOMAIN share = {}
    <3>1. lender' = [l \in Loans |-> IF l \in mine THEN Bank ELSE lender[l]]
      BY <1>1, <2>1 DEF PassLoans
    <3> QED
      BY <3>1, <1>1, <1>3 DEF LoanInv, Pending
  <2>2. CASE DOMAIN share # {}
    <3>1. PICK heir \in [mine -> DOMAIN share] :
            lender' = [l \in Loans |-> IF l \in mine THEN heir[l] ELSE lender[l]]
      BY <1>1, <2>2 DEF PassLoans
    <3> QED
      BY <3>1, <1>1, <1>2, <1>3 DEF LoanInv, Pending
  <2> QED
    BY <2>1, <2>2
<1>6. OrphanInv'
  BY <1>1, <1>3 DEF OrphanInv, Pending, Children
<1> QED
  BY <1>4, <1>5, <1>6

\* The end of a batch: whoever was noted and has no parent left gets a
\* guardian or becomes a ward.
LEMMA ClosingKeepsInv == EstateInv /\ CloseEstates => EstateInv'
<1> SUFFICES ASSUME EstateInv, CloseEstates PROVE EstateInv'
  OBVIOUS
<1> USE DEF EstateInv, CloseEstates
<1>1. CreditInv'
  BY DEF CreditInv
<1>2. LoanInv'
  BY DEF LoanInv, Pending, books
<1>3. OrphanInv'
  <2> SUFFICES ASSUME NEW c \in Agents, c \in alive, Age[c] < era.adulthood,
                      Parents[c] # {}, Parents[c] \cap alive = {}
               PROVE  caretaker'[c] # Nobody \/ c \in wards'
    BY DEF OrphanInv, Pending
  <2>1. CASE c \in Orphaned
    <3>1. CASE Guardians(c) = {}
      BY <2>1, <3>1
    <3>2. CASE Guardians(c) # {}
      <4>1. Neighbours(c) \subseteq Agents
        BY DEF Neighbours
      <4>2. \A place \in SUBSET Agents : NearestKin(c, place) \subseteq Agents
        BY DEF NearestKin, Eldest
      <4>3. Guardians(c) \subseteq Agents
        BY <4>1, <4>2 DEF Guardians
      <4>4. GuardianOf(c) \in Agents
        BY <3>2, <4>3 DEF GuardianOf
      <4>5. GuardianOf(c) # Nobody
        BY <4>4, PeopleAssumption DEF Nobody
      <4> QED
        BY <2>1, <4>5
    <3> QED
      BY <3>1, <3>2
  <2>2. CASE c \notin Orphaned
    <3>1. caretaker[c] # Nobody \/ c \in wards \/ c \in orphans
      BY DEF OrphanInv, Pending
    <3>2. c \in orphans => caretaker[c] # Nobody
      BY <2>2 DEF Orphaned
    <3> QED
      BY <2>2, <3>1, <3>2
  <2> QED
    BY <2>1, <2>2
<1> QED
  BY <1>1, <1>2, <1>3

LEMMA EstateStep == EstateInv /\ [Next]_vars => EstateInv'
<1> SUFFICES ASSUME EstateInv, [Next]_vars PROVE EstateInv'
  OBVIOUS
<1> USE DEF EstateInv, CreditInv, LoanInv, OrphanInv, Pending
<1>1. CASE Die
  BY <1>1 DEF Die, batch, books
<1>2. CASE OpenEstates
  BY <1>2 DEF OpenEstates, people, batch, books
<1>3. CASE SettleEstate
  BY <1>3, SettlingKeepsInv
<1>4. CASE CloseEstates
  BY <1>4, ClosingKeepsInv
<1>5. ASSUME UNCHANGED <<era, unsettled, people, batch, books>>,
             stage # "estates", stage' # "estates"
      PROVE  EstateInv'
  BY <1>5 DEF people, batch, books
<1>6. ASSUME NEW a \in Agents, PairBond(a) \/ Arrange(a) \/ Separate(a) PROVE EstateInv'
  BY <1>5, <1>6 DEF PairBond, Arrange, Separate, Decide
<1>7. CASE NextTick \/ BeginTurns
  BY <1>5, <1>7 DEF NextTick, BeginTurns
<1>8. CASE ResolvePairBonds \/ Bond \/ CommitBonds \/ ResolveSeparations
  BY <1>5, <1>8 DEF ResolvePairBonds, Bond, CommitBonds, ResolveSeparations
<1>9. CASE UNCHANGED vars
  BY <1>9 DEF vars
<1> QED
  BY <1>1, <1>2, <1>3, <1>4, <1>6, <1>7, <1>8, <1>9 DEF Next

\* The inductive invariant of the estates: credits, loans, orphans.
THEOREM EstateInvHolds == Spec => []EstateInv
BY EstateInit, EstateStep, PTL DEF Spec

\* An active loan is held by the banking system, by somebody living or by
\* somebody whose estate is still to be settled.
THEOREM LoansKeepHolders == Spec => []LoansHaveHolders
<1>1. EstateInv => LoansHaveHolders
  BY DEF EstateInv, LoanInv, Pending, LoansHaveHolders
<1> QED
  BY <1>1, EstateInvHolds, PTL

\* Minors without parents have a caretaker or are wards of the state.
THEOREM OrphansAreProvidedFor == Spec => []OrphansProvidedFor
<1>1. EstateInv => OrphansProvidedFor
  BY DEF EstateInv, CreditInv, OrphanInv, Pending, OrphansProvidedFor
<1> QED
  BY <1>1, EstateInvHolds, PTL

\* The dead only lose what they had.
THEOREM DeadInheritNothing == Spec => OnlyTheLivingInherit
<1>1. EstateInv /\ [Next]_vars
        => [\A a \in Agents \ alive : wealth'[a] \in {0, wealth[a]}]_vars
  <2> SUFFICES ASSUME EstateInv, Next, NEW a \in Agents, a \notin alive
               PROVE  wealth'[a] \in {0, wealth[a]}
    OBVIOUS
  <2>1. CASE CloseEstates
    <3>1. credit[a] = 0
      BY DEF EstateInv, CreditInv
    <3> QED
      BY <2>1, <3>1 DEF CloseEstates
  <2>2. CASE ~CloseEstates
    <3>1. UNCHANGED wealth
      BY <2>2 DEF Next, PairBond, Arrange, Separate, Decide, NextTick, BeginTurns, Die,
             ResolvePairBonds, Bond, CommitBonds, ResolveSeparations, OpenEstates,
             SettleEstate, people
    <3> QED
      BY <3>1
  <2> QED
    BY <2>1, <2>2
<1> QED
  BY <1>1, EstateInvHolds, PTL DEF Spec, OnlyTheLivingInherit

-----------------------------------------------------------------------------
(* Who is first and who is last. *)

LEMMA BeforeIsOrder ==
    ASSUME NEW x \in Agents, NEW y \in Agents, NEW z \in Agents
    PROVE /\ x # y => Before(x, y) \/ Before(y, x)
          /\ ~(Before(x, y) /\ Before(y, x))
          /\ Before(x, y) /\ Before(y, z) => Before(x, z)
<1>1. x \in Nat /\ y \in Nat /\ z \in Nat /\ Age[x] \in Nat /\ Age[y] \in Nat /\ Age[z] \in Nat
  BY PeopleAssumption
<1> QED
  BY <1>1 DEF Before

LEMMA ListedIsOrder ==
    ASSUME NEW d, NEW x \in Agents, NEW y \in Agents, NEW z \in Agents
    PROVE /\ x # y => Listed(d, x, y) \/ Listed(d, y, x)
          /\ ~(Listed(d, x, y) /\ Listed(d, y, x))
          /\ Listed(d, x, y) /\ Listed(d, y, z) => Listed(d, x, z)
<1> DEFINE after == IF era.rule \in {"equal_split", "sharia"} THEN Spouse(d) \ Pool(d) ELSE {}
<1>1. \A v, w : Listed(d, v, w) <=> IF (v \in after) = (w \in after) THEN Before(v, w) ELSE w \in after
  BY DEF Listed
<1> HIDE DEF after
<1>2. /\ x # y => Before(x, y) \/ Before(y, x)
      /\ ~(Before(x, y) /\ Before(y, x))
      /\ Before(x, y) /\ Before(y, z) => Before(x, z)
  BY BeforeIsOrder
<1> QED
  BY <1>1, <1>2

\* Among heirs one, and only one, is listed last.
LEMMA LastHeir ==
    ASSUME NEW d, NEW S \in SUBSET Agents, S # {}
    PROVE \E l \in S : IsLast(d, l, S) /\ \A h \in S \ {l} : ~IsLast(d, h, S)
<1> DEFINE R == {p \in S \X S : Listed(d, p[1], p[2])}
<1>1. \A x, y \in S : <<x, y>> \in R <=> Listed(d, x, y)
  OBVIOUS
<1>2. IsFiniteSet(S)
  BY PeopleAssumption, FS_Subset
<1>3. /\ \A x, y \in S : x # y => <<x, y>> \in R \/ <<y, x>> \in R
      /\ \A x, y, z \in S : <<x, y>> \in R /\ <<y, z>> \in R => <<x, z>> \in R
  BY <1>1, ListedIsOrder
<1> HIDE DEF R
<1>4. PICK l \in S : \A y \in S \ {l} : <<y, l>> \in R
  BY <1>2, <1>3, FiniteLast
<1>5. IsLast(d, l, S)
  BY <1>1, <1>4 DEF IsLast
<1>6. ASSUME NEW h \in S \ {l}, IsLast(d, h, S) PROVE FALSE
  <2>1. Listed(d, l, h) /\ Listed(d, h, l)
    BY <1>5, <1>6 DEF IsLast
  <2> QED
    BY <2>1, ListedIsOrder
<1> QED
  BY <1>5, <1>6

\* Where there is anybody, there is an eldest.
LEMMA SomebodyIsEldest ==
    ASSUME NEW S \in SUBSET Agents, S # {} PROVE Eldest(S) # {}
<1> DEFINE R == {p \in S \X S : Before(p[2], p[1])}
<1>1. \A x, y \in S : <<x, y>> \in R <=> Before(y, x)
  OBVIOUS
<1>2. IsFiniteSet(S)
  BY PeopleAssumption, FS_Subset
<1>3. /\ \A x, y \in S : x # y => <<x, y>> \in R \/ <<y, x>> \in R
      /\ \A x, y, z \in S : <<x, y>> \in R /\ <<y, z>> \in R => <<x, z>> \in R
  BY <1>1, BeforeIsOrder
<1> HIDE DEF R
<1>4. PICK l \in S : \A y \in S \ {l} : <<y, l>> \in R
  BY <1>2, <1>3, FiniteLast
<1> QED
  BY <1>1, <1>4 DEF Eldest

-----------------------------------------------------------------------------
(* An allocation gives away what there is, to the last unit. *)

LEMMA DivFits ==
    ASSUME NEW x \in Nat, NEW u \in Nat \ {0} PROVE x \div u \in Nat /\ (x \div u) * u <= x
BY SMT

LEMMA PortionFits ==
    ASSUME NEW k \in {2, 4, 8}, NEW x \in Nat PROVE x \div k \in Nat /\ x \div k <= x
BY SMT

LEMMA ProductsAdd ==
    ASSUME NEW p \in Nat, NEW P \in Nat, NEW u \in Nat, NEW V \in Nat, NEW U \in Nat,
           NEW a \in Nat, p * U <= u * a, P * U <= V * a
    PROVE (p + P) * U <= (u + V) * a
BY SMT

LEMMA ProductsCompare ==
    ASSUME NEW P \in Nat, NEW U \in Nat \ {0}, NEW V \in Nat, NEW a \in Nat,
           P * U <= V * a, V <= U
    PROVE P <= a
<1>1. V * a <= U * a
  BY SMT
<1> QED
  BY <1>1, SMT

\* The parts before the last are never more than there is.
LEMMA PartsFit ==
    ASSUME NEW S, IsFiniteSet(S), NEW units \in [S -> Nat \ {0}], NEW amount \in Nat,
           NEW part, part = [h \in S |-> (units[h] * amount) \div Total(units, S)],
           NEW s \in SUBSET S
    PROVE Total(part, s) \in Nat /\ Total(part, s) <= amount
<1> USE DEF Total
<1> DEFINE U == SumFunctionOnSet(units, S)
           Fits(t) == SumFunctionOnSet(part, t) * U <= SumFunctionOnSet(units, t) * amount
           T == {t \in SUBSET S : ~Fits(t)}
<1>1. \A t \in SUBSET S : IsFiniteSet(t) /\ SumFunctionOnSet(units, t) \in Nat
  BY FS_Subset, SumIsNat
<1>2. U \in Nat
  BY <1>1
<1>3. CASE s = {}
  BY <1>3, SumEmpty
<1>4. CASE s # {}
  <2>1. U > 0
    <3>1. PICK x : x \in S
      BY <1>4
    <3>2. U = units[x] + SumFunctionOnSet(units, S \ {x})
      BY <3>1, SumRemove
    <3>3. SumFunctionOnSet(units, S \ {x}) \in Nat
      BY <1>1
    <3> QED
      BY <3>1, <3>2, <3>3
  <2> HIDE DEF U
  <2>2. \A h \in S : part[h] \in Nat /\ part[h] * U <= units[h] * amount
    <3> TAKE h \in S
    <3>1. units[h] \in Nat /\ units[h] * amount \in Nat /\ part[h] = (units[h] * amount) \div U
      BY DEF U
    <3> QED
      BY <1>2, <2>1, <3>1, DivFits
  <2>3. \A t \in SUBSET S : SumFunctionOnSet(part, t) \in Nat
    BY <1>1, <2>2, SumIsNat
  <2>4. T = {}
    <3> SUFFICES ASSUME T # {} PROVE FALSE
      OBVIOUS
    <3>1. PICK t \in T : \A y \in T : y \subseteq t => y = t
      <4>1. T \subseteq SUBSET S
        OBVIOUS
      <4> HIDE DEF T
      <4> QED
        BY <4>1, FiniteMin
    <3>2. t \in SUBSET S /\ ~Fits(t)
      OBVIOUS
    <3>3. t # {}
      <4> SUFFICES ASSUME t = {} PROVE FALSE
        OBVIOUS
      <4>1. SumFunctionOnSet(part, t) = 0 /\ SumFunctionOnSet(units, t) = 0
        BY SumEmpty
      <4> QED
        BY <1>2, <3>2, <4>1
    <3>4. PICK h : h \in t
      BY <3>3
    <3>5. Fits(t \ {h})
      BY <3>1, <3>4
    <3>6. /\ SumFunctionOnSet(part, t) = part[h] + SumFunctionOnSet(part, t \ {h})
          /\ SumFunctionOnSet(units, t) = units[h] + SumFunctionOnSet(units, t \ {h})
      <4>1. IsFiniteSet(t) /\ \A x \in t : part[x] \in Int /\ units[x] \in Int
        BY <1>1, <2>2, <3>2
      <4> QED
        BY <3>4, <4>1, SumRemove
    <3>7. /\ part[h] \in Nat /\ units[h] \in Nat /\ part[h] * U <= units[h] * amount
          /\ SumFunctionOnSet(part, t \ {h}) \in Nat /\ SumFunctionOnSet(units, t \ {h}) \in Nat
      BY <1>1, <2>2, <2>3, <3>2, <3>4
    <3>8. Fits(t)
      BY <1>2, <3>5, <3>6, <3>7, ProductsAdd
    <3> QED
      BY <3>2, <3>8
  <2>5. SumFunctionOnSet(part, s) * U <= SumFunctionOnSet(units, s) * amount
    BY <2>4
  <2>6. SumFunctionOnSet(units, s) <= U
    <3>1. SumFunctionOnSet(units, s \cup (S \ s))
            = SumFunctionOnSet(units, s) + SumFunctionOnSet(units, S \ s)
      <4>1. /\ IsFiniteSet(s) /\ IsFiniteSet(S \ s) /\ s \cap (S \ s) = {}
            /\ \A x \in s \cup (S \ s) : units[x] \in Int
        BY <1>1
      <4> QED
        BY <4>1, SumUnion
    <3>2. s \cup (S \ s) = S
      OBVIOUS
    <3>3. SumFunctionOnSet(units, s) \in Nat /\ SumFunctionOnSet(units, S \ s) \in Nat
      BY <1>1
    <3>4. U = SumFunctionOnSet(units, s) + SumFunctionOnSet(units, S \ s)
      BY <3>1, <3>2 DEF U
    <3> QED
      BY <3>3, <3>4
  <2> QED
    BY <1>1, <1>2, <2>1, <2>3, <2>5, <2>6, ProductsCompare
<1> QED
  BY <1>3, <1>4

\* Parts in proportion, the last taking what is left, make up the whole.
LEMMA SplitIsExact ==
    ASSUME NEW d, NEW S \in SUBSET Agents, NEW amount \in Nat, NEW units \in [S -> Nat \ {0}]
    PROVE /\ Split(d, S, amount, units) \in [S -> Nat]
          /\ S # {} => Total(Split(d, S, amount, units), S) = amount
<1> DEFINE part == [h \in S |-> (units[h] * amount) \div Total(units, S)]
           split == Split(d, S, amount, units)
<1>1. split = [h \in S |-> IF IsLast(d, h, S) THEN amount - Total(part, S \ {h}) ELSE part[h]]
  BY DEF Split
<1>2. IsFiniteSet(S)
  BY PeopleAssumption, FS_Subset
<1>3. \A s \in SUBSET S : Total(part, s) \in Nat /\ Total(part, s) <= amount
  <2>1. part = [h \in S |-> (units[h] * amount) \div Total(units, S)]
    OBVIOUS
  <2> HIDE DEF part
  <2> QED
    BY <1>2, <2>1, PartsFit
<1>4. CASE S = {}
  BY <1>1, <1>4
<1>5. CASE S # {}
  <2>1. PICK l \in S : IsLast(d, l, S) /\ \A h \in S \ {l} : ~IsLast(d, h, S)
    BY <1>5, LastHeir
  <2> HIDE DEF part
  <2>2. \A h \in S \ {l} : part[h] \in Nat
    <3> TAKE h \in S \ {l}
    <3>1. Total(part, {h}) \in Nat
      BY <1>3
    <3>2. units[h] * amount \in Nat /\ Total(units, S) \in Nat \ {0}
      <4>1. Total(units, S) \in Nat
        BY <1>2, SumIsNat DEF Total
      <4>2. Total(units, S) = units[h] + SumFunctionOnSet(units, S \ {h})
        BY <1>2, SumRemove DEF Total
      <4>3. SumFunctionOnSet(units, S \ {h}) \in Nat
        BY <1>2, FS_Subset, SumIsNat
      <4>4. units[h] \in Nat \ {0}
        OBVIOUS
      <4> QED
        BY <4>1, <4>2, <4>3, <4>4
    <3> QED
      BY <3>2, DivFits DEF part
  <2>3. split[l] = amount - Total(part, S \ {l}) /\ \A h \in S \ {l} : split[h] = part[h]
    BY <1>1, <2>1
  <2>4. Total(part, S \ {l}) \in Nat /\ Total(part, S \ {l}) <= amount
    BY <1>3
  <2>5. split[l] \in Nat
    BY <2>3, <2>4
  <2>6. \A h \in S : split[h] \in Nat
    BY <2>2, <2>3, <2>5
  <2>7. split \in [S -> Nat]
    BY <1>1, <2>6
  <2> HIDE DEF split
  <2>8. Total(split, S) = split[l] + Total(split, S \ {l})
    BY <1>2, <2>6, SumRemove DEF Total
  <2>9. Total(split, S \ {l}) = Total(part, S \ {l})
    BY <1>2, <2>3, FS_Subset, SumSame DEF Total
  <2>10. Total(split, S) = amount
    BY <2>3, <2>4, <2>8, <2>9
  <2> QED
    BY <2>7, <2>10 DEF split
<1> QED
  BY <1>4, <1>5

\* What an allocation should be: naturals that make up the amount, unless
\* nobody is to have it.
Exact(share, amount) ==
    /\ share \in [DOMAIN share -> Nat] /\ DOMAIN share \subseteq Agents
    /\ DOMAIN share # {} => Total(share, DOMAIN share) = amount

LEMMA EqualIsExact ==
    ASSUME NEW d, NEW S \in SUBSET Agents, NEW amount \in Nat
    PROVE Exact(Equal(d, S, amount), amount) /\ DOMAIN Equal(d, S, amount) = S
<1> DEFINE units == [h \in S |-> 1]
<1>1. Equal(d, S, amount) = Split(d, S, amount, units)
  BY DEF Equal
<1>2. units \in [S -> Nat \ {0}]
  <2>1. 1 \in Nat \ {0}
    OBVIOUS
  <2> QED
    BY <2>1
<1> HIDE DEF units
<1>3. /\ Split(d, S, amount, units) \in [S -> Nat]
      /\ S # {} => Total(Split(d, S, amount, units), S) = amount
  <2>1. S \in SUBSET Agents /\ amount \in Nat
    OBVIOUS
  <2> QED
    BY <1>2, <2>1, SplitIsExact
<1>4. DOMAIN Split(d, S, amount, units) = S
  BY <1>3
<1> QED
  BY <1>1, <1>3, <1>4 DEF Exact

\* Nobody has two partners.
LEMMA OneSpouse ==
    ASSUME OneCoupleEach, NEW d, NEW x \in Spouse(d) PROVE Spouse(d) = {x}
<1> SUFFICES ASSUME NEW y \in Spouse(d) PROVE y = x
  OBVIOUS
<1>1. {d, x} \in couples /\ {d, y} \in couples /\ d \in {d, x} \cap {d, y}
  BY DEF Spouse
<1>2. {d, x} = {d, y}
  <2>1. {d, x} # {d, y} => {d, x} \cap {d, y} = {}
    BY <1>1 DEF OneCoupleEach
  <2> QED
    BY <1>1, <2>1
<1> QED
  BY <1>2 DEF Spouse

\* A spouse who is a sibling too is paid twice, and all is still accounted for.
LEMMA ShariaIsExact ==
    ASSUME OneCoupleEach, alive \subseteq Agents, NEW d, NEW amount \in Nat
    PROVE Exact(ShariaSplit(d, amount), amount)
<1> DEFINE share == ShariaSplit(d, amount)
           pool == Pool(d)
           spouse == Spouse(d)
           portion == (IF spouse \subseteq Men THEN 2 ELSE 4) * (IF Children(d) # {} THEN 2 ELSE 1)
           fixed == IF spouse = {} THEN 0 ELSE amount \div portion
           units == [h \in pool |-> IF h \in Men THEN 2 ELSE 1]
           shares == Split(d, pool, amount - fixed, units)
<1>1. pool \in SUBSET Agents /\ spouse \in SUBSET Agents
  BY DEF Pool, Children, Siblings, Spouse
<1>2. spouse = {} \/ \E x : spouse = {x}
  BY OneSpouse
<1>3. fixed \in Nat /\ fixed <= amount
  <2>1. portion \in {2, 4, 8}
    OBVIOUS
  <2> HIDE DEF portion
  <2> QED
    BY <2>1, PortionFits
<1>4. share = IF pool = {} THEN [h \in spouse |-> amount]
              ELSE [h \in pool \cup spouse |->
                     (IF h \in pool THEN shares[h] ELSE 0) + (IF h \in spouse THEN fixed ELSE 0)]
  BY DEF ShariaSplit
<1>5. shares \in [pool -> Nat] /\ (pool # {} => Total(shares, pool) = amount - fixed)
  <2>1. units \in [pool -> Nat \ {0}] /\ amount - fixed \in Nat
    BY <1>3
  <2> HIDE DEF units, fixed, pool
  <2> QED
    BY <1>1, <2>1, SplitIsExact
<1> HIDE DEF share, pool, spouse, fixed, shares
<1>6. CASE pool = {}
  <2>1. share = [h \in spouse |-> amount]
    BY <1>4, <1>6
  <2>2. ASSUME NEW x, spouse = {x} PROVE Total(share, spouse) = amount
    <3>1. Total(share, {x}) = share[x] + SumFunctionOnSet(share, {x} \ {x})
      <4>1. IsFiniteSet({x}) /\ \A y \in {x} : share[y] \in Int
        BY <2>1, <2>2, FS_Singleton
      <4> QED
        BY <4>1, SumRemove DEF Total
    <3>2. {x} \ {x} = {}
      OBVIOUS
    <3> QED
      BY <2>1, <2>2, <3>1, <3>2, SumEmpty
  <2>3. Exact(share, amount)
    BY <1>1, <1>2, <2>1, <2>2 DEF Exact
  <2> QED
    BY <2>3 DEF share
<1>7. CASE pool # {}
  <2> DEFINE H == pool \cup spouse
             ofPool == [h \in H |-> IF h \in pool THEN shares[h] ELSE 0]
             ofSpouse == [h \in H |-> IF h \in spouse THEN fixed ELSE 0]
  <2>1. IsFiniteSet(H) /\ IsFiniteSet(pool) /\ IsFiniteSet(spouse)
    BY <1>1, PeopleAssumption, FS_Subset
  <2>2. share = [h \in H |-> ofPool[h] + ofSpouse[h]]
    BY <1>4, <1>7
  <2>3. \A h \in H : ofPool[h] \in Nat /\ ofSpouse[h] \in Nat
    BY <1>3, <1>5
  <2>4. SumFunctionOnSet(ofPool, H) = amount - fixed
    <3>1. SumFunctionOnSet(ofPool, pool) = SumFunctionOnSet(shares, pool)
      <4>1. \A h \in pool : ofPool[h] = shares[h]
        OBVIOUS
      <4> HIDE DEF ofPool
      <4> QED
        BY <2>1, <4>1, SumSame
    <3>2. SumFunctionOnSet(ofPool, H) = SumFunctionOnSet(ofPool, pool)
      <4>1. pool \in SUBSET H /\ \A h \in H : h \notin pool => ofPool[h] = 0
        OBVIOUS
      <4> HIDE DEF ofPool, H
      <4> QED
        BY <2>1, <2>3, <4>1, SumOnlyPart
    <3> QED
      BY <1>5, <1>7, <3>1, <3>2 DEF Total
  <2>5. SumFunctionOnSet(ofSpouse, H) = fixed
    <3>1. spouse \in SUBSET H /\ \A h \in H : h \notin spouse => ofSpouse[h] = 0
      OBVIOUS
    <3>2. \A h \in spouse : ofSpouse[h] = fixed
      OBVIOUS
    <3> HIDE DEF ofSpouse, H
    <3>3. SumFunctionOnSet(ofSpouse, H) = SumFunctionOnSet(ofSpouse, spouse)
      BY <2>1, <2>3, <3>1, SumOnlyPart
    <3>4. CASE spouse = {}
      <4>1. fixed = 0
        BY <3>4 DEF fixed
      <4> QED
        BY <3>3, <3>4, <4>1, SumEmpty
    <3>5. ASSUME NEW x, spouse = {x} PROVE SumFunctionOnSet(ofSpouse, spouse) = fixed
      <4>1. SumFunctionOnSet(ofSpouse, spouse) = ofSpouse[x] + SumFunctionOnSet(ofSpouse, spouse \ {x})
        <5>1. x \in spouse /\ \A y \in spouse : ofSpouse[y] \in Int
          BY <1>3, <3>2, <3>5
        <5> QED
          BY <2>1, <5>1, SumRemove
      <4>2. spouse \ {x} = {} /\ ofSpouse[x] = fixed
        BY <3>2, <3>5
      <4> QED
        BY <1>3, <4>1, <4>2, SumEmpty
    <3> QED
      BY <1>2, <3>3, <3>4, <3>5
  <2>6. SumFunctionOnSet(share, H) = SumFunctionOnSet(ofPool, H) + SumFunctionOnSet(ofSpouse, H)
    <3>1. \A h \in H : share[h] = ofPool[h] + ofSpouse[h]
      BY <2>2
    <3> HIDE DEF ofPool, ofSpouse, H
    <3> QED
      BY <2>1, <2>3, <3>1, SumPlus
  <2>7. Total(share, H) = amount
    BY <1>3, <2>4, <2>5, <2>6 DEF Total
  <2>8. DOMAIN share = H /\ share \in [H -> Nat] /\ H \subseteq Agents
    <3>1. H \subseteq Agents
      BY <1>1
    <3> HIDE DEF H, ofPool, ofSpouse
    <3>2. \A h \in H : share[h] \in Nat
      BY <2>2, <2>3
    <3> QED
      BY <2>2, <3>1, <3>2
  <2>9. Exact(share, amount)
    <3> HIDE DEF H
    <3> QED
      BY <2>7, <2>8 DEF Exact
  <2> QED
    BY <2>9 DEF share
<1> QED
  BY <1>6, <1>7

\* Every rule gives away the whole estate, or nothing of it.
LEMMA AllocationIsExact ==
    ASSUME OneCoupleEach, alive \subseteq Agents, era.rule \in Rules,
           NEW d, NEW amount \in Nat
    PROVE Exact(Allocation(d, amount), amount)
<1>1. Children(d) \subseteq Agents /\ Siblings(d) \subseteq Agents /\ Spouse(d) \subseteq Agents
  BY DEF Children, Siblings, Spouse
<1>2. CASE era.rule = "primogeniture"
  <2>1. Primogeniture(d) \subseteq Agents
    BY <1>1 DEF Primogeniture, FirstBorn, Eldest
  <2> QED
    BY <1>2, <2>1, EqualIsExact DEF Allocation
<1>3. CASE era.rule = "equal_split"
  BY <1>1, <1>3, EqualIsExact DEF Allocation
<1>4. CASE era.rule = "sharia"
  BY <1>4, ShariaIsExact DEF Allocation
<1>5. CASE era.rule = "matrilineal"
  <2>1. Nephews(d) \subseteq Agents
    BY DEF Nephews, Children
  <2> QED
    BY <1>5, <2>1, EqualIsExact DEF Allocation
<1>6. CASE era.rule = "nationalized"
  BY <1>6, EqualIsExact DEF Allocation
<1> QED
  BY <1>2, <1>3, <1>4, <1>5, <1>6 DEF Rules

-----------------------------------------------------------------------------
(* Types, which say among others that no amount is ever negative. *)

LEMMA TaxFits ==
    ASSUME NEW x \in Nat, NEW t \in 0 .. 100
    PROVE (x * t) \div 100 \in Nat /\ (x * t) \div 100 <= x
<1>1. x * t \in Nat /\ x * t <= x * 100
  BY SMT
<1> QED
  BY <1>1, SMT

\* What is settled: tax and rest make up the estate, and the heirs' shares the
\* rest.
LEMMA EstateIsDivided ==
    ASSUME TypeOK, OneCoupleEach, NEW d \in Agents
    PROVE LET rest == wealth[d] - Tax(wealth[d]) IN
          /\ Tax(wealth[d]) \in Nat /\ rest \in Nat
          /\ Exact(Allocation(d, rest), rest)
<1>1. wealth[d] \in Nat /\ era.tax \in 0 .. 100 /\ era.rule \in Rules /\ alive \subseteq Agents
  BY BooksAssumption DEF TypeOK, EraType
<1>2. Tax(wealth[d]) \in Nat /\ Tax(wealth[d]) <= wealth[d]
  BY <1>1, TaxFits DEF Tax
<1>3. wealth[d] - Tax(wealth[d]) \in Nat
  BY <1>1, <1>2
<1> QED
  BY <1>1, <1>2, <1>3, AllocationIsExact

LEMMA TargetIsAgent ==
    ASSUME TypeOK, NEW p \in Proposers PROVE p \in Agents /\ Target(p) \in Agents
<1>1. p \in Agents
  BY DEF Proposers, Direct
<1>2. \A c : ArrangedFor(c) \subseteq alive
  BY DEF ArrangedFor
<1>3. CASE p \in Direct
  <2>1. intent[p].match \in Agents
    BY <1>3 DEF Direct, TypeOK
  <2> QED
    BY <1>1, <1>3, <2>1 DEF Target
<1>4. CASE p \notin Direct
  <2> DEFINE S == ArrangedFor(p)
             R == {q \in S \X S : q[2] <= q[1]}
  <2>1. S # {} /\ S \subseteq Agents
    BY <1>2, <1>4 DEF Proposers, TypeOK
  <2>2. IsFiniteSet(S) /\ S \subseteq Nat
    BY <2>1, PeopleAssumption, FS_Subset
  <2>3. \A x, y \in S : <<x, y>> \in R <=> y <= x
    OBVIOUS
  <2> HIDE DEF R, S
  <2>4. /\ \A x, y \in S : x # y => <<x, y>> \in R \/ <<y, x>> \in R
        /\ \A x, y, z \in S : <<x, y>> \in R /\ <<y, z>> \in R => <<x, z>> \in R
    BY <2>2, <2>3
  <2>5. PICK l \in S : \A y \in S \ {l} : <<y, l>> \in R
    BY <2>1, <2>2, <2>4, FiniteLast
  <2>6. l \in Least(S)
    <3>1. \A y \in S : l <= y
      <4> TAKE y \in S
      <4>1. l \in Nat /\ y \in Nat
        BY <2>2
      <4>2. y # l => l <= y
        BY <2>3, <2>5
      <4> QED
        BY <4>1, <4>2
    <3> QED
      BY <3>1 DEF Least
  <2>7. l \in Least(ArrangedFor(p)) /\ l \in Agents
    BY <2>1, <2>6 DEF S
  <2> QED
    BY <1>1, <1>4, <2>7 DEF Target
<1> QED
  BY <1>3, <1>4

\* The resolution visits proposers only, and works on the declarations it
\* began with.
BondsInv == stage = "bonds" => todo \subseteq Proposers

LEMMA TypeInit == Init => TypeOK /\ BondsInv
<1> SUFFICES ASSUME Init PROVE TypeOK /\ BondsInv
  OBVIOUS
<1>1. bank \in Nat
  <2>1. IsFiniteSet({l \in Loans : InitialLender[l] = Bank})
    BY BooksAssumption, FS_Subset
  <2> QED
    BY <2>1, BooksAssumption, SumIsNat DEF Init, Total
<1>2. intent \in [Agents -> IntentType]
  BY DEF Init, IntentType, NoIntent
<1>3. lender \in [Loans -> Agents \cup {Bank}]
  BY BooksAssumption, PeopleAssumption DEF Init
<1> QED
  BY <1>1, <1>2, <1>3, PeopleAssumption, FoundersAssumption DEF Init, TypeOK, Stages, BondsInv

LEMMA DecideTypes ==
    ASSUME TypeOK, BondsInv, NEW a \in Agents, NEW decision \in IntentType, Decide(a, decision)
    PROVE TypeOK' /\ BondsInv'
<1>1. /\ UNCHANGED <<era, stage, todo, alive, unsettled, wealth, treasury, couples, formed,
                     credit, orphans, caretaker, wards, lender, bank>>
      /\ intent' = [intent EXCEPT ![a] = decision]
      /\ intents' \in 0 .. MaxIntents /\ stage = "turns"
  BY PeopleAssumption DEF TypeOK, Decide, people, batch, books
<1> QED
  BY <1>1 DEF TypeOK, BondsInv

LEMMA SettleTypes == ASSUME TypeOK, OneCoupleEach, EstateInv, SettleEstate PROVE TypeOK'
<1>1. PICK d \in todo :
        LET rest == wealth[d] - Tax(wealth[d])
            share == Allocation(d, rest)
        IN  /\ credit' = Credited(share)
            /\ treasury' = treasury + Tax(wealth[d]) + IF DOMAIN share = {} THEN rest ELSE 0
            /\ PassLoans(d, DOMAIN share)
            /\ couples' = {c \in couples : d \notin c}
            /\ orphans' = orphans \cup Children(d)
            /\ todo' = todo \ {d}
  BY DEF SettleEstate, Eldest
<1> DEFINE rest == wealth[d] - Tax(wealth[d])
           share == Allocation(d, rest)
<1>2. d \in Agents /\ Tax(wealth[d]) \in Nat /\ rest \in Nat /\ Exact(share, rest)
  BY EstateIsDivided DEF TypeOK
<1>3. UNCHANGED <<era, stage, alive, unsettled, wealth, formed, intent, intents, caretaker, wards, bank>>
  BY DEF SettleEstate
<1> HIDE DEF rest, share
<1>4. credit' \in [Agents -> Nat]
  <2>1. credit' = [a \in Agents |-> IF a \in DOMAIN share THEN credit[a] + share[a] ELSE credit[a]]
    BY <1>1 DEF Credited, share, rest
  <2>2. \A a \in Agents : credit[a] \in Nat /\ (a \in DOMAIN share => share[a] \in Nat)
    BY <1>2 DEF Exact, TypeOK
  <2> QED
    BY <2>1, <2>2
<1>5. treasury' \in Nat
  <2>1. treasury' = treasury + Tax(wealth[d]) + IF DOMAIN share = {} THEN rest ELSE 0
    BY <1>1 DEF share, rest
  <2> QED
    BY <1>2, <2>1 DEF TypeOK
<1>6. lender' \in [Loans -> Agents \cup {Bank}]
  <2>1. PassLoans(d, DOMAIN share) /\ DOMAIN share \subseteq Agents
    BY <1>1, <1>2 DEF share, rest, Exact
  <2> QED
    BY <2>1 DEF PassLoans, TypeOK
<1>7. /\ \A c \in couples' \cup formed' : IsCouple(c)
      /\ orphans' \subseteq Agents /\ todo' \subseteq Agents
  BY <1>1, <1>3 DEF TypeOK, Children
<1> QED
  BY <1>3, <1>4, <1>5, <1>6, <1>7 DEF TypeOK

LEMMA CloseTypes == ASSUME TypeOK, CloseEstates PROVE TypeOK'
<1>1. wealth' \in [Agents -> Nat]
  <2>1. \A a \in Agents : wealth[a] \in Nat /\ credit[a] \in Nat
    BY DEF TypeOK
  <2> QED
    BY <2>1 DEF CloseEstates
<1>2. caretaker' \in [Agents -> Agents \cup {Nobody}]
  <2>1. ASSUME NEW c \in Agents PROVE GuardianOf(c) \in Agents \cup {Nobody}
    <3>1. \A place \in SUBSET Agents : NearestKin(c, place) \subseteq Agents
      BY DEF NearestKin, Eldest
    <3>2. Neighbours(c) \in SUBSET Agents
      BY DEF Neighbours
    <3>3. Guardians(c) \subseteq Agents
      BY <3>1, <3>2 DEF Guardians
    <3> QED
      BY <3>3 DEF GuardianOf
  <2> QED
    BY <2>1 DEF TypeOK, CloseEstates
<1>3. wards' \subseteq Agents
  BY DEF TypeOK, CloseEstates, Orphaned
<1>4. UNCHANGED <<era, todo, alive, treasury, couples, formed, intent, intents, lender, bank>>
  BY DEF CloseEstates, books
<1> QED
  BY <1>1, <1>2, <1>3, <1>4 DEF TypeOK, CloseEstates, Stages

LEMMA BondTypes == ASSUME TypeOK, BondsInv, Bond PROVE TypeOK' /\ BondsInv'
<1>1. PICK p \in todo : Form(p) \/ RollBack(p) \/ PassOver(p)
  BY DEF Bond, Least
<1>2. /\ UNCHANGED <<era, stage, alive, unsettled, wealth, treasury, couples, intent, intents,
                     credit, orphans, caretaker, wards, lender, bank>>
      /\ stage = "bonds"
  BY DEF Bond, people, batch, books
<1>3. todo' \subseteq todo
  BY <1>1 DEF Form, RollBack, PassOver
<1>4. BondsInv'
  BY <1>2, <1>3 DEF BondsInv, Proposers, Direct, ArrangedFor
<1>5. p \in Agents /\ Target(p) \in Agents
  BY <1>2, TargetIsAgent DEF BondsInv
<1>6. \A c \in formed' : IsCouple(c)
  BY <1>1, <1>5 DEF Form, RollBack, PassOver, TypeOK, IsCouple
<1> QED
  BY <1>2, <1>3, <1>4, <1>6 DEF TypeOK

LEMMA TypeStep ==
    TypeOK /\ BondsInv /\ OneCoupleEach /\ EstateInv /\ [Next]_vars => TypeOK' /\ BondsInv'
<1> SUFFICES ASSUME TypeOK, BondsInv, OneCoupleEach, EstateInv, [Next]_vars
             PROVE TypeOK' /\ BondsInv'
  OBVIOUS
<1>1. ASSUME NEW a \in Agents, PairBond(a) \/ Arrange(a) \/ Separate(a)
      PROVE TypeOK' /\ BondsInv'
  <2>1. PICK decision \in IntentType : Decide(a, decision)
    <3>1. ASSUME PairBond(a) PROVE \E b \in Agents : Decide(a, [kind |-> "bond", for |-> a, match |-> b])
      BY <3>1 DEF PairBond
    <3>2. ASSUME Arrange(a) PROVE \E c, b \in Agents : Decide(a, [kind |-> "arrange", for |-> c, match |-> b])
      BY <3>2 DEF Arrange
    <3>3. ASSUME Separate(a) PROVE Decide(a, [kind |-> "separate", for |-> a, match |-> 0])
      BY <3>3 DEF Separate
    <3>4. \A k \in {"bond", "arrange", "separate"}, f \in Agents, m \in Agents \cup {0} :
            [kind |-> k, for |-> f, match |-> m] \in IntentType
      BY DEF IntentType
    <3> QED
      BY <1>1, <3>1, <3>2, <3>3, <3>4
  <2> QED
    BY <2>1, DecideTypes
<1>2. CASE NextTick
  BY <1>2 DEF NextTick, TypeOK, BondsInv, Stages, people, batch, books
<1>3. CASE BeginTurns
  <2>1. intent' \in [Agents -> IntentType]
    BY <1>3 DEF BeginTurns, IntentType, NoIntent
  <2> QED
    BY <1>3, <2>1 DEF BeginTurns, TypeOK, BondsInv, Stages, people, batch, books
<1>4. CASE Die
  BY <1>4 DEF Die, TypeOK, BondsInv, batch, books
<1>5. CASE ResolvePairBonds
  <2>1. Proposers \subseteq Agents /\ Proposers' = Proposers
    BY <1>5 DEF Proposers, Direct, ArrangedFor, ResolvePairBonds, people
  <2> QED
    BY <1>5, <2>1 DEF ResolvePairBonds, TypeOK, BondsInv, Stages, people, batch, books
<1>6. CASE Bond
  BY <1>6, BondTypes
<1>7. CASE CommitBonds
  BY <1>7 DEF CommitBonds, TypeOK, BondsInv, Stages, people, batch, books
<1>8. CASE ResolveSeparations
  BY <1>8 DEF ResolveSeparations, TypeOK, BondsInv, people, batch, books
<1>9. CASE OpenEstates
  BY <1>9 DEF OpenEstates, TypeOK, BondsInv, Stages, people, batch, books
<1>10. CASE SettleEstate
  BY <1>10, SettleTypes DEF SettleEstate, BondsInv
<1>11. CASE CloseEstates
  BY <1>11, CloseTypes DEF CloseEstates, BondsInv
<1>12. CASE UNCHANGED vars
  <2>1. TypeOK'
    BY <1>12 DEF vars, TypeOK
  <2>2. UNCHANGED <<stage, todo, Proposers>>
    BY <1>12 DEF vars, Proposers, Direct, ArrangedFor
  <2> QED
    BY <2>1, <2>2 DEF BondsInv
<1> QED
  BY <1>1, <1>2, <1>3, <1>4, <1>5, <1>6, <1>7, <1>8, <1>9, <1>10, <1>11, <1>12 DEF Next

\* For every population and era the state keeps its types: among others,
\* wealth, credits and the treasury are never negative, whatever the tax and
\* the division.
THEOREM SuccessionIsTyped == Spec => []TypeOK
<1>1. TypeOK /\ BondsInv /\ OneCoupleEach /\ EstateInv /\ [Next]_vars => (TypeOK /\ BondsInv)'
  BY TypeStep
<1>2. Init => TypeOK /\ BondsInv
  BY TypeInit
<1> QED
  BY <1>1, <1>2, CouplesAreDisjoint, EstateInvHolds, PTL DEF Spec

-----------------------------------------------------------------------------
(* Value. *)

LEMMA SettlingConserves ==
    ASSUME TypeOK, OneCoupleEach, EstateInv, EstatesConserve, SettleEstate
    PROVE EstatesConserve'
<1>1. PICK d \in todo :
        LET rest == wealth[d] - Tax(wealth[d])
            share == Allocation(d, rest)
        IN  /\ credit' = Credited(share)
            /\ treasury' = treasury + Tax(wealth[d]) + IF DOMAIN share = {} THEN rest ELSE 0
            /\ todo' = todo \ {d}
  BY DEF SettleEstate, Eldest
<1> DEFINE rest == wealth[d] - Tax(wealth[d])
           share == Allocation(d, rest)
           H == DOMAIN share
           given == [a \in Agents |-> IF a \in H THEN share[a] ELSE 0]
           here == Agents \ (unsettled \ todo)
<1>2. d \in Agents /\ Tax(wealth[d]) \in Nat /\ rest \in Nat /\ Exact(share, rest)
  BY EstateIsDivided DEF TypeOK
<1>3. stage = "estates" /\ UNCHANGED <<stage, unsettled, wealth>> /\ todo \subseteq unsettled
  BY DEF SettleEstate, EstateInv, CreditInv
<1>4. IsFiniteSet(Agents) /\ IsFiniteSet(here)
  BY PeopleAssumption, FS_Subset
<1>5. /\ credit' = [a \in Agents |-> IF a \in H THEN credit[a] + share[a] ELSE credit[a]]
      /\ treasury' = treasury + Tax(wealth[d]) + IF H = {} THEN rest ELSE 0
  BY <1>1 DEF Credited
<1> HIDE DEF share, H
<1>6. H \in SUBSET Agents /\ (\A a \in H : share[a] \in Nat) /\ (H # {} => Total(share, H) = rest)
  BY <1>2 DEF Exact, H
<1>7. Total(credit', Agents) = Total(credit, Agents) + Total(share, H)
  <2>1. \A a \in Agents : credit[a] \in Int /\ given[a] \in Int /\ credit'[a] = credit[a] + given[a]
    BY <1>5, <1>6 DEF TypeOK
  <2>2. \A a \in Agents : a \notin H => given[a] = 0
    OBVIOUS
  <2>3. \A a \in H : given[a] = share[a]
    BY <1>6
  <2>4. IsFiniteSet(H)
    BY <1>4, <1>6, FS_Subset
  <2> HIDE DEF given
  <2>5. SumFunctionOnSet(credit', Agents) = SumFunctionOnSet(credit, Agents) + SumFunctionOnSet(given, Agents)
    BY <1>4, <2>1, SumPlus
  <2>6. SumFunctionOnSet(given, Agents) = SumFunctionOnSet(given, H)
    BY <1>4, <1>6, <2>1, <2>2, SumOnlyPart
  <2>7. SumFunctionOnSet(given, H) = SumFunctionOnSet(share, H)
    BY <2>3, <2>4, SumSame
  <2> QED
    BY <2>5, <2>6, <2>7 DEF Total
<1>8. Total(share, H) + (IF H = {} THEN rest ELSE 0) = rest
  <2>1. CASE H = {}
    BY <1>2, <2>1, SumEmpty DEF Total
  <2>2. CASE H # {}
    BY <1>2, <1>6, <2>2
  <2> QED
    BY <2>1, <2>2
<1>9. Total(wealth, here) = wealth[d] + Total(wealth, here \ {d})
  <2>1. d \in here /\ \A a \in here : wealth[a] \in Int
    BY <1>2 DEF TypeOK
  <2> HIDE DEF here
  <2> QED
    BY <1>4, <2>1, SumRemove DEF Total
<1>10. Agents \ (unsettled' \ todo') = here \ {d}
  BY <1>1, <1>2, <1>3
<1>11. /\ Total(credit, Agents) \in Int /\ Total(share, H) \in Int
       /\ Total(wealth, here \ {d}) \in Int /\ treasury \in Int /\ wealth[d] \in Int
  <2>1. IsFiniteSet(here \ {d}) /\ \A a \in here \ {d} : wealth[a] \in Int
    BY <1>4, FS_Subset DEF TypeOK
  <2>2. IsFiniteSet(H) /\ \A a \in H : share[a] \in Int
    BY <1>4, <1>6, FS_Subset
  <2>3. \A a \in Agents : credit[a] \in Int
    BY DEF TypeOK
  <2> HIDE DEF here
  <2>4. Total(wealth, here \ {d}) \in Int /\ Total(share, H) \in Int /\ Total(credit, Agents) \in Int
    BY <1>4, <2>1, <2>2, <2>3, SumIsInt DEF Total
  <2> QED
    BY <1>2, <2>4 DEF TypeOK
<1>12. Total(wealth, here) + Total(credit, Agents) + treasury = Total(InitialWealth, Agents)
  BY <1>3 DEF EstatesConserve
<1>13. Total(wealth, here \ {d}) + Total(credit', Agents) + treasury' = Total(InitialWealth, Agents)
  <2>1. rest = wealth[d] - Tax(wealth[d]) /\ treasury' = treasury + Tax(wealth[d]) + (rest - Total(share, H))
    BY <1>2, <1>5, <1>8, <1>11
  <2> HIDE DEF rest, here
  <2> QED
    BY <1>2, <1>7, <1>9, <1>11, <1>12, <2>1
<1>14. wealth' = wealth /\ stage' = "estates"
  BY <1>3
<1> QED
  BY <1>10, <1>13, <1>14 DEF EstatesConserve

LEMMA ClosingConserves ==
    ASSUME TypeOK, EstateInv, EstatesConserve, CloseEstates PROVE EstatesConserve'
<1> DEFINE kept == [a \in Agents |-> IF a \in Agents \ unsettled THEN wealth[a] ELSE 0]
<1>1. IsFiniteSet(Agents)
  BY PeopleAssumption
<1>2. \A a \in Agents : kept[a] \in Int /\ credit[a] \in Int /\ wealth'[a] = kept[a] + credit[a]
  BY DEF CloseEstates, TypeOK
<1>3. SumFunctionOnSet(kept, Agents) = SumFunctionOnSet(wealth, Agents \ unsettled)
  <2>1. \A a \in Agents : wealth[a] \in Int
    BY DEF TypeOK
  <2> QED
    BY <1>1, <2>1, SumPart
<1> HIDE DEF kept
<1>4. SumFunctionOnSet(wealth', Agents) = SumFunctionOnSet(kept, Agents) + SumFunctionOnSet(credit, Agents)
  BY <1>1, <1>2, SumPlus
<1>5. SumFunctionOnSet(credit', Agents) = 0
  BY <1>1, SumZero DEF CloseEstates
<1>6. /\ Total(wealth, Agents \ unsettled) + Total(credit, Agents) + treasury = Total(InitialWealth, Agents)
      /\ treasury' = treasury /\ stage' = "demography"
  <2>1. unsettled \ todo = unsettled /\ stage = "estates"
    BY DEF CloseEstates
  <2> QED
    BY <2>1 DEF EstatesConserve, CloseEstates
<1>7. SumFunctionOnSet(kept, Agents) \in Int /\ SumFunctionOnSet(credit, Agents) \in Int /\ treasury \in Int
  BY <1>1, <1>2, SumIsInt DEF TypeOK
<1>8. Total(wealth', Agents) + Total(credit', Agents) + treasury' = Total(InitialWealth, Agents)
  BY <1>3, <1>4, <1>5, <1>6, <1>7 DEF Total
<1>9. Agents \ {} = Agents
  OBVIOUS
<1> QED
  BY <1>6, <1>8, <1>9 DEF EstatesConserve

LEMMA ConserveStep ==
    TypeOK /\ OneCoupleEach /\ EstateInv /\ EstatesConserve /\ [Next]_vars => EstatesConserve'
<1> SUFFICES ASSUME TypeOK, OneCoupleEach, EstateInv, EstatesConserve, [Next]_vars
             PROVE EstatesConserve'
  OBVIOUS
<1>1. ASSUME UNCHANGED <<wealth, credit, treasury>>,
             (stage = "estates" => unsettled \ todo = {}) /\ (stage' = "estates" => unsettled' \ todo' = {})
      PROVE EstatesConserve'
  BY <1>1 DEF EstatesConserve
<1>2. ASSUME NEW a \in Agents, PairBond(a) \/ Arrange(a) \/ Separate(a) PROVE EstatesConserve'
  BY <1>1, <1>2 DEF PairBond, Arrange, Separate, Decide, people, batch
<1>3. CASE NextTick \/ BeginTurns \/ Die
  BY <1>1, <1>3 DEF NextTick, BeginTurns, Die, people, batch
<1>4. CASE ResolvePairBonds \/ Bond \/ CommitBonds \/ ResolveSeparations
  BY <1>1, <1>4 DEF ResolvePairBonds, Bond, CommitBonds, ResolveSeparations, people, batch
<1>5. CASE OpenEstates
  BY <1>1, <1>5 DEF OpenEstates, people, batch
<1>6. CASE SettleEstate
  BY <1>6, SettlingConserves
<1>7. CASE CloseEstates
  BY <1>7, ClosingConserves
<1>8. CASE UNCHANGED vars
  BY <1>8 DEF vars, EstatesConserve
<1> QED
  BY <1>2, <1>3, <1>4, <1>5, <1>6, <1>7, <1>8 DEF Next

\* For every family, rule of succession, tax and order of deaths: what the
\* dead leave goes to the heirs and the treasury to the last unit, and nothing
\* is made.
THEOREM EstatesAreConserved == Spec => []EstatesConserve
<1>1. Init => EstatesConserve
  <2> SUFFICES ASSUME Init PROVE EstatesConserve
    OBVIOUS
  <2>1. Total(credit, Agents) = 0 /\ Total(InitialWealth, Agents) \in Int
    <3>1. IsFiniteSet(Agents) /\ (\A a \in Agents : credit[a] = 0 /\ InitialWealth[a] \in Int)
      BY PeopleAssumption DEF Init
    <3> QED
      BY <3>1, SumZero, SumIsInt DEF Total
  <2>2. Agents \ {} = Agents
    OBVIOUS
  <2> QED
    BY <2>1, <2>2 DEF Init, EstatesConserve
<1>2. TypeOK /\ OneCoupleEach /\ EstateInv /\ EstatesConserve /\ [Next]_vars => EstatesConserve'
  BY ConserveStep
<1> QED
  BY <1>1, <1>2, SuccessionIsTyped, CouplesAreDisjoint, EstateInvHolds, PTL DEF Spec

\* When the state takes more than its tax, the deceased had no living child
\* and no living partner, or the rule passes them over.
THEOREM EscheatIsLast == Spec => EscheatOnlyWithoutHeirs
<1>1. ASSUME TypeOK, OneCoupleEach, EstateInv, Next, NEW d \in Agents,
             stage = "estates", d \in todo, d \notin todo',
             treasury' > treasury + Tax(wealth[d]),
             era.rule \notin {"matrilineal", "nationalized"}, NEW h \in alive
      PROVE  d \notin Parents[h] /\ {d, h} \notin couples
  <2>1. SettleEstate
    BY <1>1 DEF Next, PairBond, Arrange, Separate, Decide, NextTick, BeginTurns, Die,
         ResolvePairBonds, Bond, CommitBonds, ResolveSeparations, OpenEstates, CloseEstates
  <2>2. DOMAIN Allocation(d, wealth[d] - Tax(wealth[d])) = {}
    <3>1. PICK e \in todo :
            LET rest == wealth[e] - Tax(wealth[e])
                share == Allocation(e, rest)
            IN  /\ treasury' = treasury + Tax(wealth[e]) + IF DOMAIN share = {} THEN rest ELSE 0
                /\ todo' = todo \ {e}
      BY <2>1 DEF SettleEstate, Eldest
    <3>2. e = d
      BY <1>1, <3>1
    <3>3. Tax(wealth[d]) \in Nat /\ treasury \in Nat
      BY <1>1, EstateIsDivided DEF TypeOK
    <3> QED
      BY <1>1, <3>1, <3>2, <3>3
  <2>3. Children(d) = {} /\ Spouse(d) = {}
    <3>1. \A S : DOMAIN Equal(d, S, wealth[d] - Tax(wealth[d])) = S
      BY DEF Equal, Split
    <3>2. era.rule \in {"primogeniture", "equal_split", "sharia"}
      BY <1>1, BooksAssumption DEF TypeOK, EraType, Rules
    <3>3. CASE era.rule = "primogeniture"
      <4>1. Primogeniture(d) = {}
        BY <2>2, <3>1, <3>3 DEF Allocation
      <4>2. \A S \in SUBSET Agents : S # {} => FirstBorn(S) # {}
        BY SomebodyIsEldest DEF FirstBorn
      <4>3. Children(d) \in SUBSET Agents
        BY <1>1 DEF Children, TypeOK
      <4> QED
        BY <4>1, <4>2, <4>3 DEF Primogeniture
    <3>4. CASE era.rule = "equal_split"
      BY <2>2, <3>1, <3>4 DEF Allocation
    <3>5. CASE era.rule = "sharia"
      <4>1. DOMAIN ShariaSplit(d, wealth[d] - Tax(wealth[d])) = {}
        BY <2>2, <3>5 DEF Allocation
      <4> QED
        BY <4>1 DEF ShariaSplit, Pool
    <3> QED
      BY <3>2, <3>3, <3>4, <3>5
  <2>4. h # d
    BY <1>1 DEF EstateInv, CreditInv
  <2> QED
    BY <1>1, <2>3, <2>4 DEF Children, Spouse
<1>2. TypeOK /\ OneCoupleEach /\ EstateInv /\ [Next]_vars
        => [\A d \in Agents :
              /\ stage = "estates" /\ d \in todo /\ d \notin todo'
              /\ treasury' > treasury + Tax(wealth[d])
              => \/ era.rule \in {"matrilineal", "nationalized"}
                 \/ \A h \in alive : d \notin Parents[h] /\ {d, h} \notin couples]_vars
  BY <1>1
<1> QED
  BY <1>2, SuccessionIsTyped, CouplesAreDisjoint, EstateInvHolds, PTL
     DEF Spec, EscheatOnlyWithoutHeirs

=============================================================================
