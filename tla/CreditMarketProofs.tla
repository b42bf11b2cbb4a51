------------------------- MODULE CreditMarketProofs -------------------------
(***************************************************************************)
(* Proofs about CreditMarket, for any agents, properties and bounds.       *)
(***************************************************************************)
EXTENDS CreditMarket, FiniteLemmas, TLAPS

Defaulted == {l \in LoanIds : loan[l].status = "defaulted"}

\* What the rest of a phase has still to process was read at its start, and
\* nothing has changed the status of those rows since.
PhaseOK ==
    /\ stage \in {"market", "turns"} => todo \subseteq Agents
    /\ stage \in {"service", "mature"} => todo \subseteq ActiveLoans
    /\ stage = "settle" => todo \subseteq Defaulted

\* A loan update writes well-typed rows.
LEMMA NewLoanType ==
    ASSUME ShapeOK, IdsAssumption, BoundsAssumption,
           NEW lender \in Agents \cup {Bank}, NEW a \in Agents,
           NEW amount \in Nat, NEW interest \in Nat, NEW p \in Props \cup {NoProp},
           NEW n \in LoanIds
    PROVE  [loan EXCEPT ![n] =
              [status |-> "active", lender |-> lender, borrower |-> a,
               principal |-> amount, balance |-> amount, interest |-> interest,
               collateral |-> p, due |-> tick + Duration, rolled |-> 0,
               cascade |-> FALSE]] \in [LoanIds -> LoanType]
BY DEF ShapeOK, LoanType, LoanStatuses, IdsAssumption, BoundsAssumption

LEMMA IssuedLoan ==
    ASSUME ShapeOK, IdsAssumption, BoundsAssumption,
           NEW lender \in Agents \cup {Bank}, NEW a \in Agents,
           NEW amount \in Nat, NEW interest \in Nat, NEW p \in Props \cup {NoProp},
           IssueLoan(lender, a, amount, interest, p)
    PROVE  /\ loan' \in [LoanIds -> LoanType]
           /\ cash' \in [Agents -> Int]
<1>1. PICK n \in LoanIds :
        loan' = [loan EXCEPT ![n] =
                   [status |-> "active", lender |-> lender, borrower |-> a,
                    principal |-> amount, balance |-> amount, interest |-> interest,
                    collateral |-> p, due |-> tick + Duration, rolled |-> 0,
                    cascade |-> FALSE]]
  BY DEF IssueLoan
<1>2. loan' \in [LoanIds -> LoanType]
  BY <1>1, NewLoanType
<1>3. cash' \in [Agents -> Int]
  BY DEF IssueLoan, ShapeOK
<1> QED
  BY <1>2, <1>3

LEMMA EditedLoan ==
    ASSUME NEW r \in LoanType, NEW s \in LoanStatuses
    PROVE  /\ [r EXCEPT !.status = s] \in LoanType
           /\ [r EXCEPT !.status = s, !.balance = 0] \in LoanType
           /\ [r EXCEPT !.status = s, !.cascade = TRUE] \in LoanType
           /\ [r EXCEPT !.status = s, !.collateral = NoProp] \in LoanType
<1>1. [r EXCEPT !.status = s] \in LoanType
  BY DEF LoanType
<1>2. [r EXCEPT !.status = s, !.balance = 0] \in LoanType
  BY DEF LoanType
<1>3. [r EXCEPT !.status = s, !.cascade = TRUE] \in LoanType
  BY DEF LoanType
<1>4. [r EXCEPT !.status = s, !.collateral = NoProp] \in LoanType
  BY DEF LoanType
<1> QED
  BY <1>1, <1>2, <1>3, <1>4

LEMMA MarkedLoans ==
    ASSUME ShapeOK, BoundsAssumption, NEW S, MarkDefaulted(S)
    PROVE  /\ loan' \in [LoanIds -> LoanType]
           /\ defaultAt' \in [LoanIds -> Nat]
BY DEF ShapeOK, MarkDefaulted, LoanType, LoanStatuses

LEMMA PaidCash ==
    ASSUME ShapeOK, NEW l \in LoanIds, NEW amount \in Nat, Pay(l, amount)
    PROVE  cash' \in [Agents -> Int]
BY DEF ShapeOK, Pay

LEMMA MaturedLoan ==
    ASSUME ShapeOK, IdsAssumption, BoundsAssumption, NEW l \in LoanIds,
           Repay(l) \/ RollOver(l) \/ DefaultAtMaturity(l)
    PROVE  /\ loan' \in [LoanIds -> LoanType]
           /\ cash' \in [Agents -> Int]
           /\ defaultAt' \in [LoanIds -> Nat]
<1> USE IdsAssumption, BoundsAssumption
<1>0. loan[l] \in LoanType
  BY DEF ShapeOK
<1>1. CASE Repay(l)
  <2>1. loan[l].balance + loan[l].interest \in Nat
    BY <1>0 DEF LoanType
  <2>2. cash' \in [Agents -> Int]
    BY <1>1, <2>1, PaidCash DEF Repay
  <2> QED
    BY <1>0, <1>1, <2>2 DEF Repay, ShapeOK, LoanType, LoanStatuses
<1>2. CASE RollOver(l)
  <2>1. cash' \in [Agents -> Int]
    <3>1. loan[l].interest \in Nat
      BY <1>0 DEF LoanType
    <3> QED
      BY <1>2, <3>1, PaidCash DEF RollOver
  <2>2. PICK n \in LoanIds :
          loan' = [loan EXCEPT
                     ![l].status = "rolled_over",
                     ![n] = [loan[l] EXCEPT
                               !.principal = loan[l].balance,
                               !.interest = @ + 1,
                               !.due = tick + Duration,
                               !.rolled = @ + 1,
                               !.cascade = FALSE]]
    BY <1>2 DEF RollOver
  <2> DEFINE renewed == [loan[l] EXCEPT !.principal = loan[l].balance,
                                        !.interest = @ + 1,
                                        !.due = tick + Duration,
                                        !.rolled = @ + 1,
                                        !.cascade = FALSE]
             ended == [loan[l] EXCEPT !.status = "rolled_over"]
  <2>3. renewed \in LoanType
    <3>1. /\ loan[l].balance \in Nat /\ loan[l].interest + 1 \in Nat
          /\ tick + Duration \in Nat /\ loan[l].rolled + 1 \in Nat
      BY <1>0 DEF LoanType, ShapeOK, BoundsAssumption
    <3> QED
      BY <1>0, <3>1 DEF LoanType
  <2>4. ended \in LoanType
    BY <1>0 DEF LoanType, LoanStatuses
  <2>5. loan' = [loan EXCEPT ![l] = ended, ![n] = renewed]
    BY <2>2, <1>0 DEF ShapeOK
  <2>6. loan' \in [LoanIds -> LoanType]
    <3> HIDE DEF renewed, ended
    <3> QED
      BY <2>3, <2>4, <2>5 DEF ShapeOK
  <2> QED
    BY <1>2, <2>1, <2>6 DEF RollOver, ShapeOK
<1>3. CASE DefaultAtMaturity(l)
  BY <1>3, MarkedLoans DEF DefaultAtMaturity, ShapeOK
<1> QED
  BY <1>1, <1>2, <1>3

\* Every reachable state has the shape the lien argument needs.
THEOREM ShapeCorrect == Spec => []ShapeOK
<1> USE IdsAssumption, BoundsAssumption
<1>1. Init => ShapeOK
  <2> SUFFICES ASSUME Init PROVE ShapeOK
    OBVIOUS
  <2>1. NoLoan \in LoanType
    BY DEF NoLoan, LoanType, LoanStatuses
  <2>2. NoListing \in ListingType
    BY DEF NoListing, ListingType, ListingStatuses
  <2>3. cash \in [Agents -> Int]
    BY DEF Init, IdsAssumption
  <2>4. owner \in [Props -> Agents \cup {Government}]
    BY DEF Init, IdsAssumption
  <2> QED
    BY <2>1, <2>2, <2>3, <2>4 DEF Init, ShapeOK, Stages
<1>2. ShapeOK /\ [Next]_vars => ShapeOK'
  <2> SUFFICES ASSUME ShapeOK, [Next]_vars PROVE ShapeOK'
    OBVIOUS
  <2> USE DEF market, cascade, history
  <2>1. CASE SkipCredit
    BY <2>1 DEF SkipCredit, ShapeOK, Stages
  <2>2. CASE ExpireListings
    <3>1. listing' \in [Props -> ListingType]
      BY <2>2 DEF ExpireListings, ShapeOK, ListingType, ListingStatuses
    <3> QED
      BY <2>2, <3>1 DEF ExpireListings, ShapeOK, Stages
  <2>3. CASE MatchBuyer
    <3>1. PICK b \in Agents :
            /\ todo' = todo \ {b}
            /\ \/ \E p \in Props : Cheapest(p, b) /\ cash[b] >= listing[p].price /\ Sell(p, b)
               \/ UNCHANGED <<owner, listing, cash, treasury>>
      BY <2>3 DEF MatchBuyer
    <3>2. /\ owner' \in [Props -> Agents \cup {Government}]
          /\ listing' \in [Props -> ListingType]
          /\ cash' \in [Agents -> Int]
      <4>1. CASE UNCHANGED <<owner, listing, cash, treasury>>
        BY <4>1 DEF ShapeOK
      <4>2. ASSUME NEW p \in Props, Sell(p, b) PROVE <3>2!:
        <5>1. listing[p].price \in Nat
          BY DEF ShapeOK, ListingType
        <5>2. [listing[p] EXCEPT !.status = "sold"] \in ListingType
          BY DEF ShapeOK, ListingType, ListingStatuses
        <5>3. cash' \in [Agents -> Int]
          BY <4>2, <5>1 DEF Sell, ShapeOK
        <5> QED
          BY <4>2, <5>2, <5>3 DEF Sell, ShapeOK
      <4> QED
        BY <3>1, <4>1, <4>2
    <3> QED
      BY <2>3, <3>1, <3>2 DEF MatchBuyer, ShapeOK
  <2>4. CASE DefaultDeadAgentLoans
    <3>1. loan' \in [LoanIds -> LoanType] /\ defaultAt' \in [LoanIds -> Nat]
      BY <2>4, MarkedLoans DEF DefaultDeadAgentLoans
    <3> QED
      BY <2>4, <3>1 DEF DefaultDeadAgentLoans, ShapeOK, Stages, ActiveLoans
  <2>5. CASE ServiceLoan
    <3>1. PICK l \in LoanIds :
            /\ todo' = todo \ {l}
            /\ \/ Pay(l, loan[l].interest) /\ failing' = failing
               \/ failing' = failing \cup {l} /\ cash' = cash
      BY <2>5 DEF ServiceLoan
    <3>2. cash' \in [Agents -> Int]
      <4>1. loan[l].interest \in Nat
        BY DEF ShapeOK, LoanType
      <4> QED
        BY <3>1, <4>1, PaidCash DEF ShapeOK
    <3> QED
      BY <2>5, <3>1, <3>2 DEF ServiceLoan, ShapeOK
  <2>6. CASE DefaultUnserviced
    <3>1. loan' \in [LoanIds -> LoanType] /\ defaultAt' \in [LoanIds -> Nat]
      BY <2>6, MarkedLoans DEF DefaultUnserviced
    <3> QED
      BY <2>6, <3>1 DEF DefaultUnserviced, ShapeOK, Stages, ActiveLoans
  <2>7. CASE MatureLoan
    <3>1. PICK l \in LoanIds :
            /\ todo' = todo \ {l}
            /\ Repay(l) \/ RollOver(l) \/ DefaultAtMaturity(l)
      BY <2>7 DEF MatureLoan
    <3> QED
      BY <2>7, <3>1, MaturedLoan DEF MatureLoan, ShapeOK
  <2>8. CASE StartSettling
    BY <2>8 DEF StartSettling, ShapeOK, Stages
  <2>9. CASE SettleLoan
    <3>1. PICK l \in LoanIds :
            /\ todo' = todo \ {l} /\ Seize(l)
            /\ loan' = [loan EXCEPT ![l].status = "default_settled", ![l].balance = 0]
      BY <2>9 DEF SettleLoan
    <3>2. loan' \in [LoanIds -> LoanType]
      <4>1. [loan[l] EXCEPT !.status = "default_settled", !.balance = 0] \in LoanType
        BY EditedLoan DEF ShapeOK, LoanStatuses
      <4> QED
        BY <3>1, <4>1 DEF ShapeOK
    <3>3. owner' \in [Props -> Agents \cup {Government}]
      <4>1. loan[l].lender \in Agents \cup {Government}
        BY DEF ShapeOK, LoanType, Bank, Government
      <4> QED
        BY <3>1, <4>1 DEF Seize, ShapeOK
    <3>4. listing' \in [Props -> ListingType]
      <4> DEFINE ended(p) == [listing[p] EXCEPT
                   !.status = IF listing[p].status = "listed" THEN "withdrawn"
                              ELSE listing[p].status]
      <4>1. \A p \in Props : ended(p) \in ListingType
        BY DEF ShapeOK, ListingType, ListingStatuses
      <4>2. listing' = listing \/ listing' = [listing EXCEPT ![loan[l].collateral] =
                                               ended(loan[l].collateral)]
        BY <3>1 DEF Seize
      <4>3. loan[l].collateral \in Props \/ listing' = listing
        BY <3>1 DEF Seize, ShapeOK, LoanType
      <4> HIDE DEF ended
      <4> QED
        BY <4>1, <4>2, <4>3 DEF ShapeOK
    <3> QED
      BY <2>9, <3>1, <3>2, <3>3, <3>4 DEF SettleLoan, ShapeOK
  <2>10. CASE StartCascade
    BY <2>10 DEF StartCascade, ShapeOK, Stages
  <2>11. CASE CascadeLevel
    <3>1. loan' \in [LoanIds -> LoanType]
      <4>1. \A l \in LoanIds :
              [loan[l] EXCEPT !.status = "defaulted", !.cascade = TRUE] \in LoanType
        BY EditedLoan DEF ShapeOK, LoanStatuses
      <4> QED
        BY <2>11, <4>1 DEF CascadeLevel, ShapeOK
    <3>2. defaultAt' \in [LoanIds -> Nat]
      BY <2>11 DEF CascadeLevel, ShapeOK
    <3> QED
      <4>1. front' \subseteq Agents /\ visited' \subseteq Agents /\ depth' \in Nat
        <5> DEFINE hit == {a \in Agents \ visited :
                              \E b \in front : Ruined(a, LossFrom(b, a))}
        <5>1. front' = hit /\ visited' = visited \cup hit /\ depth' = depth + 1
          BY <2>11 DEF CascadeLevel
        <5>2. hit \subseteq Agents
          OBVIOUS
        <5> HIDE DEF hit
        <5> QED
          BY <5>1, <5>2 DEF ShapeOK
      <4> QED
        BY <2>11, <3>1, <3>2, <4>1 DEF CascadeLevel, ShapeOK
  <2>12. CASE CheckSolvency
    BY <2>12 DEF CheckSolvency, ShapeOK, Stages
  <2>13. CASE RestOfEconomy
    <3>1. \A a \in Agents : MayHave(a) \subseteq Int
      BY DEF MayHave, ShapeOK, IdsAssumption
    <3>2. cash' \in [Agents -> Int]
      BY <2>13, <3>1 DEF RestOfEconomy
    <3> QED
      BY <2>13, <3>2 DEF RestOfEconomy, ShapeOK, Stages
  <2>14. CASE EndTick
    <3>1. PICK S : Expropriate(S)
      BY <2>14 DEF EndTick
    <3>2. loan' \in [LoanIds -> LoanType]
      <4>1. \A l \in LoanIds :
              [loan[l] EXCEPT !.status = "defaulted", !.collateral = NoProp] \in LoanType
        BY EditedLoan DEF ShapeOK, LoanStatuses
      <4> QED
        BY <3>1, <4>1 DEF Expropriate, ShapeOK
    <3>3. defaultAt' \in [LoanIds -> Nat]
      BY <3>1 DEF Expropriate, ShapeOK
    <3>4. /\ owner' \in [Props -> Agents \cup {Government}]
          /\ listing' \in [Props -> ListingType]
      BY <3>1 DEF Expropriate, ShapeOK, ListingType, ListingStatuses
    <3> QED
      BY <2>14, <3>2, <3>3, <3>4 DEF EndTick, ShapeOK, Stages
  <2>15. CASE InjectEvent
    BY <2>15 DEF InjectEvent, ShapeOK
  <2>16. ASSUME NEW a \in Agents, Borrow(a) PROVE ShapeOK'
    <3>1. PICK p \in Props, interest \in Interests, amount \in Nat :
            IssueLoan(Bank, a, amount, interest, p)
      BY <2>16 DEF Borrow, IdsAssumption
    <3>2. interest \in Nat
      BY DEF IdsAssumption
    <3>3. loan' \in [LoanIds -> LoanType] /\ cash' \in [Agents -> Int]
      <4>1. Bank \in Agents \cup {Bank} /\ p \in Props \cup {NoProp}
        OBVIOUS
      <4> QED
        BY <3>1, <3>2, <4>1, IssuedLoan
    <3> QED
      BY <2>16, <3>3 DEF Borrow, Turn, ShapeOK
  <2>17. ASSUME NEW a \in Agents, NEW b \in Agents, LendPrivately(a, b) PROVE ShapeOK'
    <3>1. PICK p \in Props \cup {NoProp}, interest \in Interests, amount \in Nat :
            IssueLoan(a, b, amount, interest, p)
      <4>1. \A n \in 1 .. cash[a] : n \in Nat
        BY DEF ShapeOK
      <4> QED
        BY <2>17, <4>1 DEF LendPrivately, Unpledged, OwnedBy
    <3>2. interest \in Nat
      BY DEF IdsAssumption
    <3>3. loan' \in [LoanIds -> LoanType] /\ cash' \in [Agents -> Int]
      <4>1. a \in Agents \cup {Bank}
        OBVIOUS
      <4> QED
        BY <3>1, <3>2, <4>1, IssuedLoan
    <3> QED
      BY <2>17, <3>3 DEF LendPrivately, ShapeOK
  <2>18. ASSUME NEW a \in Agents, SellProperty(a) PROVE ShapeOK'
    <3>1. PICK p \in Unpledged(a), price \in Prices :
            listing' = [listing EXCEPT ![p] =
                          [status |-> "listed", price |-> price, at |-> tick, by |-> a]]
      BY <2>18 DEF SellProperty
    <3>2. [status |-> "listed", price |-> price, at |-> tick, by |-> a] \in ListingType
      BY DEF ListingType, ListingStatuses, ShapeOK, IdsAssumption
    <3>3. listing' \in [Props -> ListingType]
      BY <3>1, <3>2 DEF ShapeOK
    <3> QED
      BY <2>18, <3>3 DEF SellProperty, Turn, ShapeOK
  <2>19. ASSUME NEW a \in Agents, BuyProperty(a) PROVE ShapeOK'
    BY <2>19 DEF BuyProperty, Turn, ShapeOK
  <2>20. ASSUME NEW a \in Agents, OtherTurn(a) PROVE ShapeOK'
    BY <2>20 DEF OtherTurn, Turn, ShapeOK
  <2>21. CASE UNCHANGED vars
    BY <2>21 DEF vars, ShapeOK
  <2>22. ASSUME NEW a \in Agents, BookLoan(a) PROVE ShapeOK'
    BY <2>22 DEF BookLoan, ShapeOK
  <2> QED
    BY <2>1, <2>2, <2>3, <2>4, <2>5, <2>6, <2>7, <2>8, <2>9, <2>10, <2>11, <2>12, <2>13,
       <2>14, <2>15, <2>16, <2>17, <2>18, <2>19, <2>20, <2>21, <2>22 DEF Next
<1> QED
  BY <1>1, <1>2, PTL DEF Spec

-----------------------------------------------------------------------------
(* The phases. *)

\* The rows a phase has still to process are in the status it expects.
THEOREM PhasesKeepTheirRows == Spec => []PhaseOK
<1> USE IdsAssumption, BoundsAssumption
<1>1. Init => PhaseOK
  BY DEF Init, PhaseOK
<1>2. ShapeOK /\ PhaseOK /\ [Next]_vars => PhaseOK'
  <2> SUFFICES ASSUME ShapeOK, PhaseOK, [Next]_vars PROVE PhaseOK'
    OBVIOUS
  <2> USE DEF market, cascade, history, PhaseOK, ActiveLoans, Defaulted
  <2>1. CASE SkipCredit
    BY <2>1 DEF SkipCredit
  <2>2. CASE ExpireListings
    BY <2>2 DEF ExpireListings, ShapeOK
  <2>3. CASE MatchBuyer
    BY <2>3 DEF MatchBuyer
  <2>4. CASE DefaultDeadAgentLoans
    BY <2>4 DEF DefaultDeadAgentLoans, MarkDefaulted
  <2>5. CASE ServiceLoan
    BY <2>5 DEF ServiceLoan
  <2>6. CASE DefaultUnserviced
    BY <2>6 DEF DefaultUnserviced, MarkDefaulted
  <2>7. CASE MatureLoan
    <3>1. PICK l \in LoanIds :
            /\ todo' = todo \ {l}
            /\ Repay(l) \/ RollOver(l) \/ DefaultAtMaturity(l)
      BY <2>7 DEF MatureLoan
    <3>2. \A m \in LoanIds \ {l} : loan[m].status = "active" => loan'[m] = loan[m]
      <4>1. CASE Repay(l)
        BY <4>1 DEF Repay, ShapeOK
      <4>2. CASE RollOver(l)
        <5>1. PICK n \in LoanIds :
                /\ NewRow(n)
                /\ \A m \in LoanIds \ {l, n} : loan'[m] = loan[m]
          BY <4>2 DEF RollOver, ShapeOK
        <5>2. loan[n].status = "none"
          BY <5>1 DEF NewRow, First, Free
        <5> QED
          BY <5>1, <5>2
      <4>3. CASE DefaultAtMaturity(l)
        BY <4>3 DEF DefaultAtMaturity, MarkDefaulted, ShapeOK
      <4> QED
        BY <3>1, <4>1, <4>2, <4>3
    <3>3. stage = "mature" /\ stage' = stage
      BY <2>7 DEF MatureLoan
    <3>4. \A m \in todo : m \in LoanIds /\ loan[m].status = "active"
      BY <3>3
    <3>5. \A m \in todo' : m \in LoanIds /\ loan'[m].status = "active"
      BY <3>1, <3>2, <3>4
    <3>6. stage' = "mature"
      BY <3>3
    <3> QED
      BY <3>5, <3>6
  <2>8. CASE StartSettling
    BY <2>8 DEF StartSettling
  <2>9. CASE SettleLoan
    <3>1. PICK l \in LoanIds :
            /\ todo' = todo \ {l}
            /\ loan' = [loan EXCEPT ![l].status = "default_settled", ![l].balance = 0]
      BY <2>9 DEF SettleLoan
    <3>2. \A m \in LoanIds \ {l} : loan'[m] = loan[m]
      BY <3>1 DEF ShapeOK
    <3>3. stage = "settle" /\ stage' = stage
      BY <2>9 DEF SettleLoan
    <3> QED
      BY <3>1, <3>2, <3>3
  <2>10. CASE StartCascade
    BY <2>10 DEF StartCascade
  <2>11. CASE CascadeLevel
    BY <2>11 DEF CascadeLevel
  <2>12. CASE CheckSolvency
    BY <2>12 DEF CheckSolvency
  <2>13. CASE RestOfEconomy
    BY <2>13 DEF RestOfEconomy, ShapeOK
  <2>14. CASE EndTick
    BY <2>14 DEF EndTick
  <2>15. CASE InjectEvent
    BY <2>15 DEF InjectEvent
  <2>16. ASSUME NEW a \in Agents, Borrow(a) PROVE PhaseOK'
    BY <2>16 DEF Borrow, Turn
  <2>17. ASSUME NEW a \in Agents, NEW b \in Agents, LendPrivately(a, b) PROVE PhaseOK'
    BY <2>17 DEF LendPrivately
  <2>18. ASSUME NEW a \in Agents, SellProperty(a) PROVE PhaseOK'
    BY <2>18 DEF SellProperty, Turn
  <2>19. ASSUME NEW a \in Agents, BuyProperty(a) PROVE PhaseOK'
    BY <2>19 DEF BuyProperty, Turn
  <2>20. ASSUME NEW a \in Agents, OtherTurn(a) PROVE PhaseOK'
    BY <2>20 DEF OtherTurn, Turn
  <2>21. CASE UNCHANGED vars
    BY <2>21 DEF vars
  <2>22. ASSUME NEW a \in Agents, BookLoan(a) PROVE PhaseOK'
    BY <2>22 DEF BookLoan
  <2> QED
    BY <2>1, <2>2, <2>3, <2>4, <2>5, <2>6, <2>7, <2>8, <2>9, <2>10, <2>11, <2>12, <2>13,
       <2>14, <2>15, <2>16, <2>17, <2>18, <2>19, <2>20, <2>21, <2>22 DEF Next
<1> QED
  BY <1>1, <1>2, ShapeCorrect, PTL DEF Spec

-----------------------------------------------------------------------------
(* Liens. *)

LienOK == OneLienPerProperty /\ SecurityHeld
Claim(l) == Live(l) /\ loan[l].collateral # NoProp

\* A step that makes no claim and moves no property under one keeps LienOK.
LEMMA ClaimsKept ==
    ASSUME LienOK,
           \A l \in LoanIds :
              Claim(l)' => /\ Claim(l)
                          /\ loan'[l].collateral = loan[l].collateral
                          /\ loan'[l].borrower = loan[l].borrower
                          /\ owner'[loan[l].collateral] = owner[loan[l].collateral]
    PROVE  LienOK'
BY DEF LienOK, OneLienPerProperty, SecurityHeld, Claim, Live

\* A new loan on collateral that is free, or none, keeps LienOK.
LEMMA ClaimAdded ==
    ASSUME LienOK, ShapeOK, IdsAssumption, NEW n \in LoanIds, NEW r, NEW p,
           loan' = [loan EXCEPT ![n] = r], owner' = owner,
           loan[n].status = "none",
           r.collateral = p, p = NoProp \/ (~Pledged(p) /\ owner[p] = r.borrower)
    PROVE  LienOK'
<1>1. loan'[n] = r /\ \A m \in LoanIds \ {n} : loan'[m] = loan[m]
  BY DEF ShapeOK
<1>2. OneLienPerProperty'
  BY <1>1 DEF LienOK, OneLienPerProperty, Live, Pledged
<1>3. SecurityHeld'
  BY <1>1 DEF LienOK, SecurityHeld, Live
<1> QED
  BY <1>2, <1>3 DEF LienOK

\* No property secures two loans, and what secures a loan is its borrower's.
THEOREM LiensHold == Spec => []LienOK
<1> USE IdsAssumption, BoundsAssumption
<1>1. Init => LienOK
  BY DEF Init, LienOK, OneLienPerProperty, SecurityHeld, Live, NoLoan
<1>2. ShapeOK /\ PhaseOK /\ LienOK /\ [Next]_vars => LienOK'
  <2> SUFFICES ASSUME ShapeOK, PhaseOK, LienOK, [Next]_vars PROVE LienOK'
    OBVIOUS
  <2> USE DEF market, cascade, history
  <2>0. ASSUME UNCHANGED <<loan, owner>> PROVE LienOK'
    BY <2>0 DEF LienOK, OneLienPerProperty, SecurityHeld, Live
  <2>1. CASE SkipCredit
    BY <2>0, <2>1 DEF SkipCredit
  <2>2. CASE ExpireListings
    BY <2>0, <2>2 DEF ExpireListings
  <2>3. CASE MatchBuyer
    <3>1. ASSUME NEW b \in Agents, NEW p \in Props, Cheapest(p, b), Sell(p, b),
                 loan' = loan
          PROVE  LienOK'
      <4>1. ~Pledged(p)
        BY <3>1 DEF Cheapest, Offers
      <4>2. \A l \in LoanIds : Claim(l) => loan[l].collateral # p
        BY <4>1 DEF Pledged, Claim
      <4>3. \A q \in Props \ {p} : owner'[q] = owner[q]
        BY <3>1 DEF Sell, ShapeOK
      <4>4. \A l \in LoanIds : Claim(l) => loan[l].collateral \in Props
        BY DEF Claim, ShapeOK, LoanType
      <4> QED
        BY <3>1, <4>2, <4>3, <4>4, ClaimsKept DEF Claim, Live
    <3> QED
      BY <2>0, <2>3, <3>1 DEF MatchBuyer
  <2>4. CASE DefaultDeadAgentLoans
    BY <2>4, ClaimsKept
       DEF DefaultDeadAgentLoans, MarkDefaulted, Claim, Live, ActiveLoans, ShapeOK, LoanType
  <2>5. CASE ServiceLoan
    BY <2>0, <2>5 DEF ServiceLoan
  <2>6. CASE DefaultUnserviced
    BY <2>6, ClaimsKept
       DEF DefaultUnserviced, MarkDefaulted, Claim, Live, ActiveLoans, ShapeOK, LoanType
  <2>7. CASE MatureLoan
    <3>1. PICK l \in LoanIds :
            /\ l \in todo
            /\ Repay(l) \/ RollOver(l) \/ DefaultAtMaturity(l)
      BY <2>7 DEF MatureLoan, First
    <3>2. loan[l].status = "active" /\ owner' = owner
      <4>1. stage = "mature"
        BY <2>7 DEF MatureLoan
      <4>2. owner' = owner
        BY <2>7 DEF MatureLoan
      <4>3. todo \subseteq ActiveLoans
        BY <4>1 DEF PhaseOK
      <4> QED
        BY <3>1, <4>2, <4>3 DEF ActiveLoans
    <3>3. CASE Repay(l)
      BY <3>2, <3>3, ClaimsKept DEF Repay, Claim, Live, ShapeOK, LoanType
    <3>4. CASE RollOver(l)
      <4>1. PICK n \in LoanIds :
              /\ NewRow(n)
              /\ loan' = [loan EXCEPT
                            ![l].status = "rolled_over",
                            ![n] = [loan[l] EXCEPT
                                      !.principal = loan[l].balance,
                                      !.interest = @ + 1,
                                      !.due = tick + Duration,
                                      !.rolled = @ + 1,
                                      !.cascade = FALSE]]
        BY <3>4 DEF RollOver
      <4>2. loan[n].status = "none" /\ n # l
        BY <3>2, <4>1 DEF NewRow, First, Free
      <4>3. loan[l] \in LoanType
        BY DEF ShapeOK
      <4>4. /\ loan'[l].status = "rolled_over"
            /\ loan'[n].collateral = loan[l].collateral
            /\ loan'[n].borrower = loan[l].borrower
            /\ \A m \in LoanIds \ {l, n} : loan'[m] = loan[m]
        BY <4>1, <4>2, <4>3 DEF ShapeOK, LoanType
      <4>5. OneLienPerProperty'
        BY <3>2, <4>2, <4>4 DEF LienOK, OneLienPerProperty, Live
      <4>6. SecurityHeld'
        BY <3>2, <4>2, <4>4 DEF LienOK, SecurityHeld, Live
      <4> QED
        BY <4>5, <4>6 DEF LienOK
    <3>5. CASE DefaultAtMaturity(l)
      BY <3>2, <3>5, ClaimsKept
         DEF DefaultAtMaturity, MarkDefaulted, Claim, Live, ShapeOK, LoanType
    <3> QED
      BY <3>1, <3>3, <3>4, <3>5
  <2>8. CASE StartSettling
    BY <2>0, <2>8 DEF StartSettling
  <2>9. CASE SettleLoan
    <3>1. PICK l \in LoanIds :
            /\ l \in todo /\ Seize(l)
            /\ loan' = [loan EXCEPT ![l].status = "default_settled", ![l].balance = 0]
      BY <2>9 DEF SettleLoan, First
    <3>2. Live(l)
      BY <2>9, <3>1 DEF SettleLoan, PhaseOK, Defaulted, Live
    <3>3. loan'[l].status = "default_settled" /\ \A m \in LoanIds \ {l} : loan'[m] = loan[m]
      BY <3>1 DEF ShapeOK, LoanType
    <3>4. \A q \in Props : q # loan[l].collateral => owner'[q] = owner[q]
      BY <3>1 DEF Seize, ShapeOK
    <3>5. \A m \in LoanIds \ {l} :
            Claim(m) => /\ loan[m].collateral # loan[l].collateral
                        /\ loan[m].collateral \in Props
      BY <3>2 DEF LienOK, OneLienPerProperty, Claim, ShapeOK, LoanType
    <3> QED
      BY <3>3, <3>4, <3>5, ClaimsKept DEF Claim, Live
  <2>10. CASE StartCascade
    BY <2>0, <2>10 DEF StartCascade
  <2>11. CASE CascadeLevel
    <3>1. \A m \in LoanIds : \/ loan'[m] = loan[m]
                            \/ /\ loan[m].status = "active"
                               /\ loan'[m].collateral = loan[m].collateral
                               /\ loan'[m].borrower = loan[m].borrower
      <4> DEFINE fallen == UNION {BorrowedBy(a) : a \in front}
      <4>1. fallen \subseteq ActiveLoans
        BY DEF BorrowedBy
      <4>2. loan' = [m \in LoanIds |->
                       IF m \in fallen
                       THEN [loan[m] EXCEPT !.status = "defaulted", !.cascade = TRUE]
                       ELSE loan[m]]
        BY <2>11 DEF CascadeLevel
      <4> HIDE DEF fallen
      <4> QED
        BY <4>1, <4>2 DEF ActiveLoans, ShapeOK, LoanType
    <3> QED
      BY <2>11, <3>1, ClaimsKept DEF CascadeLevel, Claim, Live
  <2>12. CASE CheckSolvency
    BY <2>0, <2>12 DEF CheckSolvency
  <2>13. CASE RestOfEconomy
    BY <2>0, <2>13 DEF RestOfEconomy
  <2>14. CASE EndTick
    <3>1. PICK S : Expropriate(S)
      BY <2>14 DEF EndTick
    <3>2. \A m \in LoanIds :
            Claim(m)' => /\ loan'[m] = loan[m]
                         /\ loan[m].collateral \in Props \ S
      <4> SUFFICES ASSUME NEW m \in LoanIds, Claim(m)'
                   PROVE  loan'[m] = loan[m] /\ loan[m].collateral \in Props \ S
        OBVIOUS
      <4>1. CASE Live(m) /\ loan[m].collateral \in S
        <5>1. loan'[m].collateral = NoProp
          BY <3>1, <4>1 DEF Expropriate, ShapeOK, LoanType
        <5> QED
          BY <5>1 DEF Claim
      <4>2. CASE ~(Live(m) /\ loan[m].collateral \in S)
        <5>1. loan'[m] = loan[m]
          BY <3>1, <4>2 DEF Expropriate, ShapeOK
        <5> QED
          BY <4>2, <5>1 DEF Claim, Live, ShapeOK, LoanType
      <4> QED
        BY <4>1, <4>2
    <3>3. \A q \in Props \ S : owner'[q] = owner[q]
      BY <3>1 DEF Expropriate
    <3> QED
      BY <3>2, <3>3, ClaimsKept DEF Claim, Live
  <2>15. CASE InjectEvent
    BY <2>0, <2>15 DEF InjectEvent
  <2>16. ASSUME NEW a \in Agents, Borrow(a) PROVE LienOK'
    <3>1. PICK p \in Props, interest \in Interests, amount \in Nat :
            Best(p, a) /\ IssueLoan(Bank, a, amount, interest, p)
      BY <2>16 DEF Borrow, IdsAssumption
    <3>2. PICK n \in LoanIds :
            NewRow(n)
            /\ loan' = [loan EXCEPT ![n] =
                          [status |-> "active", lender |-> Bank, borrower |-> a,
                           principal |-> amount, balance |-> amount, interest |-> interest,
                           collateral |-> p, due |-> tick + Duration, rolled |-> 0,
                           cascade |-> FALSE]]
      BY <3>1 DEF IssueLoan
    <3>3. loan[n].status = "none"
      BY <3>2 DEF NewRow, First, Free
    <3>4. ~Pledged(p) /\ owner[p] = a
      BY <3>1 DEF Best, Unpledged, OwnedBy
    <3>5. owner' = owner
      BY <2>16 DEF Borrow
    <3> QED
      BY <3>2, <3>3, <3>4, <3>5, ClaimAdded
  <2>17. ASSUME NEW a \in Agents, NEW b \in Agents, LendPrivately(a, b) PROVE LienOK'
    <3>1. PICK p \in {NoProp} \cup Unpledged(b), interest \in Interests,
               amount \in 1 .. cash[a] : IssueLoan(a, b, amount, interest, p)
      BY <2>17 DEF LendPrivately
    <3>2. PICK n \in LoanIds :
            NewRow(n)
            /\ loan' = [loan EXCEPT ![n] =
                          [status |-> "active", lender |-> a, borrower |-> b,
                           principal |-> amount, balance |-> amount, interest |-> interest,
                           collateral |-> p, due |-> tick + Duration, rolled |-> 0,
                           cascade |-> FALSE]]
      BY <3>1 DEF IssueLoan
    <3>3. loan[n].status = "none"
      BY <3>2 DEF NewRow, First, Free
    <3>4. p = NoProp \/ (~Pledged(p) /\ owner[p] = b)
      BY <3>1 DEF Unpledged, OwnedBy
    <3>5. owner' = owner
      BY <2>17 DEF LendPrivately
    <3> QED
      BY <3>2, <3>3, <3>4, <3>5, ClaimAdded
  <2>18. ASSUME NEW a \in Agents, SellProperty(a) PROVE LienOK'
    BY <2>0, <2>18 DEF SellProperty
  <2>19. ASSUME NEW a \in Agents, BuyProperty(a) PROVE LienOK'
    BY <2>0, <2>19 DEF BuyProperty
  <2>20. ASSUME NEW a \in Agents, OtherTurn(a) PROVE LienOK'
    BY <2>0, <2>20 DEF OtherTurn
  <2>21. CASE UNCHANGED vars
    BY <2>0, <2>21 DEF vars
  <2>22. ASSUME NEW a \in Agents, BookLoan(a) PROVE LienOK'
    BY <2>0, <2>22 DEF BookLoan
  <2> QED
    BY <2>1, <2>2, <2>3, <2>4, <2>5, <2>6, <2>7, <2>8, <2>9, <2>10, <2>11, <2>12, <2>13,
       <2>14, <2>15, <2>16, <2>17, <2>18, <2>19, <2>20, <2>21, <2>22 DEF Next
<1> QED
  BY <1>1, <1>2, ShapeCorrect, PhasesKeepTheirRows, PTL DEF Spec

\* A property secures at most one loan that is not over, in every reachable
\* state and for every order of borrowing, dying, seizing and expropriating.
THEOREM NoDoublePledge == Spec => []OneLienPerProperty
<1>1. LienOK => OneLienPerProperty
  BY DEF LienOK
<1> QED
  BY <1>1, LiensHold, PTL

\* What secures a loan that is not over belongs to its borrower.
THEOREM SecurityStaysWithBorrower == Spec => []SecurityHeld
<1>1. LienOK => SecurityHeld
  BY DEF LienOK
<1> QED
  BY <1>1, LiensHold, PTL

-----------------------------------------------------------------------------
(* Transfers and ends. *)

\* A property under a lien changes hands only at the settlement of that loan
\* or to the state.
THEOREM LiensBlockTransfers == Spec => LienBlocksTransfer
<1> USE IdsAssumption, BoundsAssumption
<1> DEFINE Blocked ==
      \A p \in Props :
         owner'[p] # owner[p] /\ (\E l \in LoanIds : Live(l) /\ loan[l].collateral = p)
            => owner'[p] = Government
               \/ \E l \in LoanIds :
                    /\ loan[l].collateral = p /\ loan[l].status = "defaulted"
                    /\ loan'[l].status = "default_settled"
                    /\ owner'[p] = loan[l].lender
<1>1. ShapeOK /\ PhaseOK /\ [Next]_vars => [Blocked]_vars
  <2> SUFFICES ASSUME ShapeOK, PhaseOK, Next PROVE Blocked
    BY DEF vars
  <2> USE DEF market
  <2>0. ASSUME owner' = owner PROVE Blocked
    BY <2>0
  <2>1. CASE MatchBuyer
    <3>1. ASSUME NEW b \in Agents, NEW p \in Props, Cheapest(p, b), Sell(p, b) PROVE Blocked
      BY <3>1 DEF Cheapest, Offers, Pledged, Sell, ShapeOK
    <3> QED
      BY <2>0, <2>1, <3>1 DEF MatchBuyer
  <2>2. CASE SettleLoan
    <3>1. PICK l \in LoanIds :
            /\ l \in todo /\ Seize(l)
            /\ loan' = [loan EXCEPT ![l].status = "default_settled", ![l].balance = 0]
      BY <2>2 DEF SettleLoan, First
    <3>2. stage = "settle"
      BY <2>2 DEF SettleLoan
    <3>3. loan[l].status = "defaulted"
      BY <3>1, <3>2 DEF PhaseOK, Defaulted
    <3>4. loan'[l].status = "default_settled"
      BY <3>1 DEF ShapeOK, LoanType
    <3> QED
      BY <3>1, <3>3, <3>4 DEF Seize, ShapeOK
  <2>3. CASE EndTick
    BY <2>3 DEF EndTick, Expropriate
  <2>4. CASE \/ SkipCredit \/ ExpireListings \/ DefaultDeadAgentLoans \/ ServiceLoan
             \/ DefaultUnserviced \/ MatureLoan \/ StartSettling \/ StartCascade
             \/ CascadeLevel \/ CheckSolvency \/ RestOfEconomy \/ InjectEvent
    BY <2>0, <2>4
       DEF SkipCredit, ExpireListings, DefaultDeadAgentLoans, ServiceLoan, DefaultUnserviced,
           MatureLoan, StartSettling, StartCascade, CascadeLevel, CheckSolvency,
           RestOfEconomy, InjectEvent
  <2>5. ASSUME NEW a \in Agents,
               \/ Borrow(a) \/ BookLoan(a) \/ SellProperty(a) \/ BuyProperty(a)
               \/ OtherTurn(a) \/ \E b \in Agents : LendPrivately(a, b)
        PROVE  Blocked
    BY <2>0, <2>5
       DEF Borrow, BookLoan, SellProperty, BuyProperty, OtherTurn, LendPrivately
  <2> QED
    BY <2>1, <2>2, <2>3, <2>4, <2>5 DEF Next
<1> QED
  BY <1>1, ShapeCorrect, PhasesKeepTheirRows, PTL DEF Spec, LienBlocksTransfer

\* A loan that is over stays as it ended.
THEOREM EndsAreFinal == Spec => OverIsOver
<1> USE IdsAssumption, BoundsAssumption
<1> DEFINE Over(l) == loan[l].status \in {"repaid", "default_settled", "rolled_over"}
           Final == \A l \in LoanIds : Over(l) => loan'[l] = loan[l]
<1>1. ShapeOK /\ PhaseOK /\ [Next]_vars => [Final]_vars
  <2> SUFFICES ASSUME ShapeOK, PhaseOK, Next PROVE Final
    BY DEF vars
  <2> USE DEF ShapeOK
  <2>0. ASSUME loan' = loan PROVE Final
    BY <2>0
  <2>1. ASSUME NEW S \in SUBSET ActiveLoans, MarkDefaulted(S) PROVE Final
    BY <2>1 DEF MarkDefaulted, ActiveLoans
  <2>2. ASSUME NEW n \in LoanIds, NEW r, NewRow(n), loan' = [loan EXCEPT ![n] = r] PROVE Final
    BY <2>2 DEF NewRow, First, Free
  <2>3. CASE DefaultDeadAgentLoans
    BY <2>1, <2>3 DEF DefaultDeadAgentLoans, ActiveLoans
  <2>4. CASE DefaultUnserviced
    BY <2>1, <2>4 DEF DefaultUnserviced
  <2>5. CASE MatureLoan
    <3>1. PICK l \in LoanIds :
            /\ l \in todo
            /\ Repay(l) \/ RollOver(l) \/ DefaultAtMaturity(l)
      BY <2>5 DEF MatureLoan, First
    <3>2. stage = "mature"
      BY <2>5 DEF MatureLoan
    <3>3. l \in ActiveLoans
      BY <3>1, <3>2 DEF PhaseOK
    <3>4. CASE Repay(l)
      BY <3>3, <3>4 DEF Repay, ActiveLoans
    <3>5. CASE RollOver(l)
      BY <3>3, <3>5 DEF RollOver, ActiveLoans, NewRow, First, Free
    <3>6. CASE DefaultAtMaturity(l)
      BY <2>1, <3>3, <3>6 DEF DefaultAtMaturity
    <3> QED
      BY <3>1, <3>4, <3>5, <3>6
  <2>6. CASE SettleLoan
    <3>1. PICK l \in LoanIds :
            /\ l \in todo
            /\ loan' = [loan EXCEPT ![l].status = "default_settled", ![l].balance = 0]
      BY <2>6 DEF SettleLoan, First
    <3>2. stage = "settle"
      BY <2>6 DEF SettleLoan
    <3>3. loan[l].status = "defaulted"
      BY <3>1, <3>2 DEF PhaseOK, Defaulted
    <3> QED
      BY <3>1, <3>3
  <2>7. CASE CascadeLevel
    <3> DEFINE fallen == UNION {BorrowedBy(a) : a \in front}
    <3>1. fallen \subseteq ActiveLoans
      BY DEF BorrowedBy
    <3>2. loan' = [m \in LoanIds |->
                     IF m \in fallen
                     THEN [loan[m] EXCEPT !.status = "defaulted", !.cascade = TRUE]
                     ELSE loan[m]]
      BY <2>7 DEF CascadeLevel
    <3> HIDE DEF fallen
    <3> QED
      BY <3>1, <3>2 DEF ActiveLoans
  <2>8. CASE EndTick
    BY <2>8 DEF EndTick, Expropriate, Live
  <2>9. CASE \/ SkipCredit \/ ExpireListings \/ MatchBuyer \/ ServiceLoan
             \/ StartSettling \/ StartCascade \/ CheckSolvency \/ RestOfEconomy \/ InjectEvent
    BY <2>0, <2>9
       DEF SkipCredit, ExpireListings, MatchBuyer, ServiceLoan, StartSettling, StartCascade,
           CheckSolvency, RestOfEconomy, InjectEvent
  <2>10. ASSUME NEW a \in Agents,
                BookLoan(a) \/ SellProperty(a) \/ BuyProperty(a) \/ OtherTurn(a)
         PROVE  Final
    BY <2>0, <2>10 DEF BookLoan, SellProperty, BuyProperty, OtherTurn
  <2>11. ASSUME NEW a \in Agents, Borrow(a) \/ \E b \in Agents : LendPrivately(a, b)
         PROVE  Final
    BY <2>2, <2>11 DEF Borrow, LendPrivately, IssueLoan
  <2> QED
    BY <2>3, <2>4, <2>5, <2>6, <2>7, <2>8, <2>9, <2>10, <2>11 DEF Next
<1> QED
  BY <1>1, ShapeCorrect, PhasesKeepTheirRows, PTL DEF Spec, OverIsOver

\* What is for sale belongs to whoever put it up.
THEOREM ListingsAreTheOwners == Spec => []ListedByOwner
<1> USE IdsAssumption, BoundsAssumption
<1>1. Init => ListedByOwner
  BY DEF Init, ListedByOwner, NoListing
<1>2. ShapeOK /\ ListedByOwner /\ [Next]_vars => ListedByOwner'
  <2> SUFFICES ASSUME ShapeOK, ListedByOwner, [Next]_vars PROVE ListedByOwner'
    OBVIOUS
  <2> USE DEF market, ListedByOwner, ShapeOK, ListingType
  <2>0. ASSUME UNCHANGED <<owner, listing>> PROVE ListedByOwner'
    BY <2>0
  <2>1. CASE ExpireListings
    <3>1. owner' = owner
      BY <2>1 DEF ExpireListings
    <3>2. \A p \in Props : listing'[p].status = "listed" => listing'[p] = listing[p]
      BY <2>1 DEF ExpireListings
    <3> QED
      BY <3>1, <3>2
  <2>2. CASE MatchBuyer
    <3>1. ASSUME NEW b \in Agents, NEW p \in Props, Sell(p, b) PROVE ListedByOwner'
      BY <3>1 DEF Sell
    <3> QED
      BY <2>0, <2>2, <3>1 DEF MatchBuyer
  <2>3. CASE SettleLoan
    <3>1. PICK l \in LoanIds : Seize(l)
      BY <2>3 DEF SettleLoan
    <3> DEFINE q == loan[l].collateral
    <3>2. CASE q = NoProp
      BY <2>0, <3>1, <3>2 DEF Seize
    <3>3. CASE q # NoProp
      <4>1. \A p \in Props \ {q} : owner'[p] = owner[p] /\ listing'[p] = listing[p]
        BY <3>1, <3>3 DEF Seize
      <4>2. q \in Props => listing'[q].status # "listed"
        BY <3>1, <3>3 DEF Seize
      <4> HIDE DEF q
      <4> QED
        BY <4>1, <4>2
    <3> QED
      BY <3>2, <3>3
  <2>4. CASE EndTick
    <3>1. PICK S : Expropriate(S)
      BY <2>4 DEF EndTick
    <3>2. ASSUME NEW p \in Props, listing'[p].status = "listed"
          PROVE  p \notin S /\ listing'[p] = listing[p]
      <4>1. listing[p] \in ListingType
        OBVIOUS
      <4>2. listing'[p] = IF p \in S /\ listing[p].status = "listed"
                          THEN [listing[p] EXCEPT !.status = "withdrawn"] ELSE listing[p]
        BY <3>1 DEF Expropriate
      <4> QED
        BY <3>2, <4>1, <4>2
    <3>3. \A p \in Props \ S : owner'[p] = owner[p]
      BY <3>1 DEF Expropriate
    <3> QED
      BY <3>2, <3>3
  <2>5. ASSUME NEW a \in Agents, SellProperty(a) PROVE ListedByOwner'
    <3>1. PICK p \in Unpledged(a), price \in Prices :
            listing' = [listing EXCEPT ![p] =
                          [status |-> "listed", price |-> price, at |-> tick, by |-> a]]
      BY <2>5 DEF SellProperty
    <3>2. owner' = owner
      BY <2>5 DEF SellProperty
    <3>3. p \in Props /\ owner[p] = a
      BY DEF Unpledged, OwnedBy
    <3>4. listing'[p].by = a /\ \A q \in Props \ {p} : listing'[q] = listing[q]
      <4> HIDE DEF market, ListedByOwner
      <4> QED
        BY <3>1, <3>3
    <3> QED
      BY <3>2, <3>3, <3>4
  <2>6. CASE \/ SkipCredit \/ DefaultDeadAgentLoans \/ ServiceLoan
             \/ DefaultUnserviced \/ MatureLoan \/ StartSettling \/ StartCascade
             \/ CascadeLevel \/ CheckSolvency \/ RestOfEconomy \/ InjectEvent
    BY <2>0, <2>6
       DEF SkipCredit, DefaultDeadAgentLoans, ServiceLoan, DefaultUnserviced, MatureLoan,
           StartSettling, StartCascade, CascadeLevel, CheckSolvency, RestOfEconomy, InjectEvent
  <2>7. ASSUME NEW a \in Agents,
               \/ Borrow(a) \/ BookLoan(a) \/ BuyProperty(a) \/ OtherTurn(a)
               \/ \E b \in Agents : LendPrivately(a, b)
        PROVE  ListedByOwner'
    BY <2>0, <2>7 DEF Borrow, BookLoan, BuyProperty, OtherTurn, LendPrivately
  <2>8. CASE UNCHANGED vars
    BY <2>0, <2>8 DEF vars
  <2> QED
    BY <2>1, <2>2, <2>3, <2>4, <2>5, <2>6, <2>7, <2>8 DEF Next
<1> QED
  BY <1>1, <1>2, ShapeCorrect, PTL DEF Spec

\* Paying what one has leaves nobody below zero.
LEMMA PayKeeps ==
    ASSUME ShapeOK, NobodyOverdraws, NEW l \in LoanIds, NEW amount \in Nat,
           cash[loan[l].borrower] >= amount, Pay(l, amount)
    PROVE  NobodyOverdraws'
BY DEF ShapeOK, NobodyOverdraws, Pay

\* No order of servicing, repaying, lending and buying takes from an agent
\* more than it has.
THEOREM NobodyOverdrawn == Spec => []NobodyOverdraws
<1> USE IdsAssumption, BoundsAssumption
<1>1. Init => NobodyOverdraws
  BY DEF Init, NobodyOverdraws, IdsAssumption
<1>2. ShapeOK /\ NobodyOverdraws /\ [Next]_vars => NobodyOverdraws'
  <2> SUFFICES ASSUME ShapeOK, NobodyOverdraws, [Next]_vars PROVE NobodyOverdraws'
    OBVIOUS
  <2>0. ASSUME cash' = cash PROVE NobodyOverdraws'
    BY <2>0 DEF NobodyOverdraws
  <2>00. \A l \in LoanIds : loan[l].interest \in Nat /\ loan[l].balance \in Nat
    BY DEF ShapeOK, LoanType
  <2>1. CASE MatchBuyer
    <3>1. ASSUME NEW b \in Agents, NEW p \in Props, cash[b] >= listing[p].price, Sell(p, b)
          PROVE  NobodyOverdraws'
      <4>1. listing[p].price \in Nat
        BY DEF ShapeOK, ListingType
      <4> QED
        BY <3>1, <4>1 DEF Sell, ShapeOK, NobodyOverdraws
    <3> QED
      BY <2>0, <2>1, <3>1 DEF MatchBuyer
  <2>2. CASE ServiceLoan
    BY <2>0, <2>00, <2>2, PayKeeps DEF ServiceLoan
  <2>3. CASE MatureLoan
    <3>1. PICK l \in LoanIds : Repay(l) \/ RollOver(l) \/ DefaultAtMaturity(l)
      BY <2>3 DEF MatureLoan
    <3>2. loan[l].balance + loan[l].interest \in Nat
      BY <2>00
    <3>3. CASE Repay(l)
      BY <3>2, <3>3, PayKeeps DEF Repay
    <3>4. CASE RollOver(l)
      BY <2>00, <3>4, PayKeeps DEF RollOver
    <3>5. CASE DefaultAtMaturity(l)
      BY <2>0, <3>5 DEF DefaultAtMaturity
    <3> QED
      BY <3>1, <3>3, <3>4, <3>5
  <2>4. CASE RestOfEconomy
    <3>1. \A a \in Agents : \A c \in MayHave(a) : c \in Int /\ c >= 0
      BY DEF MayHave, ShapeOK, NobodyOverdraws, IdsAssumption
    <3> QED
      BY <2>4, <3>1 DEF RestOfEconomy, NobodyOverdraws
  <2>5. ASSUME NEW a \in Agents, Borrow(a) PROVE NobodyOverdraws'
    <3>1. PICK p \in Props, interest \in Interests, amount \in Nat :
            IssueLoan(Bank, a, amount, interest, p)
      BY <2>5 DEF Borrow, IdsAssumption
    <3>2. \A b \in Agents : b # Bank
      BY DEF IdsAssumption, Bank
    <3>3. cash' = [b \in Agents |-> IF b = a THEN cash[b] + amount ELSE cash[b]]
      BY <3>1, <3>2 DEF IssueLoan
    <3> QED
      BY <3>3 DEF ShapeOK, NobodyOverdraws
  <2>6. ASSUME NEW a \in Agents, NEW b \in Agents, LendPrivately(a, b) PROVE NobodyOverdraws'
    <3>1. PICK p \in {NoProp} \cup Unpledged(b), interest \in Interests, amount \in 1 .. cash[a] :
            IssueLoan(a, b, amount, interest, p)
      BY <2>6 DEF LendPrivately
    <3> QED
      BY <3>1 DEF IssueLoan, ShapeOK, NobodyOverdraws
  <2>7. CASE \/ SkipCredit \/ ExpireListings \/ DefaultDeadAgentLoans \/ DefaultUnserviced
             \/ StartSettling \/ SettleLoan \/ StartCascade \/ CascadeLevel
             \/ CheckSolvency \/ EndTick \/ InjectEvent
    BY <2>0, <2>7
       DEF SkipCredit, ExpireListings, DefaultDeadAgentLoans, DefaultUnserviced, StartSettling,
           SettleLoan, StartCascade, CascadeLevel, CheckSolvency, EndTick, InjectEvent
  <2>8. ASSUME NEW a \in Agents,
               BookLoan(a) \/ SellProperty(a) \/ BuyProperty(a) \/ OtherTurn(a)
        PROVE  NobodyOverdraws'
    BY <2>0, <2>8 DEF BookLoan, SellProperty, BuyProperty, OtherTurn
  <2>9. CASE UNCHANGED vars
    BY <2>0, <2>9 DEF vars
  <2> QED
    BY <2>1, <2>2, <2>3, <2>4, <2>5, <2>6, <2>7, <2>8, <2>9 DEF Next
<1> QED
  BY <1>1, <1>2, ShapeCorrect, PTL DEF Spec

-----------------------------------------------------------------------------
(* Settlement. *)

\* While loans are settled, every default waits in todo; after that, every
\* default is of this tick (a tick nobody lived through settles nothing).
SettledOK ==
    /\ stage = "settle" => Defaulted \subseteq todo
    /\ stage \in {"cascade", "rest", "turns"} /\ alive # {} =>
          \A l \in Defaulted : defaultAt[l] = tick

\* No default waits longer than to the next tick's settlement.
THEOREM DefaultsSettle == Spec => []DefaultsSettleNextTick
<1> USE IdsAssumption, BoundsAssumption
<1>1. Init => SettledOK
  BY DEF Init, SettledOK
<1>2. ShapeOK /\ SettledOK /\ [Next]_vars => SettledOK'
  <2> SUFFICES ASSUME ShapeOK, SettledOK, [Next]_vars PROVE SettledOK'
    OBVIOUS
  <2> USE DEF SettledOK, Defaulted, history
  <2>0. ASSUME stage' \in {"expire", "market", "service", "mature"} PROVE SettledOK'
    BY <2>0
  <2>1. CASE \/ ExpireListings \/ DefaultDeadAgentLoans \/ DefaultUnserviced \/ EndTick
             \/ MatchBuyer \/ ServiceLoan \/ MatureLoan
    BY <2>0, <2>1 DEF ExpireListings, DefaultDeadAgentLoans, DefaultUnserviced, EndTick,
                      MatchBuyer, ServiceLoan, MatureLoan
  <2>2. CASE SkipCredit
    BY <2>2 DEF SkipCredit
  <2>3. CASE StartSettling
    BY <2>3 DEF StartSettling
  <2>4. CASE SettleLoan
    <3>1. PICK l \in LoanIds :
            /\ todo' = todo \ {l}
            /\ loan' = [loan EXCEPT ![l].status = "default_settled", ![l].balance = 0]
      BY <2>4 DEF SettleLoan
    <3>2. stage = "settle" /\ stage' = stage
      BY <2>4 DEF SettleLoan
    <3>3. loan'[l].status = "default_settled" /\ \A m \in LoanIds \ {l} : loan'[m] = loan[m]
      BY <3>1 DEF ShapeOK, LoanType
    <3> QED
      BY <3>1, <3>2, <3>3
  <2>5. CASE StartCascade
    BY <2>5 DEF StartCascade
  <2>6. CASE CascadeLevel
    <3> DEFINE fallen == UNION {BorrowedBy(a) : a \in front}
    <3>1. /\ loan' = [m \in LoanIds |->
                        IF m \in fallen
                        THEN [loan[m] EXCEPT !.status = "defaulted", !.cascade = TRUE]
                        ELSE loan[m]]
          /\ defaultAt' = [m \in LoanIds |-> IF m \in fallen THEN tick ELSE defaultAt[m]]
          /\ stage = "cascade" /\ stage' = stage /\ tick' = tick /\ alive' = alive
      BY <2>6 DEF CascadeLevel
    <3> HIDE DEF fallen
    <3> QED
      BY <3>1 DEF ShapeOK
  <2>7. CASE CheckSolvency
    BY <2>7 DEF CheckSolvency
  <2>8. CASE RestOfEconomy
    BY <2>8 DEF RestOfEconomy
  <2>9. CASE InjectEvent
    BY <2>9 DEF InjectEvent
  <2>10. ASSUME NEW a \in Agents, SellProperty(a) \/ BuyProperty(a) \/ OtherTurn(a)
         PROVE  SettledOK'
    BY <2>10 DEF SellProperty, BuyProperty, OtherTurn, Turn
  <2>11. ASSUME NEW a \in Agents, Borrow(a) \/ \E b \in Agents : LendPrivately(a, b)
         PROVE  SettledOK'
    <3>1. /\ stage = "turns" /\ stage' = stage /\ tick' = tick /\ alive' = alive
          /\ defaultAt' = defaultAt
      BY <2>11 DEF Borrow, LendPrivately, Turn
    <3>2. PICK n \in LoanIds : \E r :
            /\ loan' = [loan EXCEPT ![n] = r] /\ r.status = "active"
      <4>1. ASSUME NEW lender, NEW b, NEW amount, NEW interest, NEW p,
                   IssueLoan(lender, b, amount, interest, p)
            PROVE  \E n \in LoanIds : \E r :
                     loan' = [loan EXCEPT ![n] = r] /\ r.status = "active"
        <5> DEFINE row == [status |-> "active", lender |-> lender, borrower |-> b,
                           principal |-> amount, balance |-> amount, interest |-> interest,
                           collateral |-> p, due |-> tick + Duration, rolled |-> 0,
                           cascade |-> FALSE]
        <5>1. \E n \in LoanIds : loan' = [loan EXCEPT ![n] = row]
          BY <4>1 DEF IssueLoan
        <5>2. row.status = "active"
          OBVIOUS
        <5> HIDE DEF row
        <5> QED
          BY <5>1, <5>2
      <4>2. CASE Borrow(a)
        BY <4>1, <4>2 DEF Borrow
      <4>3. ASSUME NEW b \in Agents, LendPrivately(a, b)
            PROVE  \E n \in LoanIds : \E r :
                     loan' = [loan EXCEPT ![n] = r] /\ r.status = "active"
        BY <4>1, <4>3 DEF LendPrivately
      <4> QED
        BY <2>11, <4>2, <4>3
    <3> QED
      BY <3>1, <3>2 DEF ShapeOK
  <2>12. CASE UNCHANGED vars
    BY <2>12 DEF vars
  <2>13. ASSUME NEW a \in Agents, BookLoan(a) PROVE SettledOK'
    BY <2>13 DEF BookLoan
  <2> QED
    BY <2>1, <2>2, <2>3, <2>4, <2>5, <2>6, <2>7, <2>8, <2>9, <2>10, <2>11, <2>12, <2>13
       DEF Next
<1>3. SettledOK => DefaultsSettleNextTick
  BY DEF SettledOK, DefaultsSettleNextTick, Defaulted
<1> QED
  BY <1>1, <1>2, <1>3, ShapeCorrect, PTL DEF Spec

-----------------------------------------------------------------------------
(* Turns that have still to book their loan. *)

\* Only a turn that is under way has a loan to book.
BookedLate == \A a \in Agents : booking[a] # NoBooking => stage = "turns" /\ a \notin todo

THEOREM BookedLateHolds == Spec => []BookedLate
<1>1. Init => BookedLate
  BY DEF Init, BookedLate
<1>2. BookedLate /\ [Next]_vars => BookedLate'
  <2> SUFFICES ASSUME BookedLate, [Next]_vars PROVE BookedLate'
    OBVIOUS
  <2> USE DEF BookedLate, books
  <2>1. CASE \/ SkipCredit \/ ExpireListings \/ MatchBuyer \/ DefaultDeadAgentLoans
             \/ ServiceLoan \/ DefaultUnserviced \/ MatureLoan \/ StartSettling
             \/ SettleLoan \/ StartCascade \/ CascadeLevel \/ CheckSolvency
             \/ RestOfEconomy \/ EndTick \/ InjectEvent
    BY <2>1
       DEF SkipCredit, ExpireListings, MatchBuyer, DefaultDeadAgentLoans, ServiceLoan,
           DefaultUnserviced, MatureLoan, StartSettling, SettleLoan, StartCascade,
           CascadeLevel, CheckSolvency, RestOfEconomy, EndTick, InjectEvent
  <2>2. ASSUME NEW a \in Agents, Borrow(a) PROVE BookedLate'
    <3>1. \A b \in Agents \ {a} : booking'[b] # NoBooking => booking[b] # NoBooking
      BY <2>2 DEF Borrow
    <3>2. stage = "turns" /\ stage' = stage /\ todo' = todo \ {a}
      BY <2>2 DEF Borrow, Turn
    <3> QED
      BY <3>1, <3>2
  <2>3. ASSUME NEW a \in Agents, BookLoan(a) PROVE BookedLate'
    <3>1. \A b \in Agents : booking'[b] # NoBooking => booking[b] # NoBooking
      BY <2>3 DEF BookLoan
    <3> QED
      BY <2>3, <3>1 DEF BookLoan
  <2>4. ASSUME NEW a \in Agents, SellProperty(a) \/ BuyProperty(a) \/ OtherTurn(a)
        PROVE  BookedLate'
    BY <2>4 DEF SellProperty, BuyProperty, OtherTurn, Turn
  <2>5. ASSUME NEW a \in Agents, NEW b \in Agents, LendPrivately(a, b) PROVE BookedLate'
    BY <2>5 DEF LendPrivately
  <2>6. CASE UNCHANGED vars
    BY <2>6 DEF vars
  <2> QED
    BY <2>1, <2>2, <2>3, <2>4, <2>5, <2>6 DEF Next
<1> QED
  BY <1>1, <1>2, PTL DEF Spec

-----------------------------------------------------------------------------
(* The bank's book. *)

\* What a row adds to the book, and what all of them do.
Owed(r) == IF r.status \in {"active", "defaulted"} /\ r.lender = Bank THEN r.principal ELSE 0
Owing == [l \in LoanIds |-> Owed(loan[l])]
AllOwed == SumFunctionOnSet(Owing, LoanIds)

\* A row that is not over still owes all it was made for.
Whole(r) == r.status \in {"active", "defaulted"} => r.balance = r.principal

\* The total, and every total a turn has read and will save, leave room for what
\* is still to be booked.
BookOK ==
    /\ bank.total + Unbooked <= AllOwed
    /\ \A a \in Agents : booking[a] # NoBooking => booking[a].seen + Unbooked <= AllOwed
    /\ ~overwritten => bank.total + Unbooked = AllOwed
    /\ \A l \in LoanIds : Whole(loan[l])

MoneyInv == MoneyOK /\ BookOK

LEMMA LoanIdsFinite == IsFiniteSet(LoanIds)
BY BoundsAssumption, FS_Interval DEF LoanIds

LEMMA OwedIsNat == ASSUME ShapeOK PROVE \A l \in LoanIds : Owing[l] \in Nat
BY DEF ShapeOK, LoanType, Owing, Owed

LEMMA SumsAreNat == ASSUME ShapeOK, MoneyOK PROVE AllOwed \in Nat /\ Unbooked \in Nat
<1>1. AllOwed \in Nat
  BY LoanIdsFinite, OwedIsNat, SumIsNat DEF AllOwed
<1>2. Unbooked \in Nat
  <2> DEFINE amount == [a \in Agents |-> booking[a].amount]
  <2>1. IsFiniteSet(Agents) /\ \A a \in Agents : amount[a] \in Nat
    BY IdsAssumption DEF MoneyOK
  <2>2. Unbooked = SumFunctionOnSet(amount, Agents)
    BY DEF Unbooked, Total
  <2> HIDE DEF amount
  <2> QED
    BY <2>1, <2>2, SumIsNat
<1> QED
  BY <1>1, <1>2

\* No row owes more than all of them.
LEMMA BookCovers ==
    ASSUME ShapeOK, NEW l \in LoanIds
    PROVE Owed(loan[l]) \in Nat /\ AllOwed \in Nat /\ Owed(loan[l]) <= AllOwed
<1>1. AllOwed = Owing[l] + SumFunctionOnSet(Owing, LoanIds \ {l})
  BY LoanIdsFinite, OwedIsNat, SumRemove DEF AllOwed
<1>2. SumFunctionOnSet(Owing, LoanIds \ {l}) \in Nat
  <2>1. IsFiniteSet(LoanIds \ {l}) /\ \A m \in LoanIds \ {l} : Owing[m] \in Nat
    BY LoanIdsFinite, OwedIsNat, FS_Subset
  <2> QED
    BY <2>1, SumIsNat
<1>3. Owing[l] \in Nat /\ Owing[l] = Owed(loan[l])
  BY OwedIsNat DEF Owing
<1> QED
  BY <1>1, <1>2, <1>3

\* A step that books nothing and lets every row owe what it owed.
LEMMA BookSame ==
    ASSUME BookOK, bank'.total = bank.total, UNCHANGED <<booking, overwritten>>,
           \A l \in LoanIds : Owed(loan'[l]) = Owed(loan[l]) /\ Whole(loan'[l])
    PROVE BookOK'
<1>1. AllOwed' = AllOwed
  BY DEF AllOwed, Owing
<1>2. Unbooked' = Unbooked
  BY DEF Unbooked
<1> QED
  BY <1>1, <1>2 DEF BookOK

\* A step that writes one row, and what it does to the sum.
LEMMA BookRow ==
    ASSUME ShapeOK, BookOK, NEW l \in LoanIds, NEW r \in LoanType, Whole(r),
           loan' = [loan EXCEPT ![l] = r]
    PROVE  /\ AllOwed' = AllOwed + Owed(r) - Owed(loan[l])
           /\ \A m \in LoanIds : Whole(loan'[m])
<1>1. loan'[l] = r /\ \A m \in LoanIds \ {l} : loan'[m] = loan[m]
  BY DEF ShapeOK
<1>2. /\ Owing'[l] = Owed(r) /\ Owing[l] = Owed(loan[l])
      /\ \A m \in LoanIds \ {l} : Owing[m] = Owing'[m]
  BY <1>1 DEF Owing
<1>3. \A m \in LoanIds : Owing[m] \in Int /\ Owing'[m] \in Int
  <2>1. Owed(r) \in Nat
    BY DEF Owed, LoanType
  <2> QED
    BY <1>2, <2>1, OwedIsNat
<1>4. SumFunctionOnSet(Owing', LoanIds) = SumFunctionOnSet(Owing, LoanIds) + Owing'[l] - Owing[l]
  <2>1. /\ IsFiniteSet(LoanIds) /\ l \in LoanIds
        /\ \A m \in LoanIds : Owing[m] \in Int /\ Owing'[m] \in Int
        /\ \A m \in LoanIds \ {l} : Owing[m] = Owing'[m]
    BY <1>2, <1>3, LoanIdsFinite
  <2> QED
    BY <2>1, SumChange
<1>5. AllOwed' = AllOwed + Owed(r) - Owed(loan[l])
  BY <1>2, <1>4 DEF AllOwed
<1>6. \A m \in LoanIds : Whole(loan'[m])
  BY <1>1 DEF BookOK
<1> QED
  BY <1>5, <1>6

\* Outside the turns nothing is to be booked.
LEMMA NothingUnbooked ==
    ASSUME BookedLate, stage # "turns"
    PROVE Unbooked = 0 /\ \A a \in Agents : booking[a] = NoBooking
<1> DEFINE amount == [a \in Agents |-> booking[a].amount]
<1>1. \A a \in Agents : booking[a] = NoBooking
  BY DEF BookedLate
<1>2. \A a \in Agents : amount[a] = 0
  BY <1>1 DEF NoBooking
<1>3. Unbooked = SumFunctionOnSet(amount, Agents)
  BY DEF Unbooked, Total
<1> HIDE DEF amount
<1> QED
  BY <1>1, <1>2, <1>3, IdsAssumption, SumZero

\* A loan that ends is written down, never below zero: the total stays within
\* what is owed, and is that where it was.
LEMMA WritingDownKeepsBook ==
    ASSUME ShapeOK, BookedLate, MoneyInv, stage # "turns", UNCHANGED <<booking, overwritten>>,
           NEW l \in LoanIds, NEW r \in LoanType, Whole(r), Owed(r) = 0,
           loan' = [loan EXCEPT ![l] = r],
           bank'.total = AtLeastZero(bank.total - Owed(loan[l]))
    PROVE BookOK'
<1>1. Unbooked = 0 /\ \A a \in Agents : booking[a] = NoBooking
  BY NothingUnbooked
<1>2. Unbooked' = Unbooked
  BY DEF Unbooked
<1>3. AllOwed' = AllOwed - Owed(loan[l]) /\ \A m \in LoanIds : Whole(loan'[m])
  <2>1. AllOwed' = AllOwed + Owed(r) - Owed(loan[l])
    BY BookRow DEF MoneyInv
  <2>2. Owed(loan[l]) \in Nat /\ AllOwed \in Nat
    BY BookCovers
  <2>3. \A m \in LoanIds : Whole(loan'[m])
    BY BookRow DEF MoneyInv
  <2> QED
    BY <2>1, <2>2, <2>3
<1>4. Owed(loan[l]) \in Nat /\ AllOwed \in Nat /\ Owed(loan[l]) <= AllOwed
  BY BookCovers
<1>5. bank.total \in Nat
  BY DEF MoneyInv, MoneyOK, BankType
<1>6. bank'.total \in Nat /\ bank'.total <= AllOwed'
  BY <1>1, <1>3, <1>4, <1>5 DEF AtLeastZero, MoneyInv, BookOK
<1>7. ~overwritten => bank'.total = AllOwed'
  BY <1>1, <1>3, <1>4, <1>5 DEF AtLeastZero, MoneyInv, BookOK
<1> QED
  BY <1>1, <1>2, <1>3, <1>4, <1>6, <1>7 DEF BookOK

\* The sums of money are what they were: the book alone may change.
LEMMA MoneySame ==
    ASSUME MoneyOK, UNCHANGED <<losses, wealth, treasury, bank, books>> PROVE MoneyOK'
BY DEF MoneyOK, books

LEMMA DefaultsKeepBook ==
    ASSUME ShapeOK, BookOK, UNCHANGED <<bank, books>>, NEW S \in SUBSET ActiveLoans,
           MarkDefaulted(S)
    PROVE BookOK'
<1>1. \A l \in LoanIds : Owed(loan'[l]) = Owed(loan[l]) /\ Whole(loan'[l])
  <2> TAKE l \in LoanIds
  <2>1. CASE l \notin S
    BY <2>1 DEF MarkDefaulted, BookOK
  <2>2. CASE l \in S
    <3>1. loan'[l] = [loan[l] EXCEPT !.status = "defaulted"]
      BY <2>2 DEF MarkDefaulted
    <3>2. loan[l].status = "active" /\ loan[l] \in LoanType /\ Whole(loan[l])
      BY <2>2 DEF ActiveLoans, ShapeOK, BookOK
    <3> QED
      BY <3>1, <3>2 DEF Owed, Whole, LoanType
  <2> QED
    BY <2>1, <2>2
<1> QED
  BY <1>1, BookSame DEF books

LEMMA RepayKeepsMoney ==
    ASSUME ShapeOK, BookedLate, MoneyInv, stage # "turns", NEW l \in ActiveLoans, Repay(l),
           UNCHANGED <<losses, wealth, treasury, books>>
    PROVE MoneyInv'
<1>1. /\ l \in LoanIds /\ loan[l] \in LoanType /\ loan[l].status = "active"
      /\ loan[l].balance = loan[l].principal /\ bank \in BankType
  BY DEF ActiveLoans, ShapeOK, MoneyInv, BookOK, MoneyOK, Whole
<1> DEFINE r == [loan[l] EXCEPT !.status = "repaid", !.balance = 0]
<1>2. r \in LoanType /\ r.status = "repaid"
  <2>1. "repaid" \in LoanStatuses
    BY DEF LoanStatuses
  <2>2. r \in LoanType
    BY <1>1, <2>1, EditedLoan
  <2>3. r.status = "repaid"
    BY <1>1 DEF LoanType
  <2> QED
    BY <2>2, <2>3
<1>3. loan' = [loan EXCEPT ![l] = r]
  BY <1>1 DEF Repay, ShapeOK
<1> HIDE DEF r
<1>4. Owed(r) = 0 /\ Whole(r)
  BY <1>2 DEF Owed, Whole
<1>5. Owed(loan[l]) = IF loan[l].lender = Bank THEN loan[l].balance ELSE 0
  BY <1>1 DEF Owed
<1>6. Owed(loan[l]) \in Nat /\ bank.total \in Nat
  BY <1>1, BookCovers DEF BankType
<1>7. bank' \in BankType /\ bank'.total = AtLeastZero(bank.total - Owed(loan[l]))
  <2>1. CASE loan[l].lender = Bank
    <3>1. bank' = [bank EXCEPT !.total = AtLeastZero(bank.total - Owed(loan[l]))]
      BY <1>5, <2>1 DEF Repay
    <3>2. AtLeastZero(bank.total - Owed(loan[l])) \in Nat
      BY <1>6 DEF AtLeastZero
    <3> QED
      BY <1>1, <3>1, <3>2 DEF BankType
  <2>2. CASE loan[l].lender # Bank
    BY <1>1, <1>5, <1>6, <2>2 DEF Repay, AtLeastZero
  <2> QED
    BY <2>1, <2>2
<1>8. BookOK'
  BY <1>1, <1>2, <1>3, <1>4, <1>7, WritingDownKeepsBook DEF books
<1> QED
  BY <1>7, <1>8 DEF MoneyInv, MoneyOK, books

\* Two rows are written; the new one takes over what the old one owed.
LEMMA RollOverKeepsMoney ==
    ASSUME ShapeOK, MoneyInv, NEW l \in ActiveLoans, RollOver(l),
           UNCHANGED <<losses, wealth, treasury, books>>
    PROVE MoneyInv'
<1>1. /\ l \in LoanIds /\ loan[l] \in LoanType /\ loan[l].status = "active"
      /\ loan[l].balance = loan[l].principal
  BY DEF ActiveLoans, ShapeOK, MoneyInv, BookOK, Whole
<1>2. PICK n \in LoanIds :
        /\ NewRow(n)
        /\ loan' = [loan EXCEPT
                      ![l].status = "rolled_over",
                      ![n] = [loan[l] EXCEPT
                                !.principal = loan[l].balance,
                                !.interest = @ + 1,
                                !.due = tick + Duration,
                                !.rolled = @ + 1,
                                !.cascade = FALSE]]
  BY DEF RollOver
<1>3. n # l /\ loan[n].status = "none"
  BY <1>1, <1>2 DEF NewRow, First, Free
<1>4. /\ loan'[l].status = "rolled_over"
      /\ loan'[n].status = "active" /\ loan'[n].lender = loan[l].lender
      /\ loan'[n].principal = loan[l].balance /\ loan'[n].balance = loan[l].balance
      /\ \A m \in LoanIds \ {l, n} : loan'[m] = loan[m]
  BY <1>1, <1>2, <1>3 DEF ShapeOK, LoanType
<1>5. /\ Owing[n] = 0 /\ Owing'[l] = 0 /\ Owing'[n] = Owing[l]
      /\ \A m \in LoanIds \ {l, n} : Owing'[m] = Owing[m]
  BY <1>1, <1>3, <1>4 DEF Owing, Owed
<1> DEFINE between == [m \in LoanIds |-> IF m = n THEN Owing[l] ELSE Owing[m]]
<1>6. \A m \in LoanIds : Owing[m] \in Int /\ between[m] \in Int /\ Owing'[m] \in Int
  <2>1. \A m \in LoanIds : Owing'[m] \in {Owing[m], Owing[l], 0}
    BY <1>5
  <2> QED
    BY <1>1, <2>1, OwedIsNat
<1>7. /\ between[n] = Owing[l] /\ (\A m \in LoanIds \ {n} : Owing[m] = between[m])
      /\ between[l] = Owing[l] /\ (\A m \in LoanIds \ {l} : between[m] = Owing'[m])
  BY <1>1, <1>3, <1>5
<1> HIDE DEF between
<1>8. SumFunctionOnSet(between, LoanIds) = SumFunctionOnSet(Owing, LoanIds) + between[n] - Owing[n]
  BY <1>6, <1>7, LoanIdsFinite, SumChange
<1>9. SumFunctionOnSet(Owing', LoanIds) = SumFunctionOnSet(between, LoanIds) + Owing'[l] - between[l]
  <2>1. /\ IsFiniteSet(LoanIds) /\ l \in LoanIds
        /\ \A m \in LoanIds : between[m] \in Int /\ Owing'[m] \in Int
        /\ \A m \in LoanIds \ {l} : between[m] = Owing'[m]
    BY <1>1, <1>6, <1>7, LoanIdsFinite
  <2> QED
    BY <2>1, SumChange
<1>10. SumFunctionOnSet(Owing, LoanIds) \in Int
  BY <1>6, LoanIdsFinite, SumIsInt
<1>11. SumFunctionOnSet(Owing', LoanIds) = SumFunctionOnSet(Owing, LoanIds)
  BY <1>1, <1>5, <1>6, <1>7, <1>8, <1>9, <1>10
<1>12. \A m \in LoanIds : Whole(loan'[m])
  BY <1>4 DEF MoneyInv, BookOK, Whole
<1>13. bank' = bank
  BY DEF RollOver
<1>14. AllOwed' = AllOwed /\ Unbooked' = Unbooked /\ UNCHANGED <<booking, overwritten>>
  BY <1>11 DEF AllOwed, Unbooked, books
<1> QED
  BY <1>12, <1>13, <1>14 DEF MoneyInv, MoneyOK, BookOK

LEMMA SettlingKeepsMoney ==
    ASSUME ShapeOK, PhaseOK, BookedLate, MoneyInv, SettleLoan PROVE MoneyInv'
<1>1. PICK l \in LoanIds :
        /\ l \in todo
        /\ loan' = [loan EXCEPT ![l].status = "default_settled", ![l].balance = 0]
        /\ WriteDown(l)
        /\ losses' = IF loan[l].lender # Bank /\ ~loan[l].cascade
                     THEN [losses EXCEPT ![loan[l].lender] = @ + NetLoss(l)] ELSE losses
  BY DEF SettleLoan, First
<1>2. loan[l].status = "defaulted" /\ loan[l] \in LoanType /\ bank \in BankType
  BY <1>1 DEF SettleLoan, PhaseOK, Defaulted, ShapeOK, MoneyInv, MoneyOK
<1> DEFINE r == [loan[l] EXCEPT !.status = "default_settled", !.balance = 0]
<1>3. r \in LoanType /\ r.status = "default_settled"
  <2>1. "default_settled" \in LoanStatuses
    BY DEF LoanStatuses
  <2>2. r \in LoanType
    BY <1>2, <2>1, EditedLoan
  <2>3. r.status = "default_settled"
    BY <1>2 DEF LoanType
  <2> QED
    BY <2>2, <2>3
<1>4. loan' = [loan EXCEPT ![l] = r]
  BY <1>1 DEF ShapeOK
<1> HIDE DEF r
<1>5. Owed(r) = 0 /\ Whole(r)
  BY <1>3 DEF Owed, Whole
<1>6. Owed(loan[l]) = IF loan[l].lender = Bank THEN loan[l].principal ELSE 0
  BY <1>2 DEF Owed
<1>7. Owed(loan[l]) \in Nat /\ bank.total \in Nat
  BY <1>2, BookCovers DEF BankType
<1>8. bank' \in BankType /\ bank'.total = AtLeastZero(bank.total - Owed(loan[l]))
  <2>1. CASE loan[l].lender = Bank
    <3>1. bank' = [bank EXCEPT !.total = AtLeastZero(bank.total - Owed(loan[l]))]
      BY <1>1, <1>6, <2>1 DEF WriteDown
    <3>2. AtLeastZero(bank.total - Owed(loan[l])) \in Nat
      BY <1>7 DEF AtLeastZero
    <3> QED
      BY <1>2, <3>1, <3>2 DEF BankType
  <2>2. CASE loan[l].lender # Bank
    BY <1>1, <1>2, <1>6, <1>7, <2>2 DEF WriteDown, AtLeastZero
  <2> QED
    BY <2>1, <2>2
<1>9. BookOK'
  <2>1. stage # "turns" /\ UNCHANGED <<booking, overwritten>>
    BY DEF SettleLoan, books
  <2> QED
    BY <1>3, <1>4, <1>5, <1>8, <2>1, WritingDownKeepsBook
<1>10. losses' \in [Agents -> Nat]
  <2>1. NetLoss(l) \in Nat
    <3>1. loan[l].balance \in Nat /\ (loan[l].collateral # NoProp => Value[loan[l].collateral] \in Nat)
      BY <1>2, IdsAssumption DEF LoanType
    <3> QED
      BY <3>1 DEF NetLoss, AtLeastZero
  <2>2. losses \in [Agents -> Nat] /\ (loan[l].lender # Bank => loan[l].lender \in Agents)
    BY <1>2 DEF MoneyInv, MoneyOK, LoanType
  <2> QED
    BY <1>1, <2>1, <2>2
<1>11. UNCHANGED <<wealth, treasury, booking, overwritten>>
  BY DEF SettleLoan, books
<1> QED
  BY <1>8, <1>9, <1>10, <1>11 DEF MoneyInv, MoneyOK

\* A new row adds what the bank lends, and nothing when an agent does.
LEMMA IssuingAdds ==
    ASSUME ShapeOK, MoneyInv, NEW lender \in Agents \cup {Bank}, NEW a \in Agents,
           NEW amount \in Nat, NEW interest \in Nat, NEW p \in Props \cup {NoProp},
           IssueLoan(lender, a, amount, interest, p)
    PROVE  /\ AllOwed' = AllOwed + (IF lender = Bank THEN amount ELSE 0)
           /\ \A m \in LoanIds : Whole(loan'[m])
<1> DEFINE r == [status |-> "active", lender |-> lender, borrower |-> a,
                 principal |-> amount, balance |-> amount, interest |-> interest,
                 collateral |-> p, due |-> tick + Duration, rolled |-> 0,
                 cascade |-> FALSE]
<1>1. PICK n \in LoanIds : NewRow(n) /\ loan' = [loan EXCEPT ![n] = r]
  BY DEF IssueLoan
<1>2. r \in LoanType
  BY BoundsAssumption DEF LoanType, LoanStatuses, ShapeOK
<1>3. Whole(r) /\ Owed(r) = IF lender = Bank THEN amount ELSE 0
  BY DEF Whole, Owed
<1> HIDE DEF r
<1>4. Owed(loan[n]) = 0
  BY <1>1 DEF NewRow, First, Free, Owed
<1>5. AllOwed' = AllOwed + Owed(r) - Owed(loan[n]) /\ \A m \in LoanIds : Whole(loan'[m])
  BY <1>1, <1>2, <1>3, BookRow DEF MoneyInv
<1>6. AllOwed \in Nat
  BY SumsAreNat DEF MoneyInv
<1> QED
  BY <1>3, <1>4, <1>5, <1>6

LEMMA LendingKeepsMoney ==
    ASSUME ShapeOK, MoneyInv, NEW lender \in Agents, NEW a \in Agents,
           NEW amount \in Nat, NEW interest \in Nat, NEW p \in Props \cup {NoProp},
           IssueLoan(lender, a, amount, interest, p),
           UNCHANGED <<losses, wealth, treasury, bank, books>>
    PROVE MoneyInv'
<1>1. lender # Bank /\ lender \in Agents \cup {Bank}
  BY IdsAssumption DEF Bank
<1>2. AllOwed' = AllOwed + 0 /\ \A m \in LoanIds : Whole(loan'[m])
  BY <1>1, IssuingAdds
<1>3. AllOwed \in Nat /\ Unbooked' = Unbooked
  BY SumsAreNat DEF MoneyInv, Unbooked, books
<1> QED
  BY <1>2, <1>3 DEF MoneyInv, MoneyOK, BookOK, books

\* The change of one booking is the change of what is unbooked.
LEMMA UnbookedChange ==
    ASSUME MoneyOK, NEW a \in Agents, NEW b \in [amount : Nat, seen : Nat],
           booking' = [booking EXCEPT ![a] = b]
    PROVE Unbooked' = Unbooked + b.amount - booking[a].amount
<1> DEFINE f == [x \in Agents |-> booking[x].amount]
           g == [x \in Agents |-> booking'[x].amount]
<1>1. Unbooked = SumFunctionOnSet(f, Agents) /\ Unbooked' = SumFunctionOnSet(g, Agents)
  BY DEF Unbooked, Total
<1>2. booking'[a] = b /\ \A x \in Agents \ {a} : booking'[x] = booking[x]
  BY DEF MoneyOK
<1>3. \A x \in Agents : f[x] \in Int /\ g[x] \in Int
  <2>1. \A x \in Agents : f[x] \in Int
    BY DEF MoneyOK
  <2>2. \A x \in Agents : booking'[x].amount \in {booking[x].amount, b.amount}
    BY <1>2
  <2> QED
    BY <2>1, <2>2
<1>4. /\ f[a] = booking[a].amount /\ g[a] = b.amount
      /\ \A x \in Agents \ {a} : f[x] = g[x]
  BY <1>2
<1> HIDE DEF f, g
<1>5. SumFunctionOnSet(g, Agents) = SumFunctionOnSet(f, Agents) + g[a] - f[a]
  <2>1. /\ IsFiniteSet(Agents) /\ a \in Agents
        /\ \A x \in Agents : f[x] \in Int /\ g[x] \in Int
        /\ \A x \in Agents \ {a} : f[x] = g[x]
    BY <1>3, <1>4, IdsAssumption
  <2> QED
    BY <2>1, SumChange
<1> QED
  BY <1>1, <1>4, <1>5

\* A loan of the bank adds to what is owed and to what is unbooked, and its turn
\* has read the total as it is.
LEMMA BorrowingKeepsMoney ==
    ASSUME ShapeOK, BookedLate, MoneyInv, NEW a \in Agents, Borrow(a) PROVE MoneyInv'
<1>1. PICK p \in Props, interest \in Interests, amount \in Nat :
        /\ IssueLoan(Bank, a, amount, interest, p)
        /\ booking' = [booking EXCEPT ![a] = [amount |-> amount, seen |-> bank.total]]
  <2>1. \A p \in Props : \A n \in 1 .. Value[p] : n \in Nat
    BY IdsAssumption
  <2> QED
    BY <2>1 DEF Borrow
<1>2. interest \in Nat /\ Bank \in Agents \cup {Bank} /\ p \in Props \cup {NoProp}
  BY IdsAssumption
<1>3. AllOwed' = AllOwed + amount /\ \A m \in LoanIds : Whole(loan'[m])
  BY <1>1, <1>2, IssuingAdds
<1>4. /\ UNCHANGED <<losses, wealth, treasury, bank, overwritten>>
      /\ a \in todo
  BY DEF Borrow, Turn, cascade
<1>5. booking[a] = NoBooking
  BY <1>4 DEF BookedLate
<1> DEFINE b == [amount |-> amount, seen |-> bank.total]
<1>6. b \in [amount : Nat, seen : Nat] /\ b.amount = amount /\ b.seen = bank.total
  BY DEF MoneyInv, MoneyOK, BankType
<1>7. booking' = [booking EXCEPT ![a] = b]
  BY <1>1
<1> HIDE DEF b
<1>8. Unbooked' = Unbooked + amount
  <2>1. Unbooked' = Unbooked + b.amount - booking[a].amount
    BY <1>6, <1>7, UnbookedChange DEF MoneyInv
  <2>2. booking[a].amount = 0 /\ Unbooked \in Nat
    BY <1>5, SumsAreNat DEF NoBooking, MoneyInv
  <2> QED
    BY <1>6, <2>1, <2>2
<1>9. AllOwed \in Nat /\ Unbooked \in Nat /\ bank.total \in Nat
  BY SumsAreNat DEF MoneyInv, MoneyOK, BankType
<1>10. booking'[a] = b /\ \A x \in Agents \ {a} : booking'[x] = booking[x]
  BY <1>7 DEF MoneyInv, MoneyOK
<1>11. ASSUME NEW x \in Agents, booking'[x] # NoBooking
       PROVE booking'[x].seen + Unbooked' <= AllOwed'
  <2>1. CASE x = a
    BY <1>3, <1>6, <1>8, <1>9, <1>10, <2>1 DEF MoneyInv, BookOK
  <2>2. CASE x # a
    <3>1. booking[x].seen \in Nat /\ booking[x].seen + Unbooked <= AllOwed
      BY <1>10, <1>11, <2>2 DEF MoneyInv, MoneyOK, BookOK
    <3> QED
      BY <1>3, <1>8, <1>9, <1>10, <2>2, <3>1
  <2> QED
    BY <2>1, <2>2
<1>12. BookOK'
  <2>1. bank'.total + Unbooked' <= AllOwed'
    BY <1>3, <1>4, <1>8, <1>9 DEF MoneyInv, BookOK
  <2>2. ~overwritten' => bank'.total + Unbooked' = AllOwed'
    <3> SUFFICES ASSUME ~overwritten' PROVE bank'.total + Unbooked' = AllOwed'
      OBVIOUS
    <3>1. ~overwritten => bank.total + Unbooked = AllOwed
      BY DEF MoneyInv, BookOK
    <3>2. bank.total + Unbooked = AllOwed
      BY <1>4, <3>1, Zenon
    <3>3. bank'.total = bank.total
      BY <1>4
    <3> QED
      BY <1>3, <1>8, <1>9, <3>2, <3>3
  <2> QED
    BY <1>3, <1>11, <2>1, <2>2 DEF BookOK
<1>13. MoneyOK'
  BY <1>4, <1>6, <1>7 DEF MoneyInv, MoneyOK
<1> QED
  BY <1>12, <1>13 DEF MoneyInv

\* What is saved is a total that was read: it left room for all that was then,
\* and is now, to be booked.
LEMMA BookingKeepsMoney ==
    ASSUME ShapeOK, MoneyInv, NEW a \in Agents, BookLoan(a) PROVE MoneyInv'
<1>1. /\ booking[a] # NoBooking
      /\ bank' = [bank EXCEPT !.total = booking[a].seen + booking[a].amount]
      /\ booking' = [booking EXCEPT ![a] = NoBooking]
      /\ overwritten' = (overwritten \/ bank.total # booking[a].seen)
      /\ UNCHANGED <<losses, wealth, treasury, loan>>
  BY DEF BookLoan, cascade
<1>2. booking[a].seen \in Nat /\ booking[a].amount \in Nat /\ bank \in BankType
  BY DEF MoneyInv, MoneyOK
<1>3. NoBooking \in [amount : Nat, seen : Nat] /\ NoBooking.amount = 0
  BY DEF NoBooking
<1>4. AllOwed' = AllOwed /\ AllOwed \in Nat /\ Unbooked \in Nat
  BY <1>1, SumsAreNat DEF MoneyInv, AllOwed, Owing
<1>5. Unbooked' = Unbooked - booking[a].amount
  <2>1. Unbooked' = Unbooked + NoBooking.amount - booking[a].amount
    BY <1>1, <1>3, UnbookedChange DEF MoneyInv
  <2> QED
    BY <1>2, <1>3, <1>4, <2>1
<1>6. bank' \in BankType /\ bank'.total = booking[a].seen + booking[a].amount
  BY <1>1, <1>2 DEF BankType
<1>7. \A x \in Agents : booking'[x] # NoBooking => booking'[x] = booking[x]
  BY <1>1 DEF MoneyInv, MoneyOK
<1>8. ASSUME NEW x \in Agents, booking'[x] # NoBooking
      PROVE booking'[x].seen + Unbooked' <= AllOwed'
  <2>1. booking[x].seen \in Nat /\ booking[x].seen + Unbooked <= AllOwed
    BY <1>7, <1>8 DEF MoneyInv, MoneyOK, BookOK
  <2> QED
    BY <1>2, <1>4, <1>5, <1>7, <1>8, <2>1
<1>9. bank'.total + Unbooked' <= AllOwed'
  <2>1. booking[a].seen + Unbooked <= AllOwed
    BY <1>1 DEF MoneyInv, BookOK
  <2> QED
    BY <1>2, <1>4, <1>5, <1>6, <2>1
<1>10. ~overwritten' => bank'.total + Unbooked' = AllOwed'
  <2>1. ~overwritten' => /\ bank.total = booking[a].seen
                         /\ bank.total + Unbooked = AllOwed
    BY <1>1 DEF MoneyInv, BookOK
  <2> QED
    BY <1>2, <1>4, <1>5, <1>6, <2>1
<1>11. \A l \in LoanIds : Whole(loan'[l])
  BY <1>1 DEF MoneyInv, BookOK
<1>12. MoneyOK'
  <2>1. overwritten' \in BOOLEAN
    BY <1>1
  <2> QED
    BY <1>1, <1>3, <1>6, <2>1 DEF MoneyInv, MoneyOK
<1> QED
  BY <1>8, <1>9, <1>10, <1>11, <1>12 DEF MoneyInv, BookOK

LEMMA CascadeKeepsBook == ASSUME ShapeOK, BookOK, CascadeLevel PROVE BookOK'
<1> DEFINE fallen == UNION {BorrowedBy(a) : a \in front}
<1>1. /\ loan' = [l \in LoanIds |->
                    IF l \in fallen
                    THEN [loan[l] EXCEPT !.status = "defaulted", !.cascade = TRUE]
                    ELSE loan[l]]
      /\ bank' = bank
  BY DEF CascadeLevel
<1>2. fallen \subseteq ActiveLoans
  BY DEF BorrowedBy
<1> HIDE DEF fallen
<1>3. \A l \in LoanIds : Owed(loan'[l]) = Owed(loan[l]) /\ Whole(loan'[l])
  <2> TAKE l \in LoanIds
  <2>1. CASE l \notin fallen
    BY <1>1, <2>1 DEF BookOK
  <2>2. CASE l \in fallen
    <3>1. loan'[l] = [loan[l] EXCEPT !.status = "defaulted", !.cascade = TRUE]
      BY <1>1, <2>2
    <3>2. loan[l].status = "active" /\ loan[l] \in LoanType /\ Whole(loan[l])
      BY <1>2, <2>2 DEF ActiveLoans, ShapeOK, BookOK
    <3> QED
      BY <3>1, <3>2 DEF Owed, Whole, LoanType
  <2> QED
    BY <2>1, <2>2
<1>4. bank'.total = bank.total /\ UNCHANGED <<booking, overwritten>>
  BY <1>1 DEF CascadeLevel, books
<1> QED
  BY <1>3, <1>4, BookSame

LEMMA ExpropriationKeepsBook ==
    ASSUME ShapeOK, BookOK, NEW S, Expropriate(S), UNCHANGED <<bank, books>>
    PROVE BookOK'
<1> DEFINE freed == {l \in LoanIds : Live(l) /\ loan[l].collateral \in S}
<1>1. loan' = [l \in LoanIds |->
                 IF l \in freed
                 THEN [loan[l] EXCEPT !.status = "defaulted", !.collateral = NoProp]
                 ELSE loan[l]]
  BY DEF Expropriate
<1>2. \A l \in LoanIds : Owed(loan'[l]) = Owed(loan[l]) /\ Whole(loan'[l])
  <2> TAKE l \in LoanIds
  <2>1. CASE l \notin freed
    BY <1>1, <2>1 DEF BookOK
  <2>2. CASE l \in freed
    <3>1. loan'[l] = [loan[l] EXCEPT !.status = "defaulted", !.collateral = NoProp]
      BY <1>1, <2>2
    <3>2. loan[l].status \in {"active", "defaulted"} /\ loan[l] \in LoanType /\ Whole(loan[l])
      BY <2>2 DEF Live, ShapeOK, BookOK
    <3> QED
      BY <3>1, <3>2 DEF Owed, Whole, LoanType
  <2> QED
    BY <2>1, <2>2
<1> QED
  BY <1>2, BookSame DEF books

LEMMA RestKeepsMoney ==
    ASSUME ShapeOK, NobodyOverdraws, MoneyInv, RestOfEconomy PROVE MoneyInv'
<1>1. cash' \in [Agents -> Nat]
  <2>1. \A a \in Agents : MayHave(a) \subseteq Nat
    BY IdsAssumption DEF MayHave, ShapeOK, NobodyOverdraws
  <2> QED
    BY <2>1 DEF RestOfEconomy
<1>2. \A a \in Agents : Estate(a) \in Nat
  <2> TAKE a \in Agents
  <2>1. IsFiniteSet(OwnedBy(a)) /\ \A p \in OwnedBy(a) : Value[p] \in Nat
    BY IdsAssumption, FS_Subset DEF OwnedBy
  <2> QED
    BY <2>1, SumIsNat DEF Estate, Total
<1>3. wealth' \in [Agents -> Nat]
  BY <1>1, <1>2 DEF RestOfEconomy, MoneyInv, MoneyOK
<1>4. Total(cash', alive) \in Nat
  <2>1. IsFiniteSet(alive) /\ \A a \in alive : cash'[a] \in Nat
    BY <1>1, IdsAssumption, FS_Subset DEF ShapeOK
  <2> QED
    BY <2>1, SumIsNat DEF Total
<1>5. /\ bank' = [bank EXCEPT !.deposits = Total(cash', alive)]
      /\ UNCHANGED <<losses, treasury, loan, booking, overwritten>>
  BY DEF RestOfEconomy, cascade, books
<1>6. bank' \in BankType /\ bank'.total = bank.total
  BY <1>4, <1>5 DEF MoneyInv, MoneyOK, BankType
<1>7. BookOK'
  BY <1>5, <1>6, BookSame DEF MoneyInv, BookOK
<1> QED
  BY <1>3, <1>5, <1>6, <1>7 DEF MoneyInv, MoneyOK

LEMMA MoneyInit == Init => MoneyInv
<1> SUFFICES ASSUME Init PROVE MoneyInv
  OBVIOUS
<1>1. \A a \in Agents : Estate(a) \in Nat
  <2> TAKE a \in Agents
  <2>1. IsFiniteSet(OwnedBy(a)) /\ \A p \in OwnedBy(a) : Value[p] \in Nat
    BY IdsAssumption, FS_Subset DEF OwnedBy
  <2> QED
    BY <2>1, SumIsNat DEF Estate, Total
<1>2. MoneyOK
  <2>1. NoBooking \in [amount : Nat, seen : Nat]
    BY DEF NoBooking
  <2>2. booking \in [Agents -> [amount : Nat, seen : Nat]] /\ overwritten \in BOOLEAN
    BY <2>1 DEF Init
  <2>3. /\ losses \in [Agents -> Nat] /\ wealth \in [Agents -> Nat]
        /\ treasury \in Nat /\ bank \in BankType
    BY <1>1, IdsAssumption DEF Init, BankType
  <2> QED
    BY <2>2, <2>3 DEF MoneyOK
<1>3. AllOwed = 0
  <2>1. \A l \in LoanIds : Owing[l] = 0
    BY DEF Init, Owing, Owed, NoLoan
  <2> QED
    BY <2>1, LoanIdsFinite, SumZero DEF AllOwed
<1>4. Unbooked = 0 /\ \A a \in Agents : booking[a] = NoBooking
  BY NothingUnbooked DEF Init, BookedLate
<1> QED
  BY <1>2, <1>3, <1>4 DEF Init, MoneyInv, BookOK, Whole, NoLoan

LEMMA MoneyStep ==
    ShapeOK /\ PhaseOK /\ NobodyOverdraws /\ BookedLate /\ MoneyInv /\ [Next]_vars => MoneyInv'
<1> SUFFICES ASSUME ShapeOK, PhaseOK, NobodyOverdraws, BookedLate, MoneyInv, [Next]_vars
             PROVE  MoneyInv'
  OBVIOUS
<1> USE DEF history, cascade
<1>0. ASSUME BookOK', UNCHANGED <<losses, wealth, treasury, bank, books>> PROVE MoneyInv'
  BY <1>0, MoneySame DEF MoneyInv
<1>00. ASSUME UNCHANGED <<loan, bank, books>> PROVE BookOK'
  BY <1>00 DEF MoneyInv, BookOK, AllOwed, Owing, Unbooked, books
<1>1. CASE SkipCredit \/ ExpireListings \/ ServiceLoan \/ InjectEvent
  BY <1>0, <1>00, <1>1 DEF SkipCredit, ExpireListings, ServiceLoan, InjectEvent
<1>2. CASE MatchBuyer
  <2>1. UNCHANGED <<loan, bank, losses, wealth, books>>
    BY <1>2 DEF MatchBuyer
  <2>2. treasury' \in Nat
    <3>1. treasury \in Nat /\ \A p \in Props : listing[p].price \in Nat
      BY DEF MoneyInv, MoneyOK, ShapeOK, ListingType
    <3> QED
      BY <1>2, <3>1 DEF MatchBuyer, Sell
  <2> QED
    BY <1>00, <2>1, <2>2 DEF MoneyInv, MoneyOK, books
<1>3. CASE DefaultDeadAgentLoans
  <2>1. BookOK'
    BY <1>3, DefaultsKeepBook DEF DefaultDeadAgentLoans, MoneyInv
  <2> QED
    BY <1>0, <1>3, <2>1 DEF DefaultDeadAgentLoans
<1>4. CASE DefaultUnserviced
  <2>1. BookOK'
    BY <1>4, DefaultsKeepBook DEF DefaultUnserviced, MoneyInv
  <2> QED
    BY <1>0, <1>4, <2>1 DEF DefaultUnserviced
<1>5. CASE MatureLoan
  <2>1. PICK l \in ActiveLoans : Repay(l) \/ RollOver(l) \/ DefaultAtMaturity(l)
    BY <1>5 DEF MatureLoan, First, PhaseOK
  <2>2. UNCHANGED <<losses, wealth, treasury, books>> /\ stage # "turns"
    BY <1>5 DEF MatureLoan
  <2>3. CASE DefaultAtMaturity(l)
    <3>1. UNCHANGED bank /\ MarkDefaulted({l}) /\ {l} \in SUBSET ActiveLoans
      BY <2>3 DEF DefaultAtMaturity
    <3> QED
      BY <1>0, <2>2, <3>1, DefaultsKeepBook DEF MoneyInv
  <2> QED
    BY <2>1, <2>2, <2>3, RepayKeepsMoney, RollOverKeepsMoney
<1>6. CASE StartSettling \/ StartCascade
  <2>1. losses' \in [Agents -> Nat] /\ UNCHANGED <<loan, bank, wealth, treasury, books>>
    BY <1>6 DEF StartSettling, StartCascade, MoneyInv, MoneyOK
  <2> QED
    BY <1>00, <2>1 DEF MoneyInv, MoneyOK, books
<1>7. CASE SettleLoan
  BY <1>7, SettlingKeepsMoney
<1>8. CASE CascadeLevel
  BY <1>0, <1>8, CascadeKeepsBook DEF CascadeLevel, MoneyInv
<1>9. CASE CheckSolvency
  <2>1. /\ bank' = [bank EXCEPT !.solvent = bank.total * 10 <= bank.deposits * 9]
        /\ losses' = [a \in Agents |-> 0]
        /\ UNCHANGED <<loan, wealth, treasury, booking, overwritten>>
    BY <1>9 DEF CheckSolvency, books
  <2>2. bank' \in BankType /\ bank'.total = bank.total
    <3>1. bank \in BankType /\ (bank.total * 10 <= bank.deposits * 9) \in BOOLEAN
      BY DEF MoneyInv, MoneyOK
    <3> QED
      BY <2>1, <3>1 DEF BankType
  <2>3. BookOK'
    BY <2>1, <2>2, BookSame DEF MoneyInv, BookOK
  <2> QED
    BY <2>1, <2>2, <2>3 DEF MoneyInv, MoneyOK
<1>10. CASE RestOfEconomy
  BY <1>10, RestKeepsMoney
<1>11. CASE EndTick
  <2>1. PICK S : Expropriate(S)
    BY <1>11 DEF EndTick
  <2>2. BookOK'
    BY <1>11, <2>1, ExpropriationKeepsBook DEF EndTick, MoneyInv
  <2> QED
    BY <1>0, <1>11, <2>2 DEF EndTick
<1>12. ASSUME NEW a \in Agents, Borrow(a) \/ BookLoan(a) PROVE MoneyInv'
  BY <1>12, BorrowingKeepsMoney, BookingKeepsMoney
<1>13. ASSUME NEW a \in Agents, NEW b \in Agents, LendPrivately(a, b) PROVE MoneyInv'
  <2>1. PICK p \in Props \cup {NoProp}, interest \in Interests, amount \in Nat :
          IssueLoan(a, b, amount, interest, p)
    <3>1. \A n \in 1 .. cash[a] : n \in Nat
      BY DEF ShapeOK
    <3> QED
      BY <1>13, <3>1 DEF LendPrivately, Unpledged, OwnedBy
  <2>2. interest \in Nat
    BY IdsAssumption
  <2>3. UNCHANGED <<losses, wealth, treasury, bank, books>>
    BY <1>13 DEF LendPrivately
  <2> QED
    BY <2>1, <2>2, <2>3, LendingKeepsMoney
<1>14. ASSUME NEW a \in Agents, SellProperty(a) \/ BuyProperty(a) \/ OtherTurn(a)
       PROVE MoneyInv'
  BY <1>0, <1>00, <1>14 DEF SellProperty, BuyProperty, OtherTurn
<1>15. CASE UNCHANGED vars
  BY <1>0, <1>00, <1>15 DEF vars, books
<1> QED
  BY <1>1, <1>2, <1>3, <1>4, <1>5, <1>6, <1>7, <1>8, <1>9, <1>10, <1>11, <1>12, <1>13,
     <1>14, <1>15 DEF Next

\* The inductive invariant of the sums of money: nothing is ever negative, and
\* neither the aggregate of the banking system nor a total that a turn has read
\* and will save exceeds what its loans add up to, less what is to be booked.
THEOREM MoneyHolds == Spec => []MoneyInv
BY MoneyInit, MoneyStep, ShapeCorrect, PhasesKeepTheirRows, NobodyOverdrawn,
   BookedLateHolds, PTL DEF Spec

\* Type correctness of the whole state.
THEOREM CreditMarketIsTyped == Spec => []TypeOK
<1>1. ShapeOK /\ MoneyInv => TypeOK
  BY DEF TypeOK, MoneyInv
<1> QED
  BY <1>1, ShapeCorrect, MoneyHolds, PTL

\* Through rollovers, deaths, cascades and expropriations the aggregate of the
\* banking system never exceeds the principal of its loans that are not over, and
\* is that principal unless the saves of two turns have crossed.
THEOREM BankBookBalances == Spec => []BankBook
<1>1. ShapeOK /\ MoneyInv => BankBook
  <2> SUFFICES ASSUME ShapeOK, MoneyInv PROVE BankBook
    OBVIOUS
  <2> DEFINE principal == [l \in LoanIds |-> loan[l].principal]
             booked == {l \in LoanIds : Live(l) /\ loan[l].lender = Bank}
  <2>1. booked \in SUBSET LoanIds /\ \A l \in LoanIds : principal[l] \in Int
    BY DEF ShapeOK, LoanType
  <2>2. Owing = [l \in LoanIds |-> IF l \in booked THEN principal[l] ELSE 0]
    BY DEF Owing, Owed, Live
  <2>3. Outstanding = Total(principal, booked)
    BY DEF Outstanding
  <2> HIDE DEF principal, booked
  <2>4. SumFunctionOnSet(principal, booked) = SumFunctionOnSet(Owing, LoanIds)
    BY <2>1, <2>2, LoanIdsFinite, SumPart
  <2>5. Outstanding = AllOwed
    BY <2>3, <2>4 DEF Total, AllOwed
  <2> QED
    BY <2>5 DEF BankBook, MoneyInv, BookOK
<1> QED
  BY <1>1, ShapeCorrect, MoneyHolds, PTL

-----------------------------------------------------------------------------
(* Sales. *)

LEMMA SaleConserves ==
    ASSUME ShapeOK, MoneyOK, NEW b \in Agents, NEW p \in Offers(b), Sell(p, b)
    PROVE Total(cash', Agents) + treasury' = Total(cash, Agents) + treasury
<1> DEFINE price == listing[p].price
           seller == owner[p]
           between == [a \in Agents |-> IF a = b THEN cash[b] - price ELSE cash[a]]
<1>1. /\ p \in Props /\ price \in Nat /\ seller \in Agents \cup {Government} /\ seller # b
      /\ treasury \in Nat /\ cash \in [Agents -> Int] /\ IsFiniteSet(Agents)
  BY IdsAssumption DEF Offers, ShapeOK, MoneyOK, ListingType
<1>2. /\ cash' = [a \in Agents |-> IF a = b THEN cash[a] - price
                                   ELSE IF a = seller THEN cash[a] + price
                                   ELSE cash[a]]
      /\ treasury' = IF seller = Government THEN treasury + price ELSE treasury
  BY DEF Sell
<1> HIDE DEF price, seller
<1>3. \A a \in Agents : cash[a] \in Int /\ between[a] \in Int /\ cash'[a] \in Int
  BY <1>1, <1>2
<1>4. between[b] = cash[b] - price /\ \A a \in Agents \ {b} : cash[a] = between[a]
  OBVIOUS
<1>5. SumFunctionOnSet(cash, Agents) \in Int
  BY <1>1, <1>3, SumIsInt
<1>6. SumFunctionOnSet(between, Agents) = SumFunctionOnSet(cash, Agents) + between[b] - cash[b]
  <2> HIDE DEF between
  <2> QED
    BY <1>1, <1>3, <1>4, SumChange
<1>7. CASE seller = Government
  <2>1. \A a \in Agents : a # seller
    BY <1>7, IdsAssumption DEF Government
  <2>2. cash' = between
    BY <1>2, <2>1
  <2>3. treasury' = treasury + price
    BY <1>2, <1>7
  <2>4. SumFunctionOnSet(cash', Agents) = SumFunctionOnSet(cash, Agents) - price
    BY <1>1, <1>3, <1>4, <1>5, <1>6, <2>2
  <2> QED
    BY <1>1, <1>5, <2>3, <2>4 DEF Total
<1>8. CASE seller # Government
  <2>1. seller \in Agents
    BY <1>1, <1>8
  <2>2. cash'[seller] = between[seller] + price /\ \A a \in Agents \ {seller} : between[a] = cash'[a]
    BY <1>1, <1>2, <2>1
  <2>3. SumFunctionOnSet(cash', Agents) = SumFunctionOnSet(between, Agents) + cash'[seller] - between[seller]
    <3> HIDE DEF between
    <3>1. /\ IsFiniteSet(Agents) /\ seller \in Agents
          /\ \A a \in Agents : between[a] \in Int /\ cash'[a] \in Int
          /\ \A a \in Agents \ {seller} : between[a] = cash'[a]
      BY <1>1, <1>3, <2>1, <2>2
    <3> QED
      BY <3>1, SumChange
  <2> HIDE DEF between
  <2> QED
    BY <1>1, <1>2, <1>3, <1>4, <1>5, <1>6, <1>8, <2>1, <2>2, <2>3 DEF Total
<1> QED
  BY <1>7, <1>8

\* Whatever is bought, by whom and from whom, dead or alive: money changes
\* hands and none is made.
THEOREM SalesMakeNoMoney == Spec => SalesConserveMoney
<1>1. ShapeOK /\ BookedLate /\ MoneyInv /\ [Next]_vars
        => [stage = "market" =>
              Total(cash', Agents) + treasury' = Total(cash, Agents) + treasury]_vars
  <2> SUFFICES ASSUME ShapeOK, BookedLate, MoneyInv, Next, stage = "market"
               PROVE Total(cash', Agents) + treasury' = Total(cash, Agents) + treasury
    OBVIOUS
  <2>1. CASE MatchBuyer
    <3>1. PICK b \in Agents :
            \/ \E p \in Props : Cheapest(p, b) /\ Sell(p, b)
            \/ UNCHANGED <<cash, treasury>>
      BY <2>1 DEF MatchBuyer
    <3>2. ASSUME NEW p \in Props, Cheapest(p, b), Sell(p, b)
          PROVE Total(cash', Agents) + treasury' = Total(cash, Agents) + treasury
      BY <3>2, SaleConserves DEF Cheapest, MoneyInv
    <3> QED
      BY <3>1, <3>2
  <2>2. CASE DefaultDeadAgentLoans \/ InjectEvent
    BY <2>2 DEF DefaultDeadAgentLoans, InjectEvent
  <2>3. MatchBuyer \/ DefaultDeadAgentLoans \/ InjectEvent
    BY DEF Next, SkipCredit, ExpireListings, ServiceLoan, DefaultUnserviced, MatureLoan,
       StartSettling, SettleLoan, StartCascade, CascadeLevel, CheckSolvency, RestOfEconomy,
       EndTick, Borrow, BookLoan, BookedLate, SellProperty, BuyProperty, OtherTurn, LendPrivately, Turn
  <2> QED
    BY <2>1, <2>2, <2>3
<1> QED
  BY <1>1, ShapeCorrect, BookedLateHolds, MoneyHolds, PTL DEF Spec, SalesConserveMoney

=============================================================================
