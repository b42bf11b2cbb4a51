---------------------------- MODULE CreditMarket ----------------------------
(***************************************************************************)
(* Loans, collateral and the property market (economy/credit.py,           *)
(* economy/property_market.py, check_solvency and recalculate_deposits in  *)
(* economy/banking.py) in the order economy/engine.py runs them in a tick, *)
(* with the agent turns of simulation/engine.py that borrow, list and want *)
(* to buy, and the expropriation of a regime change at the end of a tick.  *)
(*                                                                         *)
(* The code loops over lists of rows it read at the start of a phase; here *)
(* todo is that list and every iteration is a step.  Rows have numeric     *)
(* ids, and loops take the least id first as the code's order_by does.     *)
(*                                                                         *)
(* Data: amounts are naturals, a loan's interest per tick is a number of   *)
(* its own (balance * rate), rent and trade are a change of cash.  There   *)
(* is one zone, one currency and a Government.                             *)
(*                                                                         *)
(* A definition introduced as "Variant" is one with a plausible bug, used  *)
(* only to show that a property notices it; Next uses none.                *)
(***************************************************************************)
EXTENDS Integers, FiniteSets, FiniteSetsExt

CONSTANTS
    Agents,        \* agent ids
    Props,         \* property ids
    Value,         \* Property.value, which nothing updates
    InitialOwner,  \* who owns a property at first
    InitialCash,   \* an agent's cash at first
    InitialDeposits, \* initial_deposits of the era template
    Elite,         \* agents of class elite or wealthy
    Incomes,       \* what an agent may earn in a tick
    Prices,        \* asking prices
    Interests,     \* interest per tick of a new loan
    Duration,      \* default_loan_duration_ticks
    MaxRollover,   \* max_rollover
    Expiry,        \* ticks a listing stays listed
    MaxDepth,      \* depth of a default cascade
    MaxTick,       \* bound: ticks; the last ends with its credit block
    MaxLoans,      \* bound: loan rows
    MaxCash,       \* bound: cash an agent earns up to
    MaxPrivate     \* bound: loans between agents

Bank == 0        \* lender None
Government == 0  \* owner None, owner_type "government"
NoProp == 0      \* collateral None

ASSUME IdsAssumption ==
    /\ Agents \subseteq Nat \ {0} /\ Props \subseteq Nat \ {0}
    /\ IsFiniteSet(Agents) /\ IsFiniteSet(Props)
    /\ Value \in [Props -> Nat] /\ InitialOwner \in [Props -> Agents]
    /\ InitialCash \in [Agents -> Nat] /\ InitialDeposits \in Nat
    /\ Incomes \subseteq Nat /\ Prices \subseteq Nat /\ Interests \subseteq Nat \ {0}
ASSUME BoundsAssumption ==
    /\ Duration \in Nat \ {0} /\ MaxRollover \in Nat /\ Expiry \in Nat /\ MaxDepth \in Nat
    /\ MaxTick \in Nat /\ MaxLoans \in Nat /\ MaxCash \in Nat /\ MaxPrivate \in Nat

VARIABLES
    tick,      \* the tick being processed
    stage,     \* the phase of the tick
    todo,      \* ids the current phase has still to process
    failing,   \* service_loans: loans whose interest could not be paid
    losses,    \* process_defaults: loss of each lender, cascade ones left out
    front,     \* process_default_cascade: agents to process at this depth
    visited,   \* ... and agents ever queued
    depth,     \* ... and the depth
    alive,     \* agents with is_alive
    cash,      \* AgentInventory.cash
    treasury,  \* Government's cash from sales
    wealth,    \* Agent.wealth, as of the last economy tick
    owner,     \* Property.owner
    listing,   \* PropertyListing of each property
    intents,   \* agents whose last decision was buy_property
    loan,      \* Loan rows
    bank,      \* BankingState
    booking,   \* issue_loan: the total a borrower's turn has read, and its loan
    lentOut,   \* history: loans made between agents
    overwritten, \* history: a save of the total has undone another
    defaultAt  \* history: tick a loan was marked defaulted

market == <<owner, listing, intents>>
cascade == <<losses, front, visited, depth>>
books == <<booking, overwritten>>
history == <<lentOut, defaultAt>>
vars == <<tick, stage, todo, failing, losses, front, visited, depth, alive, cash,
          treasury, wealth, owner, listing, intents, loan, bank, booking,
          lentOut, overwritten, defaultAt>>

LoanIds == 1 .. MaxLoans
Stages == {"expire", "market", "service", "mature", "settle", "cascade", "rest", "turns"}
LoanStatuses == {"none", "active", "repaid", "defaulted", "default_settled", "rolled_over"}
ListingStatuses == {"none", "listed", "sold", "withdrawn"}

NoLoan == [status |-> "none", lender |-> Bank, borrower |-> 0, principal |-> 0,
           balance |-> 0, interest |-> 0, collateral |-> NoProp, due |-> 0,
           rolled |-> 0, cascade |-> FALSE]
LoanType ==
    [status : LoanStatuses, lender : Agents \cup {Bank}, borrower : Agents \cup {0},
     principal : Nat, balance : Nat, interest : Nat, collateral : Props \cup {NoProp},
     due : Nat, rolled : Nat, cascade : BOOLEAN]
\* "by" is history: who listed it.
NoListing == [status |-> "none", price |-> 0, at |-> 0, by |-> 0]
ListingType == [status : ListingStatuses, price : Nat, at : Nat, by : Agents \cup {0}]
BankType == [total : Nat, deposits : Nat, solvent : BOOLEAN]
NoBooking == [amount |-> 0, seen |-> 0]

\* The least of a set of ids.
First(x, S) == x \in S /\ \A y \in S : x <= y
AtLeastZero(n) == IF n < 0 THEN 0 ELSE n
AtLeastOne(n) == IF n < 1 THEN 1 ELSE n
Total(f, S) == SumFunctionOnSet(f, S)

\* A loan that still has its claim on the collateral.
Live(l) == loan[l].status \in {"active", "defaulted"}

\* Variant: a default that waits for its settlement holds no lien.
PledgedIfActive(p) == \E l \in LoanIds : loan[l].status = "active" /\ loan[l].collateral = p

Pledged(p) == \E l \in LoanIds : Live(l) /\ loan[l].collateral = p

OwnedBy(a) == {p \in Props : owner[p] = a}
Estate(a) == Total(Value, OwnedBy(a))

\* Rows are created in id order.
Free == {l \in LoanIds : loan[l].status = "none"}
NewRow(n) == First(n, Free)

\* Bound: a new loan leaves rows for every rollover it and the others may have.
Room ==
    LET left == [l \in LoanIds |-> MaxRollover - loan[l].rolled]
        active == {l \in LoanIds : loan[l].status = "active"}
    IN  Cardinality(Free) >= Total(left, active) + MaxRollover + 1

Init ==
    /\ tick = 1 /\ stage = "expire" /\ todo = {} /\ failing = {}
    /\ losses = [a \in Agents |-> 0]
    /\ front = {} /\ visited = {} /\ depth = 0
    /\ alive = Agents
    /\ cash = InitialCash /\ treasury = 0
    /\ owner = InitialOwner
    /\ wealth = [a \in Agents |-> InitialCash[a] + Estate(a)]
    /\ listing = [p \in Props |-> NoListing]
    /\ intents = {}
    /\ loan = [l \in LoanIds |-> NoLoan]
    /\ bank = [total |-> 0, deposits |-> InitialDeposits, solvent |-> TRUE]
    /\ booking = [a \in Agents |-> NoBooking]
    /\ lentOut = 0 /\ overwritten = FALSE /\ defaultAt = [l \in LoanIds |-> 0]

-----------------------------------------------------------------------------
(* Property market: process_property_listings. *)

\* A tick in which nobody lives has no zone to process and skips the block.
SkipCredit ==
    /\ stage = "expire" /\ alive = {}
    /\ stage' = "rest" /\ intents' = {}
    /\ UNCHANGED <<tick, todo, failing, cascade, alive, cash, treasury, wealth, owner,
                   listing, loan, bank, books, history>>

ExpireListings ==
    /\ stage = "expire" /\ alive # {}
    /\ listing' = [p \in Props |->
                     IF listing[p].status = "listed" /\ listing[p].at + Expiry <= tick
                     THEN [listing[p] EXCEPT !.status = "withdrawn"] ELSE listing[p]]
    /\ todo' = intents /\ intents' = {}
    /\ stage' = "market"
    /\ UNCHANGED <<tick, failing, cascade, alive, cash, treasury, wealth, owner,
                   loan, bank, books, history>>

\* Variant: no lien exclusion.
OffersPledgedToo(b) == {p \in Props : listing[p].status = "listed" /\ owner[p] # b}

\* What a buyer may be matched with, and the cheapest of it.
Offers(b) ==
    {p \in Props : listing[p].status = "listed" /\ owner[p] # b /\ ~Pledged(p)}

\* (The older listing among equals, here either.)
Cheapest(p, b) == p \in Offers(b) /\ \A q \in Offers(b) : listing[p].price <= listing[q].price

\* Variant: a seller who died meanwhile is not credited.
SellFromTheLiving(p, b) ==
    LET price == listing[p].price
        seller == owner[p]
    IN  /\ owner' = [owner EXCEPT ![p] = b]
        /\ listing' = [listing EXCEPT ![p].status = "sold"]
        /\ cash' = [a \in Agents |-> IF a = b THEN cash[a] - price
                                     ELSE IF a = seller /\ a \in alive THEN cash[a] + price
                                     ELSE cash[a]]
        /\ treasury' = IF seller = Government THEN treasury + price ELSE treasury

Sell(p, b) ==
    LET price == listing[p].price
        seller == owner[p]
    IN  /\ owner' = [owner EXCEPT ![p] = b]
        /\ listing' = [listing EXCEPT ![p].status = "sold"]
        /\ cash' = [a \in Agents |-> IF a = b THEN cash[a] - price
                                     ELSE IF a = seller THEN cash[a] + price
                                     ELSE cash[a]]
        /\ treasury' = IF seller = Government THEN treasury + price ELSE treasury

\* The buyer is whoever decided to buy last tick, alive or not by now.
MatchBuyer ==
    /\ stage = "market"
    /\ \E b \in Agents :
        /\ First(b, todo)
        /\ todo' = todo \ {b}
        /\ \/ \E p \in Props : Cheapest(p, b) /\ cash[b] >= listing[p].price /\ Sell(p, b)
           \/ /\ \A p \in Props : Cheapest(p, b) => cash[b] < listing[p].price
              /\ UNCHANGED <<owner, listing, cash, treasury>>
    /\ UNCHANGED <<tick, stage, failing, cascade, alive, wealth, intents, loan, bank,
                   books, history>>

-----------------------------------------------------------------------------
(* Loans of dead borrowers, and interest: default_dead_agent_loans and       *)
(* service_loans.                                                            *)

MarkDefaulted(S) ==
    /\ loan' = [l \in LoanIds |-> IF l \in S THEN [loan[l] EXCEPT !.status = "defaulted"]
                                  ELSE loan[l]]
    /\ defaultAt' = [l \in LoanIds |-> IF l \in S THEN tick ELSE defaultAt[l]]

ActiveLoans == {l \in LoanIds : loan[l].status = "active"}

DefaultDeadAgentLoans ==
    LET dead == {l \in ActiveLoans : loan[l].borrower \notin alive} IN
    /\ stage = "market" /\ todo = {}
    /\ MarkDefaulted(dead)
    /\ todo' = {l \in ActiveLoans \ dead : loan[l].due > tick}
    /\ stage' = "service"
    /\ UNCHANGED <<tick, failing, cascade, alive, cash, treasury, wealth, market,
                   bank, books, lentOut>>

\* The borrower's cash pays the lender; the banking system's share leaves the
\* agents' cash.
Pay(l, amount) ==
    cash' = [a \in Agents |->
               IF a = loan[l].borrower THEN cash[a] - amount
               ELSE IF a = loan[l].lender THEN cash[a] + amount
               ELSE cash[a]]

\* Variant: judges the borrower by wealth, not by the cash of this moment.
ServiceLoanOnWealth ==
    /\ stage = "service"
    /\ \E l \in LoanIds :
        /\ First(l, todo)
        /\ todo' = todo \ {l}
        /\ IF wealth[loan[l].borrower] >= loan[l].interest
           THEN Pay(l, loan[l].interest) /\ failing' = failing
           ELSE failing' = failing \cup {l} /\ cash' = cash
    /\ UNCHANGED <<tick, stage, cascade, alive, treasury, wealth, market, loan, bank,
                   books, history>>

ServiceLoan ==
    /\ stage = "service"
    /\ \E l \in LoanIds :
        /\ First(l, todo)
        /\ todo' = todo \ {l}
        /\ IF cash[loan[l].borrower] >= loan[l].interest
           THEN Pay(l, loan[l].interest) /\ failing' = failing
           ELSE failing' = failing \cup {l} /\ cash' = cash
    /\ UNCHANGED <<tick, stage, cascade, alive, treasury, wealth, market, loan, bank,
                   books, history>>

\* engine.py marks the loans service_loans returned.
DefaultUnserviced ==
    /\ stage = "service" /\ todo = {}
    /\ MarkDefaulted(failing \cap ActiveLoans)
    /\ failing' = {}
    /\ todo' = {l \in ActiveLoans \ failing : loan[l].due <= tick}
    /\ stage' = "mature"
    /\ UNCHANGED <<tick, cascade, alive, cash, treasury, wealth, market, bank, books,
                   lentOut>>

-----------------------------------------------------------------------------
(* process_maturity. *)

WriteDown(l) ==
    bank' = IF loan[l].lender = Bank
            THEN [bank EXCEPT !.total = AtLeastZero(@ - loan[l].principal)] ELSE bank

Repay(l) ==
    /\ cash[loan[l].borrower] >= loan[l].balance + loan[l].interest
    /\ Pay(l, loan[l].balance + loan[l].interest)
    /\ bank' = IF loan[l].lender = Bank
               THEN [bank EXCEPT !.total = AtLeastZero(@ - loan[l].balance)] ELSE bank
    /\ loan' = [loan EXCEPT ![l].status = "repaid", ![l].balance = 0]
    /\ UNCHANGED defaultAt

\* Variant: books the new loan like one that was issued.
RollOverReissuing(l) ==
    /\ cash[loan[l].borrower] < loan[l].balance + loan[l].interest
    /\ cash[loan[l].borrower] >= loan[l].interest
    /\ loan[l].rolled < MaxRollover
    /\ Pay(l, loan[l].interest)
    /\ \E n \in LoanIds :
        /\ NewRow(n)
        /\ loan' = [loan EXCEPT
                      ![l].status = "rolled_over",
                      ![n] = [loan[l] EXCEPT
                                !.principal = loan[l].balance,
                                !.interest = @ + 1,
                                !.due = tick + Duration,
                                !.rolled = @ + 1,
                                !.cascade = FALSE]]
    /\ bank' = IF loan[l].lender = Bank
               THEN [bank EXCEPT !.total = @ + loan[l].balance] ELSE bank
    /\ UNCHANGED defaultAt

\* The old loan ends and a dearer one takes over its balance and collateral.
\* (Room keeps a row free for it.)
RollOver(l) ==
    /\ cash[loan[l].borrower] < loan[l].balance + loan[l].interest
    /\ cash[loan[l].borrower] >= loan[l].interest
    /\ loan[l].rolled < MaxRollover
    /\ Pay(l, loan[l].interest)
    /\ \E n \in LoanIds :
        /\ NewRow(n)
        /\ loan' = [loan EXCEPT
                      ![l].status = "rolled_over",
                      ![n] = [loan[l] EXCEPT
                                !.principal = loan[l].balance,
                                !.interest = @ + 1,
                                !.due = tick + Duration,
                                !.rolled = @ + 1,
                                !.cascade = FALSE]]
    /\ UNCHANGED <<bank, defaultAt>>

DefaultAtMaturity(l) ==
    /\ cash[loan[l].borrower] < loan[l].balance + loan[l].interest
    /\ cash[loan[l].borrower] < loan[l].interest \/ loan[l].rolled >= MaxRollover
    /\ MarkDefaulted({l})
    /\ UNCHANGED <<cash, bank>>

MatureLoan ==
    /\ stage = "mature"
    /\ \E l \in LoanIds :
        /\ First(l, todo)
        /\ todo' = todo \ {l}
        /\ Repay(l) \/ RollOver(l) \/ DefaultAtMaturity(l)
    /\ UNCHANGED <<tick, stage, failing, cascade, alive, treasury, wealth, market,
                   books, lentOut>>

-----------------------------------------------------------------------------
(* process_defaults. *)

\* Variant: leaves out the loans a cascade defaulted.
StartSettlingFresh ==
    /\ stage = "mature" /\ todo = {}
    /\ todo' = {l \in LoanIds : loan[l].status = "defaulted" /\ ~loan[l].cascade}
    /\ losses' = [a \in Agents |-> 0]
    /\ stage' = "settle"
    /\ UNCHANGED <<tick, failing, front, visited, depth, alive, cash, treasury, wealth,
                   market, loan, bank, books, history>>

StartSettling ==
    /\ stage = "mature" /\ todo = {}
    /\ todo' = {l \in LoanIds : loan[l].status = "defaulted"}
    /\ losses' = [a \in Agents |-> 0]
    /\ stage' = "settle"
    /\ UNCHANGED <<tick, failing, front, visited, depth, alive, cash, treasury, wealth,
                   market, loan, bank, books, history>>

\* Variant: collateral worth more than the balance is a gain.
NetLossOrGain(l) ==
    loan[l].balance - IF loan[l].collateral = NoProp THEN 0 ELSE Value[loan[l].collateral]

\* What the lender loses: the balance less the collateral's value.
NetLoss(l) ==
    AtLeastZero(loan[l].balance
                - IF loan[l].collateral = NoProp THEN 0 ELSE Value[loan[l].collateral])

\* Variant: the listing of what was seized stays.
SeizeKeepingListing(l) ==
    LET p == loan[l].collateral IN
    IF p = NoProp THEN UNCHANGED <<owner, listing>>
    ELSE owner' = [owner EXCEPT ![p] = loan[l].lender] /\ UNCHANGED listing

\* The collateral goes to an agent lender or to the government, and is no
\* longer for sale.
Seize(l) ==
    LET p == loan[l].collateral IN
    IF p = NoProp THEN UNCHANGED <<owner, listing>>
    ELSE /\ owner' = [owner EXCEPT ![p] = loan[l].lender]
         /\ listing' = [listing EXCEPT ![p].status = IF @ = "listed" THEN "withdrawn" ELSE @]

SettleLoan ==
    /\ stage = "settle"
    /\ \E l \in LoanIds :
        /\ First(l, todo)
        /\ todo' = todo \ {l}
        /\ Seize(l)
        /\ loan' = [loan EXCEPT ![l].status = "default_settled", ![l].balance = 0]
        /\ WriteDown(l)
        /\ losses' = IF loan[l].lender # Bank /\ ~loan[l].cascade
                     THEN [losses EXCEPT ![loan[l].lender] = @ + NetLoss(l)] ELSE losses
    /\ UNCHANGED <<tick, stage, failing, front, visited, depth, alive, cash, treasury,
                   wealth, intents, books, history>>

-----------------------------------------------------------------------------
(* process_default_cascade, a level of the breadth-first search at a time.   *)
(* Agents of one level do not disturb each other: each has its own loans,    *)
(* and the loss a lender is judged by comes from one borrower.               *)

\* CASCADE_LOSS_THRESHOLD is one half.
Ruined(a, loss) == loss * 2 > AtLeastOne(wealth[a])

StartCascade ==
    LET hit == {a \in Agents : losses[a] > 0 /\ Ruined(a, losses[a])} IN
    /\ stage = "settle" /\ todo = {}
    /\ front' = hit /\ visited' = hit /\ depth' = 1
    /\ stage' = "cascade"
    /\ UNCHANGED <<tick, todo, failing, losses, alive, cash, treasury, wealth, market,
                   loan, bank, books, history>>

BorrowedBy(a) == {l \in ActiveLoans : loan[l].borrower = a}
LossFrom(b, a) ==
    Total([l \in LoanIds |-> NetLoss(l)], {l \in BorrowedBy(b) : loan[l].lender = a})

CascadeLevel ==
    LET fallen == UNION {BorrowedBy(a) : a \in front}
        hit == {a \in Agents \ visited : \E b \in front : Ruined(a, LossFrom(b, a))}
    IN  /\ stage = "cascade" /\ front # {} /\ depth <= MaxDepth
        /\ loan' = [l \in LoanIds |->
                      IF l \in fallen
                      THEN [loan[l] EXCEPT !.status = "defaulted", !.cascade = TRUE]
                      ELSE loan[l]]
        /\ defaultAt' = [l \in LoanIds |-> IF l \in fallen THEN tick ELSE defaultAt[l]]
        /\ front' = hit /\ visited' = visited \cup hit /\ depth' = depth + 1
        /\ UNCHANGED <<tick, stage, todo, failing, losses, alive, cash, treasury,
                       wealth, market, bank, books, lentOut>>

\* The cascade is over; check_solvency, with a reserve ratio of one tenth.
CheckSolvency ==
    /\ stage = "cascade" /\ (front = {} \/ depth > MaxDepth)
    /\ bank' = [bank EXCEPT !.solvent = bank.total * 10 <= bank.deposits * 9]
    /\ front' = {} /\ visited' = {} /\ depth' = 0 /\ losses' = [a \in Agents |-> 0]
    /\ stage' = "rest"
    /\ UNCHANGED <<tick, todo, failing, alive, cash, treasury, wealth, market, loan,
                   books, history>>

-----------------------------------------------------------------------------
(* The rest of the economy tick: the living earn or spend; wealth and        *)
(* deposits are recomputed.                                                  *)

MayHave(a) ==
    IF a \in alive
    THEN {cash[a], 0} \cup {cash[a] + i : i \in {j \in Incomes : cash[a] + j <= MaxCash}}
    ELSE {cash[a]}

RestOfEconomy ==
    /\ stage = "rest" /\ tick < MaxTick
    /\ cash' \in {c \in [Agents -> UNION {MayHave(a) : a \in Agents}] :
                    \A a \in Agents : c[a] \in MayHave(a)}
    /\ wealth' = [a \in Agents |->
                    IF a \in alive THEN cash'[a] + Estate(a)
                    ELSE wealth[a]]
    /\ bank' = [bank EXCEPT !.deposits = Total(cash', alive)]
    /\ todo' = alive
    /\ stage' = "turns"
    /\ UNCHANGED <<tick, failing, cascade, alive, treasury, market, loan, books,
                   history>>

-----------------------------------------------------------------------------
(* Agent turns: apply_agent_action. *)

Turn(a) == stage = "turns" /\ a \in todo /\ todo' = todo \ {a}

\* find_best_unpledged_property: the dearest, least id among equals.
Unpledged(a) == {p \in OwnedBy(a) : ~Pledged(p)}
Best(p, a) ==
    /\ p \in Unpledged(a)
    /\ \A q \in Unpledged(a) : Value[q] < Value[p] \/ (Value[q] = Value[p] /\ p <= q)

Debt(a) == Total([l \in LoanIds |-> loan[l].balance], BorrowedBy(a))

\* evaluate_credit_request, with a loan-to-value ratio of one half.
Approved(a, amount, p) ==
    amount > 0 /\ (Debt(a) + amount) * 2 <= Value[p] /\ bank.solvent

\* issue_loan, up to its bookkeeping: money comes from the lender or is
\* created, and the collateral must not be pledged.
IssueLoan(lender, a, amount, interest, p) ==
    /\ p = NoProp \/ ~Pledged(p)
    /\ \E n \in LoanIds :
        /\ NewRow(n)
        /\ loan' = [loan EXCEPT ![n] =
                      [status |-> "active", lender |-> lender, borrower |-> a,
                       principal |-> amount, balance |-> amount, interest |-> interest,
                       collateral |-> p, due |-> tick + Duration, rolled |-> 0,
                       cascade |-> FALSE]]
    /\ cash' = [b \in Agents |-> IF b = a THEN cash[b] + amount
                                 ELSE IF b = lender THEN cash[b] - amount
                                 ELSE cash[b]]

\* The turn has its loan and has read BankingState.  Turns run side by side:
\* another may read or save that row before this one does.
Borrow(a) ==
    /\ Turn(a) /\ a \in alive
    /\ Room
    /\ \E p \in Props, interest \in Interests : \E amount \in 1 .. Value[p] :
        /\ Best(p, a)
        /\ Approved(a, amount, p)
        /\ IssueLoan(Bank, a, amount, interest, p)
        /\ booking' = [booking EXCEPT ![a] = [amount |-> amount, seen |-> bank.total]]
    /\ UNCHANGED <<tick, stage, failing, cascade, alive, treasury, wealth, market, bank,
                   overwritten, history>>

\* The end of issue_loan saves the total that was read and the loan.
BookLoan(a) ==
    /\ booking[a] # NoBooking
    /\ bank' = [bank EXCEPT !.total = booking[a].seen + booking[a].amount]
    /\ booking' = [booking EXCEPT ![a] = NoBooking]
    /\ overwritten' = (overwritten \/ bank.total # booking[a].seen)
    /\ UNCHANGED <<tick, stage, todo, failing, cascade, alive, cash, treasury, wealth,
                   market, loan, history>>

\* issue_loan with an agent as the lender: no caller in the repository passes
\* one but its tests.  That the lender has the money is left to the caller.
LendPrivately(a, b) ==
    /\ stage = "turns" /\ a # b /\ {a, b} \subseteq alive
    /\ lentOut < MaxPrivate /\ Room
    /\ \E p \in {NoProp} \cup Unpledged(b), interest \in Interests :
        \E amount \in 1 .. cash[a] : IssueLoan(a, b, amount, interest, p)
    /\ lentOut' = lentOut + 1
    /\ UNCHANGED <<tick, stage, todo, failing, cascade, alive, treasury, wealth, market,
                   bank, books, defaultAt>>

\* sell_property: the first property without a lien (of the type it asks for:
\* so any may be), unless it is listed.
SellProperty(a) ==
    /\ Turn(a) /\ a \in alive
    /\ \E p \in Unpledged(a) :
        /\ listing[p].status # "listed"
        /\ \E price \in Prices :
            listing' = [listing EXCEPT ![p] =
                [status |-> "listed", price |-> price, at |-> tick, by |-> a]]
    /\ UNCHANGED <<tick, stage, failing, cascade, alive, cash, treasury, wealth, owner,
                   intents, loan, bank, books, history>>

BuyProperty(a) ==
    /\ Turn(a) /\ a \in alive
    /\ intents' = intents \cup {a}
    /\ UNCHANGED <<tick, stage, failing, cascade, alive, cash, treasury, wealth, owner,
                   listing, loan, bank, books, history>>

\* Any other action, a refused one, or the turn of an agent dead by now.
OtherTurn(a) ==
    /\ Turn(a)
    /\ UNCHANGED <<tick, stage, failing, cascade, alive, cash, treasury, wealth, market,
                   loan, bank, books, history>>

-----------------------------------------------------------------------------
(* process_expropriation, at the end of a tick, and the next tick. *)

AgentOwned == {p \in Props : owner[p] # Government}
MedianValue ==
    LET below(v) == {p \in AgentOwned : Value[p] < v}
        upTo(v) == {p \in AgentOwned : Value[p] <= v}
        half == Cardinality(AgentOwned) \div 2
    IN  CHOOSE v \in {Value[p] : p \in AgentOwned} :
            Cardinality(below(v)) <= half /\ half < Cardinality(upTo(v))

Policies == {"none", "nationalize_all", "elite_seizure", "redistribute"}
Targets(policy) ==
    CASE policy = "none" -> {}
      [] policy = "nationalize_all" -> AgentOwned
      [] policy = "elite_seizure" -> {p \in AgentOwned : owner[p] \in Elite}
      [] policy = "redistribute" -> {p \in AgentOwned : Value[p] > MedianValue}

\* Variant: the claim of a loan already in default survives.
ExpropriateActive(S) ==
    LET freed == {l \in LoanIds : loan[l].status = "active" /\ loan[l].collateral \in S} IN
    /\ owner' = [p \in Props |-> IF p \in S THEN Government ELSE owner[p]]
    /\ listing' = [p \in Props |->
                     IF p \in S /\ listing[p].status = "listed"
                     THEN [listing[p] EXCEPT !.status = "withdrawn"] ELSE listing[p]]
    /\ loan' = [l \in LoanIds |->
                  IF l \in freed
                  THEN [loan[l] EXCEPT !.status = "defaulted", !.collateral = NoProp]
                  ELSE loan[l]]
    /\ defaultAt' = [l \in LoanIds |-> IF l \in freed THEN tick ELSE defaultAt[l]]

\* Listings are withdrawn; loans on the property default and lose their claim.
Expropriate(S) ==
    LET freed == {l \in LoanIds : Live(l) /\ loan[l].collateral \in S} IN
    /\ owner' = [p \in Props |-> IF p \in S THEN Government ELSE owner[p]]
    /\ listing' = [p \in Props |->
                     IF p \in S /\ listing[p].status = "listed"
                     THEN [listing[p] EXCEPT !.status = "withdrawn"] ELSE listing[p]]
    /\ loan' = [l \in LoanIds |->
                  IF l \in freed
                  THEN [loan[l] EXCEPT !.status = "defaulted", !.collateral = NoProp]
                  ELSE loan[l]]
    /\ defaultAt' = [l \in LoanIds |->
                       IF l \in freed /\ loan[l].status = "active" THEN tick ELSE defaultAt[l]]

\* The chord waits for turns that are still to book their loan.
EndTick ==
    /\ stage = "turns" /\ todo = {} /\ \A a \in Agents : booking[a] = NoBooking
    /\ \E policy \in Policies : Expropriate(Targets(policy))
    /\ tick' = tick + 1 /\ stage' = "expire"
    /\ UNCHANGED <<todo, failing, cascade, alive, cash, treasury, wealth, intents,
                   bank, books, lentOut>>

\* inject_event_view, at any time.
InjectEvent ==
    \E dead \in SUBSET alive \ {{}} :
        /\ alive' = alive \ dead
        /\ UNCHANGED <<tick, stage, todo, failing, cascade, cash, treasury, wealth,
                       market, loan, bank, books, history>>

-----------------------------------------------------------------------------
Next ==
    \/ SkipCredit \/ ExpireListings \/ MatchBuyer
    \/ DefaultDeadAgentLoans \/ ServiceLoan \/ DefaultUnserviced
    \/ MatureLoan \/ StartSettling \/ SettleLoan
    \/ StartCascade \/ CascadeLevel \/ CheckSolvency
    \/ RestOfEconomy \/ EndTick \/ InjectEvent
    \/ \E a \in Agents :
        \/ Borrow(a) \/ BookLoan(a) \/ SellProperty(a) \/ BuyProperty(a) \/ OtherTurn(a)
        \/ \E b \in Agents : LendPrivately(a, b)

Spec == Init /\ [][Next]_vars

-----------------------------------------------------------------------------
(* Properties. *)

\* What the lien argument needs to know of the state ...
ShapeOK ==
    /\ tick \in Nat /\ stage \in Stages
    /\ todo \subseteq Agents \cup LoanIds /\ failing \subseteq LoanIds
    /\ front \subseteq Agents /\ visited \subseteq Agents /\ depth \in Nat
    /\ alive \subseteq Agents
    /\ cash \in [Agents -> Int]
    /\ owner \in [Props -> Agents \cup {Government}]
    /\ listing \in [Props -> ListingType]
    /\ intents \subseteq Agents
    /\ loan \in [LoanIds -> LoanType]
    /\ lentOut \in Nat /\ defaultAt \in [LoanIds -> Nat]

\* ... and the sums of money.
MoneyOK ==
    /\ losses \in [Agents -> Nat] /\ wealth \in [Agents -> Nat]
    /\ treasury \in Nat /\ bank \in BankType
    /\ booking \in [Agents -> [amount : Nat, seen : Nat]] /\ overwritten \in BOOLEAN

TypeOK == ShapeOK /\ MoneyOK

\* A property secures at most one loan that is not over: not two at once, nor
\* one and a default that waits for its settlement.
OneLienPerProperty ==
    \A l, m \in LoanIds :
        Live(l) /\ Live(m) /\ l # m /\ loan[l].collateral # NoProp
            => loan[l].collateral # loan[m].collateral

\* What secures a loan still belongs to its borrower: no sale, seizure or
\* expropriation takes it away and leaves the claim.
SecurityHeld ==
    \A l \in LoanIds :
        Live(l) /\ loan[l].collateral # NoProp => owner[loan[l].collateral] = loan[l].borrower

\* The banking system's aggregate, with what turns have still to book, is never
\* more than the principal of its loans that are not over; and it is that
\* principal, through rollovers, deaths, cascades and expropriations, unless the
\* saves of two turns have crossed and one was lost.
Outstanding == Total([l \in LoanIds |-> loan[l].principal],
                     {l \in LoanIds : Live(l) /\ loan[l].lender = Bank})
Unbooked == Total([a \in Agents |-> booking[a].amount], Agents)
BankBook ==
    /\ bank.total + Unbooked <= Outstanding
    /\ ~overwritten => bank.total + Unbooked = Outstanding

\* What is for sale belongs to whoever put it up: no listing outlives a sale,
\* a seizure or an expropriation and sells the property from under its new
\* owner.
ListedByOwner == \A p \in Props : listing[p].status = "listed" => owner[p] = listing[p].by

\* A defaulted loan is settled by the next tick's credit block at the latest,
\* as long as somebody lives.
DefaultsSettleNextTick ==
    \A l \in LoanIds :
        loan[l].status = "defaulted" /\ alive # {} /\ stage \in {"cascade", "rest", "turns"}
            => defaultAt[l] = tick

\* No order of servicing, repaying and buying takes from an agent more than
\* it has.
NobodyOverdraws == \A a \in Agents : cash[a] >= 0

\* A property that secures a loan changes hands only when that loan's default
\* is settled or when the state takes it.
LienBlocksTransfer ==
    [][\A p \in Props :
         owner'[p] # owner[p] /\ (\E l \in LoanIds : Live(l) /\ loan[l].collateral = p)
            => owner'[p] = Government
               \/ \E l \in LoanIds :
                    /\ loan[l].collateral = p /\ loan[l].status = "defaulted"
                    /\ loan'[l].status = "default_settled"
                    /\ owner'[p] = loan[l].lender]_vars

\* Buying and selling property moves money and makes none.
SalesConserveMoney ==
    [][stage = "market" =>
         Total(cash', Agents) + treasury' = Total(cash, Agents) + treasury]_vars

\* A loan that is over stays as it ended.
OverIsOver ==
    [][\A l \in LoanIds :
         loan[l].status \in {"repaid", "default_settled", "rolled_over"}
            => loan'[l] = loan[l]]_vars

=============================================================================
