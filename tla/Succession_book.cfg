SPECIFICATION Spec
CONSTANTS
  Agents <- MCAgents
  Parents <- MCParents
  Men <- MCMen
  Women <- MCWomen
  Age <- MCAge
  Zone <- MCZone
  Eras <- MCEras
  Loans <- MCLoans
  InitialLender <- MCInitialLender
  Balance <- MCBalance
  InitialAlive <- MCInitialAlive
  InitialCouples <- MCInitialCouples
  InitialWealth <- MCInitialWealth
  Matches <- MCMatches
  MaxIntents = 2
INVARIANT BankingBook
