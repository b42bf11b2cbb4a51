SPECIFICATION Spec
CONSTANTS
  Agents <- MCAgents
  Props <- MCProps
  Value <- MCValue
  InitialOwner <- MCInitialOwner
  InitialCash <- MCInitialCash
  InitialDeposits = 4
  Elite <- MCElite
  Incomes <- MCIncomes
  Prices <- MCPrices
  Interests <- MCInterests
  Duration = 2
  MaxRollover = 1
  Expiry = 2
  MaxDepth = 2
  MaxTick = 3
  MaxLoans = 5
  MaxCash = 3
  MaxPrivate = 1
INVARIANTS TypeOK OneLienPerProperty SecurityHeld ListedByOwner DefaultsSettleNextTick BankBook NobodyOverdraws
PROPERTIES LienBlocksTransfer SalesConserveMoney
CHECK_DEADLOCK FALSE
