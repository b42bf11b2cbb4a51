SPECIFICATION Spec
CONSTANTS
  Agents <- MCAgents
  Groups <- MCGroups
  MinMembers = 2
  MaxMembers = 3
  Interval = 1
  Recent = 1
  Bonds <- MCBonds
  Rankings <- MCRankings
  Cliques <- MCCliques
  Worlds <- MCWorlds
  MaxTick = 3
  MaxFailures = 1
  MaxEvents = 3
  InitialType = "democracy"
  ElectionInterval = 2
  Charismatic = {1, 3}
  Unscrupulous = {1}
  WorldWealth = 4
INVARIANTS TypeOK NoFounderPoached LeadershipRepaired HistoryContiguous WealthConserved
CHECK_DEADLOCK FALSE
