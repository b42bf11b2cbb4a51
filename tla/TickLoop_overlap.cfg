SPECIFICATION FairSpec
CONSTANTS
  a1 = a1
  a2 = a2
  s1 = s1
  s2 = s2
  Agents <- OneAgent
  Slots <- TwoSlots
  Patient = FALSE
  Cooldown = 3
  MaxTick = 2
  MaxPlays = 2
  MaxCrashes = 1
INVARIANTS NoTickGap
PROPERTIES PauseStopsLoops
