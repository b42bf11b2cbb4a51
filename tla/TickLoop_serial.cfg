SPECIFICATION FairSpec
CONSTANTS
  a1 = a1
  a2 = a2
  s1 = s1
  s2 = s2
  Agents <- TwoAgents
  Slots <- TwoSlots
  Patient = TRUE
  Cooldown = 1
  MaxTick = 3
  MaxPlays = 2
  MaxCrashes = 0
INVARIANTS TypeOK CrisisSpacing
PROPERTIES ImplementsSerialTicks BegunTickCompletes KeepsTicking
