SPECIFICATION Spec
CONSTANTS
  a1 = a1
  a2 = a2
  s1 = s1
  s2 = s2
  Agents <- OneAgent
  Slots <- TwoSlots
  Patient = TRUE
  Cooldown = 3
  MaxTick = 2
  MaxPlays = 1
  MaxCrashes = 1
PROPERTIES RestartKeepsLoop
