SPECIFICATION Spec
CONSTANTS
  Agents <- MCAgents
  InitialTies <- MCTies
  Traits <- MCTraits
  Credulity <- MCCredulity
  Deeds <- MCDeeds
  Mortals <- MCMortals
  DeathTicks = {1}
  EventTicks = {3}
  FailTicks = {2}
  Threshold = 350
  MaxHops = 2
  MaxRecipients = 2
  Belief = 400
  FadeAge = 2
  FadeRate = 60
  DecayInterval = 2
  DecayAge = 1
  MaxTick = 3
  MaxDeeds = 2
  MaxFailures = 1
INVARIANTS TypeOK ChainsEnd NewsReachesNeighbours OpinionsFollowNews
CHECK_DEADLOCK FALSE
