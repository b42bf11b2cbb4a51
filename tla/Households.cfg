SPECIFICATION Spec
CONSTANTS
  N = 6
  Zones <- MCZones
  Founder <- MCFounder
  Eras <- MCEras
  Draw <- MCDraw
  Payrolls <- MCPayrolls
  Center <- MCCenter
  Scale = 1
  Pace = 1
  PresentValue <- MCPresentValue
  AdulthoodAge = 16
  Poor = {1, 2, 3, 4, 6}
  Deciders = {2, 4}
  Window = 2
  WageWindow = 2
  WorkWindow = 1
  MaxTick = 3
  MaxDeaths = 1
INVARIANTS TypeOK FlightsTellTheTruth MassFlightMeasured ChoiceLastsOneTick
CHECK_DEADLOCK FALSE
