SPECIFICATION FairCoilSpec
CHECK_DEADLOCK FALSE
CONSTANTS
  Launches <- AllLaunches
  MaxRestarts = 1
  RestartPhases <- TwoRestart
  TransitOff = TRUE
INVARIANTS
  CoilTypeOK
PROPERTIES
  PuckHeld
  WeldHolds
  CutDropsCoil
  ReleaseGivesCoil
