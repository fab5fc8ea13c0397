SPECIFICATION CoilSpec
CHECK_DEADLOCK FALSE
CONSTANTS
  Launches <- WeldedOnly
  MaxRestarts = 1
  RestartPhases <- AllRestart
  TransitOff = FALSE
PROPERTIES
  PuckOutlivesRestart
