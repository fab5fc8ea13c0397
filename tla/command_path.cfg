SPECIFICATION Spec
CHECK_DEADLOCK FALSE
CONSTANTS
  Live = 2
  Launches <- MuxLaunches
  PreLow = 2
  RetryLow = 2
  Confirm = 3
  ConfirmMax = 5
  EdgeSettle = 2
  ModeFresh = 2
  MaxTries = 2
  Silence = 2
  Delay = 1
  FaultDebounce = 3
  LimitSamples = 3
  CutHold = 2
  Holdoff = 2
  MaxTicks = 5
  Quads = {1, 2, 3, 4}
  RingLaunches <- FlownRings
  Blend = 1
  Wait = 2
  LateBy = 2
  MaxPresses = 1
  MaxUpsets = 2
  Missions <- JoinMissions
  Dwell = 1
  BlockedFor = 1
  RecoveredFor = 1
  MaxBlocked = 3
  LandAfter = 2
  LandMin = 1
  Grace = 1
  Ramp = 2
  DetectRise = 1
  DisarmRise = 1
  HoldRise = 2
  Top = 2
  MaxWords = 1
INVARIANTS
  HisThrottleWaits
  RulesAsDefined
  RingIsCurrent
PROPERTIES
  MuxIsAuthority
  TakeBackTakes
  ReleaseHands
  TakenBackStays
  NeverDropsArmed
  ArmedIsTrue
  VerdictComes
  StaleArmEnds
  LossIsActedOn
  AbortIsFinal
  ReadyIsEarned
  ObjectIsCarried
  ApproachEnds
