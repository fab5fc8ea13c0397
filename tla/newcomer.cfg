SPECIFICATION FairSpecInFlight
CHECK_DEADLOCK FALSE
CONSTANTS
  N = 2
  Newcomers = {1}
  LateTrackers = {}
  MaxArm = 1
  FeedbackDepth = 5
  TopicDepth = 1
  RequireFcArmed = FALSE
  LandedPartnerCut = TRUE
  LandFaults = {}
  Presses = {}
  MaxPresses = 0
  MaxFaults = 2
  FaultKinds = {"pose", "weld", "handover"}
INVARIANTS
  LatchedMuxIsOff
  ExcusedOffRing
PROPERTIES
  StopLatchesMuxes
