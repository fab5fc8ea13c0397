SPECIFICATION FairSpecInFlight
CHECK_DEADLOCK FALSE
CONSTANTS
  N = 2
  Newcomers = {}
  LateTrackers = {}
  MaxArm = 1
  FeedbackDepth = 5
  TopicDepth = 1
  RequireFcArmed = FALSE
  LandedPartnerCut = FALSE
  LandFaults = {}
  Presses = {}
  MaxPresses = 0
  MaxFaults = 1
  FaultKinds = {"wedge"}
PROPERTIES
  SilenceGrounds
