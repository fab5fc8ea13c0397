SPECIFICATION FairSpecInFlight
CHECK_DEADLOCK FALSE
CONSTANTS
  N = 2
  Newcomers = {}
  LateTrackers = {}
  MaxArm = 1
  FeedbackDepth = 5
  TopicDepth = 1
  RequireFcArmed = FALSE
  LandedPartnerCut = FALSE
  LandFaults = {}
  Presses = {"LAND"}
  MaxPresses = 2
  MaxFaults = 1
  FaultKinds = {"pose", "drop", "detach", "crash"}
PROPERTIES
  LandingEnds
  LandedCloses
