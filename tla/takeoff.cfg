SPECIFICATION Spec
CHECK_DEADLOCK FALSE
CONSTANTS
  N = 2
  Newcomers = {}
  LateTrackers = {}
  MaxArm = 1
  FeedbackDepth = 1
  TopicDepth = 1
  RequireFcArmed = FALSE
  LandedPartnerCut = FALSE
  LandFaults = {"limit"}
  Presses = {"TAKEOFF", "DISARM", "LAND"}
  MaxPresses = 1
  MaxFaults = 2
  FaultKinds = {"pose", "timeout", "refuse", "limit"}
INVARIANTS
  FlyingIsArmed
  FeedbackTruth
PROPERTIES
  DisarmReachesAll
