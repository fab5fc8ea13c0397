SPECIFICATION FairSpec
CHECK_DEADLOCK FALSE
CONSTANTS
  N = 1
  Newcomers = {}
  LateTrackers = {}
  MaxArm = 2
  FeedbackDepth = 5
  TopicDepth = 1
  RequireFcArmed = FALSE
  LandedPartnerCut = FALSE
  LandFaults = {}
  Presses = {"TAKEOFF", "DISARM"}
  MaxPresses = 2
  MaxFaults = 0
  FaultKinds = {}
PROPERTIES
  LatchedNeverFlies
