SPECIFICATION Spec
CHECK_DEADLOCK FALSE
CONSTANTS
  N = 1
  Newcomers = {}
  LateTrackers = {}
  MaxArm = 1
  FeedbackDepth = 5
  TopicDepth = 1
  RequireFcArmed = FALSE
  LandedPartnerCut = FALSE
  LandFaults = {}
  Presses = {"DISARM"}
  MaxPresses = 1
  MaxFaults = 0
  FaultKinds = {}
INVARIANTS
  RestDisarmed
