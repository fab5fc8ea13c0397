SPECIFICATION FairSpec
CHECK_DEADLOCK FALSE
CONSTANTS
  N = 2
  Newcomers = {1}
  LateTrackers = {1}
  MaxArm = 1
  FeedbackDepth = 5
  TopicDepth = 1
  RequireFcArmed = TRUE
  LandedPartnerCut = FALSE
  LandFaults = {}
  Presses = {}
  MaxPresses = 0
  MaxFaults = 1
  FaultKinds = {"timeout", "refuse", "pose", "wedge"}
INVARIANTS
  RestDisarmed
PROPERTIES
  ArmEnds
