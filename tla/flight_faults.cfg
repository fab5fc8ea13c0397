SPECIFICATION FairSpecInFlight
CHECK_DEADLOCK FALSE
CONSTANTS
  N = 2
  Newcomers = {}
  LateTrackers = {}
  MaxArm = 1
  FeedbackDepth = 2
  TopicDepth = 1
  RequireFcArmed = FALSE
  LandedPartnerCut = FALSE
  LandFaults = {}
  Presses = {"ESTOP"}
  MaxPresses = 1
  MaxFaults = 2
  FaultKinds = {"wedge", "pose", "envelope", "solver", "crash"}
INVARIANTS
  TypeOK
PROPERTIES
  CarrierLossGrounds
  EstopStopsMotors
  WedgedIsStopped
  PlannerLossGrounds
