----------------------------- MODULE FleetSystem -----------------------------
(***************************************************************************)
(* The fleet: the manager, every drone's tracker and the load planner over *)
(* their channels, with the operator, the muxes that choose between our    *)
(* stream and the partner's, and the radios around them.                   *)
(*                                                                         *)
(* Bounds: MaxArm ARM commands, MaxPresses other commands, MaxFaults       *)
(* events of the kinds in FaultKinds.                                      *)
(***************************************************************************)
EXTENDS Tracker, FleetManager, LoadPlanner

CONSTANTS
  Presses,      \* which of TAKEOFF, LAND, DISARM and ESTOP are pressed,
  MaxPresses,   \* and, the bound, how many of them
  MaxFaults,    \* bound: faults and external events
  FaultKinds    \* which of them this instance lets happen

AllFaultKinds == {"wedge", "pose", "envelope", "solver", "down", "tilt", "drop",
                  "detach", "weld", "crash", "handover", "refuse", "timeout",
                  "limit", "partner"}

ASSUME BoundsAssumption ==
  /\ Presses \subseteq {"TAKEOFF", "LAND", "DISARM", "ESTOP"}
  /\ MaxPresses \in Nat /\ MaxFaults \in Nat
  /\ FaultKinds \subseteq AllFaultKinds

VARIABLES presses, faults

bounds == <<presses, faults>>
vars == <<chanVars, trk, mgrVars, pl, bounds>>

Init ==
  /\ ChannelsInit /\ TrackerInit /\ MgrInit /\ PlannerInit
  /\ presses = 0 /\ faults = 0

Fault1(kind) ==
  /\ kind \in FaultKinds /\ faults < MaxFaults
  /\ faults' = faults + 1 /\ UNCHANGED presses
Press1(c) ==
  /\ c \in Presses /\ presses < MaxPresses
  /\ presses' = presses + 1 /\ UNCHANGED faults

-----------------------------------------------------------------------------
(* The operator.  The panel's ARM button is a DISARM button while the      *)
(* fleet flies, and a person's ARM or TAKEOFF comes long after a thread    *)
(* that disarms the fleet has begun (it sends its requests at once).       *)
OperatorArm ==
  ~mgr.flying /\ disarming = 0 /\ Command_ARM /\ UNCHANGED <<trk, pl, bounds>>

OperatorLand ==
  /\ PublishLand /\ Press1("LAND")
  /\ UNCHANGED <<trk, mgrVars, pl, up, services, trackerTopics, radio, step_sent,
                 landed, dropped, on_load_pub, departed_mgr, muxTopics>>

OperatorTakeoff ==
  disarming = 0 /\ Command_TAKEOFF /\ Press1("TAKEOFF") /\ UNCHANGED <<trk, pl>>
OperatorDisarm(c) == Command_DISARM(c) /\ Press1(c) /\ UNCHANGED <<trk, pl>>

Operator ==
  \/ OperatorArm \/ OperatorTakeoff \/ OperatorLand
  \/ \E c \in {"DISARM", "ESTOP"} : OperatorDisarm(c)

-----------------------------------------------------------------------------
(* A mux, a step of its authority at a time.                               *)
MuxSets(d, s) ==
  /\ mux' = [mux EXCEPT ![d] = s]
  /\ UNCHANGED <<trk, mgrVars, pl, up, services, trackerTopics, plannerTopics,
                 tilt_sent, fc>>

(* Our tracker takes over, on a flying command of its own.                 *)
MuxTakes(d) ==
  /\ mux[d] = "partner" /\ Runs(d) /\ trk[d].armed /\ trk[d].takeoff /\ ~trk[d].down
  /\ MuxSets(d, "ours") /\ Fault1("handover")
  /\ UNCHANGED <<radio, mux_abort, mux_cut>>

(* The planner's release: the partner flies it from its own first thrust.  *)
MuxReleases(d) ==
  /\ mux[d] = "ours"
  /\ MuxSets(d, "partner") /\ radio' = [radio EXCEPT ![d] = "armed"]
  /\ Fault1("handover")
  /\ UNCHANGED <<mux_abort, mux_cut>>

MuxAborts(d) ==
  /\ d \in mux_abort
  /\ mux_abort' = mux_abort \ {d}
  /\ MuxSets(d, "latched") /\ radio' = [radio EXCEPT ![d] = "off"]
  /\ UNCHANGED <<mux_cut, bounds>>

MuxCuts(d) ==
  /\ d \in mux_cut
  /\ mux_cut' = mux_cut \ {d}
  /\ IF mux[d] = "partner"
     THEN MuxSets(d, "cut") /\ radio' = [radio EXCEPT ![d] = "off"]
     ELSE MuxSets(d, mux[d]) /\ UNCHANGED radio
  /\ UNCHANGED <<mux_abort, bounds>>

(* What the partner sends a drone of his: armed, or no longer so.          *)
PartnerStream(d) ==
  /\ mux[d] = "partner"
  /\ \/ radio[d] = "off" /\ radio' = [radio EXCEPT ![d] = "armed"]
        /\ UNCHANGED bounds
     \/ radio[d] = "armed" /\ radio' = [radio EXCEPT ![d] = "off"]
        /\ Fault1("partner")
  /\ UNCHANGED <<trk, mgrVars, pl, up, services, trackerTopics,
                 plannerTopics, muxTopics>>

(* The radio node's report of the flight controller's arm state, which the *)
(* manager uses only with one of two parameters (and, with the second, of  *)
(* a drone the partner may fly).                                           *)
FcReport(d) ==
  /\ RequireFcArmed \/ ("fc" \in LandFaults /\ d \in Newcomers)
  /\ \E s \in FcStates :
       /\ \/ radio[d] = "off" /\ s = "disarmed"
          \/ radio[d] # "off" /\ fc[d] = "disarmed" /\ s = "pending"
          \/ radio[d] # "off" /\ fc[d] = "pending" /\ s \in {"armed", "failed"}
       /\ s # fc[d] /\ fc' = [fc EXCEPT ![d] = s]
  /\ UNCHANGED <<trk, mgrVars, pl, bounds, up, services, trackerTopics, radio,
                 plannerTopics, tilt_sent, mux, mux_abort, mux_cut>>

-----------------------------------------------------------------------------
TrackerOnly(A) == A /\ UNCHANGED <<mgrVars, pl, bounds>>
ManagerOnly(A) == A /\ UNCHANGED <<trk, pl, bounds>>
PlannerOnly(A) == A /\ UNCHANGED <<trk, mgrVars, bounds>>

(* One more request its tracker answers.                                   *)
Serve(d) == HandleArm(d, TRUE) \/ HandleDisarm(d)

TrackerRuns(d) ==
  \/ TrackerOnly(Start(d)) \/ TrackerOnly(Serve(d))
  \/ TrackerOnly(HandleTakeoff(d)) \/ TrackerOnly(FleetAbort(d))
  \/ TrackerOnly(DepartedCb(d)) \/ TrackerOnly(Exit(d)) \/ TrackerOnly(Tick(d))

(* What befalls a tracker.  A drone let go takes longer to come down than  *)
(* the manager to hear that it was let go, and who flies it.               *)
TrackerFaults(d) ==
  /\ \/ HandleArm(d, FALSE) /\ Fault1("refuse")
     \/ Wedge(d) /\ Fault1("wedge")
     \/ TickPoseTimeout(d) /\ Fault1("pose")
     \/ TickEnvelopeFault(d) /\ Fault1("envelope")
     \/ TickSolverFailure(d) /\ Fault1("solver")
     \/ /\ d \notin departed_mgr /\ mgr.mux_state[d] = mux[d]
        /\ TickDownAlone(d) /\ Fault1("down")
     \/ TiltFault(d) /\ Fault1("tilt")
  /\ UNCHANGED <<mgrVars, pl>>

(* With no planner its reference is stale after a second: an envelope      *)
(* fault that no budget limits.                                            *)
RefStale(d) == ~pl.up /\ TrackerOnly(TickEnvelopeFault(d))

(* An ARM sequence's replies are late, or one will never come.             *)
ArmTimesOut(k) ==
  /\ ArmTimeout(k) /\ UNCHANGED <<trk, pl>>
  /\ \/ Fault1("timeout")
     \/ /\ \E d \in Drones : reply[k][d] = "pending" /\ ~Runs(d)
        /\ UNCHANGED bounds

PastTheLimit(d) == LimitBreach(d) /\ Fault1("limit") /\ UNCHANGED <<trk, pl>>

ManagerWorks ==
  ManagerOnly(MgrStep(pl.up)) \/ \E k \in ArmIds : ArmTimesOut(k)
ManagerRuns == ManagerWorks \/ ManagerOnly(Landed)
ManagerFaults == \E d \in Drones : PastTheLimit(d)

PlannerWorks ==
  PlannerOnly(PlannerHears) \/ \E d \in Drones : PlannerOnly(TellDeparted(d))
PlannerRuns == PlannerWorks \/ PlannerOnly(PlannerTick)

PlannerFaults ==
  /\ \/ \E d \in Drones : FoldIn(d) /\ Fault1("weld")
     \/ \E d \in Drones : Detach(d) /\ Fault1("detach")
     \/ DropAndLand /\ Fault1("drop")
     \/ PlannerCrash /\ Fault1("crash")
  /\ UNCHANGED <<trk, mgrVars>>

(* A mux and the radio behind it.                                          *)
MuxRuns(d) == MuxAborts(d) \/ MuxCuts(d) \/ FcReport(d)
MuxHandsOver(d) == MuxTakes(d) \/ MuxReleases(d) \/ PartnerStream(d)

Next ==
  \/ Operator
  \/ ManagerRuns \/ ManagerFaults \/ PlannerRuns \/ PlannerFaults
  \/ \E d \in Drones : \/ TrackerRuns(d) \/ TrackerFaults(d) \/ RefStale(d)
                       \/ MuxRuns(d) \/ MuxHandsOver(d)

Spec == Init /\ [][Next]_vars

-----------------------------------------------------------------------------
(* What the scheduling owes: a process that runs and has something to do   *)
(* does some of it (a callback, a timer, a step of a thread), a descent    *)
(* ends, a stale reference is noticed.  The planner's repeated tick, and   *)
(* the /fleet/landed it repeats, hold up nothing else.  Nothing makes the  *)
(* operator press a button, a fault happen or a partner send.              *)
Fairness ==
  /\ WF_vars(ManagerWorks) /\ WF_vars(ManagerOnly(Landed))
  /\ WF_vars(PlannerWorks) /\ WF_vars(PlannerOnly(PlannerTick))
  /\ \A d \in Drones : /\ WF_vars(TrackerRuns(d) \/ RefStale(d))
                       /\ WF_vars(MuxRuns(d))

FairSpec == Spec /\ Fairness
=============================================================================
