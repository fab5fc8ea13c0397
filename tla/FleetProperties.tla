--------------------------- MODULE FleetProperties ---------------------------
(***************************************************************************)
(* What the fleet of FleetSystem must and must not do.                     *)
(***************************************************************************)
EXTENDS FleetSystem

TypeOK ==
  /\ ChannelsTypeOK /\ TrackerTypeOK /\ MgrTypeOK /\ PlannerTypeOK
  /\ presses \in Nat /\ faults \in Nat

(* The arming state the manager believes a drone has once it has read all  *)
(* that waits for it.                                                      *)
Believed(d) ==
  LET q == feedback[d].mgr IN IF q = << >> THEN d \in mgr.drone_armed ELSE q[Len(q)]

(* However the feedback queue overflows, what the manager will have read   *)
(* last of a drone is that drone's arming state.                           *)
FeedbackTruth == \A d \in Drones : Believed(d) = trk[d].armed

(* The manager has no disarm of d to act on in flight: it excused it, it   *)
(* asked for it, or the partner flies it.                                  *)
Accounted(d) ==
  \/ d \in mgr.excused \/ d \in mgr.down_alone
  \/ mgr.mux_state[d] \in {"partner", "cut"}

(* While the fleet flies, a drone that is not armed is accounted for or    *)
(* its disarm is on the way to the manager, which still believes it armed. *)
FlyingIsArmed ==
  mgr.flying =>
    \A d \in Drones : trk[d].armed \/ Accounted(d) \/ d \in mgr.drone_armed

(* No ARM or disarm in progress anywhere: no thread, no request, no abort, *)
(* and every arming state has been read.                                   *)
AtRest ==
  /\ \A k \in ArmIds : Idle(k)
  /\ disarming = 0
  /\ \A d \in Drones : /\ svc[d] = << >> /\ abort[d] = 0
                       /\ feedback[d].mgr = << >>

(* When nothing is in progress and the fleet is neither armed nor flying,  *)
(* no tracker that answers is left armed.                                  *)
RestDisarmed ==
  AtRest /\ ~mgr.fleet_armed /\ ~mgr.flying =>
    \A d \in Drones : Runs(d) => ~trk[d].armed

(* A disarm crosses an ARM sequence that has requests to send still: it    *)
(* came meanwhile, or, an emergency stop, in the moment between the        *)
(* person's ARM and the sequence, which does not know of it.  The arm      *)
(* requests then follow its disarms (arm_after_disarm).                    *)
Crossed ==
  \E k \in ArmIds :
    \/ arm[k].pc \in {"wait", "send"} /\ arm[k].stopped
    \/ arm[k].pc \in {"start", "wait", "send"} /\ mgr.last_estop # NoReason

(* An ARM sequence under way answers for the drones it arms, until a       *)
(* disarm stops it.                                                        *)
Arming(k) == arm[k].pc \notin {"idle", "start", "done"} /\ ~arm[k].stopped

(* d is disarmed and nothing it was sent will arm it, or the last of that  *)
(* will disarm it, or a thread is about to ask it to.                      *)
WillBeDisarmed(d) ==
  \/ disarming > 0
  \/ IF svc[d] = << >> THEN ~trk[d].armed ELSE ~svc[d][Len(svc[d])].arm

(* Unless a disarm crosses an ARM sequence, no disarm, refusal, time-out,  *)
(* new ARM or landing leaves a drone behind: one that answers belongs to a *)
(* fleet that is armed, flies or is being armed, or will be disarmed.      *)
NobodyForgotten ==
  ~mgr.fleet_armed /\ ~mgr.flying /\ (\A k \in ArmIds : ~Arming(k)) =>
    \A d \in Drones : Runs(d) => WillBeDisarmed(d)
DisarmReachesAll == []~Crossed => []NobodyForgotten

(* A new ARM clears a latched fault or abort, one ARM after the other and  *)
(* no disarm crossing one: in a flying fleet no drone takes off, or flies  *)
(* on, with a latch that its control loop has let pass (an instant's latch *)
(* that the next tick clears is none).                                     *)
Overlapped ==
  Crossed \/ \E k, l \in ArmIds : k # l /\ ~Idle(k) /\ ~Idle(l)
FliesLatched(d) == trk[d].takeoff /\ trk[d].was_armed /\ trk[d].aborted
LatchedNeverFlies ==
  []~Overlapped => [](mgr.flying => \A d \in Drones : ~FliesLatched(d))

(* Nobody's process ends while the fleet flies.                            *)
NobodyLeavesInFlight == mgr.flying => \A d \in Drones : ~trk[d].shutdown

(* The loss of a carrier in flight grounds the whole fleet.                *)
CarrierLossGrounds ==
  \A d \in Drones : (mgr.flying /\ ~trk[d].armed /\ ~Accounted(d)) ~> ~mgr.flying

(* After an emergency stop every motor stops and stays so until a new ARM: *)
(* of a tracker that answers, whatever it had sent and heard by then, and, *)
(* with no mux between it and its radio, of one that had stopped answering *)
(* before.                                                                 *)
Stopped == ~mgr.flying /\ ~mgr.fleet_armed /\ mgr.last_estop # NoReason
EstopStopsMotors ==
  \A d \in Drones :
    Stopped ~> [](Stopped /\ ~trk[d].wedged => radio[d] = "off")
WedgedIsStopped ==
  \A d \in Drones \ Newcomers :
    [](mgr.flying /\ trk[d].wedged => [](Stopped => radio[d] = "off"))

(* A planner that ends in flight grounds the fleet.                        *)
PlannerLossGrounds == (mgr.flying /\ ~pl.up) ~> ~mgr.flying

(* A tracker that stops answering in flight is treated as dropped.         *)
SilenceGrounds == \A d \in Drones : (mgr.flying /\ trk[d].wedged) ~> ~mgr.flying

(* A descent that the planner has begun, for a LAND or a drop, ends with   *)
(* the fleet disarmed, and a landing with no process of a drone that flew  *)
(* left behind.                                                            *)
LandingEnds == (mgr.flying /\ (pl.land \/ pl.drop)) ~> ~mgr.flying
LandedCloses == \A d \in Drones : (mgr.landing /\ trk[d].flown) ~> d \notin up

(* An ARM sequence ends, whatever the drones answer or do not.             *)
ArmEnds == \A k \in ArmIds : (arm[k].pc = "start") ~> (arm[k].pc = "done")

(* A disarm is excused only of a drone off the ring: whichever of its      *)
(* disarm and its on_load the manager reads first, it does not fly on with *)
(* a drone excused and on the ring (the faults that land the fleet instead *)
(* excuse a drone of the partner wherever it is).                          *)
ExcusedOffRing ==
  LandFaults = {} /\ mgr.flying =>
    \A d \in mgr.excused : mgr.on_load[d] # "T"

(* A newcomer's own fault off the ring lands the fleet.                    *)
NewcomerFaultLands ==
  \A d \in Drones : (mgr.flying /\ d \in mgr.excused) ~> ~mgr.flying

(* A drone is disarmed alone only after the planner let it go, never while *)
(* it carries the ring, and its disarm stops nobody else.                  *)
AloneIsItsOwn ==
  \A d \in mgr.down_alone :
    /\ d \in pl.departed_sent
    /\ on_load_pub[d] # "T" \/ pl.drop
    /\ mgr.last_estop # Reason("disarmed", d)

(* A drone let go in flight that idles at its rest under our own command   *)
(* is disarmed while the others fly on, or the fleet is.                   *)
DownIsDisarmed ==
  \A d \in Drones :
    (mgr.flying /\ trk[d].down /\ ~Partner(mux[d])) ~>
      (~trk[d].armed \/ ~mgr.flying \/ trk[d].wedged \/ Partner(mux[d]))

(* A mux that has latched or cut its drone keeps its motors off, whatever  *)
(* the partner and our tracker send.                                       *)
LatchedMuxIsOff == \A d \in Drones : mux[d] \in {"latched", "cut"} => radio[d] = "off"

(* An emergency stop latches every mux, so the partner cannot re-arm.      *)
StopLatchesMuxes ==
  \A d \in Newcomers : (mgr.last_estop # NoReason) ~> mux[d] = "latched"
=============================================================================
