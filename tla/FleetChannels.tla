---------------------------- MODULE FleetChannels ----------------------------
(***************************************************************************)
(* What the fleet manager, the trackers and the load planner share: the    *)
(* ROS topics and services between them.  A reliable topic is a bounded    *)
(* queue (keep last), a topic whose messages are all alike is a count, and *)
(* the radio topic (depth 1, read at 100 Hz by the radio node) is the last *)
(* command published on it.                                                *)
(***************************************************************************)
EXTENDS Naturals, Sequences

CONSTANTS
  N,              \* number of drones the manager drives (num_drones)
  Newcomers,      \* the drones that have an ELRS mux and an on_load flag
  MaxArm,         \* bound: ARM sequences a behaviour may start
  FeedbackDepth,  \* queue depth of /drone_i/arming_state_feedback
  LateTrackers,   \* the trackers that are not up yet when the manager is
  TopicDepth      \* bound: pending /fleet/abort, TAKEOFF and LAND messages

ASSUME FleetAssumption ==
  /\ N \in Nat \ {0}
  /\ Newcomers \subseteq 0 .. N-1
  /\ LateTrackers \subseteq 0 .. N-1
  /\ MaxArm \in Nat \ {0}
  /\ FeedbackDepth \in Nat \ {0}
  /\ TopicDepth \in Nat \ {0}

Drones == 0 .. N-1
ArmIds == 1 .. MaxArm

(* Who sent a SetArming request: an ARM sequence (its id), the thread that *)
(* disarms the fleet, or the disarm of one drone that is down by itself.   *)
FleetDisarm == 0
AloneDisarm == MaxArm + 1
Requests == [arm: BOOLEAN, by: 0 .. MaxArm + 1]

(* The last command on a drone's radio topic: disarmed, or armed, at idle  *)
(* throttle or at a commanded one.                                         *)
RadioCommands == {"off", "armed"}

VARIABLES
  up,          \* the trackers whose process runs: service ready, topics heard
  svc,         \* svc[d]: SetArming requests drone d's tracker has not handled
  reply,       \* reply[k][d]: what ARM sequence k has heard from drone d
  alone_reply, \* drones whose disarm-alone reply the manager has not handled
  feedback,    \* feedback[d]: arming states of drone d: those on the way to
               \* the manager, and the last one, for the planner to hear
  abort,       \* abort[d]: /fleet/abort messages on the way to drone d
  takeoff,     \* takeoff[d]: TAKEOFF messages on the way to drone d
  radio,       \* radio[d]: last command on drone d's ELRSCommand topic
  land_mgr,    \* LAND messages on /fleet/command the manager has not handled
  land_pl,     \* ... and those the planner has not handled
  step_sent,   \* a /fleet/step above 0 was published
  landed,      \* /fleet/landed: True waiting at the manager
  dropped,     \* /fleet/payload_dropped: True waiting at the manager
  on_load_pub, \* on_load_pub[d]: the latched /drone_d/on_load
  departed_mgr,\* drones whose /drone_d/departed True waits at the manager
  departed_trk,\* ... and those where it waits at their own tracker
  down_sent,   \* drones whose /drone_d/down_alone waits at the manager
  tilt_sent,   \* drones whose /drone_d/tilt_fault True waits at the manager
  mux,         \* mux[d]: the latched /drone_d/mux_state, what its mux forwards
  mux_abort,   \* drones whose mux has a /fleet/abort waiting
  mux_cut,     \* drones whose mux has a /drone_d/mux_cut waiting
  fc           \* fc[d]: the last /drone_d/fc_arm_state of its radio node

(* The channels in groups, for what an action leaves alone.                *)
services == <<svc, reply, alone_reply>>
trackerTopics == <<feedback, abort, takeoff, departed_trk, down_sent>>
plannerTopics == <<land_mgr, land_pl, step_sent, landed, dropped, on_load_pub,
                   departed_mgr>>
muxTopics == <<tilt_sent, mux, mux_abort, mux_cut, fc>>
chanVars == <<up, services, trackerTopics, radio, plannerTopics, muxTopics>>

Flags == {"none", "F", "T"}
Flag(b) == IF b THEN "T" ELSE "F"
Answers == {"none", "pending", "ok", "refused"}
FcStates == {"disarmed", "pending", "armed", "failed"}
MuxStates == {"none", "partner", "ours", "latched", "cut"}

(* Publishing on a keep-last queue drops the oldest message when full.     *)
(* Mutant: the message that comes is dropped instead.                      *)
PushOrDrop(q, m) == IF Len(q) < FeedbackDepth THEN Append(q, m) ELSE q
Push(q, m) ==
  IF Len(q) < FeedbackDepth THEN Append(q, m) ELSE Append(Tail(q), m)

(* One more message alike on a topic, at most TopicDepth of them pending.  *)
(* Mutant: a queue without a bound.                                        *)
MoreUnbounded(n) == n + 1
More(n) == IF n < TopicDepth THEN n + 1 ELSE n

ChannelsTypeOK ==
  /\ up \subseteq Drones
  /\ svc \in [Drones -> Seq(Requests)]
  /\ reply \in [ArmIds -> [Drones -> Answers]]
  /\ alone_reply \subseteq Drones
  /\ feedback \in [Drones -> [mgr: Seq(BOOLEAN), pl: Flags]]
  /\ abort \in [Drones -> 0 .. TopicDepth]
  /\ takeoff \in [Drones -> 0 .. TopicDepth]
  /\ radio \in [Drones -> RadioCommands]
  /\ land_mgr \in 0 .. TopicDepth
  /\ land_pl \in 0 .. TopicDepth
  /\ step_sent \in BOOLEAN
  /\ landed \in BOOLEAN
  /\ dropped \in BOOLEAN
  /\ on_load_pub \in [Drones -> Flags]
  /\ departed_mgr \subseteq Drones
  /\ departed_trk \subseteq Drones
  /\ down_sent \subseteq Drones
  /\ tilt_sent \subseteq Drones
  /\ mux \in [Drones -> MuxStates]
  /\ mux_abort \subseteq Newcomers
  /\ mux_cut \subseteq Newcomers
  /\ fc \in [Drones -> FcStates]

(* Nothing sent yet.  A mux outlives a relaunch of the others, so it may   *)
(* be latched or cut already.                                              *)
ChannelsInit ==
  /\ up = Drones \ LateTrackers
  /\ svc = [d \in Drones |-> << >>]
  /\ reply = [k \in ArmIds |-> [d \in Drones |-> "none"]]
  /\ alone_reply = {}
  /\ feedback = [d \in Drones |-> [mgr |-> << >>, pl |-> "none"]]
  /\ abort = [d \in Drones |-> 0]
  /\ takeoff = [d \in Drones |-> 0]
  /\ radio = [d \in Drones |-> "off"]
  /\ land_mgr = 0 /\ land_pl = 0
  /\ step_sent = FALSE /\ landed = FALSE /\ dropped = FALSE
  /\ on_load_pub = [d \in Drones |-> "none"]
  /\ departed_mgr = {} /\ departed_trk = {} /\ down_sent = {}
  /\ tilt_sent = {} /\ mux_abort = {} /\ mux_cut = {}
  /\ fc = [d \in Drones |-> "disarmed"]
  /\ mux \in [Drones -> MuxStates]
  /\ \A d \in Drones : mux[d] = "none" <=> d \notin Newcomers
=============================================================================
