# Verification of the multi-drone fleet control

TLA+ models of the control software that arms, flies, lands and stops a fleet of
quadcopters carrying a ring together, what TLC checks of them on small fleets and
what TLAPS proves of them for every fleet. The subject is the *discrete* part of
the program: who is armed, who may fly, who is stopped by whose fault, which stream
has a drone's radio, who owns a magnet, and with which drones the planner plans. The
continuous part (OCP, MPC, references, thrust) appears only as the faults it can
raise.

Source paths below are relative to the repository's `src/` directory.

## 1. The system

| Part | Code | State it keeps | Operations | Talks to |
|---|---|---|---|---|
| Fleet manager | `fleet_manager/fleet_manager_node.py` | flying, fleet_armed, landing, last arming state of every drone, mux states, on_load flags, excused / off-ring / down-alone drones, ARM threads | ARM, TAKEOFF, LAND, DISARM, ESTOP; callbacks; ARM and disarm threads | trackers (SetArming service, `/drone_i/command`, `/fleet/abort`), radios directly, planner (`/fleet/step`, `/fleet/command`), muxes |
| Tracker (one process per drone) | `tracker/tracker_node.py`, `utility_objects/callback_manager_multi.py` | armed, takeoff_requested, has_flown, _aborted, _was_armed, _departed, _gi_latched, shutdown | SetArming, TAKEOFF, abort, 50 Hz control loop, watchdogs, shutdown | manager (`arming_state_feedback`, `down_alone`), its radio or mux |
| Load planner | `mpc_planner/planner_node.py`, `dissipative_planner/dissipative_node.py` | phase, takeoff_seen, LAND, touchdown, dropped, detached, departed, newcomers | LAND, detach, drop, weld, its tick | manager (`landed`, `payload_dropped`, `departed`, `on_load`), trackers (`departed`, references) |
| ELRS mux (one per newcomer) | `drone_magnet/elrs_mux.py`, `handover_policy.py` | authority: partner, ours, latched, cut; pending release; age of our tracker's last live command | forward, weld, release, take-back, abort latch, cut | two streams in, one radio out; `mux_state` to manager, gate and planner |
| Magnet gate (one per newcomer) | `drone_magnet/magnet_gate.py` | source: partner's mission or ours; cut; restore timer | every command word, release, take-back, mux state; restore after a restart | partner's mission and our magnet manager in, the coil out |
| Magnet manager | `drone_magnet/magnet_attachment_manager.py`, `contact_proof.py` | arbiter and proof of contact, latch output | command words, cut, drop, proof, keepalive | gate, planner (`object_attached`), mux |
| Approach planner | `drone_magnet/online_join_planner.py` | mission state, hold before an obstacle, landing, magnet word | its timer, words on `/drone_command` | magnet gate, load planner |
| Ring membership | `dissipative_planner/dissipative_node.py` (in the load planner) | active, unloading, leaving, lost, plan sent to the OCP | soft detach and its cancels, loss detector, late resize, weld | operator, magnet markers, OCP |
| Flight rules | `utility_objects/safety.py`, `tilt_cut.py`, `position_limit.py` | one debounce counter each | a pose sample | tracker, manager |
| Radio node | `drone_communication/elrs_interface.py`, `arm_switch.py` | arm confirmation, retries, mode reports | sends commands, reports `fc_arm_state` | flight controller |
| Operator panel | `drone_visualisation/arm_panel.cpp` | what its buttons allow | ARM, TAKEOFF, LAND, DISARM, ESTOP, detach | `/fleet/command` |
| Launch graphs, simulators, mocap, numerics | `bringup`, `simulation_communication`, `drone_communication` | | | not modelled, see section 9 |

What is hard here:

- **Interleaving.** The manager's ARM and disarm sequences are threads beside its
  callbacks. A disarm may come between any two steps of an ARM sequence.
- **Ordering.** A drone's disarm, its on_load flag, its mux state and the planner's
  departed are four topics: the manager reads them in any order. A release, a weld
  and a take-back reach the mux in any order too, and the coil's words reach the gate
  from two masters.
- **Crash and restart.** The gate may restart while a puck or our ring hangs on the
  coil it drives; only the radio's latch and the last sample of a topic survive.
- **Stale and late reports.** Telemetry of the arm switch lags, flickers and gets
  lost; poses stop; a drone may leave the ring without anybody having said so.
- **Failure.** A tracker refuses, answers late, stops answering, or disarms itself
  by any of its watchdogs; the planner ends; a mux keeps the partner's stream.
- **Handshakes.** LAND and drop end with `/fleet/landed`, which counts only if the
  manager knows of the landing.
- **Bounded queues.** Arming feedback is keep-last 5.

What makes each part correct: the *manager* never takes off with a drone missing,
and turns every loss into exactly one of landing, grounding, stopping or ignoring;
the *tracker* obeys whatever disarm comes last and leaves only after its flight;
the *planner* ends every descent it begins and plans with exactly the drones on its
ring; the *mux* passes one stream at a time and once latched nothing; the *gate*
drops neither the partner's puck nor our ring; the *arm switch* never disarms an armed
drone to arm it; each *flight rule* fires when the flight calls for it and only then (the
envelope does not in a gap of poses, section 6); the *approach planner* revives no aborted mission and carries what it picked up.

## 2. Modules

| Module | Models |
|---|---|
| `FleetChannels` | topics, services and radios shared by the nodes |
| `Tracker` | every drone's tracker process with its callback manager |
| `FleetManager` | the fleet manager with its ARM and disarm threads |
| `LoadPlanner` | the planner's flight phases, landing, drop, detach and newcomer flags |
| `FleetSystem` | the composition, with operator, muxes, radios and partner around it; fairness |
| `FleetProperties` | type invariant, safety, action and liveness properties |
| `MCFleet` | the system from a fleet in the air on |
| `HandoverLaunch` | what a launch file wires for a newcomer; how the mux state may move |
| `MuxAuthority` | what the mux promises: who has the radio, and what passes |
| `HandoverMux` | the mux with its policy, callback by callback; implements `MuxAuthority` |
| `MagnetGate`, `MagnetManager` | the gate that writes the coil; the manager that proves an attach |
| `CoilSystem` | one coil: gate, manager, the planner's side of it, his mission, the mux's moves |
| `ArmSwitch` | radio node and arm switch with a flight controller and its telemetry |
| `FlightRules` | envelope, tilt and limit counters, beside what they do and what is documented of them, stated over the flight's log |
| `RingMembers` | which drones the load planner's OCP plans with |
| `JoinPlanner` | the approach planner's mission states, landings and magnet words |
| `MCCoil`, `MCCommand` | the launches, rings and missions the runs use |
| `FleetTypeProofs`, `FleetSafetyProofs`, `FlightProofs`, `RadioProofs`, `CoilProofs`, `RingProofs`, `JoinProofs`, `CommandProofs` | theorems |

`FleetSystem` EXTENDS the three components, which share the variables of
`FleetChannels`. An action of a component says what it does to its own variable and
to all channels; `FleetSystem` adds that the other components stay put
(`TrackerOnly`, `ManagerOnly`, `PlannerOnly`). `CoilSystem` composes `MagnetGate` and
`MagnetManager` the same way, and both it and `HandoverMux` EXTEND `HandoverLaunch`:
`CoilSystem` lets the mux state move only as `MayMove` allows, and
`RadioProofs!MovesAsAssumed` proves that the mux moves no other way. `FleetSystem`'s
own mux keeps only the abstract authority.

`MCCommand` is a harness, not a system: five parts that share no state (mux, arm
switch, rules, ring, approach planner) are checked in one run, a behaviour being of one
part while the other four stay as they start. It says nothing about interactions
between the five; those that exist are in `FleetSystem` and `CoilSystem`.

### How state and steps correspond to the code

- One callback, one control tick, or one stretch of a thread between two blocking
  calls, is one step: every node runs a single-threaded executor. The manager's
  threads interleave with its callbacks.
- `ArmStart … ArmSet` are the stretches of `_arm_fleet_thread`: the refusals, the
  wait for each service, one request each, the replies or the 5 s deadline, the
  comparison of `_disarm_gen`, `_wait_fc_armed`, and the final assignment. Instead of
  the counter the model keeps, per sequence, whether a disarm has come since it read it
  (`stopped`).
- `_disarm_fleet` is an operator, not an action: `EmergencyStop` and `ServiceDisarm`
  are conjoined to every caller, as the calls are in the code. The thread it starts is
  `DisarmThread`.
- `_disarm_fleet`'s window of one second, within which the same reason is only
  repeated to the radios, is a free choice while the last reason is the same. ARM and
  TAKEOFF close the window: a person does not press them within a second of a stop.
- The reliable topics are queues (`svc`, `feedback`) or counts of messages all alike
  (`abort`, `takeoff`, `land_*`). Latched topics (`on_load_pub`, `mux`) are the last
  value; their callback is enabled while the reader's copy differs. The radio topic
  has depth 1 and is read at 100 Hz: it is its last command. A radio command is
  "off" or "armed": the throttle, idle or not, is left out, because every property is
  about who can spin a motor at all.
- Staleness of a pose, a reference or a reply is a free choice of a moment. The
  choices are *faults*, whose number `MaxFaults` bounds, except a stale reference
  after the planner has ended (`RefStale`), which needs no budget.
- `Wedge` is a tracker that runs and handles nothing any more.
- A mux outlives a relaunch of the other nodes: it starts in any of its states.
- `Exit` merges the shutdown thread of `request_shutdown` with the last disarm it
  sends; what was queued for the process is lost.
- `StepTimer` merges counting and publishing: only that a step above 0 has been
  published matters.
- `AnnounceOnLoad`, `FoldIn`, `Detach`, `DropAndLand` and `TellDeparted` are the
  planner's floor-started flights with `newcomer_fault_land` and
  `departed_ground_idle` on.

- `HandoverMux` has one action per callback of `ElrsMux`; what a callback does before
  an early return is a disjunct of its own. The policy's live timeout is a clock, `age`,
  that a live command sets back and `MuxTick` advances. A stream that commands thrust sends
  flying commands and one that does not sends disarmed or idle ones; a controller
  starts and stops commanding at any moment.
- A topic that repeats its word (the manager's 2 Hz output, his phase, his puck, the
  mux state) is heard in `CoilSystem` as its sender's present state; a word said once is
  a message that waits. `GateDies` keeps the coil and what the topics last carried and
  loses the rest, as a process that is respawned does. The partner's mission is external.
- `ArmSwitch` counts time in ticks: a telemetry frame carries the arm flag or the mode
  of some ticks ago, or is lost; a flight controller refuses, arms, and disarms by
  itself. `CommandCb` is the word on the radio topic, `Timer` the sender's loop.
- `FlightRules` keeps the whole log of samples, so that the counters can be compared
  with a definition over the log. A sample says whether it is bad, or that no pose came; angles
  are left out.
- A tick of the planner (`RingMembers`) or of the approach planner (`JoinPlanner`) is the
  composition of its parts in source order, each from the state before it to the state
  after. The join timer's inputs are a record: whether poses are fine, and on which side
  of each hysteresis the clearance lies. Ages that only make a mode end are counted in
  ticks up to the largest threshold.

### Assumptions about the surroundings

- ARM is pressed only while the fleet does not fly (the panel's button is DISARM
  then), and ARM and TAKEOFF not in the instant between a disarm and its thread's
  requests.
- A descent lasts longer than the delivery of the message that began it: `LandTick`
  waits for the manager to have read LAND, `DropTick` for `payload_dropped`. A drone let
  go takes longer to come down than the manager to hear of it and of who flies it.
- In `FleetSystem` a mux hands over to a tracker that is flying. The policy's 0.5 s
  window, in which a tracker that has just stopped still counts as live, is in
  `HandoverMux`, where the tracker stops at any moment.
- The manager's keepalive, 2 Hz, is heard within a proof and within the gate's restore
  time. His mission hears the release before its pickup. `drop_takes_back` is on, as in
  the launches.
- Telemetry is delayed by less than the times the arm switch holds the channel low or
  lets an edge settle (`SwitchAssumption`).
- The ring's slots are in the order of the drones' ids, as the launch lays them out.
- The approach planner's dwells are all equal; a drone that lands only sinks.

## 3. Runs

Every fleet run uses two drones unless it says otherwise: with two there is one that
fails and one that must be told, and no code path singles out a third. One ARM sequence
is run; section 5 proves *DisarmReachesAll* for any number of them in a fleet of carriers.
`TopicDepth` 1 merges repeated messages that are all alike, whose handlers are idempotent.

| Run | From | Bounds | Properties | Shows |
|---|---|---|---|---|
| `flight_faults` | in flight | ESTOP, 2 faults of wedge, pose, envelope, solver, planner crash; queue 2 | TypeOK, CarrierLossGrounds, EstopStopsMotors, WedgedIsStopped, PlannerLossGrounds | any loss grounds all; every motor stops and stays so |
| `arm` | power-on | one ARM; late tracker 1 behind a mux; fc confirmation; one of timeout, refusal, pose, wedge | RestDisarmed, ArmEnds | an ARM ends and leaves nothing armed by mistake |
| `takeoff` | power-on | one ARM, one of TAKEOFF, DISARM and LAND, two of pose, timeout, refusal, position limit; queue 1 | FlyingIsArmed, FeedbackTruth, DisarmReachesAll | no flight with an unknown disarmed drone; none left armed in a fleet that is not, unless a disarm crosses an ARM |
| `landing` | in flight | two LANDs, one of detach, drop, pose, planner crash | LandingEnds, LandedCloses | LAND and drop handshakes |
| `newcomer` | in flight, mux on drone 1 | two of pose, weld, handover; cut at LANDED | LatchedMuxIsOff, ExcusedOffRing, StopLatchesMuxes | on_load against disarm in any order; latching |
| `release` | in flight, mux on drone 1 | two of detach, down, tilt, partner's disarm; tilt and fc LANDs on | AloneIsItsOwn, NobodyLeavesInFlight, DownIsDisarmed, NewcomerFaultLands | disarm alone; faults that land the fleet |
| `coil` | each launch | a free, a dry and two welded launches, one of these without the tilt cut; one restart of the gate, in the free one and in the welded one without the cut | CoilTypeOK, PuckHeld, WeldHolds, CutDropsCoil, ReleaseGivesCoil | one coil between the partner's puck and our ring, through a restart of the gate at any moment |
| `command_path` | power-on of each part | 5 mux launches, 4 rings of 4 drones, 2 join missions, 5 samples of the rules | HisThrottleWaits, MuxIsAuthority, TakeBackTakes, ReleaseHands, TakenBackStays; NeverDropsArmed, ArmedIsTrue, VerdictComes, StaleArmEnds; RulesAsDefined; RingIsCurrent, LossIsActedOn; AbortIsFinal, ReadyIsEarned, ObjectIsCarried, ApproachEnds | five parts that share no state, one at a time |
| `latched_rearm` | power-on, 1 drone | two ARMs, DISARM and TAKEOFF, each after the one before is done | LatchedNeverFlies | **violated**: section 6 |
| `arm_after_disarm` | power-on, 1 drone | one ARM, DISARM | RestDisarmed | **violated**: section 6 |
| `silent_tracker` | in flight | one wedge | SilenceGrounds | **violated**: section 6 |
| `gate_restart` | welded launch | one restart of the gate; TransitOff FALSE | PuckOutlivesRestart | **violated**: section 6 |

Two faults are enough for one to hide, delay or follow the other, which is where the
interesting interleavings are; the runs' fault kinds are chosen so that those that
interact are together. The feedback depth of 1 or 2 (5 in the source) is the
smallest that overflows, so the overflow happens within the bounds; where the queue
plays no part it is the source's 5.

The in-flight runs start from `InitInFlight`: TAKEOFF over, every message read, the
newcomer on the partner's or on our stream. The `takeoff` run reaches such states
from power-on; starting there pays for the faults of the flight.

`coil`: `RestartPhases` says in which launches, and in which of his phases, the gate may
restart. It restarts in the free launch and in the welded one without the tilt cut, in every
phase, so that a release may be lost with the gate, be repeated to the new one, or meet its
restore time. It does not restart in the welded launch that has the tilt cut: that would
nearly double the states, and a cut through a restart happens in the free launch. A
restarted gate of a welded start is excused from *PuckHeld* while its source is ours and
from *WeldHolds* while it is the partner's or it restores: what happens then is
`gate_restart` and section 6. `TransitOff` lets his mission say OFF while it carries his
puck, which the gate must swallow; in `gate_restart` he never does, so that the OFF that
falls is nobody's but ours.

`command_path`: a time constant of the source becomes the number of ticks that keeps
its order against the others: below, at or above. Those that are compared with nothing
are 1 or 2, so that "before", "at" and "after" all happen. The arm switch has two
tries, so that a second comes and can fail; the counters' samples are two more than the
longest debounce, so that a counter rises, is reset and fires again. Four drones are the
rig's ring, and the fewest of which two may be lost; their gap and least number of survivors are
graph_attach's and the planner's defaults.

Every passing run sets `CHECK_DEADLOCK FALSE`: the fleet may really stop, when every
process has ended or waits for an operator; a coil that is cut, a landed approach and
a log of five samples have nothing more to do either.

### The properties

- *FeedbackTruth*: what the manager will have read last of a drone is its arming state.
- *FlyingIsArmed*: a fleet that flies has every drone armed, accounted for (excused,
  disarmed alone, the partner's), or its disarm not read yet.
- *RestDisarmed*: with nothing in progress and the fleet neither armed nor flying, no
  tracker is armed.
- *DisarmReachesAll*: unless a disarm crosses an ARM sequence that has requests to send
  still (the `arm_after_disarm` finding), every drone that answers belongs to a fleet that
  is armed, flies or is being armed, or its disarm is on its way, behind everything that
  could arm it: at every step, not only at rest.
- *ArmEnds*: every ARM sequence ends.
- *CarrierLossGrounds*, *PlannerLossGrounds*: a carrier or the planner lost in flight
  grounds the fleet.
- *EstopStopsMotors*: after an emergency stop every radio ends at disarm and stays
  there until the next ARM, whatever was under way; *WedgedIsStopped*: at once, of a
  tracker that was already wedged, with no mux between it and its radio.
- *LandingEnds*, *LandedCloses*: a descent ends disarmed, and every process that flew
  has ended.
- *ExcusedOffRing*: the fleet does not fly on with a drone both excused and on the ring.
- *NewcomerFaultLands*: an excused fault ends the flight.
- *AloneIsItsOwn*: a drone is disarmed alone only after the planner let it go, off the
  ring, and that stops nobody else; *DownIsDisarmed*: it is disarmed, or the fleet is.
- *NobodyLeavesInFlight*: no process ends while the fleet flies.
- *LatchedMuxIsOff*, *StopLatchesMuxes*: a latched or cut mux keeps its drone off; an
  emergency stop latches every mux.
- *MuxIsAuthority*: the mux implements `MuxAuthority`: each authority passes only its own
  stream; the drone comes to us only while our tracker commands thrust, goes back to the
  partner once at most, is cut only under the partner; a stopped drone sends nothing
  but disarmed idle.
- *HisThrottleWaits*: no flying throttle of the partner's reaches the radio before our
  planner flies, nor from a welded start before its hand-over.
- *TakeBackTakes*, *ReleaseHands*: a take-back or a pending release moves the drone while
  the stream it waits for keeps commanding thrust; *TakenBackStays*: what was taken back
  is never released again.
- *PuckHeld*: his puck is not dropped in his transit, except by the mux's cut, a gate
  that has just restarted, or a restarted gate of a welded start whose source is ours;
  *WeldHolds*: a proven attach holds until a cut or a drop, whatever words cross the proof,
  and through a restart, except that a restarted gate of a welded start may give the coil
  away by a late repeat of the release; *CutDropsCoil*: a cut that stays ends with the coil
  off for good; *ReleaseGivesCoil*: a pending release gives the coil to his mission, though
  the gate that should have heard it restarts, unless our span, a take-back or the tilt
  cut comes first; stated of behaviours in which no restarted gate takes up its
  predecessor's latched "ours" over the release it has already heard (section 6).
- *NeverDropsArmed*: while arming is wanted the switch never falls under an armed flight
  controller, however late or sparse its frames; *ArmedIsTrue*: "armed" is first reported
  only of an attempt it armed on, not on a frame of an earlier one; *VerdictComes*: an
  attempt ends in a verdict; *StaleArmEnds*: a stream silent for good leaves the drone
  disarmed, and a confirmation the flight controller went back on is reported.
- *RulesAsDefined*: the tilt cut and the position limit have fired exactly if the log has
  the run of poses that their documentation asks for. The envelope has, exactly if the newest
  pose was bad on so many control ticks of the flight in a row, as the code counts
  (*EnvelopeOfTicks*); that is so many poses in a row, as documented (*EnvelopeOfPoses*), if
  no tick was without a new pose, and otherwise it is not: section 6.
- *LatchedNeverFlies*: unless commands overlap, no drone flies with a latched abort that
  a control tick has looked at since (`_was_armed` set): a latch that the next tick clears is
  not counted.
- *RingIsCurrent*: the OCP never plans with a drone that was let go, nor without one
  that a magnet holds; *LossIsActedOn*: a loss nobody announced, of a drone the detector has
  measured, ends in a resize, a drop or a refusal, unless the fleet lands or every watched
  cable is too long.
- *AbortIsFinal*: no hold, recovery or word revives a mission that lands;
  *ReadyIsEarned*: a tip is ready only after a whole descent; *ObjectIsCarried*: the
  magnet is not told OFF between pickup and drop, unless the mission was given up;
  *ApproachEnds*: a hold before an obstacle ends, and a landing ends disarmed.

Each property has a mutant: a definition of the code changed as a plausible bug would
change it (its variant stands before it in the module, marked *Mutant*), under which
TLC finds the property violated.

## 4. Fairness

Weak fairness of each process that runs and has something to do: the manager's
executor and threads, the reading of `/fleet/landed`, the planner's callbacks, its
tick, each tracker, each mux with its radio. These are ROS executors with timers and
reliable topics on one machine, and operating-system threads. Weak fairness of the
union of a process's steps asks only that it does *something*; the planner's repeated
`/fleet/landed` is apart so that it cannot stand for the rest. A wedged tracker and
an ended planner have no enabled steps and owe nothing. Nothing is fair for the
operator, for faults (refusals, timeouts that race a late answer, handovers) or for
the partner. A timeout whose answer can never come (`ArmTimesOut` on a tracker that
does not run) is part of the manager's own steps.

- `MuxFairness`: a stream that keeps commanding thrust is heard again. Both controllers
  publish at their control rate, on topics of depth 1 that one executor serves. Nothing
  makes a controller keep commanding: *TakeBackTakes* and *ReleaseHands* assume it.
- `CoilFairness`: the gate takes its messages and its restore timer fires, and the
  planner announces a release once a second. Nothing is fair for the operator, his
  mission, the proof or the mux.
- `SwitchFairness`: the radio's timer runs and time passes.
- `RingFairness`: a planner tick with fresh poses comes again (motion capture may pause,
  it does not stop for good). `JoinFairness`: so does a tick of the approach planner with fresh
  inputs, and its drone follows the landing reference down.

## 5. Proofs

For every `N`, every set of newcomers and late trackers, every bound and parameter,
under the ASSUMEs of the modules (which TLC evaluates in every run):

| Theorem | States |
|---|---|
| `TypeCorrect`, `TypeCorrectInFlight` | `[]TypeOK` from power-on, and in flight |
| `FeedbackIsTrue` | `[]FeedbackTruth`, whatever the queue's depth |
| `LatchedMuxStaysOff`, `…InFlight` | `[]LatchedMuxIsOff` |
| `AloneIsSafe`, `…InFlight` | `[]AloneIsItsOwn` |
| `FlyingIsArmedFromPowerOn` | `[]FlyingIsArmed`, with no newcomers, whatever number of ARMs |
| `DeafDronesStop`, `…InFlight` | `WedgedIsStopped` |
| `NobodyLeaves`, `ExcusedIsOffRing`, `DisarmsAreAccounted` | `NobodyLeavesInFlight`, `ExcusedOffRing`, `FlyingIsArmed`, from a fleet in the air |
| `DisarmReachesEveryDrone` | `DisarmReachesAll`, from power-on, with one ARM or no newcomers |
| `NobodyLeftArmed` | `[]RestDisarmed`, with one ARM and nobody at DISARM or ESTOP |
| `MuxTypeCorrect`, `ThrottleWaits`, `TakenBackIsOurs` | types, `HisThrottleWaits`, `TakenBackStays` |
| `Refinement` | `MuxSpec => Authority!Spec`: the mux implements `MuxAuthority` |
| `MovesAsAssumed` | the mux state moves only as `CoilSystem` assumes |
| `SwitchTypeCorrect`, `ArmedIsNeverDropped`, `ConfirmedIsArmed`, `EdgesAreSeen` | types, `NeverDropsArmed`, `ArmedIsTrue`, and that the flight controller has answered every rising edge by the next tick |
| `CoilTypeCorrect`, `PuckIsHeld`, `WeldIsHeld` | `CoilTypeOK`, `PuckHeld`, `WeldHolds` |
| `RingTypeCorrect`, `PlansWithTheRing` | types, `RingIsCurrent`, with late resizes too |
| `JoinTypeCorrect`, `LandingIsFinal`, `DescentIsWhole`, `DeliveryIsKept` | types, `AbortIsFinal`, `ReadyIsEarned`, `ObjectIsCarried` |
| `RulesAreAsDefined` | `[]RulesAsDefined`, for logs of any length |
| `OneFrameLatches` | one bad pose and as many ticks without the next as the debounce counts: the envelope latches |
| `CommandTypeCorrect` | `[]CommandTypeOK`: the types of the five parts together |

`FleetTypeProofs` proves type correctness with one lemma per group of actions
(`ArmTypes`, `TrackerTypes`, `CallbackTypes`, …); record updates and `EmergencyStop` /
`ServiceDisarm`, which many actions share, have lemmas of their own.

`FleetSafetyProofs` builds on it:

- *FeedbackTruth* is inductive with the types. A step either publishes the arming
  state it leaves (`PublishedLast`: the last message of a queue after a push, even one
  that dropped the oldest), or reads one message, or touches neither (`FeedbackStep`).
- *LatchedMuxIsOff* is inductive. Every radio write comes through the mux, from a
  mux's own step, or is a stop (`RadioStep`).
- *AloneIsItsOwn* is not inductive: that a drone disarmed alone was let go by the planner
  rests on the manager's `off_ring`, which rests on the departed messages, which rest
  on the planner's own record. `AloneInv` states that chain (`down_alone` ⊆ `off_ring` ⊆
  `departed_sent` ⊆ `detached`, pending messages included), that who was let go is off
  the ring or the ring was dropped, and that the reason of the last emergency stop is
  not of this flight. TLC checked it as an invariant before it was proved.
- *FlyingIsArmed* from power-on: of a carrier, `CarrierInv` says that its mux does not
  exist for the manager either, and that in flight the manager believes it armed, has excused it
  or has disarmed it alone (`CarrierFlies`). TAKEOFF establishes it, because it looks at the
  manager's own record of every drone; with *FeedbackTruth* this is `FlyingIsArmed`. It is not
  so of a newcomer, whose disarm may be read as the partner's.
- *WedgedIsStopped*: a wedged tracker neither publishes nor reads, so its radio is turned
  off by the manager's stop alone and only a person's ARM or TAKEOFF ends the stop (`Deaf`,
  `DeafStep`). Behind a mux this is false: the partner's stream may still command the
  drone, until the mux has latched. The property is stated of the drones without one.

`FlightProofs`: from a fleet in the air, under `OneFlight` (one ARM a launch: the
processes that flew end with their flight). Without it the statements are not those of a
flight: an old ARM sequence that is still at its last step may declare a grounded fleet
armed (section 8). `FlightInv`: no ARM sequence runs and a grounded fleet stays so; in
flight nothing has disarmed the fleet (`Undisturbed`, with `AloneInv`'s "no emergency stop
is latched"); the one request a tracker may have is the disarm alone it asked for, with its
process kept (`OwnDisarm`); whose disarm the manager has read is accounted for (`Known`).
`DisarmsAreAccounted` needs that no mux hands over in the air: the manager may read a disarm
as the partner's, from a mux state that has just become ours, and ignore it. *CarrierLossGrounds*
and *FlyingIsArmed* are run without a hand-over for the same reason.

From power-on `FlightProofs` proves what an ARM sequence leaves behind. `RestInv` is about
the end of a drone's request queue: a disarm request closes it, an ARM sequence under
way answers for it, or the fleet is armed or flies (`Attends`); after an emergency stop no
sequence answers for anybody (`StopHolds`); before a launch's only ARM the fleet neither is
armed nor flies (`FirstArm`).
Two sequences may run at once. The one thing that must not happen is `Crossed`: a disarm that a
sequence with requests still to send does not obey, as the code's one late comparison of
`_disarm_gen` allows. That is a fact about the past, so *DisarmReachesAll* assumes it never,
and `Uncrossed` shows that with one ARM and nobody at the buttons no fault, time-out,
refusal or landing brings it about (`NobodyLeftArmed`). `OneFlight \/ Newcomers = {}` is
needed: the refusal of a second ARM behind a held mux drops `fleet_armed` without a disarm
(section 6), and only a newcomer has a mux.

`RadioProofs`: the refinement mapping reads the abstract authority off the mux's flags. A
step maps to one abstract step or to a stutter; that it is an allowed one needs `MuxInv`:
the mux follows its policy (`attached = switched`), which has switched only on a live
command (`FeedInv`), a release is pending only as `PendingIsFresh` says, a stopped drone's
radio is off (`StoppedIsOff`), and a welded start stays ours until its hand-over.

For the arm switch, `SwitchInv` adds to the types what the switch, its timers and the flight
controller's answer say of each other around a rising edge (`EdgeInv`), and which frame,
on its way or read, can belong to which attempt (`FrameInv`): a frame of an earlier attempt is
gone by the edge, because the low times are longer than the delay.

`CoilProofs`: for every set of launches and any number of restarts in any of his phases;
what a restarted gate of a welded start may do wrong is excused by the properties themselves
(`WeldedRestart`). `PuckInv` relates the gate's source,
its last word and the messages under way to his phase; `WeldInv` does the same from a proof
on, for the words of ours that may still cross it.

`RingProofs`: under `FreshPlans`: a launch with a soft detach resizes at once and has every
drone welded, as the run's launches do (`CommandProofs!FlownPlansAreFresh`); without it the
plan of an unload goes stale (section 6).
`RingInv`: who was let go has no slot, the plan of an unload is the present slots without
the leaver (`Kept`), and what a magnet holds has a slot until the drop. `ResizeDueTick` is a loop over the resizes that are
due, a recursive function of how many were handled; `DueTickRuns` shows that each of its
states keeps the invariant, by the least number at which one would not (`LeastNat`: a
nonempty set of naturals has a least, from the library's well-founded order).

`JoinProofs`: the timer is a composition of parts, so the proof is too: `Keeps` relates
the state before a part to the one after, holds of each part and composes. `JoinInv`:
types, `DescentInv` (in a descent the tip is above the ring, so none is skipped) and `WordInv` (a coil told ON is between pickup and drop, held there, aborted,
or given up).

`CommandProofs`: the flight rules first. Each counter is a count of the log so far:
`violations` and `limit_count` are the length of the run of bad samples the log ends in
(`Trails`), so that a counter at its debounce is a run of that length and the other way
round. The tilt rule keeps instants instead: `above` is the first pose from which a cut may
count, and `holdoff_until` bounds every glitch's hold-off (`FirstTilted`, `LastGlitch`).
`RulesInv` says so of each rule until it latches; a latched rule needs only that its run
stays in the log. Without a gap the newest pose of a tick is its own (`GaplessNewest`), so the
envelope's run of ticks is the documented run of poses. `OneFrameLatches` is the opposite: a
lone bad frame before a gap is a run of ticks, whatever is documented. Then the composition: a step of `MCCommand` is a step of each part or leaves it
alone (`PartsStep`), so the parts' invariants hold together.

The properties these invariants imply are checked by TLC in the runs above.

Only model-checked: what is left is liveness (*CarrierLossGrounds*, *EstopStopsMotors*,
*PlannerLossGrounds*, *ArmEnds*, *LandingEnds*, *LandedCloses*, *StopLatchesMuxes*,
*DownIsDisarmed*, *NewcomerFaultLands*, *CutDropsCoil*, *ReleaseGivesCoil*, *TakeBackTakes*,
*ReleaseHands*, *VerdictComes*, *StaleArmEnds*, *LossIsActedOn*, *ApproachEnds*). Liveness under
fairness and ENABLED are beyond the prover. So are, for now, the hypotheses above: more than one ARM
in a launch with newcomers, and a hand-over in *FlyingIsArmed*.

## 6. What the code does otherwise than it says

- **`latched_rearm`** (`tracker_node.py:1042`, `docs/design/fleet_safety.md:78`):
  re-arming is to clear a latched fault. The rising edge is only looked for while
  armed, so a disarm between ARMs is not seen and the latch survives: ARM, a control tick,
  DISARM, ARM, TAKEOFF flies with `_aborted` set and `_was_armed` never reset, the envelope
  off and `/fleet/abort` ignored. The commands do not overlap: no disarm crosses an ARM
  sequence, and no two sequences run at once.
- **`arm_after_disarm`** (`fleet_manager_node.py:87`): an ARM sequence in flight is to
  stop on a disarm. It compares the generation only after the replies, so its arm
  requests still go out after the disarm's, and the trackers stay armed.
- **`silent_tracker`** (`fleet_manager_node.py:49`): a drone that misses its heartbeats
  is to be treated as dropped. The constant and the time stamps are never used.
- **`gate_restart`** (`magnet_gate.py:255`): the manager's OFF keepalive is to be ignored
  until our ON, so that it never drops his ball, and a restarted gate is to forward
  nothing for its restore time. A gate of a welded launch restarts with source OURS; the
  keepalive it hears in the restore time becomes its word at the end of it, and his puck
  falls.

- **One bad frame** (`utility_objects/safety.py:117`, theorem `CommandProofs!OneFrameLatches`,
  no run): `safety.py:68` says "At 50 Hz, 3 samples = 60 ms. One bad mocap frame should not
  drop the fleet out of the sky", and `docs/design/fleet_safety.md:76` "One corrupt mocap frame must
  not drop four drones out of the sky". `EnvelopeChecker.check` is called by the control loop
  on the newest pose and counts its own calls, not poses: a bad frame before a gap of 60 ms is
  counted three times and latches, long before the pose watchdog would speak. The
  instance of `command_path` contains such logs (one pose, then two ticks without), which is why
  *RulesAsDefined* states *EnvelopeOfPoses* only of a log without gaps. The tilt cut and
  the position limit look at poses and do as documented in every log.
- **A release under a restored "ours"** (`magnet_gate.py:251`, no run): `magnet_gate.py:29-30` says
  that in a welded start the coil is "his from /partner/release on". A gate that restarts before its
  predecessor's latched "ours" reaches it, and hears the release first, gives the coil to him
  and is then set back to ours by the latched word (`restore`, `:177`), with its release
  spent: the planner's repeats (`dissipative_node.py:2250`), once a second, are ignored, and his
  mission never gets the coil. It is the hypothesis of *ReleaseGivesCoil*; without it TLC finds the case.
  Conversely a gate of a welded start that restarts after our span takes a repeat of the
  release for the first and lets his OFF through until our next ON: the excuse of *WeldHolds*.

Seen while modelling, with no run: no documented launch or statement is at stake.

- `fleet_manager_node.py:405`: an ARM refused behind a held mux ends with `fleet_armed` False
  and disarms nobody. A second ARM on the ground therefore leaves the drones that the first
  one armed idling, in a fleet that counts as disarmed; the next DISARM reaches them.
- `fleet_manager_node.py:675`: an emergency stop that comes between ARM and its thread's reading of
  `_disarm_gen` does not stop the sequence, and a second one for the same reason within a
  second only repeats the abort and the radio stop: no service disarm follows the arm requests.
- `dissipative_node.py:1623`: an unload keeps the survivors it captured at the detach. A
  newcomer that welds during the unload, or a late resize, leaves a stale plan. No
  launch combines a soft detach with either.
- `graph_attach.py:847` says the approach planner stops once welded by watching
  `object_attached`; in its join mission it never subscribes to it, so it lands 30 s
  after it reported ready, and its DISARM on `/drone_command` is heard by nobody.
- `online_join_planner.py:2455`: a hold that a closed fallback gate ends goes back above
  the target and says OFF, object on the coil or not: the exception of *ObjectIsCarried*.
- `online_join_planner.py:3847`: stale inputs stop the timer's work, a landing under way
  included; `:1262`: ARM, LAND and DISARM words aloft latch a new initial height.

## 7. Plan

The order was by importance: manager and trackers, planner, newcomers and releases; then
the mux with its abstraction, the coil, the arm switch and the flight rules, the ring's
members, the approach planner; proofs behind each.

What is left, in order:

1. Proofs: the safety part of the liveness properties (a stop, once made, is kept), and
   *FlyingIsArmed* and *NobodyLeavesInFlight* from power-on with newcomers.
2. `NewcomerLifecycle`: rejoin, the guards of a take-back, the `departed` False of a
   rejoin or a new TAKEOFF, with the tracker's warm, unlatched standby.
3. The auto-descent at the end of a lateral trajectory, and a drop after it.
4. The magnet manager's older mode without contact, if it is to be flown again.

## 8. Hazards

`PROJECT.json` lists each with its line and the properties that cover it. Five have
none, and their notes say why: three need the rejoin or the auto-descent of the plan or
a property nobody states; two (the check-then-set window at the end of an ARM sequence, a LAND
the planner ignores before it has heard a step) are known to break a property from a
wider initial state, without a statement in the repository that they should not.

## 9. Not modelled

- Continuous control and geometry (OCP, references, creep, MPC, thrust trim, network
  law, proof of contact, obstacle margins): numerics. Their failures and verdicts are free
  choices here. They are most of the lines of the planners and the tracker.
- Legacy packages and the collaborator's forks (`controller_mpc_payload`, `tejen_mission`,
  `tejen_mpc`, `tejen_dynamic_planner`) are not the fleet that flies. With the simulators,
  the plots and metrics, the launch graphs and the tests they are most of the repository;
  the models are of the few thousand lines that decide.
- The tracker's warm, unlatched standby (`warm_unlatched`) and its request to drop the
  payload: with the newcomer lifecycle.
- ARM and DISARM on `/drone_i/command`: nothing in the fleet publishes them.
- The planner's network phase and rejoin: planned. In `RingMembers` also the auto-descent
  of a closing trajectory and an OCP size that was not built.
- The mux: `latch` and `require_live` other than the launches' True, the merge of the
  magnet's auxiliary channel into a frame, a relaunch of the mux.
- The magnet manager's non-contact mode, the simulator's attach services, the retries
  of an ON; the gate's resend of a cut, which repeats the same OFF.
- The arm switch: mode strings that say nothing, the rest of the radio's packing and
  link statistics. The flight rules: a slow tilt (off by default), angles and rates, and the
  re-arming edge of the tilt rule.
- The approach planner: inputs that go stale, markers, logs.
- Air starts (`start_taut`): the floor start is the rig's.
- Launch graphs (beyond a newcomer's options), simulation bridges, motion capture,
  visualisation, logging.
- A restart of a single process in flight, except the gate's: the trackers exit after a
  flight by design and are relaunched together.
