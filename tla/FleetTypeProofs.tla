--------------------------- MODULE FleetTypeProofs ---------------------------
(***************************************************************************)
(* Type correctness of the fleet, for any number of drones, any queue      *)
(* depth and any parameters, and the facts about the channels it rests on. *)
(***************************************************************************)
EXTENDS MCFleet, TLAPS

USE FleetAssumption DEF FleetAssumption, Drones, ArmIds

(* A push on a keep-last queue, full or not, leaves the message last.      *)
LEMMA PushLast ==
  ASSUME NEW q \in Seq(BOOLEAN), NEW m \in BOOLEAN
  PROVE  /\ Push(q, m) \in Seq(BOOLEAN)
         /\ Push(q, m) # << >>
         /\ Push(q, m)[Len(Push(q, m))] = m
<1>1. CASE Len(q) < FeedbackDepth
  BY <1>1 DEF Push
<1>2. CASE ~(Len(q) < FeedbackDepth)
  <2>1. q # << >>
    BY <1>2
  <2>2. Tail(q) \in Seq(BOOLEAN)
    BY <2>1
  <2> DEFINE s == Tail(q)
  <2> HIDE DEF s
  <2>3. Push(q, m) = Append(s, m)
    BY <1>2 DEF Push, s
  <2>4. Len(Append(s, m)) = Len(s) + 1 /\ Append(s, m)[Len(s) + 1] = m
    BY <2>2 DEF s
  <2>5. Append(s, m) \in Seq(BOOLEAN) /\ Append(s, m) # << >>
    BY <2>2, <2>4 DEF s
  <2> QED
    BY <2>3, <2>4, <2>5
<1> QED
  BY <1>1, <1>2

(* A tracker that publishes its arming state leaves it last in its own     *)
(* queue and touches no other.                                             *)
LEMMA PublishedLast ==
  ASSUME TypeOK, TrackerTypeOK', NEW d \in Drones, PublishArmingState(d)
  PROVE  /\ feedback' \in [Drones -> [mgr: Seq(BOOLEAN), pl: Flags]]
         /\ feedback'[d].mgr # << >>
         /\ feedback'[d].mgr[Len(feedback'[d].mgr)] = trk'[d].armed
         /\ \A e \in Drones \ {d} : feedback'[e].mgr = feedback[e].mgr
<1> DEFINE q == feedback[d].mgr
           m == trk'[d].armed
           p == IF d \in Newcomers THEN Flag(m) ELSE feedback[d].pl
<1>1. q \in Seq(BOOLEAN) /\ m \in BOOLEAN
  BY DEF TypeOK, ChannelsTypeOK, TrackerTypeOK, TrackerStates
<1>2. p \in Flags
  BY DEF TypeOK, ChannelsTypeOK, Flag, Flags
<1>3. feedback \in [Drones -> [mgr: Seq(BOOLEAN), pl: Flags]]
  BY DEF TypeOK, ChannelsTypeOK
<1>4. feedback' = [feedback EXCEPT ![d] = [@ EXCEPT !.mgr = Push(q, m), !.pl = p]]
  BY <1>3 DEF PublishArmingState
<1> HIDE DEF q, m, p
<1>5. /\ Push(q, m) \in Seq(BOOLEAN)
      /\ Push(q, m) # << >>
      /\ Push(q, m)[Len(Push(q, m))] = m
  BY <1>1, PushLast
<1>6. feedback'[d].mgr = Push(q, m)
  BY <1>3, <1>4
<1> QED
  BY <1>2, <1>3, <1>4, <1>5, <1>6 DEF m

(* The updates of a tracker's state keep it a tracker's state.             *)
LEMMA TrackerUpdates ==
  ASSUME NEW t \in TrackerStates
  PROVE  /\ Disarmed(t) \in TrackerStates
         /\ EdgeReset(t) \in TrackerStates
         /\ [t EXCEPT !.aborted = TRUE] \in TrackerStates
         /\ [t EXCEPT !.takeoff = TRUE, !.flown = TRUE] \in TrackerStates
         /\ [t EXCEPT !.down = TRUE, !.keep = TRUE] \in TrackerStates
         /\ \A flew, keep \in BOOLEAN :
              [t EXCEPT !.flown = flew, !.keep = FALSE,
                        !.shutdown = flew /\ ~keep] \in TrackerStates
<1>1. Disarmed(t) \in TrackerStates
  BY DEF Disarmed, TrackerStates
<1>2. EdgeReset(t) \in TrackerStates
  BY DEF EdgeReset, TrackerStates
<1>3. /\ [t EXCEPT !.aborted = TRUE] \in TrackerStates
      /\ [t EXCEPT !.takeoff = TRUE, !.flown = TRUE] \in TrackerStates
      /\ [t EXCEPT !.down = TRUE, !.keep = TRUE] \in TrackerStates
  BY DEF TrackerStates
<1>4. ASSUME NEW flew \in BOOLEAN, NEW keep \in BOOLEAN
      PROVE  [t EXCEPT !.flown = flew, !.keep = FALSE,
                       !.shutdown = flew /\ ~keep] \in TrackerStates
  BY DEF TrackerStates
<1> QED
  BY <1>1, <1>2, <1>3, <1>4

(* What a tracker does leaves everything of its right type.                *)
LEMMA TrackerTypes ==
  ASSUME TypeOK, NEW d \in Drones, UNCHANGED <<mgrVars, pl>>,
         presses' \in Nat, faults' \in Nat,
         \/ Start(d) \/ (\E r \in BOOLEAN : HandleArm(d, r)) \/ HandleDisarm(d)
         \/ HandleTakeoff(d) \/ FleetAbort(d) \/ DepartedCb(d) \/ TiltFault(d)
         \/ Wedge(d) \/ Exit(d) \/ Tick(d) \/ TickPoseTimeout(d)
         \/ TickEnvelopeFault(d) \/ TickSolverFailure(d) \/ TickDownAlone(d)
  PROVE  TypeOK'
<1> USE DEF TrackerTypeOK
<1>a. TrackerTypeOK /\ ChannelsTypeOK
  BY DEF TypeOK
<1>b. /\ svc \in [Drones -> Seq(Requests)]
      /\ reply \in [ArmIds -> [Drones -> Answers]]
      /\ radio \in [Drones -> RadioCommands]
  BY <1>a DEF ChannelsTypeOK
<1>c. /\ abort \in [Drones -> 0 .. TopicDepth]
      /\ takeoff \in [Drones -> 0 .. TopicDepth]
      /\ alone_reply \subseteq Drones /\ departed_trk \subseteq Drones
  BY <1>a DEF ChannelsTypeOK
<1>0. MgrTypeOK' /\ PlannerTypeOK'
  BY DEF TypeOK, MgrTypeOK, PlannerTypeOK, mgrVars
<1>1. CASE Start(d)
  BY <1>0, <1>a, <1>1
  DEF TypeOK, ChannelsTypeOK, Start, services, trackerTopics, plannerTopics,
      muxTopics
<1>2. CASE \E r \in BOOLEAN : HandleArm(d, r)
  <2>1. PICK r \in BOOLEAN : HandleArm(d, r)
    BY <1>2
  <2>2. TrackerTypeOK'
    BY <1>a, <1>c, <2>1 DEF HandleArm, TrackerStates
  <2>3. svc' \in [Drones -> Seq(Requests)]
    BY <1>b, <1>c, <2>1 DEF HandleArm
  <2>4. reply' \in [ArmIds -> [Drones -> Answers]]
    BY <1>b, <1>c, <2>1 DEF HandleArm, Answer, Answers
  <2>5. feedback' \in [Drones -> [mgr: Seq(BOOLEAN), pl: Flags]]
    BY <2>1, <2>2, PublishedLast DEF HandleArm
  <2> QED
    BY <1>0, <1>a, <2>1, <2>2, <2>3, <2>4, <2>5
    DEF TypeOK, ChannelsTypeOK, HandleArm, plannerTopics, muxTopics
<1>3. CASE HandleDisarm(d)
  <2>1. TrackerTypeOK'
    <3>1. Disarmed(trk[d]) \in TrackerStates
      BY <1>a, TrackerUpdates
    <3>2. (trk[d].takeoff \/ trk[d].flown) \in BOOLEAN /\ trk[d].keep \in BOOLEAN
      BY <1>a DEF TrackerStates
    <3> QED
      BY <1>a, <1>3, <3>1, <3>2, TrackerUpdates DEF HandleDisarm, AnswerDisarm
  <2>2. svc' \in [Drones -> Seq(Requests)] /\ alone_reply' \subseteq Drones
    BY <1>b, <1>c, <1>3 DEF HandleDisarm, AnswerDisarm
  <2>3. feedback' \in [Drones -> [mgr: Seq(BOOLEAN), pl: Flags]]
    BY <1>3, <2>1, PublishedLast DEF HandleDisarm, AnswerDisarm
  <2> QED
    BY <1>0, <1>a, <1>3, <2>1, <2>2, <2>3
    DEF TypeOK, ChannelsTypeOK, HandleDisarm, AnswerDisarm, plannerTopics,
        muxTopics
<1>4. CASE HandleTakeoff(d)
  <2>1. \/ trk' = [trk EXCEPT ![d] = [@ EXCEPT !.takeoff = TRUE, !.flown = TRUE]]
        \/ trk' = trk
    BY <1>4 DEF HandleTakeoff
  <2>2. TrackerTypeOK'
    <3>1. [trk[d] EXCEPT !.takeoff = TRUE, !.flown = TRUE] \in TrackerStates
      BY <1>a, TrackerUpdates
    <3> QED
      BY <1>a, <2>1, <3>1
  <2>3. takeoff' \in [Drones -> 0 .. TopicDepth]
    BY <1>c, <1>4 DEF HandleTakeoff
  <2> QED
    BY <1>0, <1>a, <1>4, <2>2, <2>3
    DEF TypeOK, ChannelsTypeOK, HandleTakeoff, services, plannerTopics, muxTopics
<1>5. CASE FleetAbort(d)
  <2>1. abort' \in [Drones -> 0 .. TopicDepth]
    BY <1>c, <1>5 DEF FleetAbort
  <2>2. CASE trk[d].aborted
    BY <1>0, <1>a, <1>5, <2>1, <2>2
    DEF TypeOK, ChannelsTypeOK, FleetAbort, services, plannerTopics, muxTopics
  <2>3. CASE ~trk[d].aborted
    <3>1. TrackerTypeOK'
      <4>1. trk' = [trk EXCEPT ![d] = [Disarmed(@) EXCEPT !.aborted = TRUE]]
        BY <1>5, <2>3 DEF FleetAbort
      <4> QED
        BY <1>a, <4>1, TrackerUpdates
    <3>2. radio' \in [Drones -> RadioCommands]
      BY <1>b, <1>5, <2>3 DEF FleetAbort, Command, RadioCommands
    <3>3. feedback' \in [Drones -> [mgr: Seq(BOOLEAN), pl: Flags]]
      BY <1>5, <2>3, <3>1, PublishedLast DEF FleetAbort
    <3> QED
      BY <1>0, <1>a, <1>5, <2>1, <2>3, <3>1, <3>2, <3>3
      DEF TypeOK, ChannelsTypeOK, FleetAbort, services, plannerTopics,
          muxTopics
  <2> QED
    BY <2>2, <2>3
<1>6. CASE DepartedCb(d)
  <2>1. TrackerTypeOK' /\ departed_trk' \subseteq Drones
    BY <1>a, <1>c, <1>6 DEF DepartedCb, TrackerStates
  <2> QED
    BY <1>0, <1>a, <1>6, <2>1
    DEF TypeOK, ChannelsTypeOK, DepartedCb, services, plannerTopics, muxTopics
<1>7. CASE TiltFault(d)
  BY <1>0, <1>a, <1>7
  DEF TypeOK, ChannelsTypeOK, TiltFault, services, trackerTopics, plannerTopics
<1>8. CASE Wedge(d)
  <2>1. TrackerTypeOK'
    BY <1>a, <1>c, <1>8 DEF Wedge, TrackerStates
  <2> QED
    BY <1>0, <1>a, <1>8, <2>1
    DEF TypeOK, ChannelsTypeOK, Wedge, chanVars, services, trackerTopics,
        plannerTopics, muxTopics
<1>9. CASE Exit(d)
  <2>1. radio' \in [Drones -> RadioCommands]
    BY <1>b, <1>c, <1>9 DEF Exit, Command, RadioCommands
  <2>2. svc' \in [Drones -> Seq(Requests)]
    BY <1>b, <1>c, <1>9 DEF Exit, Ends
  <2>3. /\ abort' \in [Drones -> 0 .. TopicDepth]
        /\ takeoff' \in [Drones -> 0 .. TopicDepth]
        /\ departed_trk' \subseteq Drones
    BY <1>c, <1>9 DEF Exit, Ends
  <2>4. up' \subseteq Drones
    BY <1>a, <1>9 DEF ChannelsTypeOK, Exit, Ends
  <2> QED
    BY <1>0, <1>a, <1>9, <2>1, <2>2, <2>3, <2>4
    DEF TypeOK, ChannelsTypeOK, Exit, Ends, plannerTopics, muxTopics
<1>10. CASE Tick(d)
  <2>1. TrackerTypeOK'
    BY <1>a, <1>c, <1>10, TrackerUpdates DEF Tick, TickFly, TickDisarmed
  <2>2. radio' \in [Drones -> RadioCommands]
    BY <1>b, <1>c, <1>10 DEF Tick, TickFly, TickDisarmed, Command, RadioCommands
  <2> QED
    BY <1>0, <1>a, <1>10, <2>1, <2>2
    DEF TypeOK, ChannelsTypeOK, Tick, TickFly, TickDisarmed, OnlyTicks,
        services, plannerTopics,
        muxTopics
<1>11. CASE TickPoseTimeout(d)
  <2>1. TrackerTypeOK'
    BY <1>a, <1>c, <1>11, TrackerUpdates DEF TickPoseTimeout
  <2>2. radio' \in [Drones -> RadioCommands]
    BY <1>b, <1>c, <1>11 DEF TickPoseTimeout, Command, RadioCommands
  <2>3. feedback' \in [Drones -> [mgr: Seq(BOOLEAN), pl: Flags]]
    BY <1>11, <2>1, PublishedLast DEF TickPoseTimeout
  <2> QED
    BY <1>0, <1>a, <1>11, <2>1, <2>2, <2>3
    DEF TypeOK, ChannelsTypeOK, TickPoseTimeout, OnlyTicks, services,
        plannerTopics, muxTopics
<1>12. CASE TickEnvelopeFault(d)
  <2>1. TrackerTypeOK'
    BY <1>a, <1>c, <1>12, TrackerUpdates DEF TickEnvelopeFault, Latches
  <2>2. radio' \in [Drones -> RadioCommands]
    BY <1>b, <1>c, <1>12 DEF TickEnvelopeFault, Latches, Command, RadioCommands
  <2>3. feedback' \in [Drones -> [mgr: Seq(BOOLEAN), pl: Flags]]
    BY <1>12, <2>1, PublishedLast DEF TickEnvelopeFault
  <2> QED
    BY <1>0, <1>a, <1>12, <2>1, <2>2, <2>3
    DEF TypeOK, ChannelsTypeOK, TickEnvelopeFault, Latches, OnlyTicks, services,
        plannerTopics,
        muxTopics
<1>13. CASE TickSolverFailure(d)
  <2>1. TrackerTypeOK'
    BY <1>a, <1>c, <1>13, TrackerUpdates DEF TickSolverFailure
  <2>2. radio' \in [Drones -> RadioCommands]
    BY <1>b, <1>c, <1>13 DEF TickSolverFailure, Command, RadioCommands
  <2>3. feedback' \in [Drones -> [mgr: Seq(BOOLEAN), pl: Flags]]
    BY <1>13, <2>1, PublishedLast DEF TickSolverFailure
  <2> QED
    BY <1>0, <1>a, <1>13, <2>1, <2>2, <2>3
    DEF TypeOK, ChannelsTypeOK, TickSolverFailure, OnlyTicks, services,
        plannerTopics, muxTopics
<1>14. CASE TickDownAlone(d)
  <2>1. TrackerTypeOK'
    <3>1. trk' = [trk EXCEPT ![d] = [@ EXCEPT !.down = TRUE, !.keep = TRUE]]
      BY <1>14 DEF TickDownAlone
    <3> QED
      BY <1>a, <3>1, TrackerUpdates
  <2>2. radio' \in [Drones -> RadioCommands]
    BY <1>b, <1>c, <1>14 DEF TickDownAlone, Command, RadioCommands
  <2> QED
    BY <1>0, <1>a, <1>14, <2>1, <2>2
    DEF TypeOK, ChannelsTypeOK, TickDownAlone, OnlyTicks, services,
        plannerTopics, muxTopics
<1> QED
  BY <1>1, <1>2, <1>3, <1>4, <1>5, <1>6, <1>7, <1>8, <1>9, <1>10, <1>11,
     <1>12, <1>13, <1>14

(* The updates of the manager's state keep it a manager's state.           *)
LEMMA ManagerUpdates ==
  ASSUME NEW m \in MgrStates
  PROVE  /\ \A b \in BOOLEAN : [m EXCEPT !.fleet_armed = b] \in MgrStates
         /\ \A b \in BOOLEAN : [m EXCEPT !.landing = b] \in MgrStates
         /\ [m EXCEPT !.fault_land = TRUE] \in MgrStates
         /\ [m EXCEPT !.fleet_armed = FALSE, !.shutdown = FALSE] \in MgrStates
         /\ [m EXCEPT !.flying = TRUE, !.last_estop = NoReason] \in MgrStates
         /\ [m EXCEPT !.excused = {}, !.fault_land = FALSE, !.off_ring = {},
                      !.down_alone = {}, !.last_estop = NoReason] \in MgrStates
<1>1. NoReason \in Reasons
  BY DEF NoReason, Reason, Reasons
<1>2. \A b \in BOOLEAN : [m EXCEPT !.fleet_armed = b] \in MgrStates
  BY DEF MgrStates
<1>3. \A b \in BOOLEAN : [m EXCEPT !.landing = b] \in MgrStates
  BY DEF MgrStates
<1>4. /\ [m EXCEPT !.fault_land = TRUE] \in MgrStates
      /\ [m EXCEPT !.fleet_armed = FALSE, !.shutdown = FALSE] \in MgrStates
  BY DEF MgrStates
<1>5. [m EXCEPT !.flying = TRUE, !.last_estop = NoReason] \in MgrStates
  BY <1>1 DEF MgrStates
<1>6. [m EXCEPT !.excused = {}, !.fault_land = FALSE, !.off_ring = {},
                !.down_alone = {}, !.last_estop = NoReason] \in MgrStates
  BY <1>1 DEF MgrStates
<1> QED
  BY <1>2, <1>3, <1>4, <1>5, <1>6

(* ... and those about one drone.                                          *)
LEMMA ManagerDroneUpdates ==
  ASSUME NEW m \in MgrStates, NEW d \in Drones
  PROVE  /\ \A S \in SUBSET Drones : [m EXCEPT !.drone_armed = S] \in MgrStates
         /\ [m EXCEPT !.excused = @ \union {d}] \in MgrStates
         /\ [m EXCEPT !.off_ring = @ \union {d}] \in MgrStates
         /\ [m EXCEPT !.down_alone = @ \union {d}] \in MgrStates
         /\ \A s \in MuxStates : [m EXCEPT !.mux_state[d] = s] \in MgrStates
         /\ \A f \in Flags : [m EXCEPT !.on_load[d] = f] \in MgrStates
<1>1. \A S \in SUBSET Drones : [m EXCEPT !.drone_armed = S] \in MgrStates
  BY DEF MgrStates
<1>2. /\ [m EXCEPT !.excused = @ \union {d}] \in MgrStates
      /\ [m EXCEPT !.off_ring = @ \union {d}] \in MgrStates
      /\ [m EXCEPT !.down_alone = @ \union {d}] \in MgrStates
  BY DEF MgrStates
<1>3. \A s \in MuxStates : [m EXCEPT !.mux_state[d] = s] \in MgrStates
  BY DEF MgrStates
<1>4. \A f \in Flags : [m EXCEPT !.on_load[d] = f] \in MgrStates
  BY DEF MgrStates
<1> QED
  BY <1>1, <1>2, <1>3, <1>4

(* One ARM sequence jumping to another step.                               *)
LEMMA ArmJump ==
  ASSUME NEW r \in ArmStates, NEW pc \in ArmPcs
  PROVE  [r EXCEPT !.pc = pc, !.next = 0] \in ArmStates
<1>1. 0 \in 0 .. N
  OBVIOUS
<1> QED
  BY <1>1 DEF ArmStates

(* The ARM threads' states: a jump to another step, and a disarm.          *)
LEMMA ArmUpdates ==
  ASSUME arm \in [ArmIds -> ArmStates], NEW k \in ArmIds, NEW pc \in ArmPcs
  PROVE  /\ Goto(k, pc) \in [ArmIds -> ArmStates]
         /\ \A n \in 0 .. N : [arm EXCEPT ![k].next = n] \in [ArmIds -> ArmStates]
         /\ [Goto(k, pc) EXCEPT ![k].stopped = FALSE] \in [ArmIds -> ArmStates]
<1>1. Goto(k, pc) \in [ArmIds -> ArmStates]
  <2>1. [arm[k] EXCEPT !.pc = pc, !.next = 0] \in ArmStates
    BY ArmJump
  <2>2. Goto(k, pc) = [arm EXCEPT ![k] = [@ EXCEPT !.pc = pc, !.next = 0]]
    BY DEF Goto
  <2> QED
    BY <2>1, <2>2
<1>2. \A n \in 0 .. N : [arm EXCEPT ![k].next = n] \in [ArmIds -> ArmStates]
  BY DEF ArmStates
<1>3. [Goto(k, pc) EXCEPT ![k].stopped = FALSE] \in [ArmIds -> ArmStates]
  BY <1>1 DEF ArmStates
<1> QED
  BY <1>1, <1>2, <1>3

(* A disarm marks the ARM sequences that run, whatever they do.            *)
LEMMA StopArmsTypes ==
  ASSUME NEW a \in [ArmIds -> ArmStates], StopArms(a)
  PROVE  arm' \in [ArmIds -> ArmStates]
BY DEF StopArms, ArmStates, ArmPcs

(* A disarm through the services, and an emergency stop.                   *)
LEMMA ServiceDisarmTypes ==
  ASSUME MgrTypeOK, NEW m \in MgrStates, NEW a \in [ArmIds -> ArmStates],
         NEW keep \in BOOLEAN, ServiceDisarm(m, a, keep)
  PROVE  MgrTypeOK'
<1>1. arm' \in [ArmIds -> ArmStates]
  BY StopArmsTypes DEF ServiceDisarm
<1>2. mgr' \in MgrStates
  <2>1. [m EXCEPT !.flying = FALSE, !.fleet_armed = FALSE, !.shutdown = ~keep]
           \in MgrStates
    BY DEF MgrStates
  <2> QED
    BY <2>1 DEF ServiceDisarm
<1>3. disarming' \in Nat
  BY DEF ServiceDisarm, MgrTypeOK
<1> QED
  BY <1>1, <1>2, <1>3 DEF MgrTypeOK

(* An emergency stop changes the radios and the aborts besides.            *)
LEMMA EmergencyStopTypes ==
  ASSUME TypeOK, NEW m \in MgrStates, NEW reason \in Reasons,
         EmergencyStop(m, reason)
  PROVE  /\ MgrTypeOK'
         /\ abort' \in [Drones -> 0 .. TopicDepth]
         /\ mux_abort' \subseteq Newcomers
         /\ radio' \in [Drones -> RadioCommands]
<1>1. arm' \in [ArmIds -> ArmStates]
  BY StopArmsTypes DEF EmergencyStop, TypeOK, MgrTypeOK
<1>2. mgr' \in MgrStates /\ disarming' \in Nat
  <2>1. [m EXCEPT !.flying = FALSE, !.fleet_armed = FALSE, !.shutdown = FALSE,
                  !.last_estop = reason] \in MgrStates
    BY DEF MgrStates
  <2> QED
    BY <2>1 DEF EmergencyStop, TypeOK, MgrTypeOK
<1>3. abort' \in [Drones -> 0 .. TopicDepth]
  <2>1. abort \in [Drones -> 0 .. TopicDepth]
    BY DEF TypeOK, ChannelsTypeOK
  <2> QED
    BY <2>1 DEF EmergencyStop, More
<1>4. mux_abort' \subseteq Newcomers /\ radio' \in [Drones -> RadioCommands]
  BY DEF EmergencyStop, AbortMuxes, StopRadios, RadioCommands
<1> QED
  BY <1>1, <1>2, <1>3, <1>4 DEF MgrTypeOK

(* What the manager's ARM sequences leave: its own state of the right type *)
(* and so the requests and replies.                                        *)
LEMMA ArmTypes ==
  ASSUME TypeOK, UNCHANGED <<trk, pl>>, presses' \in Nat, faults' \in Nat,
         \/ Command_ARM
         \/ \E k \in ArmIds : ArmStep(k) \/ ArmTimeout(k)
         \/ DisarmThread
  PROVE  TypeOK'
<1>a. MgrTypeOK /\ ChannelsTypeOK
  BY DEF TypeOK
<1>b. mgr \in MgrStates /\ arm \in [ArmIds -> ArmStates] /\ disarming \in Nat
  BY <1>a DEF MgrTypeOK
<1>c. TrackerTypeOK' /\ PlannerTypeOK'
  BY DEF TypeOK, TrackerTypeOK, PlannerTypeOK
<1>d. UNCHANGED chanVars => ChannelsTypeOK'
  BY <1>a DEF ChannelsTypeOK, chanVars, services, trackerTopics,
              plannerTopics, muxTopics
<1>e. ASSUME NEW k \in ArmIds
      PROVE  /\ \A pc \in {"start", "send", "collect", "check"} :
                  Goto(k, pc) \in [ArmIds -> ArmStates]
             /\ \A pc \in {"fc", "set", "done"} :
                  Goto(k, pc) \in [ArmIds -> ArmStates]
             /\ [Goto(k, "wait") EXCEPT ![k].stopped = FALSE]
                  \in [ArmIds -> ArmStates]
  BY <1>b, ArmUpdates DEF ArmPcs
<1>1. CASE Command_ARM
  <2>1. PICK k \in ArmIds : arm' = Goto(k, "start")
    BY <1>1 DEF Command_ARM
  <2>2. arm' \in [ArmIds -> ArmStates]
    BY <2>1, <1>e
  <2>3. mgr' = [mgr EXCEPT !.excused = {}, !.fault_land = FALSE,
                           !.off_ring = {}, !.down_alone = {},
                           !.last_estop = NoReason]
    BY <1>1 DEF Command_ARM
  <2>4. mgr' \in MgrStates
    BY <1>b, <2>3, ManagerUpdates
  <2> QED
    BY <1>1, <1>b, <1>c, <1>d, <2>2, <2>4 DEF Command_ARM, TypeOK, MgrTypeOK
<1>2. ASSUME NEW k \in ArmIds, ArmStart(k)
      PROVE  TypeOK'
  <2>1. arm' \in [ArmIds -> ArmStates]
    <3>1. \/ arm' = Goto(k, "done")
          \/ arm' = [Goto(k, "wait") EXCEPT ![k].stopped = FALSE]
      BY <1>2 DEF ArmStart
    <3>2. Goto(k, "done") \in [ArmIds -> ArmStates]
      BY <1>e
    <3>3. [Goto(k, "wait") EXCEPT ![k].stopped = FALSE]
             \in [ArmIds -> ArmStates]
      BY <1>e, Zenon
    <3> QED
      BY <3>1, <3>2, <3>3, Zenon
  <2>2. mgr' \in MgrStates
    BY <1>2, <1>b, ManagerUpdates DEF ArmStart
  <2> QED
    BY <1>2, <1>b, <1>c, <1>d, <2>1, <2>2 DEF ArmStart, TypeOK, MgrTypeOK
<1>3. ASSUME NEW k \in ArmIds, ArmWait(k)
      PROVE  TypeOK'
  <2>1. arm' \in [ArmIds -> ArmStates]
    <3>1. arm[k].next \in 0 .. N
      BY <1>b DEF ArmStates
    <3>2. PICK n \in arm[k].next + 1 .. N :
            arm' = IF n = N THEN Goto(k, "send") ELSE [arm EXCEPT ![k].next = n]
      BY <1>3 DEF ArmWait
    <3>3. n \in 0 .. N
      BY <3>1
    <3>4. Goto(k, "send") \in [ArmIds -> ArmStates]
      BY <1>e
    <3>5. [arm EXCEPT ![k].next = n] \in [ArmIds -> ArmStates]
      BY <1>b, <3>3, ArmUpdates DEF ArmPcs
    <3> QED
      BY <3>2, <3>4, <3>5, Zenon
  <2> QED
    BY <1>3, <1>b, <1>c, <1>d, <2>1 DEF ArmWait, TypeOK, MgrTypeOK
<1>4. ASSUME NEW k \in ArmIds, ArmNoService(k)
      PROVE  TypeOK'
  <2>1. MgrTypeOK'
    BY <1>4, <1>a, <1>b, <1>e, ServiceDisarmTypes DEF ArmNoService
  <2>2. UNCHANGED chanVars
    BY <1>4 DEF ArmNoService, ServiceDisarm, chanVars, services,
                trackerTopics, plannerTopics, muxTopics
  <2> QED
    BY <1>c, <1>d, <2>1, <2>2 DEF TypeOK
<1>5. ASSUME NEW k \in ArmIds, ArmSend(k)
      PROVE  TypeOK'
  <2>1. /\ svc \in [Drones -> Seq(Requests)]
        /\ reply \in [ArmIds -> [Drones -> Answers]]
    BY <1>a DEF ChannelsTypeOK
  <2>2. CASE arm[k].next = N
    <3>1. arm' \in [ArmIds -> ArmStates]
      <4>1. arm' = Goto(k, "collect")
        BY <1>5, <2>2 DEF ArmSend
      <4> QED
        BY <1>e, <4>1
    <3>2. UNCHANGED chanVars
      BY <1>5, <2>2 DEF ArmSend, chanVars, services, trackerTopics,
                        plannerTopics, muxTopics
    <3> QED
      BY <1>5, <1>b, <1>c, <1>d, <3>1, <3>2 DEF ArmSend, TypeOK, MgrTypeOK
  <2>3. CASE arm[k].next # N
    <3> DEFINE d == arm[k].next
    <3>1. d \in Drones /\ d + 1 \in 0 .. N
      BY <1>b, <2>3 DEF ArmStates
    <3>2. arm' = [arm EXCEPT ![k].next = d + 1]
      BY <1>5, <2>3, <1>b DEF ArmSend
    <3>3. arm' \in [ArmIds -> ArmStates]
      BY <1>b, <3>1, <3>2, ArmUpdates DEF ArmPcs
    <3>4. [arm |-> TRUE, by |-> k] \in Requests
      BY DEF Requests
    <3>5. svc' \in [Drones -> Seq(Requests)]
      <4>1. \/ svc' = [svc EXCEPT ![d] = Append(@, [arm |-> TRUE, by |-> k])]
            \/ svc' = svc
        BY <1>5, <2>3 DEF ArmSend
      <4>2. Append(svc[d], [arm |-> TRUE, by |-> k]) \in Seq(Requests)
        BY <2>1, <3>1, <3>4
      <4> QED
        BY <2>1, <4>1, <4>2
    <3>6. reply' \in [ArmIds -> [Drones -> Answers]]
      <4>1. reply' = [reply EXCEPT ![k][d] = "pending"]
        BY <1>5, <2>3 DEF ArmSend
      <4> QED
        BY <2>1, <3>1, <4>1 DEF Answers
    <3> QED
      BY <1>5, <1>a, <1>b, <1>c, <3>3, <3>5, <3>6
      DEF ArmSend, TypeOK, MgrTypeOK, ChannelsTypeOK, trackerTopics,
          plannerTopics, muxTopics
  <2> QED
    BY <2>2, <2>3
<1>6. ASSUME NEW k \in ArmIds, ArmCollect(k) \/ ArmTimeout(k)
      PROVE  TypeOK'
  <2>1. MgrTypeOK'
    <3>1. CASE UNCHANGED <<mgr, disarming>> /\ arm' = Goto(k, "check")
      BY <1>b, <1>e, <3>1 DEF MgrTypeOK
    <3>2. CASE ServiceDisarm(mgr, Goto(k, "done"), TRUE)
      BY <1>a, <1>b, <1>e, <3>2, ServiceDisarmTypes
    <3> QED
      BY <1>6, <3>1, <3>2 DEF ArmCollect, ArmTimeout
  <2>2. reply' \in [ArmIds -> [Drones -> Answers]]
    <3>1. reply \in [ArmIds -> [Drones -> Answers]]
      BY <1>a DEF ChannelsTypeOK
    <3> QED
      <4>1. reply' = [reply EXCEPT ![k] = [d \in Drones |-> "none"]]
        BY <1>6 DEF ArmCollect, ArmTimeout, Collected
      <4> QED
        BY <3>1, <4>1 DEF Answers
  <2>3. UNCHANGED <<abort, mux_abort, radio>>
    BY <1>6 DEF ArmCollect, ArmTimeout, ServiceDisarm
  <2> QED
    BY <1>6, <1>a, <1>c, <2>1, <2>2, <2>3
    DEF ArmCollect, ArmTimeout, Collected, TypeOK, ChannelsTypeOK,
        plannerTopics
<1>7. ASSUME NEW k \in ArmIds, ArmCheck(k) \/ ArmSet(k)
      PROVE  TypeOK'
  <2>1. arm' \in [ArmIds -> ArmStates]
    <3>1. \/ arm' = Goto(k, "fc")
          \/ arm' = Goto(k, "set")
          \/ arm' = Goto(k, "done")
      BY <1>7 DEF ArmCheck, ArmSet
    <3>2. /\ Goto(k, "fc") \in [ArmIds -> ArmStates]
          /\ Goto(k, "set") \in [ArmIds -> ArmStates]
          /\ Goto(k, "done") \in [ArmIds -> ArmStates]
      BY <1>e
    <3> QED
      BY <3>1, <3>2, Zenon
  <2>2. mgr' \in MgrStates
    BY <1>7, <1>b, ManagerUpdates DEF ArmCheck, ArmSet
  <2> QED
    BY <1>7, <1>b, <1>c, <1>d, <2>1, <2>2
    DEF ArmCheck, ArmSet, TypeOK, MgrTypeOK
<1>8. ASSUME NEW k \in ArmIds, ArmWaitFc(k)
      PROVE  TypeOK'
  <2>1. MgrTypeOK'
    <3>1. CASE /\ UNCHANGED <<mgr, disarming>>
               /\ arm' = Goto(k, "done") \/ arm' = Goto(k, "set")
      BY <1>b, <1>e, <3>1 DEF MgrTypeOK
    <3>2. CASE ServiceDisarm(mgr, Goto(k, "done"), TRUE)
      BY <1>a, <1>b, <1>e, <3>2, ServiceDisarmTypes
    <3> QED
      BY <1>8, <3>1, <3>2 DEF ArmWaitFc
  <2>2. UNCHANGED chanVars
    BY <1>8 DEF ArmWaitFc, ServiceDisarm, chanVars, services, trackerTopics,
                plannerTopics, muxTopics
  <2> QED
    BY <1>c, <1>d, <2>1, <2>2 DEF TypeOK
<1>9. CASE DisarmThread
  <2>1. [arm |-> FALSE, by |-> FleetDisarm] \in Requests
    BY DEF Requests, FleetDisarm
  <2>2. svc' \in [Drones -> Seq(Requests)]
    <3>1. svc \in [Drones -> Seq(Requests)]
      BY <1>a DEF ChannelsTypeOK
    <3> QED
      BY <1>9, <2>1, <3>1 DEF DisarmThread
  <2>3. MgrTypeOK'
    BY <1>9, <1>b DEF DisarmThread, MgrTypeOK
  <2> QED
    BY <1>9, <1>a, <1>c, <2>2, <2>3
    DEF DisarmThread, TypeOK, ChannelsTypeOK, trackerTopics, plannerTopics,
        muxTopics
<1> QED
  BY <1>1, <1>2, <1>3, <1>4, <1>5, <1>6, <1>7, <1>8, <1>9 DEF ArmStep

(* What the operator's commands and the ends of a flight leave.            *)
LEMMA CommandTypes ==
  ASSUME TypeOK, UNCHANGED <<trk, pl>>, presses' \in Nat, faults' \in Nat,
         \/ Command_TAKEOFF \/ LandFleet \/ PayloadDropped \/ Landed
         \/ StepTimer \/ \E c \in {"DISARM", "ESTOP"} : Command_DISARM(c)
  PROVE  TypeOK'
<1>a. MgrTypeOK /\ ChannelsTypeOK
  BY DEF TypeOK
<1>b. mgr \in MgrStates /\ arm \in [ArmIds -> ArmStates] /\ disarming \in Nat
  BY <1>a DEF MgrTypeOK
<1>c. TrackerTypeOK' /\ PlannerTypeOK'
  BY DEF TypeOK, TrackerTypeOK, PlannerTypeOK
<1>1. CASE Command_TAKEOFF
  <2>1. MgrTypeOK'
    <3>1. CASE UNCHANGED mgr /\ Quiet
      BY <1>b, <3>1 DEF Quiet, MgrTypeOK
    <3>2. CASE ServiceDisarm(mgr, arm, TRUE)
      BY <1>a, <1>b, <3>2, ServiceDisarmTypes
    <3>3. CASE /\ mgr' = [mgr EXCEPT !.flying = TRUE, !.last_estop = NoReason]
               /\ Quiet
      <4>1. mgr' \in MgrStates
        BY <1>b, <3>3, ManagerUpdates
      <4> QED
        BY <1>b, <3>3, <4>1 DEF Quiet, MgrTypeOK
    <3> QED
      BY <1>1, <3>1, <3>2, <3>3 DEF Command_TAKEOFF
  <2>2. takeoff' \in [Drones -> 0 .. TopicDepth]
    <3>1. takeoff \in [Drones -> 0 .. TopicDepth]
      BY <1>a DEF ChannelsTypeOK
    <3>2. \/ takeoff' = [d \in Drones |-> IF d \in up THEN More(takeoff[d])
                                                     ELSE takeoff[d]]
          \/ takeoff' = takeoff
      BY <1>1 DEF Command_TAKEOFF
    <3>3. \A e \in Drones : More(takeoff[e]) \in 0 .. TopicDepth
      BY <3>1 DEF More
    <3> QED
      BY <3>1, <3>2, <3>3
  <2>3. UNCHANGED <<abort, mux_abort, radio>>
    BY <1>1 DEF Command_TAKEOFF, ServiceDisarm, Quiet
  <2> QED
    BY <1>1, <1>a, <1>c, <2>1, <2>2, <2>3
    DEF Command_TAKEOFF, TypeOK, ChannelsTypeOK, services, plannerTopics
<1>2. CASE LandFleet
  <2>1. MgrTypeOK'
    <3>1. CASE UNCHANGED mgr /\ Quiet
      BY <1>b, <3>1 DEF Quiet, MgrTypeOK
    <3>2. CASE ServiceDisarm(mgr, arm, TRUE)
      BY <1>a, <1>b, <3>2, ServiceDisarmTypes
    <3>3. CASE mgr' = [mgr EXCEPT !.landing = TRUE] /\ Quiet
      <4>1. mgr' \in MgrStates
        BY <1>b, <3>3, ManagerUpdates
      <4> QED
        BY <1>b, <3>3, <4>1 DEF Quiet, MgrTypeOK
    <3> QED
      BY <1>2, <3>1, <3>2, <3>3 DEF LandFleet
  <2>2. land_mgr' \in 0 .. TopicDepth
    BY <1>2, <1>a DEF LandFleet, ChannelsTypeOK
  <2>3. UNCHANGED <<abort, mux_abort, radio>>
    BY <1>2 DEF LandFleet, ServiceDisarm, Quiet
  <2> QED
    BY <1>2, <1>a, <1>c, <2>1, <2>2, <2>3
    DEF LandFleet, TypeOK, ChannelsTypeOK, services
<1>3. CASE PayloadDropped
  <2>1. mgr' \in MgrStates
    BY <1>3, <1>b, ManagerUpdates DEF PayloadDropped
  <2>2. MgrTypeOK'
    BY <1>3, <1>b, <2>1 DEF PayloadDropped, MgrTypeOK
  <2> QED
    BY <1>3, <1>a, <1>c, <2>2
    DEF PayloadDropped, TypeOK, ChannelsTypeOK, services, trackerTopics,
        muxTopics
<1>4. CASE Landed
  <2>1. MgrTypeOK'
    <3>1. CASE UNCHANGED mgr /\ Quiet
      BY <1>b, <3>1 DEF Quiet, MgrTypeOK
    <3>2. CASE ServiceDisarm([mgr EXCEPT !.landing = FALSE], arm, FALSE)
      <4>1. [mgr EXCEPT !.landing = FALSE] \in MgrStates
        BY <1>b, ManagerUpdates
      <4> QED
        BY <1>a, <1>b, <3>2, <4>1, ServiceDisarmTypes
    <3> QED
      BY <1>4, <3>1, <3>2 DEF Landed
  <2>2. mux_cut' \subseteq Newcomers
    BY <1>4, <1>a DEF Landed, ChannelsTypeOK
  <2>3. UNCHANGED <<abort, mux_abort, radio>>
    BY <1>4 DEF Landed, ServiceDisarm, Quiet
  <2> QED
    BY <1>4, <1>a, <1>c, <2>1, <2>2, <2>3
    DEF Landed, TypeOK, ChannelsTypeOK, services
<1>5. CASE StepTimer
  BY <1>5, <1>a, <1>b, <1>c
  DEF StepTimer, TypeOK, MgrTypeOK, ChannelsTypeOK, mgrVars, services,
      trackerTopics, muxTopics
<1>6. ASSUME NEW c \in {"DISARM", "ESTOP"}, Command_DISARM(c)
      PROVE  TypeOK'
  <2>1. Reason(c, N) \in Reasons
    <3>1. N \in 0 .. N
      OBVIOUS
    <3> QED
      BY <1>6, <3>1 DEF Reason, Reasons
  <2>2. /\ MgrTypeOK'
        /\ abort' \in [Drones -> 0 .. TopicDepth]
        /\ mux_abort' \subseteq Newcomers
        /\ radio' \in [Drones -> RadioCommands]
    BY <1>6, <1>b, <2>1, EmergencyStopTypes DEF Command_DISARM
  <2> QED
    BY <1>6, <1>a, <1>c, <2>2
    DEF Command_DISARM, TypeOK, ChannelsTypeOK, services, plannerTopics
<1> QED
  BY <1>1, <1>2, <1>3, <1>4, <1>5, <1>6

(* What the callbacks about one drone leave.                               *)
LEMMA FaultLandTypes ==
  ASSUME ChannelsTypeOK, NEW m \in MgrStates, FaultLand(m)
  PROVE  /\ mgr' \in MgrStates
         /\ land_mgr' \in 0 .. TopicDepth /\ land_pl' \in 0 .. TopicDepth
<1>1. land_mgr \in 0 .. TopicDepth /\ land_pl \in 0 .. TopicDepth
  BY DEF ChannelsTypeOK
<1>2. mgr' \in MgrStates
  BY ManagerUpdates DEF FaultLand
<1>3. land_mgr' \in 0 .. TopicDepth /\ land_pl' \in 0 .. TopicDepth
  BY <1>1 DEF FaultLand, PublishLand, More
<1> QED
  BY <1>2, <1>3

(* A callback about one drone: its messages, its mux and its faults.       *)
LEMMA CallbackTypes ==
  ASSUME TypeOK, NEW d \in Drones, UNCHANGED <<trk, pl>>,
         presses' \in Nat, faults' \in Nat,
         \/ \E live \in BOOLEAN : MgrCallback(d, live)
         \/ FcDisarmed(d) \/ LimitBreach(d)
  PROVE  TypeOK'
<1>a. MgrTypeOK /\ ChannelsTypeOK
  BY DEF TypeOK
<1>b. mgr \in MgrStates /\ arm \in [ArmIds -> ArmStates] /\ disarming \in Nat
  BY <1>a DEF MgrTypeOK
<1>c. TrackerTypeOK' /\ PlannerTypeOK'
  BY DEF TypeOK, TrackerTypeOK, PlannerTypeOK
<1>1. ASSUME NEW live \in BOOLEAN, ArmingFeedback(d, live)
      PROVE  TypeOK'
  <2> DEFINE S == IF Head(feedback[d].mgr) THEN mgr.drone_armed \union {d}
                                           ELSE mgr.drone_armed \ {d}
             m == [mgr EXCEPT !.drone_armed = S]
             x == [m EXCEPT !.excused = @ \union {d}]
  <2>1. m \in MgrStates /\ x \in MgrStates
    <3>1. S \in SUBSET Drones
      BY <1>b DEF MgrStates
    <3> HIDE DEF S
    <3>2. m \in MgrStates
      BY <1>b, <3>1, ManagerDroneUpdates
    <3> HIDE DEF m
    <3> QED
      BY <3>2, ManagerDroneUpdates
  <2>2. /\ \/ /\ mgr' = m /\ Quiet /\ UNCHANGED <<land_mgr, land_pl>>
           \/ /\ ServiceDisarm(m, arm, TRUE) /\ UNCHANGED <<land_mgr, land_pl>>
           \/ /\ mgr' = x /\ Quiet
              /\ PublishLand \/ UNCHANGED <<land_mgr, land_pl>>
           \/ /\ EmergencyStop(m, Reason("disarmed", d))
              /\ UNCHANGED <<land_mgr, land_pl>>
    BY <1>1 DEF ArmingFeedback
  <2> HIDE DEF S, m, x
  <2>3. /\ MgrTypeOK'
        /\ abort' \in [Drones -> 0 .. TopicDepth]
        /\ mux_abort' \subseteq Newcomers
        /\ radio' \in [Drones -> RadioCommands]
    <3>1. CASE (mgr' = m \/ mgr' = x) /\ Quiet
      BY <1>a, <1>b, <2>1, <3>1 DEF Quiet, MgrTypeOK, ChannelsTypeOK
    <3>2. CASE ServiceDisarm(m, arm, TRUE)
      <4>1. MgrTypeOK'
        BY <1>a, <1>b, <2>1, <3>2, ServiceDisarmTypes
      <4> QED
        BY <1>a, <3>2, <4>1 DEF ServiceDisarm, ChannelsTypeOK
    <3>3. CASE EmergencyStop(m, Reason("disarmed", d))
      <4>1. Reason("disarmed", d) \in Reasons
        BY DEF Reason, Reasons
      <4> QED
        BY <2>1, <3>3, <4>1, EmergencyStopTypes
    <3> QED
      BY <2>2, <3>1, <3>2, <3>3
  <2>4. land_mgr' \in 0 .. TopicDepth /\ land_pl' \in 0 .. TopicDepth
    <3>1. land_mgr \in 0 .. TopicDepth /\ land_pl \in 0 .. TopicDepth
      BY <1>a DEF ChannelsTypeOK
    <3>2. PublishLand \/ UNCHANGED <<land_mgr, land_pl>>
      BY <2>2
    <3> QED
      BY <3>1, <3>2 DEF PublishLand, More
  <2>5. feedback' \in [Drones -> [mgr: Seq(BOOLEAN), pl: Flags]]
    <3>1. feedback \in [Drones -> [mgr: Seq(BOOLEAN), pl: Flags]]
      BY <1>a DEF ChannelsTypeOK
    <3>2. /\ feedback[d].mgr # << >>
          /\ feedback' = [feedback EXCEPT ![d].mgr = Tail(@)]
      BY <1>1 DEF ArmingFeedback
    <3>3. Tail(feedback[d].mgr) \in Seq(BOOLEAN)
      <4> DEFINE q == feedback[d].mgr
      <4>1. q \in Seq(BOOLEAN) /\ q # << >>
        BY <3>1, <3>2
      <4> HIDE DEF q
      <4>2. Tail(q) \in Seq(BOOLEAN)
        BY <4>1
      <4> QED
        BY <4>2 DEF q
    <3> QED
      BY <3>1, <3>2, <3>3
  <2> QED
    BY <1>1, <1>a, <1>c, <2>3, <2>4, <2>5
    DEF ArmingFeedback, TypeOK, ChannelsTypeOK, services
<1>2. CASE OnLoadCallback(d)
  <2> DEFINE m == [mgr EXCEPT !.on_load[d] = on_load_pub[d]]
  <2>1. m \in MgrStates
    <3>1. on_load_pub[d] \in Flags
      BY <1>a DEF ChannelsTypeOK
    <3> QED
      BY <1>b, <3>1, ManagerDroneUpdates
  <2>2. EmergencyStop(m, Reason("on the ring", d)) \/ (mgr' = m /\ Quiet)
    BY <1>2 DEF OnLoadCallback
  <2> HIDE DEF m
  <2>3. /\ MgrTypeOK'
        /\ abort' \in [Drones -> 0 .. TopicDepth]
        /\ mux_abort' \subseteq Newcomers
        /\ radio' \in [Drones -> RadioCommands]
    <3>1. CASE mgr' = m /\ Quiet
      BY <1>a, <1>b, <2>1, <3>1 DEF Quiet, MgrTypeOK, ChannelsTypeOK
    <3>2. CASE EmergencyStop(m, Reason("on the ring", d))
      <4>1. Reason("on the ring", d) \in Reasons
        BY DEF Reason, Reasons
      <4> QED
        BY <2>1, <3>2, <4>1, EmergencyStopTypes
    <3> QED
      BY <2>2, <3>1, <3>2
  <2> QED
    BY <1>2, <1>a, <1>c, <2>3
    DEF OnLoadCallback, TypeOK, ChannelsTypeOK, services, plannerTopics
<1>3. CASE MuxStateCallback(d)
  <2>1. mgr' \in MgrStates
    <3>1. mux[d] \in MuxStates
      BY <1>a DEF ChannelsTypeOK
    <3>2. mgr' = [mgr EXCEPT !.mux_state[d] = mux[d]]
      BY <1>3 DEF MuxStateCallback
    <3> QED
      BY <1>b, <3>1, <3>2, ManagerDroneUpdates
  <2>2. UNCHANGED chanVars => ChannelsTypeOK'
    BY <1>a DEF ChannelsTypeOK, chanVars, services, trackerTopics,
                plannerTopics, muxTopics
  <2> QED
    BY <1>3, <1>b, <1>c, <2>1, <2>2 DEF MuxStateCallback, TypeOK, MgrTypeOK
<1>4. CASE DepartedCallback(d)
  <2>1. mgr' \in MgrStates
    BY <1>4, <1>b, ManagerDroneUpdates DEF DepartedCallback
  <2>2. MgrTypeOK'
    BY <1>4, <1>b, <2>1 DEF DepartedCallback, MgrTypeOK
  <2> QED
    BY <1>4, <1>a, <1>c, <2>2
    DEF DepartedCallback, TypeOK, ChannelsTypeOK, services, trackerTopics,
        muxTopics
<1>5. CASE DownAloneCallback(d)
  <2>1. mgr' \in MgrStates
    BY <1>5, <1>b, ManagerDroneUpdates DEF DownAloneCallback
  <2>2. MgrTypeOK'
    BY <1>5, <1>b, <2>1 DEF DownAloneCallback, MgrTypeOK
  <2>3. svc' \in [Drones -> Seq(Requests)]
    <3>1. svc \in [Drones -> Seq(Requests)]
      BY <1>a DEF ChannelsTypeOK
    <3>2. [arm |-> FALSE, by |-> AloneDisarm] \in Requests
      BY DEF Requests, AloneDisarm
    <3>3. /\ svc[d] \in Seq(Requests)
          /\ Append(svc[d], [arm |-> FALSE, by |-> AloneDisarm]) \in Seq(Requests)
      BY <3>1, <3>2
    <3>4. \/ svc' = [svc EXCEPT ![d] = Append(@, [arm |-> FALSE, by |-> AloneDisarm])]
          \/ svc' = svc
      BY <1>5 DEF DownAloneCallback
    <3> QED
      BY <3>1, <3>3, <3>4
  <2> QED
    BY <1>5, <1>a, <1>c, <2>2, <2>3
    DEF DownAloneCallback, TypeOK, ChannelsTypeOK, plannerTopics, muxTopics
<1>6. CASE AloneReply(d)
  <2>1. radio' \in [Drones -> RadioCommands]
    BY <1>6, <1>a DEF AloneReply, ChannelsTypeOK, RadioCommands
  <2> QED
    BY <1>6, <1>a, <1>b, <1>c, <2>1
    DEF AloneReply, TypeOK, MgrTypeOK, ChannelsTypeOK, mgrVars, trackerTopics,
        plannerTopics, muxTopics
<1>7. CASE TiltFaultCallback(d) \/ FcDisarmed(d) \/ LimitBreach(d)
  <2> DEFINE x == [mgr EXCEPT !.excused = @ \union {d}]
  <2>1. FaultLand(x) \/ FaultLand(mgr) \/ UNCHANGED <<mgr, land_mgr, land_pl>>
    BY <1>7 DEF TiltFaultCallback, FcDisarmed, LimitBreach
  <2>2. x \in MgrStates
    BY <1>b, ManagerDroneUpdates
  <2> HIDE DEF x
  <2>3. /\ mgr' \in MgrStates
        /\ land_mgr' \in 0 .. TopicDepth /\ land_pl' \in 0 .. TopicDepth
    <3>1. CASE UNCHANGED <<mgr, land_mgr, land_pl>>
      BY <1>a, <1>b, <3>1 DEF ChannelsTypeOK
    <3> QED
      BY <1>a, <1>b, <2>1, <2>2, <3>1, FaultLandTypes
  <2>4. MgrTypeOK'
    BY <1>7, <1>b, <2>3
    DEF TiltFaultCallback, FcDisarmed, LimitBreach, Unread, MgrTypeOK
  <2>5. tilt_sent' \subseteq Drones
    BY <1>7, <1>a
    DEF TiltFaultCallback, FcDisarmed, LimitBreach, ChannelsTypeOK, muxTopics
  <2> QED
    BY <1>7, <1>a, <1>c, <2>3, <2>4, <2>5
    DEF TiltFaultCallback, FcDisarmed, LimitBreach, Unread, TypeOK,
        ChannelsTypeOK, services, trackerTopics, muxTopics
<1> QED
  BY <1>1, <1>2, <1>3, <1>4, <1>5, <1>6, <1>7 DEF MgrCallback

(* What the planner, the operator, the muxes and the radios leave.         *)
LEMMA PlannerTypes ==
  ASSUME TypeOK, UNCHANGED <<trk, mgrVars>>, presses' \in Nat, faults' \in Nat,
         \/ PlannerHears \/ PlannerTick \/ PlannerCrash \/ DropAndLand
         \/ \E d \in Drones : TellDeparted(d) \/ FoldIn(d) \/ Detach(d)
  PROVE  TypeOK'
<1>a. ChannelsTypeOK /\ pl \in PlannerStates
  BY DEF TypeOK, PlannerTypeOK
<1>b. MgrTypeOK' /\ TrackerTypeOK'
  BY DEF TypeOK, MgrTypeOK, TrackerTypeOK, mgrVars
<1>c. UNCHANGED chanVars => ChannelsTypeOK'
  BY <1>a DEF ChannelsTypeOK, chanVars, services, trackerTopics,
              plannerTopics, muxTopics
<1>1. CASE HearStep \/ EnterPlannerPhase \/ PlannerCrash
  <2>1. pl' \in PlannerStates
    BY <1>1, <1>a DEF HearStep, EnterPlannerPhase, PlannerCrash, PlannerStates
  <2> QED
    BY <1>1, <1>b, <1>c, <2>1
    DEF HearStep, EnterPlannerPhase, PlannerCrash, TypeOK, PlannerTypeOK
<1>2. CASE AnnounceOnLoad
  <2>1. on_load_pub' \in [Drones -> Flags]
    BY <1>2, <1>a DEF AnnounceOnLoad, ChannelsTypeOK, Flags
  <2> QED
    BY <1>2, <1>a, <1>b, <2>1
    DEF AnnounceOnLoad, PlannerQuiet, TypeOK, PlannerTypeOK, ChannelsTypeOK,
        services, trackerTopics, muxTopics
<1>3. ASSUME NEW d \in Drones, HearNewcomerArming(d)
      PROVE  TypeOK'
  <2>1. pl' \in PlannerStates
    <3>1. feedback[d].pl \in Flags
      BY <1>a DEF ChannelsTypeOK
    <3>2. pl' = [pl EXCEPT !.newcomer_armed[d] = feedback[d].pl]
      BY <1>3 DEF HearNewcomerArming
    <3> QED
      BY <1>a, <3>1, <3>2 DEF PlannerStates
  <2> QED
    BY <1>3, <1>b, <1>c, <2>1 DEF HearNewcomerArming, TypeOK, PlannerTypeOK
<1>4. ASSUME NEW d \in Drones, FoldIn(d)
      PROVE  TypeOK'
  <2>1. on_load_pub' \in [Drones -> Flags]
    BY <1>4, <1>a DEF FoldIn, ChannelsTypeOK, Flags
  <2> QED
    BY <1>4, <1>a, <1>b, <2>1
    DEF FoldIn, PlannerQuiet, TypeOK, PlannerTypeOK, ChannelsTypeOK,
        services, trackerTopics, muxTopics
<1>5. ASSUME NEW d \in Drones, Detach(d)
      PROVE  TypeOK'
  <2>1. pl' \in PlannerStates
    BY <1>5, <1>a DEF Detach, PlannerStates
  <2>2. on_load_pub' \in [Drones -> Flags]
    BY <1>5, <1>a DEF Detach, ChannelsTypeOK, Flags
  <2> QED
    BY <1>5, <1>a, <1>b, <2>1, <2>2
    DEF Detach, PlannerQuiet, TypeOK, PlannerTypeOK, ChannelsTypeOK,
        services, trackerTopics, muxTopics
<1>6. ASSUME NEW d \in Drones, TellDeparted(d)
      PROVE  TypeOK'
  <2>1. pl' \in PlannerStates
    BY <1>6, <1>a DEF TellDeparted, PlannerStates
  <2>2. departed_mgr' \subseteq Drones /\ departed_trk' \subseteq Drones
    BY <1>6, <1>a DEF TellDeparted, ChannelsTypeOK
  <2> QED
    BY <1>6, <1>a, <1>b, <2>1, <2>2
    DEF TellDeparted, PlannerQuiet, TypeOK, PlannerTypeOK, ChannelsTypeOK,
        services, muxTopics
<1>7. CASE FleetCommandLand \/ LandUnheard
  <2>1. pl' \in PlannerStates
    BY <1>7, <1>a DEF FleetCommandLand, LandUnheard, PlannerStates
  <2>2. land_pl' \in 0 .. TopicDepth
    BY <1>7, <1>a DEF FleetCommandLand, LandUnheard, ChannelsTypeOK
  <2>3. landed' \in BOOLEAN
    <3>1. landed \in BOOLEAN /\ pl.over \in BOOLEAN
      BY <1>a DEF ChannelsTypeOK, PlannerStates
    <3> QED
      BY <1>7, <3>1 DEF FleetCommandLand, LandUnheard
  <2> QED
    BY <1>7, <1>a, <1>b, <2>1, <2>2, <2>3
    DEF FleetCommandLand, LandUnheard, PlannerQuiet, TypeOK, PlannerTypeOK,
        ChannelsTypeOK, services, trackerTopics, muxTopics
<1>8. CASE LandTick \/ DropTick
  <2>1. pl' \in PlannerStates
    BY <1>8, <1>a DEF LandTick, DropTick, PlannerStates
  <2> QED
    BY <1>8, <1>a, <1>b, <2>1
    DEF LandTick, DropTick, PlannerQuiet, TypeOK, PlannerTypeOK,
        ChannelsTypeOK, services, trackerTopics, muxTopics
<1>9. CASE DropAndLand
  <2>1. pl' \in PlannerStates
    BY <1>9, <1>a DEF DropAndLand, PlannerStates
  <2> QED
    BY <1>9, <1>a, <1>b, <2>1
    DEF DropAndLand, TellDropped, PlannerQuiet, TypeOK, PlannerTypeOK,
        ChannelsTypeOK, services, trackerTopics, muxTopics
<1> QED
  BY <1>1, <1>2, <1>3, <1>4, <1>5, <1>6, <1>7, <1>8, <1>9
  DEF PlannerHears, PlannerTick

(* A step of a mux, of the partner behind it or of the radio.              *)
LEMMA MuxTypes ==
  ASSUME TypeOK, NEW d \in Drones, presses' \in Nat, faults' \in Nat,
         \/ MuxTakes(d) \/ MuxReleases(d) \/ MuxAborts(d) \/ MuxCuts(d)
         \/ PartnerStream(d) \/ FcReport(d)
  PROVE  TypeOK'
<1>a. ChannelsTypeOK
  BY DEF TypeOK
<1>b. UNCHANGED <<trk, mgrVars, pl>>
  BY DEF MuxTakes, MuxReleases, MuxAborts, MuxCuts, PartnerStream, FcReport,
         MuxSets
<1>c. MgrTypeOK' /\ TrackerTypeOK' /\ PlannerTypeOK'
  BY <1>b DEF TypeOK, MgrTypeOK, TrackerTypeOK, PlannerTypeOK, mgrVars
<1>1. radio' \in [Drones -> RadioCommands]
  <2>1. \/ radio' = [radio EXCEPT ![d] = "off"]
        \/ radio' = [radio EXCEPT ![d] = "armed"]
        \/ radio' = radio
    BY DEF MuxTakes, MuxReleases, MuxAborts, MuxCuts, PartnerStream, FcReport,
           MuxSets
  <2> QED
    BY <1>a, <2>1 DEF ChannelsTypeOK, RadioCommands
<1>2. CASE MuxTakes(d) \/ MuxReleases(d) \/ MuxAborts(d) \/ MuxCuts(d)
  <2>1. PICK s \in MuxStates : MuxSets(d, s)
    <3>1. mux[d] \in MuxStates
      BY <1>a DEF ChannelsTypeOK
    <3> QED
      BY <1>2, <3>1 DEF MuxTakes, MuxReleases, MuxAborts, MuxCuts, MuxStates
  <2>2. mux' \in [Drones -> MuxStates]
    BY <1>a, <2>1 DEF MuxSets, ChannelsTypeOK
  <2>3. mux_abort' \subseteq Newcomers /\ mux_cut' \subseteq Newcomers
    BY <1>2, <1>a
    DEF MuxTakes, MuxReleases, MuxAborts, MuxCuts, ChannelsTypeOK
  <2> QED
    BY <1>a, <1>c, <1>1, <2>1, <2>2, <2>3
    DEF MuxSets, TypeOK, ChannelsTypeOK, services, trackerTopics,
        plannerTopics
<1>3. CASE PartnerStream(d)
  BY <1>a, <1>c, <1>1, <1>3
  DEF PartnerStream, TypeOK, ChannelsTypeOK, services, trackerTopics,
      plannerTopics, muxTopics
<1>4. CASE FcReport(d)
  <2>1. fc' \in [Drones -> FcStates]
    BY <1>a, <1>4 DEF FcReport, ChannelsTypeOK
  <2> QED
    BY <1>a, <1>c, <1>1, <1>4, <2>1
    DEF FcReport, TypeOK, ChannelsTypeOK, services, trackerTopics,
        plannerTopics
<1> QED
  BY <1>2, <1>3, <1>4

(* The operator's LAND: one more message for the manager and the planner.  *)
LEMMA OperatorLandTypes ==
  ASSUME TypeOK, OperatorLand
  PROVE  TypeOK'
<1>1. land_mgr' \in 0 .. TopicDepth /\ land_pl' \in 0 .. TopicDepth
  BY DEF OperatorLand, PublishLand, More, TypeOK, ChannelsTypeOK
<1>2. presses' \in Nat /\ faults' \in Nat
  BY DEF OperatorLand, Press1, TypeOK
<1> QED
  BY <1>1, <1>2
  DEF OperatorLand, TypeOK, ChannelsTypeOK, TrackerTypeOK, MgrTypeOK,
      PlannerTypeOK, mgrVars, services, trackerTopics, muxTopics

(* Both specifications start with everything of its right type ...         *)
LEMMA InitTypes == Init => TypeOK
<1> SUFFICES ASSUME Init PROVE TypeOK
  OBVIOUS
<1>1. ChannelsTypeOK
  <2>1. svc \in [Drones -> Seq(Requests)]
    BY DEF Init, ChannelsInit
  <2>2. reply \in [ArmIds -> [Drones -> Answers]]
    BY DEF Init, ChannelsInit, Answers
  <2>3. feedback \in [Drones -> [mgr: Seq(BOOLEAN), pl: Flags]]
    BY DEF Init, ChannelsInit, Flags
  <2>4. /\ radio \in [Drones -> RadioCommands] /\ fc \in [Drones -> FcStates]
        /\ mux \in [Drones -> MuxStates] /\ on_load_pub \in [Drones -> Flags]
    BY DEF Init, ChannelsInit, RadioCommands, FcStates, MuxStates, Flags
  <2>5. /\ abort \in [Drones -> 0 .. TopicDepth]
        /\ takeoff \in [Drones -> 0 .. TopicDepth]
        /\ land_mgr \in 0 .. TopicDepth /\ land_pl \in 0 .. TopicDepth
    BY DEF Init, ChannelsInit
  <2> QED
    BY <2>1, <2>2, <2>3, <2>4, <2>5 DEF Init, ChannelsInit, ChannelsTypeOK
<1>2. TrackerTypeOK
  BY DEF Init, TrackerInit, TrackerTypeOK, FreshTracker, TrackerStates
<1>3. MgrTypeOK
  BY DEF Init, MgrInit, MgrTypeOK, MgrStates, ArmStates, ArmPcs, NoReason,
         Reason, Reasons, MuxStates, Flags
<1>4. PlannerTypeOK
  BY DEF Init, PlannerInit, PlannerTypeOK, PlannerStates, Flags
<1> QED
  BY <1>1, <1>2, <1>3, <1>4 DEF Init, TypeOK

(* ... from the ground and in the air ...                                  *)
LEMMA InitInFlightTypes == InitInFlight => TypeOK
<1> SUFFICES ASSUME InitInFlight PROVE TypeOK
  OBVIOUS
<1>1. ChannelsTypeOK
  <2>1. svc \in [Drones -> Seq(Requests)]
    BY DEF InitInFlight
  <2>2. reply \in [ArmIds -> [Drones -> Answers]]
    BY DEF InitInFlight, Answers
  <2>3. feedback \in [Drones -> [mgr: Seq(BOOLEAN), pl: Flags]]
    BY DEF InitInFlight, Flags
  <2>4. /\ radio \in [Drones -> RadioCommands] /\ fc \in [Drones -> FcStates]
        /\ mux \in [Drones -> MuxStates] /\ on_load_pub \in [Drones -> Flags]
    BY DEF InitInFlight, RadioCommands, FcStates, MuxStates, Flags
  <2>5. /\ abort \in [Drones -> 0 .. TopicDepth]
        /\ takeoff \in [Drones -> 0 .. TopicDepth]
        /\ land_mgr \in 0 .. TopicDepth /\ land_pl \in 0 .. TopicDepth
    BY DEF InitInFlight
  <2> QED
    BY <2>1, <2>2, <2>3, <2>4, <2>5 DEF InitInFlight, ChannelsTypeOK
<1>2. TrackerTypeOK
  BY DEF InitInFlight, TrackerTypeOK, InFlight, FreshTracker, TrackerStates
<1>3. MgrTypeOK
  BY DEF InitInFlight, MgrTypeOK, MgrStates, ArmStates, ArmPcs, NoReason,
         Reason, Reasons, MuxStates, Flags
<1>4. PlannerTypeOK
  BY DEF InitInFlight, PlannerTypeOK, PlannerStates, Flags
<1> QED
  BY <1>1, <1>2, <1>3, <1>4 DEF InitInFlight, TypeOK

(* ... and no step changes that.                                           *)
LEMMA NextTypes == TypeOK /\ [Next]_vars => TypeOK'
<1> SUFFICES ASSUME TypeOK, [Next]_vars PROVE TypeOK'
  OBVIOUS
<1>a. presses' \in Nat /\ faults' \in Nat
  <2>1. \/ UNCHANGED <<presses, faults>>
        \/ presses' = presses + 1 /\ faults' = faults
        \/ faults' = faults + 1 /\ presses' = presses
    <3>1. CASE Operator
      BY <3>1 DEF Operator, OperatorArm, OperatorTakeoff, OperatorLand,
                  OperatorDisarm, Press1, bounds
    <3>2. CASE ManagerRuns \/ ManagerFaults
      BY <3>2 DEF ManagerRuns, ManagerFaults, ManagerWorks, ManagerOnly,
                  ArmTimesOut, PastTheLimit, Fault1, bounds
    <3>3. CASE PlannerRuns \/ PlannerFaults
      BY <3>3 DEF PlannerRuns, PlannerFaults, PlannerWorks, PlannerOnly,
                  Fault1, bounds
    <3>4. ASSUME NEW d \in Drones,
                 TrackerRuns(d) \/ TrackerFaults(d) \/ RefStale(d)
          PROVE  \/ UNCHANGED <<presses, faults>>
                 \/ faults' = faults + 1 /\ presses' = presses
      BY <3>4 DEF TrackerRuns, TrackerFaults, RefStale, TrackerOnly, Fault1,
                  bounds
    <3>5. ASSUME NEW d \in Drones, MuxRuns(d) \/ MuxHandsOver(d)
          PROVE  \/ UNCHANGED <<presses, faults>>
                 \/ faults' = faults + 1 /\ presses' = presses
      BY <3>5 DEF MuxRuns, MuxHandsOver, MuxTakes, MuxReleases, MuxAborts,
                  MuxCuts, PartnerStream, FcReport, Fault1, bounds
    <3>6. CASE UNCHANGED vars
      BY <3>6 DEF vars, bounds
    <3> QED
      BY <3>1, <3>2, <3>3, <3>4, <3>5, <3>6 DEF Next
  <2> QED
    BY <2>1 DEF TypeOK
<1>1. CASE Operator
  <2>1. CASE OperatorArm
    BY <1>a, <2>1, ArmTypes DEF OperatorArm
  <2>2. CASE OperatorTakeoff
    BY <1>a, <2>2, CommandTypes DEF OperatorTakeoff
  <2>3. CASE OperatorLand
    BY <2>3, OperatorLandTypes
  <2>4. ASSUME NEW c \in {"DISARM", "ESTOP"}, OperatorDisarm(c)
        PROVE  TypeOK'
    BY <1>a, <2>4, CommandTypes DEF OperatorDisarm
  <2> QED
    BY <1>1, <2>1, <2>2, <2>3, <2>4 DEF Operator
<1>2. CASE ManagerRuns \/ ManagerFaults
  <2>1. pl.up \in BOOLEAN
    BY DEF TypeOK, PlannerTypeOK, PlannerStates
  <2>2. CASE ManagerOnly(MgrStep(pl.up))
    <3>1. UNCHANGED <<trk, pl>>
      BY <2>2 DEF ManagerOnly
    <3>2. CASE \E k \in ArmIds : ArmStep(k)
      BY <1>a, <3>1, <3>2, ArmTypes
    <3>3. CASE DisarmThread
      BY <1>a, <3>1, <3>3, ArmTypes
    <3>4. CASE LandFleet \/ PayloadDropped \/ StepTimer
      BY <1>a, <3>1, <3>4, CommandTypes
    <3>5. ASSUME NEW d \in Drones, MgrCallback(d, pl.up) \/ FcDisarmed(d)
          PROVE  TypeOK'
      BY <1>a, <2>1, <3>1, <3>5, CallbackTypes
    <3> QED
      BY <2>2, <3>2, <3>3, <3>4, <3>5 DEF ManagerOnly, MgrStep
  <2>3. ASSUME NEW k \in ArmIds, ArmTimesOut(k)
        PROVE  TypeOK'
    BY <1>a, <2>3, ArmTypes DEF ArmTimesOut
  <2>4. CASE ManagerOnly(Landed)
    BY <1>a, <2>4, CommandTypes DEF ManagerOnly
  <2>5. ASSUME NEW d \in Drones, PastTheLimit(d)
        PROVE  TypeOK'
    BY <1>a, <2>5, CallbackTypes DEF PastTheLimit
  <2> QED
    BY <1>2, <2>2, <2>3, <2>4, <2>5
    DEF ManagerRuns, ManagerFaults, ManagerWorks
<1>3. CASE PlannerRuns \/ PlannerFaults
  <2>1. UNCHANGED <<trk, mgrVars>>
    BY <1>3 DEF PlannerRuns, PlannerFaults, PlannerWorks, PlannerOnly
  <2>2. \/ PlannerHears \/ PlannerTick \/ PlannerCrash \/ DropAndLand
        \/ \E d \in Drones : TellDeparted(d) \/ FoldIn(d) \/ Detach(d)
    BY <1>3 DEF PlannerRuns, PlannerFaults, PlannerWorks, PlannerOnly
  <2> QED
    BY <1>a, <2>1, <2>2, PlannerTypes
<1>4. ASSUME NEW d \in Drones,
             TrackerRuns(d) \/ TrackerFaults(d) \/ RefStale(d)
      PROVE  TypeOK'
  <2>1. UNCHANGED <<mgrVars, pl>>
    BY <1>4 DEF TrackerRuns, TrackerFaults, RefStale, TrackerOnly
  <2>2. \/ Start(d) \/ (\E r \in BOOLEAN : HandleArm(d, r)) \/ HandleDisarm(d)
        \/ HandleTakeoff(d) \/ FleetAbort(d) \/ DepartedCb(d) \/ TiltFault(d)
        \/ Wedge(d) \/ Exit(d) \/ Tick(d) \/ TickPoseTimeout(d)
        \/ TickEnvelopeFault(d) \/ TickSolverFailure(d) \/ TickDownAlone(d)
    BY <1>4 DEF TrackerRuns, TrackerFaults, RefStale, TrackerOnly, Serve
  <2> QED
    BY <1>a, <2>1, <2>2, TrackerTypes
<1>5. ASSUME NEW d \in Drones, MuxRuns(d) \/ MuxHandsOver(d)
      PROVE  TypeOK'
  BY <1>a, <1>5, MuxTypes DEF MuxRuns, MuxHandsOver
<1>6. CASE UNCHANGED vars
  BY <1>6
  DEF vars, mgrVars, bounds, chanVars, services, trackerTopics, plannerTopics,
      muxTopics, TypeOK, ChannelsTypeOK, TrackerTypeOK, MgrTypeOK,
      PlannerTypeOK
<1> QED
  BY <1>1, <1>2, <1>3, <1>4, <1>5, <1>6 DEF Next

(* From a cold start and from a fleet in the air, the whole state always   *)
(* has its right type: no queue, reply or latch ever holds anything else.  *)
THEOREM TypeCorrect == Spec => []TypeOK
<1>1. Init => TypeOK
  BY InitTypes
<1>2. TypeOK /\ [Next]_vars => TypeOK'
  BY NextTypes
<1> QED
  BY <1>1, <1>2, PTL DEF Spec

(* The same for a fleet that starts in the air, as the flight runs do.     *)
THEOREM TypeCorrectInFlight == SpecInFlight => []TypeOK
<1>1. InitInFlight => TypeOK
  BY InitInFlightTypes
<1>2. TypeOK /\ [Next]_vars => TypeOK'
  BY NextTypes
<1> QED
  BY <1>1, <1>2, PTL DEF SpecInFlight
=============================================================================
