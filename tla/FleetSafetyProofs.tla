-------------------------- MODULE FleetSafetyProofs --------------------------
(***************************************************************************)
(* The safety properties of the fleet that hold for any number of drones,  *)
(* any queue depth, any parameters and any faults, from power-on and most  *)
(* from a fleet in the air: latched muxes, the arming feedback, the drones *)
(* disarmed alone, the carriers of a fleet that flies, and the drones      *)
(* whose tracker has stopped answering. For each of them: what the steps   *)
(* of the fleet do to the part of the state it is about, then its          *)
(* inductive invariant.                                                    *)
(***************************************************************************)
EXTENDS FleetTypeProofs, SequenceTheorems

-----------------------------------------------------------------------------
(* A latched or cut mux keeps its drone off.                               *)

(* What a step does to the muxes and the radios: a command to a radio whose *)
(* mux lets it through, a stop, or a step of one mux.                      *)
MuxLets(d) == mux[d] \notin {"latched", "cut"}
RadioStep ==
  \/ UNCHANGED <<mux, radio>>
  \/ /\ UNCHANGED mux
     /\ \E d \in Drones, c \in RadioCommands :
          (MuxLets(d) \/ c = "off") /\ radio' = [radio EXCEPT ![d] = c]
  \/ UNCHANGED mux /\ radio' = [d \in Drones |-> "off"]
  \/ \E d \in Drones, s \in {"latched", "cut"} :
       mux' = [mux EXCEPT ![d] = s] /\ radio' = [radio EXCEPT ![d] = "off"]
  \/ \E d \in Drones, s \in {"ours", "partner"} :
       /\ mux' = [mux EXCEPT ![d] = s]
       /\ radio' = radio \/ radio' = [radio EXCEPT ![d] = "armed"]

(* Every step of the fleet is one of these for the muxes and the radios.   *)
LEMMA NextRadioStep == TypeOK /\ [Next]_vars => RadioStep
<1> SUFFICES ASSUME TypeOK, [Next]_vars PROVE RadioStep
  OBVIOUS
<1>a. ASSUME NEW d \in Drones, NEW c \in RadioCommands, Command(d, c),
             UNCHANGED mux
      PROVE  RadioStep
  BY <1>a DEF Command, RadioStep, MuxLets
<1>b. {"off", "armed"} = RadioCommands
  BY DEF RadioCommands
<1>c. ASSUME UNCHANGED mux, UNCHANGED radio \/ StopRadios
      PROVE  RadioStep
  BY <1>c DEF StopRadios, RadioStep
<1>1. CASE Operator
  <2>1. UNCHANGED mux /\ (UNCHANGED radio \/ StopRadios)
    BY <1>1 DEF Operator, OperatorArm, OperatorTakeoff, OperatorLand,
                OperatorDisarm, Command_ARM, Command_TAKEOFF, Command_DISARM,
                ServiceDisarm, EmergencyStop, Quiet, chanVars, muxTopics
  <2> QED
    BY <1>c, <2>1
<1>2. CASE ManagerRuns \/ ManagerFaults
  <2>1. ASSUME NEW d \in Drones, AloneReply(d)
        PROVE  RadioStep
    BY <1>b, <2>1 DEF AloneReply, muxTopics, RadioStep
  <2>2. ASSUME NEW k \in ArmIds, ArmStep(k) \/ ArmTimeout(k)
        PROVE  UNCHANGED <<mux, radio>>
    BY <2>2 DEF ArmStep, ArmStart, ArmWait, ArmNoService, ArmSend, ArmCollect,
                ArmTimeout, ArmCheck, ArmWaitFc, ArmSet, Collected,
                ServiceDisarm, chanVars, muxTopics
  <2>3. ASSUME DisarmThread \/ LandFleet \/ PayloadDropped \/ StepTimer \/ Landed
        PROVE  UNCHANGED <<mux, radio>>
    BY <2>3 DEF DisarmThread, LandFleet, PayloadDropped, StepTimer, Landed,
                ServiceDisarm, Quiet, muxTopics
  <2>4. ASSUME NEW d \in Drones, FcDisarmed(d) \/ LimitBreach(d) \/
                 TiltFaultCallback(d) \/ DownAloneCallback(d) \/
                 DepartedCallback(d) \/ MuxStateCallback(d)
        PROVE  UNCHANGED <<mux, radio>>
    BY <2>4 DEF FcDisarmed, LimitBreach, TiltFaultCallback, DownAloneCallback,
                DepartedCallback, MuxStateCallback, Unread, chanVars, muxTopics
  <2>5. ASSUME NEW d \in Drones,
               ArmingFeedback(d, pl.up) \/ OnLoadCallback(d)
        PROVE  UNCHANGED mux /\ (UNCHANGED radio \/ StopRadios)
    BY <2>5 DEF ArmingFeedback, OnLoadCallback, ServiceDisarm, EmergencyStop,
                Quiet, muxTopics
  <2> QED
    BY <1>2, <1>c, <2>1, <2>2, <2>3, <2>4, <2>5
    DEF ManagerRuns, ManagerFaults, ManagerWorks, ManagerOnly, MgrStep,
        MgrCallback, ArmTimesOut, PastTheLimit
<1>3. CASE PlannerRuns \/ PlannerFaults
  <2>1. UNCHANGED <<mux, radio>>
    BY <1>3 DEF PlannerRuns, PlannerFaults, PlannerWorks, PlannerOnly,
                PlannerHears, PlannerTick, HearStep, FleetCommandLand,
                LandUnheard, HearNewcomerArming, LandTick, DropTick,
                AnnounceOnLoad, EnterPlannerPhase, TellDeparted, FoldIn,
                Detach, DropAndLand, PlannerCrash, PlannerQuiet, chanVars,
                muxTopics
  <2> QED
    BY <1>c, <2>1
<1>4. ASSUME NEW d \in Drones,
             TrackerRuns(d) \/ TrackerFaults(d) \/ RefStale(d)
      PROVE  RadioStep
  <2>1. /\ UNCHANGED mux
        /\ UNCHANGED radio \/ Command(d, "off") \/ Command(d, "armed")
    BY <1>4 DEF TrackerRuns, TrackerFaults, RefStale, TrackerOnly, Serve, Start,
                HandleArm, HandleDisarm, AnswerDisarm, HandleTakeoff,
                FleetAbort, DepartedCb, TiltFault, Wedge, Exit, Ends, Tick,
                TickFly, TickDisarmed, TickPoseTimeout, TickEnvelopeFault,
                Latches, TickSolverFailure, TickDownAlone, OnlyTicks, chanVars,
                muxTopics
  <2> QED
    BY <1>a, <1>b, <1>c, <2>1
<1>5. ASSUME NEW d \in Drones, MuxRuns(d) \/ MuxHandsOver(d)
      PROVE  RadioStep
  <2>1. CASE PartnerStream(d)
    BY <1>b, <2>1 DEF PartnerStream, muxTopics, RadioStep, MuxLets
  <2>2. CASE FcReport(d)
    BY <1>c, <2>2 DEF FcReport
  <2>3. CASE MuxTakes(d) \/ MuxReleases(d)
    BY <2>3 DEF MuxTakes, MuxReleases, MuxSets, RadioStep
  <2>4. CASE MuxAborts(d)
    BY <2>4 DEF MuxAborts, MuxSets, RadioStep
  <2>5. CASE MuxCuts(d)
    <3>1. CASE mux[d] = "partner"
      BY <2>5, <3>1 DEF MuxCuts, MuxSets, RadioStep
    <3>2. CASE mux[d] # "partner"
      <4>1. UNCHANGED <<mux, radio>>
        BY <2>5, <3>2 DEF MuxCuts, MuxSets, TypeOK, ChannelsTypeOK
      <4> QED
        BY <1>c, <4>1
    <3> QED
      BY <3>1, <3>2
  <2> QED
    BY <1>5, <2>1, <2>2, <2>3, <2>4, <2>5 DEF MuxRuns, MuxHandsOver
<1>6. CASE UNCHANGED vars
  BY <1>c, <1>6 DEF vars, chanVars, muxTopics
<1> QED
  BY <1>1, <1>2, <1>3, <1>4, <1>5, <1>6 DEF Next

(* None of them sends anything armed past a latched or cut mux.            *)
LEMMA LatchedMuxStep ==
  TypeOK /\ LatchedMuxIsOff /\ [Next]_vars => LatchedMuxIsOff'
<1> SUFFICES ASSUME TypeOK, LatchedMuxIsOff, RadioStep PROVE LatchedMuxIsOff'
  BY NextRadioStep
<1>1. mux \in [Drones -> MuxStates] /\ radio \in [Drones -> RadioCommands]
  BY DEF TypeOK, ChannelsTypeOK
<1> QED
  BY <1>1 DEF RadioStep, MuxLets, LatchedMuxIsOff

(* Whatever the partner and our tracker send, and however many stops and   *)
(* cuts reach it, a mux that has latched or cut keeps its drone off.       *)
THEOREM LatchedMuxStaysOff == Spec => []LatchedMuxIsOff
<1>1. Init => LatchedMuxIsOff
  BY DEF Init, ChannelsInit, LatchedMuxIsOff
<1>2. TypeOK /\ LatchedMuxIsOff /\ [Next]_vars => LatchedMuxIsOff'
  BY LatchedMuxStep
<1> QED
  BY <1>1, <1>2, TypeCorrect, PTL DEF Spec

(* The same for a fleet that starts in the air.                            *)
THEOREM LatchedMuxStaysOffInFlight == SpecInFlight => []LatchedMuxIsOff
<1>1. InitInFlight => LatchedMuxIsOff
  BY DEF InitInFlight, LatchedMuxIsOff
<1>2. TypeOK /\ LatchedMuxIsOff /\ [Next]_vars => LatchedMuxIsOff'
  BY LatchedMuxStep
<1> QED
  BY <1>1, <1>2, TypeCorrectInFlight, PTL DEF SpecInFlight

-----------------------------------------------------------------------------
(* What the manager has read last of a drone is that drone's arming state. *)

(* What a step does to the arming states, on the drones, on their way and  *)
(* at the manager: a tracker that changes its own publishes it, and the    *)
(* manager takes one off a queue.                                          *)
BeliefOf(d) == <<feedback[d].mgr, trk[d].armed>>
FeedbackStep ==
  \/ /\ mgr'.drone_armed = mgr.drone_armed
     /\ \A e \in Drones : BeliefOf(e)' = BeliefOf(e)
  \/ /\ mgr'.drone_armed = mgr.drone_armed
     /\ \E d \in Drones :
          /\ PublishArmingState(d)
          /\ \A e \in Drones \ {d} : trk'[e].armed = trk[e].armed
  \/ /\ UNCHANGED trk
     /\ \E d \in Drones :
          LET q == feedback[d].mgr
          IN  /\ q # << >> /\ feedback'[d].mgr = Tail(q)
              /\ \A e \in Drones \ {d} : feedback'[e].mgr = feedback[e].mgr
              /\ mgr'.drone_armed = IF Head(q) THEN mgr.drone_armed \union {d}
                                    ELSE mgr.drone_armed \ {d}

(* Taking the oldest message off a queue leaves the newest where it is.    *)
LEMMA TailLast ==
  ASSUME NEW S, NEW q \in Seq(S), q # << >>
  PROVE  /\ Tail(q) = << >> => q[Len(q)] = Head(q)
         /\ Tail(q) # << >> => Tail(q)[Len(Tail(q))] = q[Len(q)]
<1>1. /\ Len(q) \in Nat \ {0} /\ Head(q) = q[1]
      /\ Tail(q) \in Seq(S) /\ Len(Tail(q)) = Len(q) - 1
      /\ \A i \in 1 .. Len(Tail(q)) : Tail(q)[i] = q[i + 1]
  BY EmptySeq, HeadTailProperties
<1>2. ASSUME Tail(q) = << >>
      PROVE  q[Len(q)] = Head(q)
  <2>1. Len(q) - 1 = 0
    BY <1>1, <1>2, EmptySeq
  <2>2. Len(q) = 1
    <3>1. Len(q) \in Nat
      BY <1>1
    <3> QED
      BY <2>1, <3>1
  <2>3. q[Len(q)] = q[1]
    BY <2>2
  <2> QED
    BY <1>1, <2>3
<1>3. ASSUME Tail(q) # << >>
      PROVE  Tail(q)[Len(Tail(q))] = q[Len(q)]
  <2>1. Len(Tail(q)) \in Nat \ {0}
    BY <1>1, <1>3, EmptySeq
  <2> QED
    BY <1>1, <2>1
<1> QED
  BY <1>2, <1>3

(* A tracker that changes its arming state publishes it in the same step.  *)
LEMMA TrackerFeedbackStep ==
  ASSUME TypeOK, NEW d \in Drones, UNCHANGED mgr,
         \/ Start(d) \/ (\E r \in BOOLEAN : HandleArm(d, r)) \/ HandleDisarm(d)
         \/ HandleTakeoff(d) \/ FleetAbort(d) \/ DepartedCb(d) \/ TiltFault(d)
         \/ Wedge(d) \/ Exit(d) \/ Tick(d) \/ TickPoseTimeout(d)
         \/ TickEnvelopeFault(d) \/ TickSolverFailure(d) \/ TickDownAlone(d)
  PROVE  FeedbackStep
<1>a. trk \in [Drones -> TrackerStates]
  BY DEF TypeOK, TrackerTypeOK
<1>1. CASE Start(d) \/ TiltFault(d)
  BY <1>1 DEF Start, TiltFault, trackerTopics, FeedbackStep, BeliefOf
<1>2. CASE \/ HandleTakeoff(d) \/ DepartedCb(d) \/ Wedge(d) \/ Exit(d) \/ Tick(d)
           \/ TickDownAlone(d)
  <2>1. UNCHANGED feedback
    BY <1>2 DEF HandleTakeoff, DepartedCb, Wedge, Exit, Ends, Tick, TickFly,
                TickDisarmed, TickDownAlone, chanVars, trackerTopics
  <2>2. \A e \in Drones : trk'[e].armed = trk[e].armed
    <3>1. CASE HandleTakeoff(d) \/ DepartedCb(d)
      BY <1>a, <3>1 DEF HandleTakeoff, DepartedCb, TrackerStates
    <3>2. CASE Wedge(d) \/ Exit(d) \/ TickDisarmed(d) \/ TickDownAlone(d)
      BY <1>a, <3>2 DEF Wedge, Exit, Ends, TickDisarmed, TickDownAlone,
                        TrackerStates
    <3>3. CASE TickFly(d)
      <4>1. EdgeReset(trk[d]).armed = trk[d].armed
        BY <1>a DEF EdgeReset, TrackerStates
      <4> QED
        BY <1>a, <3>3, <4>1 DEF TickFly
    <3> QED
      BY <1>2, <3>1, <3>2, <3>3 DEF Tick
  <2> QED
    BY <2>1, <2>2 DEF FeedbackStep, BeliefOf
<1>3. CASE FleetAbort(d) /\ trk[d].aborted
  BY <1>3 DEF FleetAbort, FeedbackStep, BeliefOf
<1>4. CASE \/ \E r \in BOOLEAN : HandleArm(d, r)
           \/ HandleDisarm(d) \/ TickPoseTimeout(d) \/ TickEnvelopeFault(d)
           \/ TickSolverFailure(d) \/ (FleetAbort(d) /\ ~trk[d].aborted)
  <2>1. PublishArmingState(d)
    BY <1>4 DEF HandleArm, HandleDisarm, AnswerDisarm, TickPoseTimeout,
                TickEnvelopeFault, TickSolverFailure, FleetAbort
  <2>2. \A e \in Drones \ {d} : trk'[e] = trk[e]
    BY <1>4, <1>a DEF HandleArm, HandleDisarm, AnswerDisarm, TickPoseTimeout,
                TickEnvelopeFault, Latches, TickSolverFailure, FleetAbort
  <2> QED
    BY <2>1, <2>2 DEF FeedbackStep
<1> QED
  BY <1>1, <1>2, <1>3, <1>4

(* Every step of the fleet is one of these for the arming states.          *)
LEMMA NextFeedbackStep == TypeOK /\ [Next]_vars => FeedbackStep
<1> SUFFICES ASSUME TypeOK, [Next]_vars PROVE FeedbackStep
  OBVIOUS
<1>a. mgr \in MgrStates
  BY DEF TypeOK, MgrTypeOK
<1>b. ASSUME UNCHANGED <<trk, feedback>>, mgr'.drone_armed = mgr.drone_armed
      PROVE  FeedbackStep
  BY <1>b DEF FeedbackStep, BeliefOf
<1>c. ASSUME NEW m, NEW a, NEW keep, ServiceDisarm(m, a, keep), m \in MgrStates
      PROVE  mgr'.drone_armed = m.drone_armed
  BY <1>c DEF ServiceDisarm, MgrStates
<1>d. ASSUME NEW m, NEW reason, EmergencyStop(m, reason), m \in MgrStates
      PROVE  mgr'.drone_armed = m.drone_armed
  BY <1>d DEF EmergencyStop, MgrStates
<1>1. CASE Operator
  <2>1. UNCHANGED <<trk, feedback>>
    BY <1>1 DEF Operator, OperatorArm, OperatorTakeoff, OperatorLand,
                OperatorDisarm, Command_ARM, Command_TAKEOFF, Command_DISARM,
                chanVars, trackerTopics
  <2>2. CASE OperatorArm \/ OperatorLand
    BY <1>a, <1>b, <2>1, <2>2
    DEF OperatorArm, OperatorLand, Command_ARM, mgrVars, MgrStates
  <2>3. CASE OperatorTakeoff
    <3>1. \/ UNCHANGED mgr \/ ServiceDisarm(mgr, arm, TRUE)
          \/ mgr' = [mgr EXCEPT !.flying = TRUE, !.last_estop = NoReason]
      BY <2>3 DEF OperatorTakeoff, Command_TAKEOFF
    <3>2. mgr'.drone_armed = mgr.drone_armed
      BY <1>a, <1>c, <3>1 DEF MgrStates
    <3> QED
      BY <1>b, <2>1, <3>2
  <2>4. ASSUME NEW c \in {"DISARM", "ESTOP"}, OperatorDisarm(c)
        PROVE  FeedbackStep
    BY <1>a, <1>b, <1>d, <2>1, <2>4 DEF OperatorDisarm, Command_DISARM
  <2> QED
    BY <1>1, <2>2, <2>3, <2>4 DEF Operator
<1>2. CASE ManagerRuns \/ ManagerFaults
  <2>1. UNCHANGED trk
    BY <1>2 DEF ManagerRuns, ManagerFaults, ManagerWorks, ManagerOnly,
                ArmTimesOut, PastTheLimit
  <2>2. ASSUME NEW k \in ArmIds, ArmStep(k) \/ ArmTimeout(k)
        PROVE  FeedbackStep
    <3>1. UNCHANGED feedback
      BY <2>2 DEF ArmStep, ArmStart, ArmWait, ArmNoService, ArmSend,
                  ArmCollect, ArmTimeout, ArmCheck, ArmWaitFc, ArmSet,
                  Collected, chanVars, trackerTopics
    <3>2. mgr'.drone_armed = mgr.drone_armed
      <4>1. CASE ArmStart(k) \/ ArmSet(k)
        BY <1>a, <4>1 DEF ArmStart, ArmSet, MgrStates
      <4>2. CASE \/ ArmWait(k) \/ ArmNoService(k) \/ ArmSend(k) \/ ArmCollect(k)
                 \/ ArmTimeout(k) \/ ArmCheck(k) \/ ArmWaitFc(k)
        <5>1. UNCHANGED mgr \/ ServiceDisarm(mgr, Goto(k, "done"), TRUE)
          BY <4>2 DEF ArmWait, ArmNoService, ArmSend, ArmCollect, ArmTimeout,
                      ArmCheck, ArmWaitFc
        <5> QED
          BY <1>a, <1>c, <5>1
      <4> QED
        BY <2>2, <4>1, <4>2 DEF ArmStep
    <3> QED
      BY <1>b, <2>1, <3>1, <3>2
  <2>3. CASE DisarmThread \/ LandFleet \/ PayloadDropped \/ StepTimer \/ Landed
    <3>1. UNCHANGED feedback
      BY <2>3 DEF DisarmThread, LandFleet, PayloadDropped, StepTimer, Landed,
                  trackerTopics
    <3>2. mgr'.drone_armed = mgr.drone_armed
      <4>1. CASE Landed
        <5>1. \/ UNCHANGED mgr
              \/ ServiceDisarm([mgr EXCEPT !.landing = FALSE], arm, FALSE)
          BY <4>1 DEF Landed
        <5>2. /\ [mgr EXCEPT !.landing = FALSE] \in MgrStates
              /\ [mgr EXCEPT !.landing = FALSE].drone_armed = mgr.drone_armed
          BY <1>a DEF MgrStates
        <5> QED
          BY <1>c, <5>1, <5>2
      <4>2. CASE LandFleet
        <5>1. \/ UNCHANGED mgr \/ ServiceDisarm(mgr, arm, TRUE)
              \/ mgr' = [mgr EXCEPT !.landing = TRUE]
          BY <4>2 DEF LandFleet
        <5> QED
          BY <1>a, <1>c, <5>1 DEF MgrStates
      <4>3. CASE DisarmThread \/ PayloadDropped \/ StepTimer
        BY <1>a, <4>3 DEF DisarmThread, PayloadDropped, StepTimer, mgrVars,
                          MgrStates
      <4> QED
        BY <2>3, <4>1, <4>2, <4>3
    <3> QED
      BY <1>b, <2>1, <3>1, <3>2
  <2>4. ASSUME NEW d \in Drones, FcDisarmed(d) \/ LimitBreach(d) \/
                 TiltFaultCallback(d) \/ DownAloneCallback(d) \/
                 DepartedCallback(d) \/ MuxStateCallback(d) \/ AloneReply(d)
        PROVE  FeedbackStep
    <3>1. UNCHANGED feedback
      BY <2>4 DEF FcDisarmed, LimitBreach, TiltFaultCallback,
                  DownAloneCallback, DepartedCallback, MuxStateCallback,
                  AloneReply, Unread, chanVars, trackerTopics
    <3>2. mgr'.drone_armed = mgr.drone_armed
      BY <1>a, <2>4 DEF FcDisarmed, LimitBreach, TiltFaultCallback,
                  DownAloneCallback, DepartedCallback, MuxStateCallback,
                  AloneReply, FaultLand, mgrVars, MgrStates
    <3> QED
      BY <1>b, <2>1, <3>1, <3>2
  <2>5. ASSUME NEW d \in Drones, OnLoadCallback(d)
        PROVE  FeedbackStep
    <3> DEFINE m == [mgr EXCEPT !.on_load[d] = on_load_pub[d]]
    <3>1. UNCHANGED feedback
      BY <2>5 DEF OnLoadCallback
    <3>2. mgr' = m \/ EmergencyStop(m, Reason("on the ring", d))
      BY <2>5 DEF OnLoadCallback
    <3>3. m \in MgrStates /\ m.drone_armed = mgr.drone_armed
      <4>1. on_load_pub[d] \in Flags
        BY DEF TypeOK, ChannelsTypeOK
      <4> QED
        BY <1>a, <4>1 DEF MgrStates
    <3> HIDE DEF m
    <3> QED
      BY <1>b, <1>d, <2>1, <3>1, <3>2, <3>3
  <2>6. ASSUME NEW d \in Drones, ArmingFeedback(d, pl.up)
        PROVE  FeedbackStep
    <3> DEFINE q == feedback[d].mgr
               S == IF Head(q) THEN mgr.drone_armed \union {d}
                               ELSE mgr.drone_armed \ {d}
               m == [mgr EXCEPT !.drone_armed = S]
    <3>1. feedback \in [Drones -> [mgr: Seq(BOOLEAN), pl: Flags]]
      BY DEF TypeOK, ChannelsTypeOK
    <3>2. q # << >> /\ feedback' = [feedback EXCEPT ![d].mgr = Tail(@)]
      BY <2>6 DEF ArmingFeedback
    <3>3. /\ feedback'[d].mgr = Tail(q)
          /\ \A e \in Drones \ {d} : feedback'[e].mgr = feedback[e].mgr
      BY <3>1, <3>2
    <3>4. \/ mgr' = m \/ mgr' = [m EXCEPT !.excused = @ \union {d}]
          \/ ServiceDisarm(m, arm, TRUE)
          \/ EmergencyStop(m, Reason("disarmed", d))
      BY <2>6 DEF ArmingFeedback
    <3>5. m \in MgrStates /\ m.drone_armed = S
      <4>1. S \in SUBSET Drones
        BY <1>a DEF MgrStates
      <4> HIDE DEF S
      <4> QED
        BY <1>a, <4>1 DEF MgrStates
    <3> HIDE DEF m
    <3>6. mgr'.drone_armed = S
      <4>1. CASE mgr' = [m EXCEPT !.excused = @ \union {d}]
        BY <3>5, <4>1 DEF MgrStates
      <4> QED
        BY <1>c, <1>d, <3>4, <3>5, <4>1
    <3> QED
      BY <2>1, <3>2, <3>3, <3>6 DEF FeedbackStep
  <2> QED
    BY <1>2, <2>2, <2>3, <2>4, <2>5, <2>6
    DEF ManagerRuns, ManagerFaults, ManagerWorks, ManagerOnly, MgrStep,
        MgrCallback, ArmTimesOut, PastTheLimit
<1>3. CASE PlannerRuns \/ PlannerFaults
  <2>1. UNCHANGED <<trk, feedback, mgr>>
    BY <1>3 DEF PlannerRuns, PlannerFaults, PlannerWorks, PlannerOnly,
                PlannerHears, PlannerTick, HearStep, FleetCommandLand,
                LandUnheard, HearNewcomerArming, LandTick, DropTick,
                AnnounceOnLoad, EnterPlannerPhase, TellDeparted, FoldIn,
                Detach, DropAndLand, PlannerCrash, mgrVars, chanVars,
                trackerTopics
  <2> QED
    BY <1>b, <2>1
<1>4. ASSUME NEW d \in Drones,
             TrackerRuns(d) \/ TrackerFaults(d) \/ RefStale(d)
      PROVE  FeedbackStep
  <2>1. UNCHANGED mgr
    BY <1>4 DEF TrackerRuns, TrackerFaults, RefStale, TrackerOnly, mgrVars
  <2>2. \/ Start(d) \/ (\E r \in BOOLEAN : HandleArm(d, r)) \/ HandleDisarm(d)
        \/ HandleTakeoff(d) \/ FleetAbort(d) \/ DepartedCb(d) \/ TiltFault(d)
        \/ Wedge(d) \/ Exit(d) \/ Tick(d) \/ TickPoseTimeout(d)
        \/ TickEnvelopeFault(d) \/ TickSolverFailure(d) \/ TickDownAlone(d)
    BY <1>4 DEF TrackerRuns, TrackerFaults, RefStale, TrackerOnly, Serve
  <2> QED
    BY <2>1, <2>2, TrackerFeedbackStep
<1>5. ASSUME NEW d \in Drones, MuxRuns(d) \/ MuxHandsOver(d)
      PROVE  FeedbackStep
  <2>1. UNCHANGED <<trk, feedback, mgr>>
    BY <1>5 DEF MuxRuns, MuxHandsOver, MuxTakes, MuxReleases, MuxAborts,
                MuxCuts, PartnerStream, FcReport, MuxSets, mgrVars,
                trackerTopics
  <2> QED
    BY <1>b, <2>1
<1>6. CASE UNCHANGED vars
  BY <1>b, <1>6 DEF vars, mgrVars, chanVars, trackerTopics
<1> QED
  BY <1>1, <1>2, <1>3, <1>4, <1>5, <1>6 DEF Next

(* Each of them keeps the last message the truth about its drone.          *)
LEMMA FeedbackTruthStep ==
  TypeOK /\ FeedbackTruth /\ [Next]_vars => FeedbackTruth'
<1> SUFFICES ASSUME TypeOK, TypeOK', FeedbackTruth, FeedbackStep,
                    NEW e \in Drones
             PROVE  Believed(e)' = trk'[e].armed
  BY NextFeedbackStep, NextTypes DEF FeedbackTruth
<1>a. Believed(e) = trk[e].armed
  BY DEF FeedbackTruth
<1>1. CASE /\ mgr'.drone_armed = mgr.drone_armed
           /\ \A d \in Drones : BeliefOf(d)' = BeliefOf(d)
  BY <1>a, <1>1 DEF Believed, BeliefOf
<1>2. ASSUME mgr'.drone_armed = mgr.drone_armed, NEW d \in Drones,
             PublishArmingState(d),
             \A c \in Drones \ {d} : trk'[c].armed = trk[c].armed
      PROVE  Believed(e)' = trk'[e].armed
  <2>1. /\ feedback'[d].mgr # << >>
        /\ feedback'[d].mgr[Len(feedback'[d].mgr)] = trk'[d].armed
        /\ \A c \in Drones \ {d} : feedback'[c].mgr = feedback[c].mgr
    BY <1>2, PublishedLast DEF TypeOK
  <2> QED
    BY <1>a, <1>2, <2>1 DEF Believed
<1>3. ASSUME UNCHANGED trk, NEW d \in Drones, NEW q, q = feedback[d].mgr,
             q # << >>, feedback'[d].mgr = Tail(q),
             \A c \in Drones \ {d} : feedback'[c].mgr = feedback[c].mgr,
             mgr'.drone_armed = IF Head(q) THEN mgr.drone_armed \union {d}
                                           ELSE mgr.drone_armed \ {d}
      PROVE  Believed(e)' = trk'[e].armed
  <2>1. CASE e # d
    <3>1. feedback'[e].mgr = feedback[e].mgr /\ trk'[e] = trk[e]
      BY <1>3, <2>1
    <3>2. (e \in mgr'.drone_armed) <=> (e \in mgr.drone_armed)
      <4>1. CASE Head(q)
        BY <1>3, <2>1, <4>1
      <4>2. CASE ~Head(q)
        BY <1>3, <2>1, <4>2
      <4> QED
        BY <4>1, <4>2
    <3> QED
      BY <1>a, <3>1, <3>2 DEF Believed
  <2>2. CASE e = d
    <3>1. q \in Seq(BOOLEAN) /\ trk[d].armed \in BOOLEAN
      BY <1>3 DEF TypeOK, ChannelsTypeOK, TrackerTypeOK, TrackerStates
    <3>2. q[Len(q)] = trk[d].armed
      BY <1>a, <1>3, <2>2 DEF Believed
    <3>3. CASE Tail(q) = << >>
      <4>1. Believed(d)' = (d \in mgr'.drone_armed)
        BY <1>3, <3>3 DEF Believed
      <4>2. (d \in mgr'.drone_armed) <=> Head(q)
        BY <1>3
      <4>3. Head(q) = trk[d].armed
        BY <1>3, <3>1, <3>2, <3>3, TailLast
      <4>5. CASE trk[d].armed = TRUE
        <5>1. (d \in mgr'.drone_armed) = TRUE
          BY <4>2, <4>3, <4>5
        <5> QED
          BY <1>3, <2>2, <4>1, <4>5, <5>1
      <4>6. CASE trk[d].armed = FALSE
        <5>1. d \notin mgr'.drone_armed
          BY <4>2, <4>3, <4>6
        <5>2. (d \in mgr'.drone_armed) = FALSE
          BY <5>1
        <5> QED
          BY <1>3, <2>2, <4>1, <4>6, <5>2
      <4> QED
        BY <3>1, <4>5, <4>6
    <3>4. CASE Tail(q) # << >>
      <4>1. Tail(q)[Len(Tail(q))] = trk[d].armed
        BY <1>3, <3>1, <3>2, <3>4, TailLast
      <4>2. Believed(d)' = Tail(q)[Len(Tail(q))]
        BY <1>3, <3>4 DEF Believed
      <4> QED
        BY <1>3, <2>2, <4>1, <4>2
    <3> QED
      BY <3>3, <3>4
  <2> QED
    BY <2>1, <2>2
<1> QED
  BY <1>1, <1>2, <1>3 DEF FeedbackStep

(* However many arming states a full queue drops, and in whatever order    *)
(* ARM sequences, disarms and faults publish them: once the manager has    *)
(* read what waits, it believes of each drone what is true.                *)
THEOREM FeedbackIsTrue == Spec => []FeedbackTruth
<1>1. Init => FeedbackTruth
  <2> SUFFICES ASSUME Init, NEW d \in Drones PROVE Believed(d) = trk[d].armed
    BY DEF FeedbackTruth
  <2>1. feedback[d].mgr = << >> /\ mgr.drone_armed = {}
    BY DEF Init, ChannelsInit, MgrInit
  <2>2. trk[d].armed = FALSE
    BY DEF Init, TrackerInit, FreshTracker
  <2>3. Believed(d) = FALSE
    BY <2>1 DEF Believed
  <2> QED
    BY <2>2, <2>3
<1>2. TypeOK /\ FeedbackTruth /\ [Next]_vars => FeedbackTruth'
  BY FeedbackTruthStep
<1> QED
  BY <1>1, <1>2, TypeCorrect, PTL DEF Spec

-----------------------------------------------------------------------------
(* The disarm of a drone let go is its own.                                *)

(* The inductive invariant: who the manager believes let go, and so who it *)
(* disarms alone, the planner has let go and told so; a drone let go stays *)
(* off the ring; and no emergency stop is latched while the fleet flies.   *)
AloneInv ==
  /\ departed_mgr \subseteq pl.departed_sent
  /\ mgr.off_ring \subseteq pl.departed_sent
  /\ mgr.down_alone \subseteq mgr.off_ring
  /\ pl.departed_sent \subseteq pl.detached
  /\ \A d \in pl.detached : on_load_pub[d] # "T" \/ pl.drop
  /\ mgr.flying => mgr.last_estop = NoReason
  /\ \A d \in mgr.down_alone : mgr.last_estop # Reason("disarmed", d)

(* Steps that leave all of it alone; the manager's disarms and emergency   *)
(* stops, for any reason but the disarm of a drone disarmed alone.         *)
SameAlone(m) ==
  /\ m.off_ring = mgr.off_ring /\ m.down_alone = mgr.down_alone
  /\ m.flying = mgr.flying /\ m.last_estop = mgr.last_estop

(* A step that changes none of what the invariant reads keeps it, the     *)
(* operator's presses and most ticks among them.                           *)
LEMMA AloneKept ==
  ASSUME AloneInv, SameAlone(mgr'), UNCHANGED <<pl, on_load_pub, departed_mgr>>
  PROVE  AloneInv'
BY DEF AloneInv, SameAlone

(* A disarm through the services grounds the fleet and blames nobody.      *)
LEMMA ServiceDisarmAlone ==
  ASSUME AloneInv, NEW m \in MgrStates, SameAlone(m), NEW a, NEW keep,
         ServiceDisarm(m, a, keep), UNCHANGED <<pl, on_load_pub, departed_mgr>>
  PROVE  AloneInv'
<1>1. /\ mgr'.off_ring = mgr.off_ring /\ mgr'.down_alone = mgr.down_alone
      /\ mgr'.flying = FALSE /\ mgr'.last_estop = mgr.last_estop
  BY DEF ServiceDisarm, SameAlone, MgrStates
<1> QED
  BY <1>1 DEF AloneInv

(* An emergency stop grounds it for a reason that is not such a drone.     *)
LEMMA EmergencyStopAlone ==
  ASSUME AloneInv, NEW m \in MgrStates, SameAlone(m), NEW reason,
         \A d \in mgr.down_alone : reason # Reason("disarmed", d),
         EmergencyStop(m, reason), UNCHANGED <<pl, on_load_pub, departed_mgr>>
  PROVE  AloneInv'
<1>1. CASE mgr' = m
  BY <1>1, AloneKept
<1>2. CASE mgr' = [m EXCEPT !.flying = FALSE, !.fleet_armed = FALSE,
                            !.shutdown = FALSE, !.last_estop = reason]
  <2>1. /\ mgr'.off_ring = mgr.off_ring /\ mgr'.down_alone = mgr.down_alone
        /\ mgr'.flying = FALSE /\ mgr'.last_estop = reason
    BY <1>2 DEF SameAlone, MgrStates
  <2> QED
    BY <2>1 DEF AloneInv
<1> QED
  BY <1>1, <1>2 DEF EmergencyStop

(* The operator: an ARM starts afresh, a TAKEOFF clears the last reason.   *)
LEMMA OperatorAlone ==
  ASSUME TypeOK, AloneInv, Operator
  PROVE  AloneInv'
<1>a. mgr \in MgrStates /\ SameAlone(mgr)
  BY DEF TypeOK, MgrTypeOK, SameAlone
<1>b. UNCHANGED <<pl, on_load_pub, departed_mgr>>
  BY DEF Operator, OperatorArm, OperatorTakeoff, OperatorLand, OperatorDisarm,
         Command_ARM, Command_TAKEOFF, Command_DISARM, chanVars, plannerTopics
<1>1. CASE OperatorArm
  <2>1. /\ mgr'.off_ring = {} /\ mgr'.down_alone = {}
        /\ mgr'.last_estop = NoReason
    BY <1>a, <1>1 DEF OperatorArm, Command_ARM, MgrStates
  <2> QED
    BY <1>b, <2>1 DEF AloneInv
<1>2. CASE OperatorTakeoff
  <2>1. CASE UNCHANGED mgr
    BY <1>a, <1>b, <2>1, AloneKept
  <2>2. CASE ServiceDisarm(mgr, arm, TRUE)
    BY <1>a, <1>b, <2>2, ServiceDisarmAlone
  <2>3. CASE mgr' = [mgr EXCEPT !.flying = TRUE, !.last_estop = NoReason]
    <3>1. /\ mgr'.off_ring = mgr.off_ring /\ mgr'.down_alone = mgr.down_alone
          /\ mgr'.last_estop = NoReason
      BY <1>a, <2>3 DEF MgrStates
    <3>2. \A d \in mgr.down_alone : NoReason # Reason("disarmed", d)
      BY DEF NoReason, Reason
    <3> QED
      BY <1>b, <3>1, <3>2 DEF AloneInv
  <2> QED
    BY <1>2, <2>1, <2>2, <2>3 DEF OperatorTakeoff, Command_TAKEOFF
<1>3. CASE OperatorLand
  BY <1>a, <1>b, <1>3, AloneKept DEF OperatorLand, mgrVars
<1>4. ASSUME NEW c \in {"DISARM", "ESTOP"}, OperatorDisarm(c)
      PROVE  AloneInv'
  <2>1. \A d \in mgr.down_alone : Reason(c, N) # Reason("disarmed", d)
    BY <1>4 DEF Reason
  <2> QED
    BY <1>a, <1>b, <1>4, <2>1, EmergencyStopAlone
    DEF OperatorDisarm, Command_DISARM
<1> QED
  BY <1>1, <1>2, <1>3, <1>4 DEF Operator

(* An ARM sequence only ever disarms through the services.                 *)
LEMMA ArmAlone ==
  ASSUME TypeOK, AloneInv, NEW k \in ArmIds, ArmStep(k) \/ ArmTimeout(k),
         UNCHANGED pl
  PROVE  AloneInv'
<1>a. mgr \in MgrStates /\ SameAlone(mgr)
  BY DEF TypeOK, MgrTypeOK, SameAlone
<1>b. UNCHANGED <<pl, on_load_pub, departed_mgr>>
  BY DEF ArmStep, ArmStart, ArmWait, ArmNoService, ArmSend, ArmCollect,
         ArmTimeout, ArmCheck, ArmWaitFc, ArmSet, Collected, chanVars,
         plannerTopics
<1>1. CASE ArmStart(k) \/ ArmSet(k)
  <2>1. SameAlone(mgr')
    BY <1>a, <1>1 DEF ArmStart, ArmSet, SameAlone, MgrStates
  <2> QED
    BY <1>b, <2>1, AloneKept
<1>2. CASE \/ ArmWait(k) \/ ArmNoService(k) \/ ArmSend(k) \/ ArmCollect(k)
           \/ ArmTimeout(k) \/ ArmCheck(k) \/ ArmWaitFc(k)
  <2>1. UNCHANGED mgr \/ ServiceDisarm(mgr, Goto(k, "done"), TRUE)
    BY <1>2 DEF ArmWait, ArmNoService, ArmSend, ArmCollect, ArmTimeout,
                ArmCheck, ArmWaitFc
  <2> QED
    BY <1>a, <1>b, <2>1, AloneKept, ServiceDisarmAlone
<1> QED
  BY <1>1, <1>2 DEF ArmStep

(* A callback: the two that extend the sets, and the two that may stop.    *)
LEMMA CallbackAlone ==
  ASSUME TypeOK, AloneInv, NEW d \in Drones, UNCHANGED pl,
         MgrCallback(d, pl.up) \/ FcDisarmed(d) \/ LimitBreach(d)
  PROVE  AloneInv'
<1>a. mgr \in MgrStates /\ SameAlone(mgr)
  BY DEF TypeOK, MgrTypeOK, SameAlone
<1>1. CASE ArmingFeedback(d, pl.up)
  <2> DEFINE S == IF Head(feedback[d].mgr) THEN mgr.drone_armed \union {d}
                                           ELSE mgr.drone_armed \ {d}
             m == [mgr EXCEPT !.drone_armed = S]
  <2>1. UNCHANGED <<pl, on_load_pub, departed_mgr>>
    BY <1>1 DEF ArmingFeedback
  <2>2. m \in MgrStates /\ SameAlone(m)
    <3>1. S \in SUBSET Drones
      BY <1>a DEF MgrStates
    <3> HIDE DEF S
    <3> QED
      BY <1>a, <3>1 DEF MgrStates, SameAlone
  <2>3. \/ mgr' = m \/ mgr' = [m EXCEPT !.excused = @ \union {d}]
        \/ ServiceDisarm(m, arm, TRUE)
        \/ Lost(d) /\ EmergencyStop(m, Reason("disarmed", d))
    BY <1>1 DEF ArmingFeedback
  <2> HIDE DEF m
  <2>4. CASE mgr' = m \/ mgr' = [m EXCEPT !.excused = @ \union {d}]
    <3>1. SameAlone(mgr')
      BY <2>2, <2>4 DEF SameAlone, MgrStates
    <3> QED
      BY <2>1, <3>1, AloneKept
  <2>5. CASE ServiceDisarm(m, arm, TRUE)
    BY <2>1, <2>2, <2>5, ServiceDisarmAlone
  <2>6. CASE Lost(d) /\ EmergencyStop(m, Reason("disarmed", d))
    <3>1. \A e \in mgr.down_alone : Reason("disarmed", d) # Reason("disarmed", e)
      BY <2>6 DEF Lost, Reason
    <3> QED
      BY <2>1, <2>2, <2>6, <3>1, EmergencyStopAlone
  <2> QED
    BY <2>3, <2>4, <2>5, <2>6
<1>2. CASE OnLoadCallback(d)
  <2> DEFINE m == [mgr EXCEPT !.on_load[d] = on_load_pub[d]]
  <2>1. UNCHANGED <<pl, on_load_pub, departed_mgr>>
    BY <1>2 DEF OnLoadCallback, plannerTopics
  <2>2. m \in MgrStates /\ SameAlone(m)
    <3>1. on_load_pub[d] \in Flags
      BY DEF TypeOK, ChannelsTypeOK
    <3> QED
      BY <1>a, <3>1 DEF MgrStates, SameAlone
  <2>3. mgr' = m \/ EmergencyStop(m, Reason("on the ring", d))
    BY <1>2 DEF OnLoadCallback
  <2> HIDE DEF m
  <2>4. \A e \in mgr.down_alone :
          Reason("on the ring", d) # Reason("disarmed", e)
    BY DEF Reason
  <2> QED
    BY <2>1, <2>2, <2>3, <2>4, AloneKept, EmergencyStopAlone
<1>3. CASE \/ MuxStateCallback(d) \/ AloneReply(d) \/ TiltFaultCallback(d)
           \/ FcDisarmed(d) \/ LimitBreach(d)
  <2>1. UNCHANGED <<pl, on_load_pub, departed_mgr>>
    BY <1>3 DEF MuxStateCallback, AloneReply, TiltFaultCallback, FcDisarmed,
                LimitBreach, Unread, chanVars, plannerTopics
  <2>2. SameAlone(mgr')
    BY <1>a, <1>3 DEF MuxStateCallback, AloneReply, TiltFaultCallback,
                FcDisarmed, LimitBreach, FaultLand, mgrVars, SameAlone,
                MgrStates
  <2> QED
    BY <2>1, <2>2, AloneKept
<1>4. CASE DepartedCallback(d)
  <2>1. /\ d \in departed_mgr /\ departed_mgr' = departed_mgr \ {d}
        /\ UNCHANGED on_load_pub
        /\ mgr' = mgr \/ mgr' = [mgr EXCEPT !.off_ring = @ \union {d}]
    BY <1>4 DEF DepartedCallback
  <2>2. /\ mgr'.off_ring \subseteq mgr.off_ring \union {d}
        /\ mgr.off_ring \subseteq mgr'.off_ring
        /\ mgr'.down_alone = mgr.down_alone /\ mgr'.flying = mgr.flying
        /\ mgr'.last_estop = mgr.last_estop
    BY <1>a, <2>1 DEF MgrStates
  <2> QED
    BY <2>1, <2>2 DEF AloneInv
<1>5. CASE DownAloneCallback(d)
  <2>1. UNCHANGED <<pl, on_load_pub, departed_mgr>>
    BY <1>5 DEF DownAloneCallback, plannerTopics
  <2>2. CASE UNCHANGED mgr
    BY <1>a, <2>1, <2>2, AloneKept
  <2>3. CASE MayDisarmAlone(d)
    <3>1. d \in mgr.off_ring /\ mgr.flying
      BY <2>3 DEF MayDisarmAlone
    <3>2. /\ mgr'.off_ring = mgr.off_ring
          /\ mgr'.down_alone = mgr.down_alone \union {d}
          /\ mgr'.flying = mgr.flying /\ mgr'.last_estop = mgr.last_estop
      BY <1>a, <1>5, <2>3 DEF DownAloneCallback, MgrStates
    <3>3. mgr.last_estop # Reason("disarmed", d)
      BY <3>1 DEF AloneInv, NoReason, Reason
    <3> QED
      BY <2>1, <3>1, <3>2, <3>3 DEF AloneInv
  <2> QED
    BY <1>5, <2>2, <2>3 DEF DownAloneCallback
<1> QED
  BY <1>1, <1>2, <1>3, <1>4, <1>5 DEF MgrCallback

(* The rest of the manager.                                                *)
LEMMA ManagerAlone ==
  ASSUME TypeOK, AloneInv, ManagerRuns \/ ManagerFaults
  PROVE  AloneInv'
<1>a. mgr \in MgrStates /\ SameAlone(mgr)
  BY DEF TypeOK, MgrTypeOK, SameAlone
<1>b. UNCHANGED pl
  BY DEF ManagerRuns, ManagerFaults, ManagerWorks, ManagerOnly, ArmTimesOut,
         PastTheLimit
<1>1. CASE DisarmThread \/ LandFleet \/ PayloadDropped \/ StepTimer \/ Landed
  <2>1. UNCHANGED <<pl, on_load_pub, departed_mgr>>
    BY <1>b, <1>1 DEF DisarmThread, LandFleet, PayloadDropped, StepTimer,
                      Landed, plannerTopics
  <2>2. CASE Landed
    <3>1. UNCHANGED mgr \/ ServiceDisarm([mgr EXCEPT !.landing = FALSE], arm, FALSE)
      BY <2>2 DEF Landed
    <3>2. /\ [mgr EXCEPT !.landing = FALSE] \in MgrStates
          /\ SameAlone([mgr EXCEPT !.landing = FALSE])
      BY <1>a DEF MgrStates, SameAlone
    <3> QED
      BY <1>a, <2>1, <3>1, <3>2, AloneKept, ServiceDisarmAlone
  <2>3. CASE LandFleet
    <3>1. SameAlone(mgr') \/ ServiceDisarm(mgr, arm, TRUE)
      BY <1>a, <2>3 DEF LandFleet, SameAlone, MgrStates
    <3> QED
      BY <1>a, <2>1, <3>1, AloneKept, ServiceDisarmAlone
  <2>4. CASE DisarmThread \/ PayloadDropped \/ StepTimer
    <3>1. SameAlone(mgr')
      BY <1>a, <2>4 DEF DisarmThread, PayloadDropped, StepTimer, mgrVars,
                        SameAlone, MgrStates
    <3> QED
      BY <2>1, <3>1, AloneKept
  <2> QED
    BY <1>1, <2>2, <2>3, <2>4
<1> QED
  BY <1>b, <1>1, ArmAlone, CallbackAlone
  DEF ManagerRuns, ManagerFaults, ManagerWorks, ManagerOnly, MgrStep,
      ArmTimesOut, PastTheLimit

(* The planner: what it lets go it tells, and never welds on again.        *)
LEMMA PlannerAlone ==
  ASSUME TypeOK, AloneInv, PlannerRuns \/ PlannerFaults
  PROVE  AloneInv'
<1>a. pl \in PlannerStates /\ on_load_pub \in [Drones -> Flags]
  BY DEF TypeOK, PlannerTypeOK, ChannelsTypeOK
<1>b. UNCHANGED mgr
  BY DEF PlannerRuns, PlannerFaults, PlannerWorks, PlannerOnly, mgrVars
<1>1. CASE PlannerHears \/ LandTick \/ DropTick \/ EnterPlannerPhase \/ PlannerCrash
  <2>1. UNCHANGED <<on_load_pub, departed_mgr>>
    BY <1>1 DEF PlannerHears, HearStep, FleetCommandLand, LandUnheard,
                HearNewcomerArming, LandTick, DropTick, EnterPlannerPhase,
                PlannerCrash, chanVars, plannerTopics
  <2>2. /\ pl'.departed_sent = pl.departed_sent /\ pl'.detached = pl.detached
        /\ pl'.drop = pl.drop
    BY <1>a, <1>1 DEF PlannerHears, HearStep, FleetCommandLand, LandUnheard,
                HearNewcomerArming, LandTick, DropTick, EnterPlannerPhase,
                PlannerCrash, PlannerStates
  <2> QED
    BY <1>b, <2>1, <2>2 DEF AloneInv
<1>2. CASE AnnounceOnLoad
  <2>1. UNCHANGED <<pl, departed_mgr>>
    BY <1>2 DEF AnnounceOnLoad
  <2>2. \A d \in Drones : on_load_pub[d] # "T" => on_load_pub'[d] # "T"
    BY <1>2, <1>a DEF AnnounceOnLoad
  <2>3. pl.detached \subseteq Drones
    BY <1>a DEF PlannerStates
  <2> QED
    BY <1>b, <2>1, <2>2, <2>3 DEF AloneInv
<1>3. ASSUME NEW d \in Drones, FoldIn(d)
      PROVE  AloneInv'
  <2>1. UNCHANGED <<pl, departed_mgr>> /\ d \notin pl.detached
    BY <1>3 DEF FoldIn
  <2>2. \A e \in Drones \ {d} : on_load_pub'[e] = on_load_pub[e]
    BY <1>3, <1>a DEF FoldIn
  <2>3. pl.detached \subseteq Drones
    BY <1>a DEF PlannerStates
  <2> QED
    BY <1>b, <2>1, <2>2, <2>3 DEF AloneInv
<1>4. ASSUME NEW d \in Drones, Detach(d)
      PROVE  AloneInv'
  <2>1. /\ UNCHANGED departed_mgr
        /\ pl'.detached = pl.detached \union {d} /\ pl'.drop = pl.drop
        /\ pl'.departed_sent = pl.departed_sent
    BY <1>4, <1>a DEF Detach, PlannerStates
  <2>2. /\ on_load_pub'[d] # "T"
        /\ \A e \in Drones \ {d} : on_load_pub'[e] = on_load_pub[e]
    BY <1>4, <1>a DEF Detach
  <2>3. pl.detached \subseteq Drones
    BY <1>a DEF PlannerStates
  <2> QED
    BY <1>b, <2>1, <2>2, <2>3 DEF AloneInv
<1>5. ASSUME NEW d \in Drones, TellDeparted(d)
      PROVE  AloneInv'
  <2>1. /\ departed_mgr' = departed_mgr \union {d} /\ d \in pl.detached
        /\ UNCHANGED on_load_pub
    BY <1>5 DEF TellDeparted
  <2>2. /\ pl'.departed_sent = pl.departed_sent \union {d}
        /\ pl'.detached = pl.detached /\ pl'.drop = pl.drop
    BY <1>5, <1>a DEF TellDeparted, PlannerStates
  <2> QED
    BY <1>b, <2>1, <2>2 DEF AloneInv
<1>6. CASE DropAndLand
  <2>1. UNCHANGED <<on_load_pub, departed_mgr>>
    BY <1>6 DEF DropAndLand
  <2>2. /\ pl'.departed_sent = pl.departed_sent /\ pl'.detached = Drones
        /\ pl'.drop = TRUE /\ pl.departed_sent \subseteq Drones
    BY <1>a, <1>6 DEF DropAndLand, PlannerStates
  <2> QED
    BY <1>b, <2>1, <2>2 DEF AloneInv
<1> QED
  BY <1>1, <1>2, <1>3, <1>4, <1>5, <1>6
  DEF PlannerRuns, PlannerFaults, PlannerWorks, PlannerOnly, PlannerTick

(* The invariant is inductive ...                                          *)
LEMMA AloneStep == TypeOK /\ AloneInv /\ [Next]_vars => AloneInv'
<1> SUFFICES ASSUME TypeOK, AloneInv, [Next]_vars PROVE AloneInv'
  OBVIOUS
<1>a. SameAlone(mgr)
  BY DEF SameAlone
<1>1. ASSUME NEW d \in Drones,
             \/ TrackerRuns(d) \/ TrackerFaults(d) \/ RefStale(d)
             \/ MuxRuns(d) \/ MuxHandsOver(d)
      PROVE  AloneInv'
  <2>1. CASE TrackerRuns(d) \/ TrackerFaults(d) \/ RefStale(d)
    <3>1. UNCHANGED <<mgr, pl>>
      BY <2>1 DEF TrackerRuns, TrackerFaults, RefStale, TrackerOnly, mgrVars
    <3>2. UNCHANGED <<on_load_pub, departed_mgr>>
      BY <2>1 DEF TrackerRuns, TrackerFaults, RefStale, TrackerOnly, Serve,
                Start, HandleArm, HandleDisarm, AnswerDisarm, HandleTakeoff,
                FleetAbort, DepartedCb, TiltFault, Wedge, Exit, Ends, Tick,
                TickFly, TickDisarmed, TickPoseTimeout, TickEnvelopeFault,
                Latches, TickSolverFailure, TickDownAlone, OnlyTicks, chanVars,
                plannerTopics
    <3> QED
      BY <1>a, <3>1, <3>2, AloneKept
  <2>2. CASE MuxRuns(d) \/ MuxHandsOver(d)
    <3>1. UNCHANGED <<mgr, pl, on_load_pub, departed_mgr>>
      BY <2>2 DEF MuxRuns, MuxHandsOver, MuxTakes, MuxReleases, MuxAborts,
                MuxCuts, PartnerStream, FcReport, MuxSets, mgrVars,
                plannerTopics
    <3> QED
      BY <1>a, <3>1, AloneKept
  <2> QED
    BY <1>1, <2>1, <2>2
<1>2. CASE UNCHANGED vars
  BY <1>a, <1>2, AloneKept DEF vars, mgrVars, chanVars, plannerTopics
<1> QED
  BY <1>1, <1>2, OperatorAlone, ManagerAlone, PlannerAlone DEF Next

(* ... and implies the property.                                           *)
LEMMA AloneFollows == AloneInv => AloneIsItsOwn
BY DEF AloneInv, AloneIsItsOwn

(* For any fleet and any faults, a drone that the manager disarms alone    *)
(* was let go by the planner and carries nothing, and its disarm is never  *)
(* the reason of an emergency stop.                                        *)
THEOREM AloneIsSafe == Spec => []AloneIsItsOwn
<1>1. Init => AloneInv
  BY DEF Init, ChannelsInit, MgrInit, PlannerInit, AloneInv
<1>2. TypeOK /\ AloneInv /\ [Next]_vars => AloneInv'
  BY AloneStep
<1> QED
  BY <1>1, <1>2, AloneFollows, TypeCorrect, PTL DEF Spec

(* The same for a fleet that starts in the air.                            *)
THEOREM AloneIsSafeInFlight == SpecInFlight => []AloneIsItsOwn
<1>1. InitInFlight => AloneInv
  BY DEF InitInFlight, AloneInv
<1>2. TypeOK /\ AloneInv /\ [Next]_vars => AloneInv'
  BY AloneStep
<1> QED
  BY <1>1, <1>2, AloneFollows, TypeCorrectInFlight, PTL DEF SpecInFlight

-----------------------------------------------------------------------------
(* A drone without a mux: its carrier's disarm is never lost in flight, and *)
(* an emergency stop reaches its radio even if its tracker answers nothing. *)
Carriers == Drones \ Newcomers

(* The inductive invariant: no mux ever speaks for a carrier, and one that *)
(* flies is believed armed, excused or disarmed alone.                     *)
CarrierFlies(d) ==
  d \in mgr.drone_armed \/ d \in mgr.excused \/ d \in mgr.down_alone
CarrierInv ==
  \A d \in Carriers :
    /\ mux[d] = "none" /\ mgr.mux_state[d] = "none"
    /\ mgr.flying => CarrierFlies(d)

(* Steps that keep what it reads, or only add to who is accounted for, and *)
(* steps that ground the fleet.                                            *)
SameCarriers(m) ==
  /\ m.flying = mgr.flying /\ m.drone_armed = mgr.drone_armed
  /\ m.mux_state = mgr.mux_state
  /\ mgr.excused \subseteq m.excused /\ mgr.down_alone \subseteq m.down_alone

LEMMA CarriersKept ==
  ASSUME CarrierInv, SameCarriers(mgr'),
         \A d \in Carriers : mux'[d] = mux[d]
  PROVE  CarrierInv'
<1>1. Carriers' = Carriers
  BY DEF Carriers
<1> QED
  BY <1>1 DEF CarrierInv, SameCarriers, CarrierFlies

LEMMA CarriersGrounded ==
  ASSUME CarrierInv, mgr'.flying = FALSE, mgr'.mux_state = mgr.mux_state,
         UNCHANGED mux
  PROVE  CarrierInv'
<1>1. Carriers' = Carriers
  BY DEF Carriers
<1> QED
  BY <1>1 DEF CarrierInv

LEMMA ServiceDisarmCarriers ==
  ASSUME CarrierInv, NEW m \in MgrStates, m.mux_state = mgr.mux_state, NEW a,
         NEW keep, ServiceDisarm(m, a, keep), UNCHANGED mux
  PROVE  CarrierInv'
<1>1. mgr'.flying = FALSE /\ mgr'.mux_state = mgr.mux_state
  BY DEF ServiceDisarm, MgrStates
<1> QED
  BY <1>1, CarriersGrounded

(* An emergency stop for a reason that was the last already meets a fleet  *)
(* that does not fly.                                                      *)
LEMMA EmergencyStopCarriers ==
  ASSUME AloneInv, CarrierInv, NEW m \in MgrStates,
         m.mux_state = mgr.mux_state, m.flying = mgr.flying,
         m.last_estop = mgr.last_estop, NEW reason, reason # NoReason,
         EmergencyStop(m, reason), UNCHANGED mux
  PROVE  CarrierInv'
<1>1. m.flying \in BOOLEAN
  BY DEF MgrStates
<1>2. mgr'.mux_state = mgr.mux_state
  BY DEF EmergencyStop, MgrStates
<1>3. mgr'.flying = FALSE
  <2>1. CASE m.last_estop = reason /\ mgr' = m
    BY <1>1, <2>1 DEF AloneInv
  <2>2. CASE mgr' = [m EXCEPT !.flying = FALSE, !.fleet_armed = FALSE,
                              !.shutdown = FALSE, !.last_estop = reason]
    BY <2>2 DEF MgrStates
  <2> QED
    BY <2>1, <2>2 DEF EmergencyStop
<1> QED
  BY <1>2, <1>3, CarriersGrounded

(* TAKEOFF wants every drone armed; an ARM is for a fleet on the floor.    *)
LEMMA OperatorCarriers ==
  ASSUME TypeOK, AloneInv, CarrierInv, Operator
  PROVE  CarrierInv'
<1>a. mgr \in MgrStates /\ SameCarriers(mgr)
  BY DEF TypeOK, MgrTypeOK, SameCarriers
<1>b. UNCHANGED mux
  BY DEF Operator, OperatorArm, OperatorTakeoff, OperatorLand, OperatorDisarm,
         Command_ARM, Command_TAKEOFF, Command_DISARM, chanVars, muxTopics
<1>1. CASE OperatorArm
  <2>1. mgr'.flying = FALSE /\ mgr'.mux_state = mgr.mux_state
    BY <1>a, <1>1 DEF OperatorArm, Command_ARM, MgrStates
  <2> QED
    BY <1>b, <2>1, CarriersGrounded
<1>2. CASE OperatorTakeoff
  <2>1. CASE UNCHANGED mgr
    BY <1>a, <1>b, <2>1, CarriersKept
  <2>2. CASE ServiceDisarm(mgr, arm, TRUE)
    BY <1>a, <1>b, <2>2, ServiceDisarmCarriers
  <2>3. CASE Ready /\ mgr' = [mgr EXCEPT !.flying = TRUE, !.last_estop = NoReason]
    <3>1. mgr'.drone_armed = Drones /\ mgr'.mux_state = mgr.mux_state
      BY <1>a, <2>3 DEF Ready, MgrStates
    <3> QED
      BY <1>b, <3>1 DEF CarrierInv, CarrierFlies, Carriers
  <2> QED
    BY <1>2, <2>1, <2>2, <2>3 DEF OperatorTakeoff, Command_TAKEOFF
<1>3. CASE OperatorLand
  BY <1>a, <1>b, <1>3, CarriersKept DEF OperatorLand, mgrVars
<1>4. ASSUME NEW c \in {"DISARM", "ESTOP"}, OperatorDisarm(c)
      PROVE  CarrierInv'
  <2>1. Reason(c, N) # NoReason
    BY <1>4 DEF Reason, NoReason
  <2> QED
    BY <1>a, <1>b, <1>4, <2>1, EmergencyStopCarriers
    DEF OperatorDisarm, Command_DISARM
<1> QED
  BY <1>1, <1>2, <1>3, <1>4 DEF Operator

(* A carrier's disarm, read in flight: its own, excused, or the end of it. *)
LEMMA FeedbackCarriers ==
  ASSUME TypeOK, AloneInv, CarrierInv, NEW d \in Drones,
         ArmingFeedback(d, pl.up)
  PROVE  CarrierInv'
<1> DEFINE S == IF Head(feedback[d].mgr) THEN mgr.drone_armed \union {d}
                                         ELSE mgr.drone_armed \ {d}
           m == [mgr EXCEPT !.drone_armed = S]
           his == Partner(mgr.mux_state[d])
<1>a. mgr \in MgrStates
  BY DEF TypeOK, MgrTypeOK
<1>b. S \in SUBSET Drones
  BY <1>a DEF MgrStates
<1>c. UNCHANGED mux
  BY DEF ArmingFeedback
<1>d. \/ /\ ~Lost(d) \/ (~mgr.flying /\ ~mgr.fleet_armed) \/ (mgr.flying /\ his)
         /\ mgr' = m
      \/ ServiceDisarm(m, arm, TRUE)
      \/ mgr' = [m EXCEPT !.excused = @ \union {d}]
      \/ EmergencyStop(m, Reason("disarmed", d))
  BY DEF ArmingFeedback
<1>e. ~Lost(d) => d \in S \/ d \notin mgr.drone_armed \/ d \in mgr.down_alone
  BY DEF Lost
<1>f. \A e \in Drones \ {d} : e \in S <=> e \in mgr.drone_armed
  OBVIOUS
<1> HIDE DEF S
<1>g. /\ m \in MgrStates /\ m.drone_armed = S /\ m.flying = mgr.flying
      /\ m.mux_state = mgr.mux_state /\ m.excused = mgr.excused
      /\ m.down_alone = mgr.down_alone /\ m.last_estop = mgr.last_estop
  BY <1>a, <1>b DEF MgrStates
<1> HIDE DEF m
<1>1. CASE /\ ~Lost(d) \/ (~mgr.flying /\ ~mgr.fleet_armed) \/ (mgr.flying /\ his)
           /\ mgr' = m
  <2>1. ASSUME NEW e \in Carriers, mgr.flying
        PROVE  CarrierFlies(e)'
    <3>1. CarrierFlies(e) /\ mgr.mux_state[e] = "none"
      BY <2>1 DEF CarrierInv
    <3>2. CASE e # d
      BY <1>1, <1>f, <1>g, <3>1, <3>2 DEF CarrierFlies, Carriers
    <3>3. CASE e = d
      <4>1. ~Lost(d)
        BY <1>1, <2>1, <3>1, <3>3 DEF Partner
      <4> QED
        BY <1>1, <1>e, <1>g, <3>1, <3>3, <4>1 DEF CarrierFlies
    <3> QED
      BY <3>2, <3>3
  <2>2. Carriers' = Carriers
    BY DEF Carriers
  <2> QED
    BY <1>1, <1>c, <1>g, <2>1, <2>2 DEF CarrierInv
<1>2. CASE ServiceDisarm(m, arm, TRUE)
  BY <1>2, <1>c, <1>g, ServiceDisarmCarriers
<1>3. CASE mgr' = [m EXCEPT !.excused = @ \union {d}]
  <2>1. /\ mgr'.drone_armed = S /\ mgr'.flying = mgr.flying
        /\ mgr'.mux_state = mgr.mux_state
        /\ mgr'.excused = mgr.excused \union {d}
        /\ mgr'.down_alone = mgr.down_alone
    BY <1>3, <1>g DEF MgrStates
  <2>2. Carriers' = Carriers /\ Carriers \subseteq Drones
    BY DEF Carriers
  <2> QED
    BY <1>c, <1>f, <2>1, <2>2 DEF CarrierInv, CarrierFlies
<1>4. CASE EmergencyStop(m, Reason("disarmed", d))
  <2>1. Reason("disarmed", d) # NoReason
    BY DEF Reason, NoReason
  <2> QED
    BY <1>4, <1>c, <1>g, <2>1, EmergencyStopCarriers
<1> QED
  BY <1>d, <1>1, <1>2, <1>3, <1>4

(* The rest of the manager.                                                *)
LEMMA ManagerCarriers ==
  ASSUME TypeOK, AloneInv, CarrierInv, ManagerRuns \/ ManagerFaults
  PROVE  CarrierInv'
<1>a. mgr \in MgrStates /\ SameCarriers(mgr)
  BY DEF TypeOK, MgrTypeOK, SameCarriers
<1>1. ASSUME NEW k \in ArmIds, ArmStep(k) \/ ArmTimeout(k)
      PROVE  CarrierInv'
  <2>1. UNCHANGED mux
    BY <1>1 DEF ArmStep, ArmStart, ArmWait, ArmNoService, ArmSend, ArmCollect,
                ArmTimeout, ArmCheck, ArmWaitFc, ArmSet, Collected, chanVars,
                muxTopics
  <2>2. CASE ArmStart(k) \/ ArmSet(k)
    <3>1. SameCarriers(mgr')
      BY <1>a, <2>2 DEF ArmStart, ArmSet, SameCarriers, MgrStates
    <3> QED
      BY <2>1, <3>1, CarriersKept
  <2>3. CASE \/ ArmWait(k) \/ ArmNoService(k) \/ ArmSend(k) \/ ArmCollect(k)
             \/ ArmTimeout(k) \/ ArmCheck(k) \/ ArmWaitFc(k)
    <3>1. UNCHANGED mgr \/ ServiceDisarm(mgr, Goto(k, "done"), TRUE)
      BY <2>3 DEF ArmWait, ArmNoService, ArmSend, ArmCollect, ArmTimeout,
                  ArmCheck, ArmWaitFc
    <3> QED
      BY <1>a, <2>1, <3>1, CarriersKept, ServiceDisarmCarriers
  <2> QED
    BY <1>1, <2>2, <2>3 DEF ArmStep
<1>2. CASE DisarmThread \/ LandFleet \/ PayloadDropped \/ StepTimer \/ Landed
  <2>1. UNCHANGED mux
    BY <1>2 DEF DisarmThread, LandFleet, PayloadDropped, StepTimer, Landed,
                muxTopics
  <2>2. CASE Landed
    <3>1. UNCHANGED mgr \/ ServiceDisarm([mgr EXCEPT !.landing = FALSE], arm, FALSE)
      BY <2>2 DEF Landed
    <3>2. /\ [mgr EXCEPT !.landing = FALSE] \in MgrStates
          /\ [mgr EXCEPT !.landing = FALSE].mux_state = mgr.mux_state
      BY <1>a DEF MgrStates
    <3> QED
      BY <1>a, <2>1, <3>1, <3>2, CarriersKept, ServiceDisarmCarriers
  <2>3. CASE LandFleet
    <3>1. SameCarriers(mgr') \/ ServiceDisarm(mgr, arm, TRUE)
      BY <1>a, <2>3 DEF LandFleet, SameCarriers, MgrStates
    <3> QED
      BY <1>a, <2>1, <3>1, CarriersKept, ServiceDisarmCarriers
  <2>4. CASE DisarmThread \/ PayloadDropped \/ StepTimer
    <3>1. SameCarriers(mgr')
      BY <1>a, <2>4 DEF DisarmThread, PayloadDropped, StepTimer, mgrVars,
                        SameCarriers, MgrStates
    <3> QED
      BY <2>1, <3>1, CarriersKept
  <2> QED
    BY <1>2, <2>2, <2>3, <2>4
<1>3. ASSUME NEW d \in Drones, OnLoadCallback(d)
      PROVE  CarrierInv'
  <2> DEFINE m == [mgr EXCEPT !.on_load[d] = on_load_pub[d]]
  <2>1. UNCHANGED mux
    BY <1>3 DEF OnLoadCallback
  <2>2. /\ m \in MgrStates /\ SameCarriers(m)
        /\ m.last_estop = mgr.last_estop
    <3>1. on_load_pub[d] \in Flags
      BY DEF TypeOK, ChannelsTypeOK
    <3> QED
      BY <1>a, <3>1 DEF MgrStates, SameCarriers
  <2>3. mgr' = m \/ EmergencyStop(m, Reason("on the ring", d))
    BY <1>3 DEF OnLoadCallback
  <2> HIDE DEF m
  <2>4. Reason("on the ring", d) # NoReason
    BY DEF Reason, NoReason
  <2>5. CASE mgr' = m
    BY <2>1, <2>2, <2>5, CarriersKept
  <2>6. CASE EmergencyStop(m, Reason("on the ring", d))
    BY <2>1, <2>2, <2>4, <2>6, EmergencyStopCarriers DEF SameCarriers
  <2> QED
    BY <2>3, <2>5, <2>6
<1>4. ASSUME NEW d \in Drones, MuxStateCallback(d)
      PROVE  CarrierInv'
  <2>1. d \notin Carriers
    BY <1>4 DEF MuxStateCallback, CarrierInv
  <2>2. /\ UNCHANGED mux /\ mgr'.flying = mgr.flying
        /\ mgr'.drone_armed = mgr.drone_armed /\ mgr'.excused = mgr.excused
        /\ mgr'.down_alone = mgr.down_alone
        /\ \A e \in Drones \ {d} : mgr'.mux_state[e] = mgr.mux_state[e]
    BY <1>a, <1>4 DEF MuxStateCallback, MgrStates, chanVars, muxTopics
  <2>3. Carriers' = Carriers /\ Carriers \subseteq Drones
    BY DEF Carriers
  <2> QED
    BY <2>1, <2>2, <2>3 DEF CarrierInv, CarrierFlies
<1>5. ASSUME NEW d \in Drones,
             \/ DepartedCallback(d) \/ DownAloneCallback(d) \/ AloneReply(d)
             \/ TiltFaultCallback(d) \/ FcDisarmed(d) \/ LimitBreach(d)
      PROVE  CarrierInv'
  <2>1. UNCHANGED mux
    BY <1>5 DEF DepartedCallback, DownAloneCallback, AloneReply,
                TiltFaultCallback, FcDisarmed, LimitBreach, Unread, muxTopics
  <2>2. SameCarriers(mgr')
    BY <1>a, <1>5 DEF DepartedCallback, DownAloneCallback, AloneReply,
                TiltFaultCallback, FcDisarmed, LimitBreach, FaultLand, mgrVars,
                SameCarriers, MgrStates
  <2> QED
    BY <2>1, <2>2, CarriersKept
<1> QED
  BY <1>1, <1>2, <1>3, <1>4, <1>5, FeedbackCarriers
  DEF ManagerRuns, ManagerFaults, ManagerWorks, ManagerOnly, MgrStep,
      MgrCallback, ArmTimesOut, PastTheLimit

(* The trackers and the planner touch none of it, and no mux step is one   *)
(* of a drone without a mux.                                               *)
LEMMA CarrierStep == TypeOK /\ AloneInv /\ CarrierInv /\ [Next]_vars => CarrierInv'
<1> SUFFICES ASSUME TypeOK, AloneInv, CarrierInv, [Next]_vars PROVE CarrierInv'
  OBVIOUS
<1>a. SameCarriers(mgr)
  BY DEF SameCarriers
<1>1. CASE PlannerRuns \/ PlannerFaults
  <2>1. UNCHANGED <<mgr, mux>>
    BY <1>1 DEF PlannerRuns, PlannerFaults, PlannerWorks, PlannerOnly,
                PlannerHears, PlannerTick, HearStep, FleetCommandLand,
                LandUnheard, HearNewcomerArming, LandTick, DropTick,
                AnnounceOnLoad, EnterPlannerPhase, TellDeparted, FoldIn,
                Detach, DropAndLand, PlannerCrash, PlannerQuiet, chanVars,
                muxTopics, mgrVars
  <2> QED
    BY <1>a, <2>1, CarriersKept
<1>2. ASSUME NEW d \in Drones,
             TrackerRuns(d) \/ TrackerFaults(d) \/ RefStale(d)
      PROVE  CarrierInv'
  <2>1. UNCHANGED mgr
    BY <1>2 DEF TrackerRuns, TrackerFaults, RefStale, TrackerOnly, mgrVars
  <2>2. UNCHANGED mux
    BY <1>2 DEF TrackerRuns, TrackerFaults, RefStale, TrackerOnly, Serve, Start,
                HandleArm, HandleDisarm, AnswerDisarm, HandleTakeoff,
                FleetAbort, DepartedCb, TiltFault, Wedge, Exit, Ends, Tick,
                TickFly, TickDisarmed, TickPoseTimeout, TickEnvelopeFault,
                Latches, TickSolverFailure, TickDownAlone, OnlyTicks, chanVars,
                muxTopics
  <2> QED
    BY <1>a, <2>1, <2>2, CarriersKept
<1>3. ASSUME NEW d \in Drones, MuxRuns(d) \/ MuxHandsOver(d)
      PROVE  CarrierInv'
  <2>1. UNCHANGED mgr
    BY <1>3 DEF MuxRuns, MuxHandsOver, MuxTakes, MuxReleases, MuxAborts,
                MuxCuts, PartnerStream, FcReport, MuxSets, mgrVars
  <2>2. mux \in [Drones -> MuxStates] /\ mux_abort \subseteq Newcomers
    BY DEF TypeOK, ChannelsTypeOK
  <2>3. UNCHANGED mux \/ (d \notin Carriers /\ \E s : mux' = [mux EXCEPT ![d] = s])
    <3>1. CASE MuxTakes(d) \/ MuxReleases(d)
      BY <3>1 DEF MuxTakes, MuxReleases, MuxSets, CarrierInv
    <3>2. CASE MuxAborts(d)
      BY <2>2, <3>2 DEF MuxAborts, MuxSets, Carriers
    <3>3. CASE MuxCuts(d)
      <4>1. mux_cut \subseteq Newcomers
        BY DEF TypeOK, ChannelsTypeOK
      <4> QED
        BY <3>3, <4>1 DEF MuxCuts, MuxSets, Carriers
    <3>4. CASE FcReport(d) \/ PartnerStream(d)
      BY <3>4 DEF FcReport, PartnerStream, muxTopics
    <3> QED
      BY <1>3, <3>1, <3>2, <3>3, <3>4 DEF MuxRuns, MuxHandsOver
  <2>4. \A e \in Carriers : mux'[e] = mux[e]
    BY <2>2, <2>3 DEF Carriers
  <2> QED
    BY <1>a, <2>1, <2>4, CarriersKept
<1>4. CASE UNCHANGED vars
  BY <1>a, <1>4, CarriersKept DEF vars, mgrVars, chanVars, muxTopics
<1> QED
  BY <1>1, <1>2, <1>3, <1>4, OperatorCarriers, ManagerCarriers DEF Next

(* It holds at power-on and in the air.                                    *)
LEMMA CarrierInit == Init => CarrierInv /\ AloneInv
<1> SUFFICES ASSUME Init PROVE CarrierInv /\ AloneInv
  OBVIOUS
<1>1. CarrierInv
  BY DEF Init, ChannelsInit, MgrInit, CarrierInv, Carriers
<1>2. AloneInv
  BY DEF Init, ChannelsInit, MgrInit, PlannerInit, AloneInv
<1> QED
  BY <1>1, <1>2

LEMMA CarrierInitInFlight == InitInFlight => CarrierInv /\ AloneInv
<1> SUFFICES ASSUME InitInFlight PROVE CarrierInv /\ AloneInv
  OBVIOUS
<1>1. CarrierInv
  BY DEF InitInFlight, CarrierInv, CarrierFlies, Carriers
<1>2. AloneInv
  BY DEF InitInFlight, AloneInv
<1> QED
  BY <1>1, <1>2

(* From power-on, through any number of ARMs, take-offs, disarms and       *)
(* faults: a fleet without newcomers never flies on with a drone disarmed  *)
(* whose disarm it has read and not answered.                              *)
THEOREM FlyingIsArmedFromPowerOn ==
  Newcomers = {} => (Spec => []FlyingIsArmed)
<1> SUFFICES ASSUME Newcomers = {} PROVE Spec => []FlyingIsArmed
  OBVIOUS
<1>1. CarrierInv => FlyingIsArmed
  BY DEF CarrierInv, CarrierFlies, Carriers, FlyingIsArmed, Accounted
<1> QED
  BY <1>1, CarrierInit, CarrierStep, AloneStep, TypeCorrect, PTL DEF Spec

-----------------------------------------------------------------------------
(* A carrier whose tracker answers nothing any more sends nothing either:  *)
(* once a stop has turned its radio off, only our next ARM ends that.      *)
Deaf(d) == trk[d].wedged /\ (radio[d] = "off" \/ mgr.last_estop = NoReason)

(* What a step does to the radio of a deaf carrier and to the reason of    *)
(* the last stop: both are left alone, the radio is turned off, or a       *)
(* person's ARM or TAKEOFF clears the reason.                              *)
DeafStep(d) ==
  /\ trk'[d].wedged
  /\ \/ radio'[d] = "off"
     \/ radio'[d] = radio[d] /\ mgr'.last_estop \in {mgr.last_estop, NoReason}

(* The stop straight to the radios reaches every one of them.             *)
LEMMA StopRadiosTurnsOff ==
  ASSUME StopRadios PROVE \A d \in Drones : radio'[d] = "off"
BY DEF StopRadios

(* So do the steps of the operator and of the manager ...                  *)
LEMMA DeafFleetStep ==
  ASSUME TypeOK, NEW d \in Drones, trk[d].wedged,
         Operator \/ ManagerRuns \/ ManagerFaults
  PROVE  DeafStep(d)
<1>a. mgr \in MgrStates /\ UNCHANGED trk
  BY DEF TypeOK, MgrTypeOK, Operator, OperatorArm, OperatorTakeoff,
         OperatorLand, OperatorDisarm, ManagerRuns, ManagerFaults, ManagerWorks,
         ManagerOnly, ArmTimesOut, PastTheLimit
<1>b. ASSUME NEW m, NEW reason, EmergencyStop(m, reason)
      PROVE  DeafStep(d)
  BY <1>a, <1>b, StopRadiosTurnsOff DEF EmergencyStop, DeafStep
<1>c. ASSUME NEW m \in MgrStates, NEW a, NEW keep, ServiceDisarm(m, a, keep),
             m.last_estop = mgr.last_estop
      PROVE  DeafStep(d)
  <2>1. mgr'.last_estop = mgr.last_estop /\ UNCHANGED radio
    BY <1>c DEF ServiceDisarm, MgrStates
  <2> QED
    BY <1>a, <2>1 DEF DeafStep
<1>d. ASSUME UNCHANGED radio, mgr'.last_estop \in {mgr.last_estop, NoReason}
      PROVE  DeafStep(d)
  BY <1>a, <1>d DEF DeafStep
<1>1. CASE Operator
  <2>1. CASE OperatorArm
    <3>1. mgr'.last_estop = NoReason /\ UNCHANGED radio
      BY <1>a, <2>1 DEF OperatorArm, Command_ARM, MgrStates, chanVars
    <3> QED
      BY <1>d, <3>1
  <2>2. CASE OperatorTakeoff
    <3>1. CASE UNCHANGED mgr /\ Quiet
      BY <1>d, <3>1 DEF Quiet
    <3>2. CASE ServiceDisarm(mgr, arm, TRUE)
      BY <1>a, <1>c, <3>2
    <3>3. CASE /\ Quiet
               /\ mgr' = [mgr EXCEPT !.flying = TRUE, !.last_estop = NoReason]
      <4>1. mgr'.last_estop = NoReason
        BY <1>a, <3>3 DEF MgrStates
      <4> QED
        BY <1>d, <3>3, <4>1 DEF Quiet
    <3> QED
      BY <2>2, <3>1, <3>2, <3>3 DEF OperatorTakeoff, Command_TAKEOFF
  <2>3. CASE OperatorLand
    BY <1>d, <2>3 DEF OperatorLand, mgrVars
  <2>4. ASSUME NEW c \in {"DISARM", "ESTOP"}, OperatorDisarm(c)
        PROVE  DeafStep(d)
    BY <1>b, <2>4 DEF OperatorDisarm, Command_DISARM
  <2> QED
    BY <1>1, <2>1, <2>2, <2>3, <2>4 DEF Operator
<1>2. ASSUME NEW k \in ArmIds, ArmStep(k) \/ ArmTimeout(k)
      PROVE  DeafStep(d)
  <2>1. CASE ArmStart(k) \/ ArmSet(k)
    <3>1. mgr'.last_estop = mgr.last_estop /\ UNCHANGED radio
      BY <1>a, <2>1 DEF ArmStart, ArmSet, MgrStates, chanVars
    <3> QED
      BY <1>d, <3>1
  <2>2. CASE \/ ArmWait(k) \/ ArmNoService(k) \/ ArmSend(k) \/ ArmCollect(k)
             \/ ArmTimeout(k) \/ ArmCheck(k) \/ ArmWaitFc(k)
    <3>1. (UNCHANGED <<mgr, radio>>) \/ ServiceDisarm(mgr, Goto(k, "done"), TRUE)
      BY <2>2 DEF ArmWait, ArmNoService, ArmSend, ArmCollect, ArmTimeout,
                  ArmCheck, ArmWaitFc, chanVars
    <3> QED
      BY <1>a, <1>c, <1>d, <3>1
  <2> QED
    BY <1>2, <2>1, <2>2 DEF ArmStep
<1>3. CASE DisarmThread \/ LandFleet \/ PayloadDropped \/ StepTimer \/ Landed
  <2>1. CASE Landed
    <3>1. \/ UNCHANGED <<mgr, radio>>
          \/ ServiceDisarm([mgr EXCEPT !.landing = FALSE], arm, FALSE)
      BY <2>1 DEF Landed, Quiet
    <3>2. /\ [mgr EXCEPT !.landing = FALSE] \in MgrStates
          /\ [mgr EXCEPT !.landing = FALSE].last_estop = mgr.last_estop
      BY <1>a DEF MgrStates
    <3> QED
      BY <1>c, <1>d, <3>1, <3>2
  <2>2. CASE LandFleet
    <3>1. \/ mgr'.last_estop = mgr.last_estop /\ UNCHANGED radio
          \/ ServiceDisarm(mgr, arm, TRUE)
      BY <1>a, <2>2 DEF LandFleet, Quiet, MgrStates
    <3> QED
      BY <1>a, <1>c, <1>d, <3>1
  <2>3. CASE DisarmThread \/ PayloadDropped \/ StepTimer
    <3>1. mgr'.last_estop = mgr.last_estop /\ UNCHANGED radio
      BY <1>a, <2>3 DEF DisarmThread, PayloadDropped, StepTimer, mgrVars,
                        MgrStates
    <3> QED
      BY <1>d, <3>1
  <2> QED
    BY <1>3, <2>1, <2>2, <2>3
<1>4. ASSUME NEW e \in Drones, OnLoadCallback(e)
      PROVE  DeafStep(d)
  <2> DEFINE m == [mgr EXCEPT !.on_load[e] = on_load_pub[e]]
  <2>1. (mgr' = m /\ Quiet) \/ EmergencyStop(m, Reason("on the ring", e))
    BY <1>4 DEF OnLoadCallback
  <2>2. m.last_estop = mgr.last_estop
    BY <1>a DEF MgrStates
  <2> HIDE DEF m
  <2> QED
    BY <1>b, <1>d, <2>1, <2>2 DEF Quiet
<1>5. ASSUME NEW e \in Drones, ArmingFeedback(e, pl.up)
      PROVE  DeafStep(d)
  <2> DEFINE S == IF Head(feedback[e].mgr) THEN mgr.drone_armed \union {e}
                                           ELSE mgr.drone_armed \ {e}
             m == [mgr EXCEPT !.drone_armed = S]
  <2>1. \/ mgr' = m /\ Quiet
        \/ mgr' = [m EXCEPT !.excused = @ \union {e}] /\ Quiet
        \/ ServiceDisarm(m, arm, TRUE)
        \/ EmergencyStop(m, Reason("disarmed", e))
    BY <1>5 DEF ArmingFeedback
  <2>2. S \in SUBSET Drones
    BY <1>a DEF MgrStates
  <2> HIDE DEF S
  <2>3. m \in MgrStates /\ m.last_estop = mgr.last_estop
    BY <1>a, <2>2 DEF MgrStates
  <2> HIDE DEF m
  <2>4. [m EXCEPT !.excused = @ \union {e}].last_estop = m.last_estop
    BY <2>3 DEF MgrStates
  <2> QED
    BY <1>b, <1>c, <1>d, <2>1, <2>3, <2>4 DEF Quiet
<1>6. ASSUME NEW e \in Drones, AloneReply(e)
      PROVE  DeafStep(d)
  <2>1. UNCHANGED mgr /\ radio' = [radio EXCEPT ![e] = "off"]
    BY <1>6 DEF AloneReply, mgrVars
  <2>2. radio \in [Drones -> RadioCommands]
    BY DEF TypeOK, ChannelsTypeOK
  <2> QED
    BY <1>a, <2>1, <2>2 DEF DeafStep
<1>7. ASSUME NEW e \in Drones,
             \/ MuxStateCallback(e) \/ DepartedCallback(e)
             \/ DownAloneCallback(e) \/ TiltFaultCallback(e) \/ FcDisarmed(e)
             \/ LimitBreach(e)
      PROVE  DeafStep(d)
  <2>1. mgr'.last_estop = mgr.last_estop
    BY <1>a, <1>7 DEF MuxStateCallback, DepartedCallback, DownAloneCallback,
                TiltFaultCallback, FcDisarmed, LimitBreach, FaultLand, MgrStates
  <2>2. UNCHANGED radio
    BY <1>7 DEF MuxStateCallback, DepartedCallback, DownAloneCallback,
                TiltFaultCallback, FcDisarmed, LimitBreach, Unread, chanVars
  <2> QED
    BY <1>d, <2>1, <2>2
<1> QED
  BY <1>1, <1>2, <1>3, <1>4, <1>5, <1>6, <1>7
  DEF ManagerRuns, ManagerFaults, ManagerWorks, ManagerOnly, MgrStep,
      MgrCallback, ArmTimesOut, PastTheLimit

(* ... and those of the planner, the trackers and the muxes.               *)
LEMMA DeafOthersStep ==
  ASSUME TypeOK, NEW d \in Drones, trk[d].wedged, mux[d] = "none", d \notin Newcomers,
         \/ PlannerRuns \/ PlannerFaults \/ UNCHANGED vars
         \/ \E e \in Drones : \/ TrackerRuns(e) \/ TrackerFaults(e) \/ RefStale(e)
                              \/ MuxRuns(e) \/ MuxHandsOver(e)
  PROVE  DeafStep(d)
<1>a. /\ trk \in [Drones -> TrackerStates] /\ radio \in [Drones -> RadioCommands]
      /\ mux_abort \subseteq Newcomers /\ mux_cut \subseteq Newcomers
  BY DEF TypeOK, TrackerTypeOK, ChannelsTypeOK
<1>b. UNCHANGED mgr
  BY DEF PlannerRuns, PlannerFaults, PlannerWorks, PlannerOnly, TrackerRuns,
         TrackerFaults, RefStale, TrackerOnly, MuxRuns, MuxHandsOver, MuxTakes,
         MuxReleases, MuxAborts, MuxCuts, PartnerStream, FcReport, MuxSets,
         mgrVars, vars
<1>1. CASE PlannerRuns \/ PlannerFaults \/ UNCHANGED vars
  <2>1. UNCHANGED <<trk, radio>>
    BY <1>1 DEF PlannerRuns, PlannerFaults, PlannerWorks, PlannerOnly,
                PlannerHears, PlannerTick, HearStep, FleetCommandLand,
                LandUnheard, HearNewcomerArming, LandTick, DropTick,
                AnnounceOnLoad, EnterPlannerPhase, TellDeparted, FoldIn,
                Detach, DropAndLand, PlannerCrash, PlannerQuiet, chanVars, vars
  <2> QED
    BY <1>b, <2>1 DEF DeafStep
<1>2. ASSUME NEW e \in Drones, TrackerRuns(e) \/ TrackerFaults(e) \/ RefStale(e)
      PROVE  DeafStep(d)
  <2>1. CASE Start(e) \/ TiltFault(e)
    BY <1>b, <2>1 DEF Start, TiltFault, DeafStep
  <2>2. ASSUME ~Start(e), ~TiltFault(e)
        PROVE  Runs(e) /\ \A c \in Drones \ {e} : trk'[c] = trk[c] /\ radio'[c] = radio[c]
    <3>1. Runs(e)
      BY <1>2, <2>2 DEF TrackerRuns, TrackerFaults, RefStale, TrackerOnly,
                  Serve, HandleArm, HandleDisarm, AnswerDisarm, HandleTakeoff,
                  FleetAbort, DepartedCb, Wedge, Exit, Ends, Tick, TickFly,
                  TickDisarmed, TickPoseTimeout, TickEnvelopeFault, Latches,
                  TickSolverFailure, TickDownAlone, Ticks
    <3>2. UNCHANGED radio \/ Command(e, "off") \/ Command(e, "armed")
      BY <1>2, <2>2 DEF TrackerRuns, TrackerFaults, RefStale, TrackerOnly,
                  Serve, HandleArm, HandleDisarm, AnswerDisarm, HandleTakeoff,
                  FleetAbort, DepartedCb, Wedge, Exit, Ends, Tick, TickFly,
                  TickDisarmed, TickPoseTimeout, TickEnvelopeFault, Latches,
                  TickSolverFailure, TickDownAlone, chanVars
    <3>3. \A c \in Drones \ {e} : radio'[c] = radio[c]
      BY <1>a, <3>2 DEF Command
    <3>4. UNCHANGED trk \/ \E t : trk' = [trk EXCEPT ![e] = t]
      <4>1. CASE (\E r \in BOOLEAN : HandleArm(e, r)) \/ HandleTakeoff(e) \/ DepartedCb(e)
                 \/ Wedge(e) \/ TickDownAlone(e)
        BY <4>1 DEF HandleArm, HandleTakeoff, DepartedCb, Wedge, TickDownAlone
      <4>2. CASE HandleDisarm(e)
        BY <4>2 DEF HandleDisarm, AnswerDisarm
      <4>3. CASE FleetAbort(e) \/ Exit(e)
        BY <4>3 DEF FleetAbort, Exit, Ends
      <4>4. CASE \/ Tick(e) \/ TickPoseTimeout(e) \/ TickEnvelopeFault(e)
                 \/ TickSolverFailure(e)
        BY <4>4 DEF Tick, TickFly, TickDisarmed, TickPoseTimeout,
                    TickEnvelopeFault, Latches, TickSolverFailure
      <4> QED
        BY <1>2, <2>2, <4>1, <4>2, <4>3, <4>4
        DEF TrackerRuns, TrackerFaults, RefStale, TrackerOnly, Serve
    <3> QED
      BY <1>a, <3>1, <3>3, <3>4
  <2>3. CASE ~Start(e) /\ ~TiltFault(e)
    <3>1. e # d
      BY <2>2, <2>3 DEF Runs
    <3> QED
      BY <1>b, <2>2, <2>3, <3>1 DEF DeafStep
  <2> QED
    BY <2>1, <2>3
<1>3. ASSUME NEW e \in Drones, MuxRuns(e) \/ MuxHandsOver(e)
      PROVE  DeafStep(d)
  <2>1. UNCHANGED trk
    BY <1>3 DEF MuxRuns, MuxHandsOver, MuxTakes, MuxReleases, MuxAborts,
                MuxCuts, PartnerStream, FcReport, MuxSets
  <2>2. UNCHANGED radio \/ (e # d /\ \E c : radio' = [radio EXCEPT ![e] = c])
    <3>1. CASE MuxTakes(e) \/ FcReport(e)
      BY <3>1 DEF MuxTakes, FcReport
    <3>2. CASE MuxReleases(e) \/ PartnerStream(e)
      BY <3>2 DEF MuxReleases, PartnerStream
    <3>3. CASE MuxAborts(e) \/ MuxCuts(e)
      BY <1>a, <3>3 DEF MuxAborts, MuxCuts
    <3> QED
      BY <1>3, <3>1, <3>2, <3>3 DEF MuxRuns, MuxHandsOver
  <2>3. radio'[d] = radio[d]
    BY <1>a, <2>2
  <2> QED
    BY <1>b, <2>1, <2>3 DEF DeafStep
<1> QED
  BY <1>1, <1>2, <1>3

(* So a carrier found deaf in flight stays deaf ...                        *)
LEMMA DeafStays ==
  ASSUME NEW d \in Carriers
  PROVE  TypeOK /\ CarrierInv /\ Deaf(d) /\ [Next]_vars => Deaf(d)'
<1> SUFFICES ASSUME TypeOK, CarrierInv, Deaf(d), [Next]_vars PROVE Deaf(d)'
  OBVIOUS
<1>1. d \in Drones /\ d \notin Newcomers /\ mux[d] = "none" /\ trk[d].wedged
  BY DEF Carriers, CarrierInv, Deaf
<1>2. DeafStep(d)
  BY <1>1, DeafFleetStep, DeafOthersStep DEF Next
<1> QED
  BY <1>2 DEF Deaf, DeafStep

(* ... and is stopped by any emergency stop, whatever it did not hear.     *)
LEMMA DeafIsStopped ==
  ASSUME NEW d \in Carriers
  PROVE  /\ AloneInv => (mgr.flying /\ trk[d].wedged => Deaf(d))
         /\ Deaf(d) => (Stopped => radio[d] = "off")
BY DEF AloneInv, Deaf, Stopped

(* An emergency stop turns the motors of every drone off that has no mux,  *)
(* even of one whose tracker had stopped answering, and they stay off.     *)
THEOREM DeafDronesStop == Spec => WedgedIsStopped
<1> SUFFICES ASSUME NEW d \in Carriers
             PROVE  Spec => [](mgr.flying /\ trk[d].wedged
                               => [](Stopped => radio[d] = "off"))
  BY DEF WedgedIsStopped, Carriers
<1>1. TypeOK /\ CarrierInv /\ Deaf(d) /\ [Next]_vars => Deaf(d)'
  BY DeafStays
<1>2. AloneInv => (mgr.flying /\ trk[d].wedged => Deaf(d))
  BY DeafIsStopped
<1>3. Deaf(d) => (Stopped => radio[d] = "off")
  BY DeafIsStopped
<1> QED
  BY <1>1, <1>2, <1>3, CarrierInit, CarrierStep, AloneStep, TypeCorrect, PTL
  DEF Spec

(* The same for a fleet that starts in the air.                            *)
THEOREM DeafDronesStopInFlight == SpecInFlight => WedgedIsStopped
<1> SUFFICES ASSUME NEW d \in Carriers
             PROVE  SpecInFlight => [](mgr.flying /\ trk[d].wedged
                                       => [](Stopped => radio[d] = "off"))
  BY DEF WedgedIsStopped, Carriers
<1>1. TypeOK /\ CarrierInv /\ Deaf(d) /\ [Next]_vars => Deaf(d)'
  BY DeafStays
<1>2. AloneInv => (mgr.flying /\ trk[d].wedged => Deaf(d))
  BY DeafIsStopped
<1>3. Deaf(d) => (Stopped => radio[d] = "off")
  BY DeafIsStopped
<1> QED
  BY <1>1, <1>2, <1>3, CarrierInitInFlight, CarrierStep, AloneStep,
     TypeCorrectInFlight, PTL DEF SpecInFlight
=============================================================================
