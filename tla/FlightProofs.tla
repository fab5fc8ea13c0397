---------------------------- MODULE FlightProofs ----------------------------
(***************************************************************************)
(* The safety of one flight, and of the ARM and disarm sequences around    *)
(* it, for any number of drones, any queue depth, any parameters and any   *)
(* faults. First from a fleet in the air, in a launch with one ARM (the    *)
(* processes that flew end with their flight, and are launched again for   *)
(* the next): nobody leaves, nobody is both excused and on the ring, every *)
(* disarm is accounted for. Then from power-on: unless a disarm crosses an *)
(* ARM sequence, nobody is left armed in a fleet that is not.              *)
(***************************************************************************)
EXTENDS FleetSafetyProofs

OneFlight == MaxArm = 1

(* The inductive invariant.  No ARM sequence runs any more, so a fleet     *)
(* that is grounded stays so.                                              *)
NoArm == \A k \in ArmIds : arm[k].pc = "done"
StaysGrounded == ~mgr.flying => ~mgr.fleet_armed

(* In flight nobody has disarmed the fleet.                                *)
Undisturbed == mgr.flying => disarming = 0 /\ mux_abort = {}

(* The only request a tracker may have is the one disarm alone that it     *)
(* asked for itself, for which it keeps its process.                       *)
AloneRequest == [arm |-> FALSE, by |-> AloneDisarm]
OwnDisarm(d) ==
  /\ trk[d].was_armed /\ ~trk[d].shutdown
  /\ svc[d] # << >> =>
       svc[d] = <<AloneRequest>> /\ trk[d].keep /\ d \in mgr.down_alone
  /\ d \in down_sent => trk[d].keep /\ d \notin mgr.down_alone
  /\ d \in down_sent \/ d \in mgr.down_alone => trk[d].down
Attended == mgr.flying => \A d \in Drones : OwnDisarm(d)

(* Whose disarm the manager has read, it has accounted for, and with no    *)
(* hand-over what it reads as the partner's remains his.                   *)
KnownOf(d) ==
  /\ Partner(mgr.mux_state[d]) => Partner(mux[d])
  /\ d \in mgr.drone_armed \/ Accounted(d)
Known ==
  mgr.flying /\ "handover" \notin FaultKinds => \A d \in Drones : KnownOf(d)

FlightInv ==
  NoArm /\ StaysGrounded /\ Undisturbed /\ Attended /\ Known /\ ExcusedOffRing

-----------------------------------------------------------------------------
(* Steps that leave all of it alone, and steps that ground the fleet.      *)
SameFlight(m) ==
  /\ m.flying = mgr.flying /\ m.fleet_armed = mgr.fleet_armed
  /\ m.drone_armed = mgr.drone_armed /\ m.mux_state = mgr.mux_state
  /\ m.on_load = mgr.on_load /\ m.excused = mgr.excused
  /\ m.down_alone = mgr.down_alone

LEMMA FlightKept ==
  ASSUME FlightInv, SameFlight(mgr'),
         UNCHANGED <<arm, disarming, mux_abort, svc, trk, down_sent, mux>>
  PROVE  FlightInv'
BY DEF FlightInv, NoArm, StaysGrounded, Undisturbed, Attended, OwnDisarm, Known,
       KnownOf, Accounted, ExcusedOffRing, SameFlight

LEMMA FlightEnds ==
  ASSUME NoArm', mgr'.flying = FALSE, mgr'.fleet_armed = FALSE
  PROVE  FlightInv'
BY DEF FlightInv, StaysGrounded, Undisturbed, Attended, Known, ExcusedOffRing

LEMMA StopArmsKeepsDone ==
  ASSUME TypeOK, NoArm, StopArms(arm)
  PROVE  NoArm'
<1>1. \A k \in ArmIds : arm'[k].pc = arm[k].pc
  BY DEF StopArms, TypeOK, MgrTypeOK, ArmStates
<1> QED
  BY <1>1 DEF NoArm

(* A disarm grounds the fleet; so does an emergency stop, even one that    *)
(* only repeats its reason, since none has stopped a fleet that flies.     *)
LEMMA ServiceDisarmEnds ==
  ASSUME TypeOK, FlightInv, NEW m \in MgrStates, NEW keep,
         ServiceDisarm(m, arm, keep)
  PROVE  FlightInv'
<1>1. mgr'.flying = FALSE /\ mgr'.fleet_armed = FALSE
  BY DEF ServiceDisarm, MgrStates
<1>2. NoArm'
  BY StopArmsKeepsDone DEF FlightInv, ServiceDisarm
<1> QED
  BY <1>1, <1>2, FlightEnds

LEMMA EmergencyStopEnds ==
  ASSUME TypeOK, AloneInv, FlightInv, NEW m \in MgrStates, NEW reason,
         reason # NoReason, m.flying = mgr.flying,
         m.fleet_armed = mgr.fleet_armed, m.last_estop = mgr.last_estop,
         EmergencyStop(m, reason)
  PROVE  FlightInv'
<1>1. NoArm'
  BY StopArmsKeepsDone DEF FlightInv, EmergencyStop
<1>2. mgr'.flying = FALSE /\ mgr'.fleet_armed = FALSE
  <2>1. CASE m.last_estop = reason /\ mgr' = m
    <3>1. m.flying \in BOOLEAN /\ m.fleet_armed \in BOOLEAN
      BY DEF MgrStates
    <3> QED
      BY <2>1, <3>1 DEF AloneInv, FlightInv, StaysGrounded
  <2>2. CASE mgr' = [m EXCEPT !.flying = FALSE, !.fleet_armed = FALSE,
                              !.shutdown = FALSE, !.last_estop = reason]
    BY <2>2 DEF MgrStates
  <2> QED
    BY <2>1, <2>2 DEF EmergencyStop
<1> QED
  BY <1>1, <1>2, FlightEnds

-----------------------------------------------------------------------------
(* The operator: no ARM is left, and TAKEOFF starts no second flight.      *)
LEMMA OperatorFlight ==
  ASSUME TypeOK, AloneInv, FlightInv, Operator
  PROVE  FlightInv'
<1>a. mgr \in MgrStates /\ SameFlight(mgr)
  BY DEF TypeOK, MgrTypeOK, SameFlight
<1>1. CASE OperatorArm
  <2>1. \E k \in ArmIds : arm[k].pc = "idle"
    BY <1>1 DEF OperatorArm, Command_ARM
  <2> QED
    BY <2>1 DEF FlightInv, NoArm
<1>2. CASE OperatorTakeoff
  <2>1. UNCHANGED <<trk, svc, down_sent, mux>>
    BY <1>2 DEF OperatorTakeoff, Command_TAKEOFF, services
  <2>2. CASE UNCHANGED mgr /\ Quiet
    BY <1>a, <2>1, <2>2, FlightKept DEF Quiet
  <2>3. CASE ServiceDisarm(mgr, arm, TRUE)
    BY <1>a, <2>3, ServiceDisarmEnds
  <2>4. CASE /\ mgr.fleet_armed /\ Quiet
             /\ mgr' = [mgr EXCEPT !.flying = TRUE, !.last_estop = NoReason]
    <3>1. mgr.flying = TRUE
      BY <1>a, <2>4 DEF FlightInv, StaysGrounded, MgrStates
    <3>2. SameFlight(mgr')
      BY <1>a, <2>4, <3>1 DEF SameFlight, MgrStates
    <3> QED
      BY <2>1, <2>4, <3>2, FlightKept DEF Quiet
  <2> QED
    BY <1>2, <2>2, <2>3, <2>4 DEF OperatorTakeoff, Command_TAKEOFF
<1>3. CASE OperatorLand
  BY <1>a, <1>3, FlightKept
  DEF OperatorLand, PublishLand, mgrVars, services, trackerTopics, muxTopics
<1>4. ASSUME NEW c \in {"DISARM", "ESTOP"}, OperatorDisarm(c)
      PROVE  FlightInv'
  <2>1. Reason(c, N) # NoReason
    BY <1>4 DEF Reason, NoReason
  <2> QED
    BY <1>a, <1>4, <2>1, EmergencyStopEnds DEF OperatorDisarm, Command_DISARM
<1> QED
  BY <1>1, <1>2, <1>3, <1>4 DEF Operator

-----------------------------------------------------------------------------
(* The manager's callbacks.  A disarm it reads ends the flight, or is      *)
(* excused off the ring, or is the partner's, or the drone's own.          *)
LEMMA FeedbackFlight ==
  ASSUME TypeOK, AloneInv, FlightInv, NEW d \in Drones, UNCHANGED trk,
         ArmingFeedback(d, pl.up)
  PROVE  FlightInv'
<1> DEFINE S == IF Head(feedback[d].mgr) THEN mgr.drone_armed \union {d}
                                         ELSE mgr.drone_armed \ {d}
           m == [mgr EXCEPT !.drone_armed = S]
           his == Partner(mgr.mux_state[d])
           off == mgr.on_load[d] = "F" /\ pl.up
<1>a. mgr \in MgrStates
  BY DEF TypeOK, MgrTypeOK
<1>b. S \in SUBSET Drones
  BY <1>a DEF MgrStates
<1>c. UNCHANGED <<svc, down_sent, mux>>
  BY DEF ArmingFeedback, services
<1>d. \/ /\ ~Lost(d) \/ (~mgr.flying /\ ~mgr.fleet_armed) \/ (mgr.flying /\ his)
         /\ mgr' = m /\ Quiet
      \/ ServiceDisarm(m, arm, TRUE)
      \/ /\ mgr.flying /\ off /\ Quiet
         /\ mgr' = [m EXCEPT !.excused = @ \union {d}]
      \/ EmergencyStop(m, Reason("disarmed", d))
  BY DEF ArmingFeedback
<1>e. ~Lost(d) => d \in S \/ d \notin mgr.drone_armed \/ d \in mgr.down_alone
  BY DEF Lost
<1>f. \A e \in Drones \ {d} : e \in S <=> e \in mgr.drone_armed
  OBVIOUS
<1> HIDE DEF S
<1>1. CASE /\ ~Lost(d) \/ (~mgr.flying /\ ~mgr.fleet_armed) \/ (mgr.flying /\ his)
           /\ mgr' = m /\ Quiet
  <2>1. /\ mgr'.flying = mgr.flying /\ mgr'.fleet_armed = mgr.fleet_armed
        /\ mgr'.mux_state = mgr.mux_state /\ mgr'.on_load = mgr.on_load
        /\ mgr'.excused = mgr.excused /\ mgr'.down_alone = mgr.down_alone
        /\ mgr'.drone_armed = S
    BY <1>a, <1>1, <1>b DEF MgrStates
  <2>2. /\ NoArm' /\ StaysGrounded' /\ Undisturbed' /\ ExcusedOffRing'
    BY <1>1, <2>1 DEF Quiet, FlightInv, NoArm, StaysGrounded, Undisturbed,
                      ExcusedOffRing
  <2>3. Attended'
    BY <1>c, <2>1 DEF FlightInv, Attended, OwnDisarm
  <2>4. ASSUME mgr.flying, "handover" \notin FaultKinds, NEW e \in Drones
        PROVE  KnownOf(e)'
    <3>1. KnownOf(e)
      BY <2>4 DEF FlightInv, Known
    <3>2. /\ Partner(mgr.mux_state[e])' <=> Partner(mgr.mux_state[e])
          /\ Partner(mux[e])' <=> Partner(mux[e])
          /\ Accounted(e)' <=> Accounted(e)
      BY <1>c, <2>1 DEF Partner, Accounted
    <3>3. CASE e # d
      BY <1>f, <2>1, <3>1, <3>2, <3>3 DEF KnownOf
    <3>4. CASE e = d /\ his
      BY <3>1, <3>2, <3>4 DEF KnownOf, Accounted, Partner
    <3>5. CASE e = d /\ ~Lost(d)
      BY <1>e, <2>1, <3>1, <3>2, <3>5 DEF KnownOf, Accounted
    <3> QED
      BY <1>1, <2>4, <3>3, <3>4, <3>5
  <2>5. Known'
    BY <2>1, <2>4 DEF Known
  <2> QED
    BY <2>2, <2>3, <2>5 DEF FlightInv
<1>2. CASE ServiceDisarm(m, arm, TRUE)
  <2>1. m \in MgrStates
    BY <1>a, <1>b DEF MgrStates
  <2> QED
    BY <1>2, <2>1, ServiceDisarmEnds
<1>3. CASE /\ mgr.flying /\ off /\ Quiet
           /\ mgr' = [m EXCEPT !.excused = @ \union {d}]
  <2>1. /\ mgr'.flying = mgr.flying /\ mgr'.fleet_armed = mgr.fleet_armed
        /\ mgr'.mux_state = mgr.mux_state /\ mgr'.on_load = mgr.on_load
        /\ mgr'.excused = mgr.excused \union {d}
        /\ mgr'.down_alone = mgr.down_alone /\ mgr'.drone_armed = S
    BY <1>a, <1>3, <1>b DEF MgrStates
  <2>2. NoArm' /\ StaysGrounded' /\ Undisturbed'
    BY <1>3, <2>1 DEF Quiet, FlightInv, NoArm, StaysGrounded, Undisturbed
  <2>3. Attended'
    BY <1>c, <2>1 DEF FlightInv, Attended, OwnDisarm
  <2>4. ExcusedOffRing'
    BY <1>3, <2>1 DEF FlightInv, ExcusedOffRing
  <2>5. ASSUME mgr.flying, "handover" \notin FaultKinds, NEW e \in Drones
        PROVE  KnownOf(e)'
    <3>1. KnownOf(e)
      BY <2>5 DEF FlightInv, Known
    <3>2. /\ Partner(mgr.mux_state[e])' <=> Partner(mgr.mux_state[e])
          /\ Partner(mux[e])' <=> Partner(mux[e])
          /\ Accounted(e) => Accounted(e)'
          /\ e = d => Accounted(e)'
      BY <1>c, <2>1 DEF Partner, Accounted
    <3> QED
      BY <1>f, <2>1, <3>1, <3>2 DEF KnownOf
  <2>6. Known'
    BY <2>1, <2>5 DEF Known
  <2> QED
    BY <2>2, <2>3, <2>4, <2>6 DEF FlightInv
<1>4. CASE EmergencyStop(m, Reason("disarmed", d))
  <2>1. /\ m \in MgrStates /\ m.flying = mgr.flying
        /\ m.fleet_armed = mgr.fleet_armed /\ m.last_estop = mgr.last_estop
    BY <1>a, <1>b DEF MgrStates
  <2>2. Reason("disarmed", d) # NoReason
    BY DEF Reason, NoReason
  <2> HIDE DEF m
  <2> QED
    BY <1>4, <2>1, <2>2, EmergencyStopEnds
<1> QED
  BY <1>d, <1>1, <1>2, <1>3, <1>4

(* An excused drone that turns out to be on the ring ends the flight.      *)
LEMMA OnLoadFlight ==
  ASSUME TypeOK, AloneInv, FlightInv, NEW d \in Drones, UNCHANGED trk,
         OnLoadCallback(d)
  PROVE  FlightInv'
<1> DEFINE m == [mgr EXCEPT !.on_load[d] = on_load_pub[d]]
<1>a. mgr \in MgrStates /\ on_load_pub[d] \in Flags
  BY DEF TypeOK, MgrTypeOK, ChannelsTypeOK
<1>b. UNCHANGED <<svc, down_sent, mux>>
  BY DEF OnLoadCallback, services
<1>c. /\ m \in MgrStates
      /\ m.flying = mgr.flying /\ m.fleet_armed = mgr.fleet_armed
      /\ m.drone_armed = mgr.drone_armed /\ m.mux_state = mgr.mux_state
      /\ m.excused = mgr.excused /\ m.down_alone = mgr.down_alone
      /\ m.last_estop = mgr.last_estop
      /\ m.on_load[d] = on_load_pub[d]
      /\ \A e \in Drones \ {d} : m.on_load[e] = mgr.on_load[e]
      /\ m.excused \subseteq Drones
  BY <1>a DEF MgrStates
<1>d. IF OnRing(d) THEN EmergencyStop(m, Reason("on the ring", d))
                   ELSE mgr' = m /\ Quiet
  BY DEF OnLoadCallback
<1> HIDE DEF m
<1>1. CASE OnRing(d)
  <2>1. Reason("on the ring", d) # NoReason
    BY DEF Reason, NoReason
  <2> QED
    BY <1>1, <1>c, <1>d, <2>1, EmergencyStopEnds
<1>2. CASE ~OnRing(d)
  <2>1. mgr' = m /\ Quiet
    BY <1>2, <1>d
  <2>2. NoArm' /\ StaysGrounded' /\ Undisturbed'
    BY <1>c, <2>1 DEF Quiet, FlightInv, NoArm, StaysGrounded, Undisturbed
  <2>3. Attended'
    BY <1>b, <1>c, <2>1 DEF FlightInv, Attended, OwnDisarm
  <2>4. Known'
    BY <1>b, <1>c, <2>1 DEF FlightInv, Known, KnownOf, Accounted
  <2>5. ExcusedOffRing'
    BY <1>2, <1>c, <2>1 DEF FlightInv, ExcusedOffRing, OnRing
  <2> QED
    BY <2>2, <2>3, <2>4, <2>5 DEF FlightInv
<1> QED
  BY <1>1, <1>2

(* The mux's state, read late or not: what was the partner's is his still. *)
LEMMA MuxStateFlight ==
  ASSUME TypeOK, FlightInv, NEW d \in Drones, UNCHANGED trk,
         MuxStateCallback(d)
  PROVE  FlightInv'
<1>a. mgr \in MgrStates /\ mux[d] \in MuxStates
  BY DEF TypeOK, MgrTypeOK, ChannelsTypeOK
<1>b. UNCHANGED <<arm, disarming, mux_abort, svc, down_sent, mux>>
  BY DEF MuxStateCallback, chanVars, services, trackerTopics, muxTopics
<1>c. /\ mgr'.flying = mgr.flying /\ mgr'.fleet_armed = mgr.fleet_armed
      /\ mgr'.drone_armed = mgr.drone_armed /\ mgr'.on_load = mgr.on_load
      /\ mgr'.excused = mgr.excused /\ mgr'.down_alone = mgr.down_alone
      /\ mgr'.mux_state[d] = mux[d]
      /\ \A e \in Drones \ {d} : mgr'.mux_state[e] = mgr.mux_state[e]
  BY <1>a DEF MuxStateCallback, MgrStates
<1>1. NoArm' /\ StaysGrounded' /\ Undisturbed' /\ ExcusedOffRing'
  BY <1>b, <1>c DEF FlightInv, NoArm, StaysGrounded, Undisturbed, ExcusedOffRing
<1>2. Attended'
  BY <1>b, <1>c DEF FlightInv, Attended, OwnDisarm
<1>3. Known'
  BY <1>b, <1>c DEF FlightInv, Known, KnownOf, Accounted, Partner
<1> QED
  BY <1>1, <1>2, <1>3 DEF FlightInv

(* A fault that lands the fleet excuses its drone.                         *)
LEMMA FaultLandFlight ==
  ASSUME TypeOK, FlightInv, NEW d \in Drones, UNCHANGED trk,
         TiltFaultCallback(d) \/ FcDisarmed(d) \/ LimitBreach(d)
  PROVE  FlightInv'
<1>a. mgr \in MgrStates
  BY DEF TypeOK, MgrTypeOK
<1>b. UNCHANGED <<arm, disarming, mux_abort, svc, down_sent, mux>>
  BY DEF TiltFaultCallback, FcDisarmed, LimitBreach, Unread, services,
         trackerTopics, muxTopics
<1>c. /\ mgr'.flying = mgr.flying /\ mgr'.fleet_armed = mgr.fleet_armed
      /\ mgr'.drone_armed = mgr.drone_armed /\ mgr'.on_load = mgr.on_load
      /\ mgr'.mux_state = mgr.mux_state /\ mgr'.down_alone = mgr.down_alone
      /\ mgr.excused \subseteq mgr'.excused
      /\ mgr'.excused = mgr.excused \/ LandFaults # {}
  BY <1>a DEF TiltFaultCallback, FcDisarmed, LimitBreach, FaultLand, MgrStates
<1>1. NoArm' /\ StaysGrounded' /\ Undisturbed' /\ ExcusedOffRing'
  BY <1>b, <1>c DEF FlightInv, NoArm, StaysGrounded, Undisturbed, ExcusedOffRing
<1>2. Attended'
  BY <1>b, <1>c DEF FlightInv, Attended, OwnDisarm
<1>3. Known'
  BY <1>b, <1>c DEF FlightInv, Known, KnownOf, Accounted
<1> QED
  BY <1>1, <1>2, <1>3 DEF FlightInv

(* The disarm alone: asked of a drone that has nothing else to answer.     *)
LEMMA DownAloneFlight ==
  ASSUME TypeOK, FlightInv, NEW d \in Drones, UNCHANGED trk,
         DownAloneCallback(d)
  PROVE  FlightInv'
<1>a. mgr \in MgrStates /\ svc \in [Drones -> Seq(Requests)]
  BY DEF TypeOK, MgrTypeOK, ChannelsTypeOK
<1>b. /\ UNCHANGED <<arm, disarming, mux_abort, mux>>
      /\ d \in down_sent /\ down_sent' = down_sent \ {d}
  BY DEF DownAloneCallback, muxTopics
<1>1. CASE UNCHANGED <<mgr, svc>>
  <2>1. \A e \in Drones : OwnDisarm(e) => OwnDisarm(e)'
    BY <1>b, <1>1 DEF OwnDisarm
  <2>2. NoArm' /\ StaysGrounded' /\ Undisturbed' /\ ExcusedOffRing' /\ Known'
    BY <1>b, <1>1 DEF FlightInv, NoArm, StaysGrounded, Undisturbed,
                      ExcusedOffRing, Known, KnownOf, Accounted
  <2> QED
    BY <1>1, <2>1, <2>2 DEF FlightInv, Attended
<1>2. CASE /\ MayDisarmAlone(d)
           /\ mgr' = [mgr EXCEPT !.down_alone = @ \union {d}]
           /\ svc' = [svc EXCEPT ![d] = Append(@, AloneRequest)]
  <2>1. /\ mgr'.flying = mgr.flying /\ mgr'.fleet_armed = mgr.fleet_armed
        /\ mgr'.drone_armed = mgr.drone_armed /\ mgr'.on_load = mgr.on_load
        /\ mgr'.mux_state = mgr.mux_state /\ mgr'.excused = mgr.excused
        /\ mgr'.down_alone = mgr.down_alone \union {d}
    BY <1>a, <1>2 DEF MgrStates
  <2>2. NoArm' /\ StaysGrounded' /\ Undisturbed' /\ ExcusedOffRing' /\ Known'
    BY <1>b, <2>1 DEF FlightInv, NoArm, StaysGrounded, Undisturbed,
                      ExcusedOffRing, Known, KnownOf, Accounted
  <2>3. \A e \in Drones : OwnDisarm(e)
    BY <1>2 DEF FlightInv, Attended, MayDisarmAlone
  <2>4. svc[d] = << >>
    BY <1>b, <2>3 DEF OwnDisarm
  <2>5. /\ svc'[d] = <<AloneRequest>>
        /\ \A e \in Drones \ {d} : svc'[e] = svc[e]
    BY <1>2, <1>a, <2>4
  <2>6. OwnDisarm(d)'
    BY <1>b, <2>1, <2>3, <2>5 DEF OwnDisarm, AloneRequest, AloneDisarm
  <2>7. \A e \in Drones \ {d} : OwnDisarm(e)'
    BY <1>b, <2>1, <2>3, <2>5 DEF OwnDisarm, AloneRequest, AloneDisarm
  <2>8. Attended'
    BY <2>6, <2>7 DEF Attended
  <2> QED
    BY <2>2, <2>8 DEF FlightInv
<1> QED
  BY <1>1, <1>2 DEF DownAloneCallback, AloneRequest

(* The rest of the manager.                                                *)
LEMMA ManagerFlight ==
  ASSUME TypeOK, AloneInv, FlightInv, ManagerRuns \/ ManagerFaults
  PROVE  FlightInv'
<1>a. mgr \in MgrStates /\ SameFlight(mgr)
  BY DEF TypeOK, MgrTypeOK, SameFlight
<1>b. UNCHANGED trk
  BY DEF ManagerRuns, ManagerFaults, ManagerWorks, ManagerOnly, ArmTimesOut,
         PastTheLimit
<1>1. ASSUME NEW k \in ArmIds, ArmStep(k) \/ ArmTimeout(k)
      PROVE  FlightInv'
  <2>1. arm[k].pc # "done"
    BY <1>1 DEF ArmStep, ArmStart, ArmWait, ArmNoService, ArmSend, ArmCollect,
                ArmCheck, ArmWaitFc, ArmSet, ArmTimeout
  <2> QED
    BY <2>1 DEF FlightInv, NoArm
<1>2. CASE DisarmThread
  <2>1. ~mgr.flying
    BY <1>2 DEF DisarmThread, FlightInv, Undisturbed
  <2>2. UNCHANGED <<mgr, arm>>
    BY <1>2 DEF DisarmThread
  <2>3. mgr.flying \in BOOLEAN /\ mgr.fleet_armed \in BOOLEAN
    BY <1>a DEF MgrStates
  <2> QED
    BY <2>1, <2>2, <2>3, FlightEnds DEF FlightInv, NoArm, StaysGrounded
<1>3. CASE LandFleet
  <2>1. UNCHANGED <<svc, down_sent, mux>>
    BY <1>3 DEF LandFleet, services
  <2>2. ServiceDisarm(mgr, arm, TRUE) \/ (SameFlight(mgr') /\ Quiet)
    BY <1>a, <1>3 DEF LandFleet, SameFlight, MgrStates
  <2> QED
    BY <1>a, <1>b, <2>1, <2>2, FlightKept, ServiceDisarmEnds DEF Quiet
<1>4. CASE Landed
  <2> DEFINE m == [mgr EXCEPT !.landing = FALSE]
  <2>1. UNCHANGED <<svc, down_sent, mux>>
    BY <1>4 DEF Landed, services
  <2>2. ServiceDisarm(m, arm, FALSE) \/ (UNCHANGED mgr /\ Quiet)
    BY <1>4 DEF Landed
  <2>3. m \in MgrStates
    BY <1>a DEF MgrStates
  <2> HIDE DEF m
  <2> QED
    BY <1>a, <1>b, <2>1, <2>2, <2>3, FlightKept, ServiceDisarmEnds DEF Quiet
<1>5. CASE PayloadDropped \/ StepTimer
  <2>1. SameFlight(mgr')
    BY <1>a, <1>5 DEF PayloadDropped, StepTimer, mgrVars, SameFlight, MgrStates
  <2>2. UNCHANGED <<arm, disarming, mux_abort, svc, down_sent, mux>>
    BY <1>5 DEF PayloadDropped, StepTimer, mgrVars, services, trackerTopics,
                muxTopics
  <2> QED
    BY <1>b, <2>1, <2>2, FlightKept
<1>6. ASSUME NEW d \in Drones, DepartedCallback(d) \/ AloneReply(d)
      PROVE  FlightInv'
  <2>1. SameFlight(mgr')
    BY <1>a, <1>6 DEF DepartedCallback, AloneReply, mgrVars, SameFlight, MgrStates
  <2>2. UNCHANGED <<arm, disarming, mux_abort, svc, down_sent, mux>>
    BY <1>6 DEF DepartedCallback, AloneReply, mgrVars, services, trackerTopics,
                muxTopics
  <2> QED
    BY <1>b, <2>1, <2>2, FlightKept
<1> QED
  BY <1>b, <1>1, <1>2, <1>3, <1>4, <1>5, <1>6, FeedbackFlight, OnLoadFlight,
     MuxStateFlight, FaultLandFlight, DownAloneFlight
  DEF ManagerRuns, ManagerFaults, ManagerWorks, ManagerOnly, MgrStep,
      MgrCallback, ArmTimesOut, PastTheLimit

-----------------------------------------------------------------------------
(* A tracker: the others stay as they are, and so does the manager.        *)
LEMMA OneTrackerFlight ==
  ASSUME FlightInv, NEW d \in Drones,
         UNCHANGED <<mgr, arm, disarming, mux_abort, mux>>,
         \A e \in Drones \ {d} :
           trk'[e] = trk[e] /\ svc'[e] = svc[e] /\ (e \in down_sent' <=> e \in down_sent),
         mgr.flying /\ OwnDisarm(d) => OwnDisarm(d)'
  PROVE  FlightInv'
<1>1. NoArm' /\ StaysGrounded' /\ Undisturbed' /\ ExcusedOffRing' /\ Known'
  BY DEF FlightInv, NoArm, StaysGrounded, Undisturbed, ExcusedOffRing, Known,
         KnownOf, Accounted
<1>2. ASSUME NEW e \in Drones \ {d}, OwnDisarm(e)
      PROVE  OwnDisarm(e)'
  BY <1>2 DEF OwnDisarm
<1>3. Attended'
  BY <1>2 DEF FlightInv, Attended
<1> QED
  BY <1>1, <1>3 DEF FlightInv

(* What a tracker does in flight: it answers its own disarm alone and      *)
(* keeps its process, or asks for it, or changes nothing of the kind.      *)
LEMMA TrackerFlight ==
  ASSUME TypeOK, FlightInv, NEW d \in Drones,
         TrackerRuns(d) \/ TrackerFaults(d) \/ RefStale(d)
  PROVE  FlightInv'
<1>a. /\ trk \in [Drones -> TrackerStates]
      /\ svc \in [Drones -> Seq(Requests)]
  BY DEF TypeOK, TrackerTypeOK, ChannelsTypeOK
<1>b. UNCHANGED <<mgr, arm, disarming>>
  BY DEF TrackerRuns, TrackerFaults, RefStale, TrackerOnly, mgrVars
<1> DEFINE Others == \A e \in Drones \ {d} :
                       trk'[e] = trk[e] /\ svc'[e] = svc[e]
                       /\ (e \in down_sent' <=> e \in down_sent)
<1>c. UNCHANGED <<mux_abort, mux>>
  BY DEF TrackerRuns, TrackerFaults, RefStale, TrackerOnly, Serve, Start,
         HandleArm, HandleDisarm, AnswerDisarm, HandleTakeoff, FleetAbort,
         DepartedCb, TiltFault, Wedge, Exit, Ends, Tick, TickFly, TickDisarmed,
         TickPoseTimeout, TickEnvelopeFault, Latches, TickSolverFailure,
         TickDownAlone, OnlyTicks, chanVars, muxTopics
<1>1. CASE \/ Start(d) \/ HandleTakeoff(d) \/ FleetAbort(d) \/ DepartedCb(d)
           \/ TiltFault(d) \/ Wedge(d) \/ Tick(d) \/ TickPoseTimeout(d)
           \/ TickEnvelopeFault(d) \/ TickSolverFailure(d)
  <2>1. UNCHANGED <<svc, down_sent>>
    BY <1>1 DEF Start, HandleTakeoff, FleetAbort, DepartedCb, TiltFault, Wedge,
                Tick, TickFly, TickDisarmed, TickPoseTimeout, TickEnvelopeFault,
                Latches, TickSolverFailure, OnlyTicks, chanVars, services,
                trackerTopics
  <2> DEFINE Spared ==
               /\ \A e \in Drones \ {d} : trk'[e] = trk[e]
               /\ trk'[d].shutdown = trk[d].shutdown
               /\ trk'[d].keep = trk[d].keep
               /\ trk[d].was_armed => /\ trk'[d].was_armed = trk[d].was_armed
                                      /\ trk'[d].down = trk[d].down
  <2>2. Spared
    <3>1. CASE Start(d) \/ TiltFault(d)
      BY <3>1 DEF Start, TiltFault
    <3>2. CASE HandleTakeoff(d)
      BY <3>2, <1>a DEF HandleTakeoff, TrackerStates
    <3>3. CASE FleetAbort(d)
      <4>1. \/ UNCHANGED trk
            \/ trk' = [trk EXCEPT ![d] = [Disarmed(trk[d]) EXCEPT !.aborted = TRUE]]
        BY <3>3 DEF FleetAbort
      <4> QED
        BY <4>1, <1>a DEF Disarmed, TrackerStates
    <3>4. CASE DepartedCb(d) \/ Wedge(d)
      BY <3>4, <1>a DEF DepartedCb, Wedge, TrackerStates
    <3>5. CASE TickFly(d)
      <4>1. trk' = [trk EXCEPT ![d] = EdgeReset(trk[d])]
        BY <3>5 DEF TickFly
      <4> QED
        BY <4>1, <1>a DEF EdgeReset, TrackerStates
    <3>6. CASE TickDisarmed(d)
      BY <3>6 DEF TickDisarmed
    <3>7. CASE TickSolverFailure(d)
      <4>1. trk' = [trk EXCEPT ![d] = Disarmed(EdgeReset(trk[d]))]
        BY <3>7 DEF TickSolverFailure
      <4> QED
        BY <4>1, <1>a DEF EdgeReset, Disarmed, TrackerStates
    <3>8. CASE TickPoseTimeout(d) \/ TickEnvelopeFault(d)
      BY <3>8, <1>a DEF TickPoseTimeout, TickEnvelopeFault, Latches, Disarmed,
                        TrackerStates
    <3> QED
      BY <1>1, <3>1, <3>2, <3>3, <3>4, <3>5, <3>6, <3>7, <3>8 DEF Tick
  <2>3. OwnDisarm(d) => OwnDisarm(d)'
    BY <1>b, <2>1, <2>2 DEF OwnDisarm, AloneRequest, AloneDisarm
  <2> QED
    BY <1>b, <1>c, <2>1, <2>2, <2>3, OneTrackerFlight
<1>2. ASSUME NEW ready \in BOOLEAN, HandleArm(d, ready)
      PROVE  FlightInv'
  <2>1. svc[d] # << >> /\ Head(svc[d]).arm /\ UNCHANGED down_sent
    BY <1>2 DEF HandleArm
  <2>2. ~OwnDisarm(d)
    BY <2>1 DEF OwnDisarm, AloneRequest
  <2>3. Others
    BY <1>2, <1>a DEF HandleArm
  <2> QED
    BY <1>b, <1>c, <2>2, <2>3, OneTrackerFlight
<1>3. CASE HandleDisarm(d)
  <2>1. svc[d] # << >> /\ UNCHANGED down_sent
    BY <1>3 DEF HandleDisarm, AnswerDisarm
  <2>2. Others
    BY <1>3, <1>a DEF HandleDisarm, AnswerDisarm
  <2>3. svc'[d] = Tail(svc[d])
    BY <1>3, <1>a DEF HandleDisarm, AnswerDisarm
  <2>4. /\ trk'[d].was_armed = trk[d].was_armed /\ trk'[d].down = trk[d].down
        /\ trk[d].keep => trk'[d].shutdown = FALSE
    BY <1>3, <1>a DEF HandleDisarm, AnswerDisarm, Disarmed, TrackerStates
  <2>5. ASSUME OwnDisarm(d)
        PROVE  OwnDisarm(d)'
    <3>1. svc[d] = <<AloneRequest>> /\ trk[d].keep /\ d \in mgr.down_alone
      BY <2>1, <2>5 DEF OwnDisarm
    <3>2. svc'[d] = << >>
      BY <2>3, <3>1
    <3> QED
      BY <1>b, <2>1, <2>4, <2>5, <3>1, <3>2 DEF OwnDisarm
  <2> QED
    BY <1>b, <1>c, <2>2, <2>5, OneTrackerFlight
<1>4. CASE TickDownAlone(d)
  <2>1. /\ ~trk[d].down /\ UNCHANGED svc
        /\ down_sent' = down_sent \union {d}
    BY <1>4 DEF TickDownAlone, OnlyTicks, services
  <2>2. /\ Others
        /\ trk'[d].was_armed = trk[d].was_armed
        /\ trk'[d].shutdown = trk[d].shutdown
        /\ trk'[d].keep = TRUE /\ trk'[d].down = TRUE
    BY <1>4, <1>a, <2>1 DEF TickDownAlone, TrackerStates
  <2>3. OwnDisarm(d) => OwnDisarm(d)'
    BY <1>b, <2>1, <2>2 DEF OwnDisarm
  <2> QED
    BY <1>b, <1>c, <2>2, <2>3, OneTrackerFlight
<1>5. CASE Exit(d)
  <2>1. trk[d].shutdown /\ UNCHANGED <<trk, down_sent>>
    BY <1>5 DEF Exit, Ends
  <2>2. Others
    BY <1>5, <1>a, <2>1 DEF Exit, Ends
  <2>3. ~OwnDisarm(d)
    BY <2>1 DEF OwnDisarm
  <2> QED
    BY <1>b, <1>c, <2>2, <2>3, OneTrackerFlight
<1> QED
  BY <1>1, <1>2, <1>3, <1>4, <1>5
  DEF TrackerRuns, TrackerFaults, RefStale, TrackerOnly, Serve

(* A mux: no abort waits for it in flight, a cut is the partner's still.   *)
LEMMA MuxFlight ==
  ASSUME TypeOK, FlightInv, NEW d \in Drones, MuxRuns(d) \/ MuxHandsOver(d)
  PROVE  FlightInv'
<1>a. mux \in [Drones -> MuxStates]
  BY DEF TypeOK, ChannelsTypeOK
<1>b. UNCHANGED <<mgr, arm, disarming, svc, trk, down_sent>>
  BY DEF MuxRuns, MuxHandsOver, MuxTakes, MuxReleases, MuxAborts, MuxCuts,
         PartnerStream, FcReport, MuxSets, mgrVars, services, trackerTopics
<1>c. mux_abort' \subseteq mux_abort
  BY DEF MuxRuns, MuxHandsOver, MuxTakes, MuxReleases, MuxAborts, MuxCuts,
         PartnerStream, FcReport, MuxSets, muxTopics
<1>d. ASSUME mgr.flying, "handover" \notin FaultKinds, NEW e \in Drones,
             Partner(mux[e])
      PROVE  Partner(mux'[e])
  <2>1. ~(MuxTakes(d) \/ MuxReleases(d))
    BY <1>d DEF MuxTakes, MuxReleases, Fault1
  <2>2. ~MuxAborts(d)
    BY <1>d DEF MuxAborts, FlightInv, Undisturbed
  <2>3. CASE MuxCuts(d)
    BY <2>3, <1>a, <1>d DEF MuxCuts, MuxSets, Partner
  <2>4. CASE FcReport(d) \/ PartnerStream(d)
    BY <2>4, <1>d DEF FcReport, PartnerStream, muxTopics
  <2> QED
    BY <2>1, <2>2, <2>3, <2>4 DEF MuxRuns, MuxHandsOver
<1>1. NoArm' /\ StaysGrounded' /\ Undisturbed' /\ ExcusedOffRing'
  BY <1>b, <1>c DEF FlightInv, NoArm, StaysGrounded, Undisturbed, ExcusedOffRing
<1>2. Attended'
  BY <1>b DEF FlightInv, Attended, OwnDisarm
<1>3. Known'
  BY <1>b, <1>d DEF FlightInv, Known, KnownOf, Accounted
<1> QED
  BY <1>1, <1>2, <1>3 DEF FlightInv

(* The planner moves none of it.                                           *)
LEMMA PlannerFlight ==
  ASSUME FlightInv, PlannerRuns \/ PlannerFaults
  PROVE  FlightInv'
<1>1. UNCHANGED <<mgr, arm, disarming, trk>>
  BY DEF PlannerRuns, PlannerFaults, PlannerWorks, PlannerOnly, mgrVars
<1>2. UNCHANGED <<mux_abort, svc, down_sent, mux>>
  BY DEF PlannerRuns, PlannerFaults, PlannerWorks, PlannerOnly, PlannerHears,
         PlannerTick, HearStep, FleetCommandLand, LandUnheard,
         HearNewcomerArming, LandTick, DropTick, AnnounceOnLoad,
         EnterPlannerPhase, TellDeparted, FoldIn, Detach, DropAndLand,
         PlannerCrash, PlannerQuiet, chanVars, services, trackerTopics, muxTopics
<1> QED
  BY <1>1, <1>2, FlightKept DEF SameFlight

-----------------------------------------------------------------------------
(* The invariant is inductive, and holds at the start.                     *)
LEMMA FlightStep ==
  TypeOK /\ AloneInv /\ FlightInv /\ [Next]_vars => FlightInv'
<1> SUFFICES ASSUME TypeOK, AloneInv, FlightInv, [Next]_vars PROVE FlightInv'
  OBVIOUS
<1>1. CASE UNCHANGED vars
  BY <1>1, FlightKept
  DEF vars, mgrVars, chanVars, services, trackerTopics, muxTopics, SameFlight
<1> QED
  BY <1>1, OperatorFlight, ManagerFlight, PlannerFlight, TrackerFlight, MuxFlight
  DEF Next

(* A fleet in the air, its one ARM over.                                   *)
LEMMA FlightInit == OneFlight => (InitInFlight => FlightInv)
<1> SUFFICES ASSUME OneFlight, InitInFlight PROVE FlightInv
  OBVIOUS
<1>1. \A k \in ArmIds : k = 1
  BY DEF OneFlight, ArmIds
<1>2. NoArm
  BY <1>1 DEF NoArm, InitInFlight
<1>3. \A d \in Drones : OwnDisarm(d) /\ KnownOf(d)
  BY DEF InitInFlight, InFlight, FreshTracker, OwnDisarm, KnownOf
<1> QED
  BY <1>2, <1>3 DEF InitInFlight, FlightInv, StaysGrounded, Undisturbed,
                    Attended, Known, ExcusedOffRing

(* ... so it holds throughout.                                             *)
LEMMA FlightInvariant == OneFlight => (SpecInFlight => []FlightInv)
<1> SUFFICES ASSUME OneFlight PROVE SpecInFlight => []FlightInv
  OBVIOUS
<1>1. InitInFlight => AloneInv
  BY DEF InitInFlight, AloneInv
<1> QED
  BY <1>1, FlightInit, AloneStep, FlightStep, TypeCorrectInFlight, PTL
  DEF SpecInFlight

(* However a drone let go idles, is disarmed alone, faults or wedges, no   *)
(* process ends while the fleet flies.                                     *)
THEOREM NobodyLeaves == OneFlight => (SpecInFlight => []NobodyLeavesInFlight)
<1> SUFFICES ASSUME OneFlight PROVE SpecInFlight => []NobodyLeavesInFlight
  OBVIOUS
<1>1. FlightInv => NobodyLeavesInFlight
  BY DEF FlightInv, Attended, OwnDisarm, NobodyLeavesInFlight
<1> QED
  BY <1>1, FlightInvariant, PTL

(* With no LAND faults, the manager never flies on with a drone it both    *)
(* excused and believes on the ring, in whatever order a disarm, an        *)
(* on_load and a mux state come.                                           *)
THEOREM ExcusedIsOffRing == OneFlight => (SpecInFlight => []ExcusedOffRing)
<1> SUFFICES ASSUME OneFlight PROVE SpecInFlight => []ExcusedOffRing
  OBVIOUS
<1>1. FlightInv => ExcusedOffRing
  BY DEF FlightInv
<1> QED
  BY <1>1, FlightInvariant, PTL

(* With no hand-over in the air, a disarm of any drone that the manager    *)
(* has read is accounted for while the fleet flies.                        *)
THEOREM DisarmsAreAccounted ==
  OneFlight /\ "handover" \notin FaultKinds =>
    (SpecInFlight => []FlyingIsArmed)
<1> SUFFICES ASSUME OneFlight, "handover" \notin FaultKinds
             PROVE  SpecInFlight => []FlyingIsArmed
  OBVIOUS
<1>1. FlightInv => FlyingIsArmed
  BY DEF FlightInv, Known, KnownOf, FlyingIsArmed
<1> QED
  BY <1>1, FlightInvariant, PTL

-----------------------------------------------------------------------------
(* No drone is left armed behind a fleet that is not.                      *)

(* Somebody answers for the armed drones: the fleet is armed, it flies, or *)
(* an ARM sequence arms it.                                                *)
Answered == mgr.fleet_armed \/ mgr.flying \/ \E k \in ArmIds : Arming(k)

(* The inductive invariant.  Of the processes that do not run none has a   *)
(* request to answer, and one that will start is disarmed; an emergency    *)
(* stop has stopped every ARM sequence; before the first ARM has begun the *)
(* fleet neither is armed nor flies.                                       *)
Attends(d) == Runs(d) => WillBeDisarmed(d) \/ Answered
StartsDisarmed(d) ==
  d \notin up => svc[d] = << >> /\ (trk[d].shutdown \/ ~trk[d].armed)
StopHolds == mgr.last_estop # NoReason => \A k \in ArmIds : ~Arming(k)
FirstArm ==
  OneFlight => \A k \in ArmIds : arm[k].pc \in {"idle", "start"}
                                   => ~mgr.fleet_armed /\ ~mgr.flying
RestInv ==
  /\ \A d \in Drones : Attends(d) /\ StartsDisarmed(d)
  /\ StopHolds /\ FirstArm

(* Steps that change neither a request nor a tracker.                      *)
SameTrackers == UNCHANGED <<up, svc, trk>>
LEMMA RestKept ==
  ASSUME RestInv, SameTrackers, StopHolds', FirstArm',
         disarming' > 0 \/ (disarming' = disarming /\ (Answered => Answered'))
  PROVE  RestInv'
<1>1. \A d \in Drones : StartsDisarmed(d)'
  BY DEF RestInv, SameTrackers, StartsDisarmed
<1>2. \A d \in Drones : Attends(d)'
  BY DEF RestInv, SameTrackers, Attends, WillBeDisarmed, Runs
<1> QED
  BY <1>1, <1>2 DEF RestInv

(* A step that keeps what the ARM sequences and the flags are.             *)
SameArms(m) ==
  /\ m.flying = mgr.flying /\ m.fleet_armed = mgr.fleet_armed
  /\ m.last_estop = mgr.last_estop
LEMMA ArmsKept ==
  ASSUME RestInv, SameArms(mgr'), UNCHANGED arm
  PROVE  StopHolds' /\ FirstArm' /\ (Answered <=> Answered')
BY DEF RestInv, SameArms, StopHolds, FirstArm, Arming, Answered

(* A disarm: every tracker that answers will be asked.                     *)
LEMMA StopArmsRest ==
  ASSUME TypeOK, NEW a \in [ArmIds -> ArmStates], StopArms(a)
  PROVE  /\ \A k \in ArmIds : ~Arming(k)'
         /\ \A k \in ArmIds : arm'[k].pc = a[k].pc
BY DEF StopArms, ArmStates, Arming

LEMMA ServiceDisarmRest ==
  ASSUME TypeOK, RestInv, SameTrackers, NEW m \in MgrStates,
         NEW a \in [ArmIds -> ArmStates], NEW keep, ServiceDisarm(m, a, keep)
  PROVE  RestInv'
<1>1. mgr'.flying = FALSE /\ mgr'.fleet_armed = FALSE
  BY DEF ServiceDisarm, MgrStates
<1>2. StopHolds' /\ FirstArm'
  BY <1>1, StopArmsRest DEF ServiceDisarm, StopHolds, FirstArm
<1>3. disarming' > 0
  BY DEF ServiceDisarm, TypeOK, MgrTypeOK
<1> QED
  BY <1>2, <1>3, RestKept

(* An emergency stop that only repeats its reason finds nobody armed but   *)
(* by a fleet that still is.                                               *)
LEMMA EmergencyStopRest ==
  ASSUME TypeOK, AloneInv, RestInv, SameTrackers, NEW m \in MgrStates, SameArms(m),
         NEW reason, reason # NoReason, EmergencyStop(m, reason)
  PROVE  RestInv'
<1>a. arm \in [ArmIds -> ArmStates] /\ StopArms(arm)
  BY DEF TypeOK, MgrTypeOK, EmergencyStop
<1>b. StopHolds' /\ \A k \in ArmIds : arm'[k].pc = arm[k].pc
  BY <1>a, StopArmsRest DEF StopHolds
<1>1. CASE m.last_estop = reason /\ mgr' = m /\ UNCHANGED disarming
  <2>1. FirstArm'
    BY <1>1, <1>b DEF RestInv, FirstArm, SameArms
  <2>2. Answered => Answered'
    BY <1>1 DEF RestInv, StopHolds, SameArms, Answered
  <2> QED
    BY <1>1, <1>b, <2>1, <2>2, RestKept
<1>2. CASE /\ mgr' = [m EXCEPT !.flying = FALSE, !.fleet_armed = FALSE,
                               !.shutdown = FALSE, !.last_estop = reason]
           /\ disarming' = disarming + 1
  <2>1. mgr'.flying = FALSE /\ mgr'.fleet_armed = FALSE
    BY <1>2 DEF MgrStates
  <2>2. disarming' > 0
    BY <1>2 DEF TypeOK, MgrTypeOK
  <2> QED
    BY <1>b, <2>1, <2>2, RestKept DEF FirstArm
<1> QED
  BY <1>1, <1>2 DEF EmergencyStop

-----------------------------------------------------------------------------
(* The operator.                                                           *)
LEMMA OperatorRest ==
  ASSUME TypeOK, AloneInv, RestInv, Operator
  PROVE  RestInv'
<1>a. mgr \in MgrStates /\ SameArms(mgr) /\ arm \in [ArmIds -> ArmStates]
  BY DEF TypeOK, MgrTypeOK, SameArms
<1>b. SameTrackers
  BY DEF Operator, OperatorArm, OperatorTakeoff, OperatorLand, OperatorDisarm,
         Command_ARM, Command_TAKEOFF, Command_DISARM, chanVars, services,
         SameTrackers
<1>1. CASE OperatorArm
  <2>1. PICK k \in ArmIds : arm[k].pc = "idle" /\ arm' = Goto(k, "start")
    BY <1>1 DEF OperatorArm, Command_ARM
  <2>2. /\ mgr'.flying = mgr.flying /\ mgr'.fleet_armed = mgr.fleet_armed
        /\ mgr'.last_estop = NoReason /\ UNCHANGED disarming
    BY <1>a, <1>1 DEF OperatorArm, Command_ARM, MgrStates
  <2>3. /\ arm'[k].pc = "start"
        /\ \A j \in ArmIds \ {k} : arm'[j] = arm[j]
    BY <1>a, <2>1 DEF Goto, ArmStates
  <2>4. \A j \in ArmIds : Arming(j) <=> Arming(j)'
    BY <2>1, <2>3 DEF Arming
  <2>5. FirstArm'
    BY <2>1, <2>2, <2>3 DEF RestInv, FirstArm
  <2> QED
    BY <1>b, <2>2, <2>4, <2>5, RestKept DEF StopHolds, Answered
<1>2. CASE OperatorTakeoff
  <2>1. CASE UNCHANGED mgr /\ Quiet
    BY <1>a, <1>b, <2>1, ArmsKept, RestKept DEF Quiet
  <2>2. CASE ServiceDisarm(mgr, arm, TRUE)
    BY <1>a, <1>b, <2>2, ServiceDisarmRest
  <2>3. CASE /\ mgr.fleet_armed /\ Quiet
             /\ mgr' = [mgr EXCEPT !.flying = TRUE, !.last_estop = NoReason]
    <3>1. mgr'.flying = TRUE /\ mgr'.last_estop = NoReason
      BY <1>a, <2>3 DEF MgrStates
    <3>2. FirstArm'
      BY <2>3 DEF RestInv, FirstArm, Quiet
    <3> QED
      BY <1>b, <2>3, <3>1, <3>2, RestKept DEF Quiet, StopHolds, Answered
  <2> QED
    BY <1>2, <2>1, <2>2, <2>3 DEF OperatorTakeoff, Command_TAKEOFF
<1>3. CASE OperatorLand
  BY <1>a, <1>b, <1>3, ArmsKept, RestKept DEF OperatorLand, mgrVars
<1>4. ASSUME NEW c \in {"DISARM", "ESTOP"}, OperatorDisarm(c)
      PROVE  RestInv'
  <2>1. Reason(c, N) # NoReason
    BY <1>4 DEF Reason, NoReason
  <2> QED
    BY <1>a, <1>b, <1>4, <2>1, EmergencyStopRest
    DEF OperatorDisarm, Command_DISARM
<1> QED
  BY <1>1, <1>2, <1>3, <1>4 DEF Operator

-----------------------------------------------------------------------------
(* The ARM sequences: a step of one that answers for its drones answers    *)
(* for them still, or asks the fleet to disarm, or has armed it.           *)
LEMMA GotoRest ==
  ASSUME TypeOK, NEW k \in ArmIds, NEW pc \in ArmPcs
  PROVE  /\ Goto(k, pc) \in [ArmIds -> ArmStates]
         /\ Goto(k, pc)[k].pc = pc /\ Goto(k, pc)[k].stopped = arm[k].stopped
         /\ \A j \in ArmIds \ {k} : Goto(k, pc)[j] = arm[j]
<1>1. arm \in [ArmIds -> ArmStates] /\ 0 \in 0 .. N
  BY FleetAssumption DEF TypeOK, MgrTypeOK
<1> QED
  BY <1>1 DEF Goto, ArmStates

(* Steps of one sequence that touch no flag of the fleet.                  *)
ArmMoves(k) ==
  /\ UNCHANGED <<mgr, disarming>>
  /\ \A j \in ArmIds \ {k} : arm'[j] = arm[j]
  /\ arm'[k].stopped = arm[k].stopped
  /\ arm[k].pc \notin {"idle", "start", "done"}
  /\ \/ arm'[k].pc \notin {"idle", "start", "done"}
     \/ arm'[k].pc = "done" /\ arm[k].stopped
LEMMA ArmMovesRest ==
  ASSUME RestInv, NEW k \in ArmIds, ArmMoves(k)
  PROVE  StopHolds' /\ FirstArm' /\ (Answered => Answered')
<1>1. \A j \in ArmIds : Arming(j) <=> Arming(j)'
  BY DEF ArmMoves, Arming
<1> QED
  BY <1>1 DEF RestInv, StopHolds, FirstArm, Answered, ArmMoves

LEMMA ArmStartRest ==
  ASSUME TypeOK, RestInv, ~Crossed, OneFlight \/ (Newcomers = {} /\ CarrierInv),
         NEW k \in ArmIds, ArmStart(k), UNCHANGED trk
  PROVE  RestInv'
<1>a. mgr \in MgrStates /\ arm \in [ArmIds -> ArmStates]
  BY DEF TypeOK, MgrTypeOK
<1>b. /\ SameTrackers /\ UNCHANGED disarming
      /\ arm[k].pc = "start" /\ mgr.last_estop = NoReason
  BY DEF ArmStart, chanVars, services, SameTrackers, Crossed
<1>c. ASSUME arm' = Goto(k, "done")
      PROVE  arm'[k].pc = "done" /\ \A j \in ArmIds \ {k} : arm'[j] = arm[j]
  <2>1. "done" \in ArmPcs
    BY DEF ArmPcs
  <2> QED
    BY <1>c, <2>1, GotoRest
<1>1. CASE mgr' = [mgr EXCEPT !.fleet_armed = FALSE] /\ arm' = Goto(k, "done")
           /\ {d \in Drones : mgr.mux_state[d] \in {"latched", "cut"}} # {}
  <2>1. OneFlight
    BY <1>1 DEF CarrierInv, Carriers
  <2>2. ~mgr.fleet_armed /\ ~mgr.flying
    BY <1>b, <2>1 DEF RestInv, FirstArm
  <2>3. /\ mgr'.flying = mgr.flying /\ mgr'.fleet_armed = FALSE
        /\ mgr'.last_estop = mgr.last_estop
    BY <1>a, <1>1 DEF MgrStates
  <2>4. \A j \in ArmIds : Arming(j) <=> Arming(j)'
    BY <1>b, <1>1, <1>c DEF Arming
  <2>5. StopHolds' /\ FirstArm'
    BY <1>b, <2>2, <2>3 DEF StopHolds, FirstArm
  <2>6. Answered => Answered'
    BY <2>2, <2>4 DEF Answered
  <2> QED
    BY <1>b, <2>5, <2>6, RestKept
<1>2. CASE arm' = Goto(k, "done") /\ UNCHANGED mgr
  <2>1. \A j \in ArmIds : Arming(j) <=> Arming(j)'
    BY <1>b, <1>2, <1>c DEF Arming
  <2>2. FirstArm'
    BY <1>2, <1>c DEF RestInv, FirstArm
  <2>3. StopHolds' /\ (Answered => Answered')
    BY <1>b, <1>2, <2>1 DEF StopHolds, Answered
  <2> QED
    BY <1>b, <2>2, <2>3, RestKept
<1>3. CASE /\ mgr' = [mgr EXCEPT !.fleet_armed = FALSE, !.shutdown = FALSE]
           /\ arm' = [Goto(k, "wait") EXCEPT ![k].stopped = FALSE]
  <2>1. Goto(k, "wait") \in [ArmIds -> ArmStates] /\ Goto(k, "wait")[k].pc = "wait"
    BY GotoRest DEF ArmPcs
  <2>2. arm'[k].pc = "wait" /\ ~arm'[k].stopped
    BY <1>3, <2>1 DEF ArmStates
  <2>3. Answered' /\ mgr'.last_estop = NoReason /\ mgr'.fleet_armed = FALSE
        /\ mgr'.flying = mgr.flying
    BY <1>a, <1>b, <1>3, <2>2 DEF Answered, Arming, MgrStates
  <2>4. FirstArm'
    BY <1>b, <2>3 DEF RestInv, FirstArm, OneFlight, ArmIds
  <2> QED
    BY <1>b, <2>3, <2>4, RestKept DEF StopHolds
<1> QED
  BY <1>1, <1>2, <1>3 DEF ArmStart

(* The arm requests are the sequence's own.                                *)
LEMMA ArmSendRest ==
  ASSUME TypeOK, RestInv, ~Crossed, NEW k \in ArmIds, ArmSend(k), UNCHANGED trk
  PROVE  RestInv'
<1>a. arm \in [ArmIds -> ArmStates] /\ svc \in [Drones -> Seq(Requests)]
  BY DEF TypeOK, MgrTypeOK, ChannelsTypeOK
<1>b. Arming(k) /\ UNCHANGED <<mgr, disarming, up>> /\ arm[k].pc = "send"
  BY DEF ArmSend, Crossed, Arming
<1>c. \A d \in Drones : d \notin up => svc'[d] = svc[d]
  BY <1>a DEF ArmSend
<1>1. ArmMoves(k)
  <2>1. CASE arm' = Goto(k, "collect")
    BY <1>b, <2>1, GotoRest DEF ArmMoves, ArmPcs
  <2>2. CASE arm' = [arm EXCEPT ![k].next = @ + 1]
    <3>1. arm'[k].pc = "send" /\ arm'[k].stopped = arm[k].stopped
      BY <1>a, <1>b, <2>2 DEF ArmStates
    <3> QED
      BY <1>a, <1>b, <2>2, <3>1 DEF ArmMoves
  <2> QED
    BY <2>1, <2>2 DEF ArmSend
<1>2. StopHolds' /\ FirstArm' /\ Answered'
  BY <1>b, <1>1, ArmMovesRest DEF Answered
<1>3. \A d \in Drones : Attends(d)' /\ StartsDisarmed(d)'
  BY <1>b, <1>c, <1>2 DEF RestInv, Attends, StartsDisarmed
<1> QED
  BY <1>2, <1>3 DEF RestInv

LEMMA ArmRest ==
  ASSUME TypeOK, RestInv, ~Crossed, OneFlight \/ (Newcomers = {} /\ CarrierInv),
         NEW k \in ArmIds, ArmStep(k) \/ ArmTimeout(k), UNCHANGED trk
  PROVE  RestInv'
<1>a. mgr \in MgrStates /\ arm \in [ArmIds -> ArmStates]
  BY DEF TypeOK, MgrTypeOK
<1>b. ASSUME ~ArmSend(k) PROVE SameTrackers
  BY <1>b DEF ArmStep, ArmStart, ArmWait, ArmNoService, ArmCollect, ArmTimeout,
              Collected, ArmCheck, ArmWaitFc, ArmSet, SameTrackers, chanVars,
              services
<1>c. ASSUME ServiceDisarm(mgr, Goto(k, "done"), TRUE), SameTrackers
      PROVE  RestInv'
  BY <1>a, <1>c, GotoRest, ServiceDisarmRest DEF ArmPcs
<1>d. ASSUME SameTrackers, ArmMoves(k) PROVE RestInv'
  BY <1>d, ArmMovesRest, RestKept DEF ArmMoves
<1>e. ASSUME SameTrackers, UNCHANGED <<mgr, disarming>>, NEW pc \in ArmPcs,
             pc \notin {"idle", "start"}, pc = "done" => arm[k].stopped,
             arm[k].pc \notin {"idle", "start", "done"}, arm' = Goto(k, pc)
      PROVE  RestInv'
  BY <1>d, <1>e, GotoRest DEF ArmMoves
<1>1. CASE ArmStart(k)
  BY <1>1, ArmStartRest
<1>2. CASE ArmWait(k)
  <2>1. UNCHANGED <<mgr, disarming>> /\ SameTrackers
    BY <1>2 DEF ArmWait, SameTrackers, chanVars, services
  <2>2. CASE arm' = Goto(k, "send")
    BY <1>2, <1>e, <2>1, <2>2 DEF ArmWait, ArmPcs
  <2>3. ASSUME NEW n, arm' = [arm EXCEPT ![k].next = n]
        PROVE  RestInv'
    <3>1. arm'[k].pc = arm[k].pc /\ arm'[k].stopped = arm[k].stopped
      BY <1>a, <2>3 DEF ArmStates
    <3>2. ArmMoves(k)
      BY <1>a, <1>2, <2>1, <2>3, <3>1 DEF ArmMoves, ArmWait
    <3> QED
      BY <1>d, <2>1, <3>2
  <2> QED
    BY <1>2, <2>2, <2>3 DEF ArmWait
<1>3. CASE ArmSend(k)
  BY <1>3, ArmSendRest
<1>4. CASE ArmNoService(k) \/ ArmTimeout(k)
  <2>1. SameTrackers
    BY <1>4 DEF ArmNoService, ArmTimeout, Collected, SameTrackers, services
  <2> QED
    BY <1>4, <1>c, <2>1 DEF ArmNoService, ArmTimeout
<1>5. CASE ArmCollect(k)
  <2>1. SameTrackers
    BY <1>5 DEF ArmCollect, Collected, SameTrackers
  <2>2. CASE arm' = Goto(k, "check") /\ UNCHANGED <<mgr, disarming>>
    BY <1>5, <1>e, <2>1, <2>2 DEF ArmCollect, ArmPcs
  <2> QED
    BY <1>5, <1>c, <2>1, <2>2 DEF ArmCollect
<1>6. CASE ArmCheck(k)
  <2>1. SameTrackers
    BY <1>6 DEF ArmCheck, SameTrackers, chanVars, services
  <2>2. PICK pc \in {"done", "fc", "set"} :
          arm' = Goto(k, pc) /\ (pc = "done" => arm[k].stopped)
    BY <1>6 DEF ArmCheck
  <2> QED
    BY <1>6, <1>e, <2>1, <2>2 DEF ArmCheck, ArmPcs
<1>7. CASE ArmWaitFc(k)
  <2>1. SameTrackers
    BY <1>7 DEF ArmWaitFc, SameTrackers, services
  <2>2. CASE arm[k].stopped /\ arm' = Goto(k, "done") /\ UNCHANGED <<mgr, disarming>>
    BY <1>7, <1>e, <2>1, <2>2 DEF ArmWaitFc, ArmPcs
  <2>3. CASE arm' = Goto(k, "set") /\ UNCHANGED <<mgr, disarming>>
    BY <1>7, <1>e, <2>1, <2>3 DEF ArmWaitFc, ArmPcs
  <2> QED
    BY <1>7, <1>c, <2>1, <2>2, <2>3 DEF ArmWaitFc
<1>8. CASE ArmSet(k)
  <2>1. SameTrackers /\ UNCHANGED disarming
    BY <1>8 DEF ArmSet, SameTrackers, chanVars, services
  <2>2. /\ mgr'.fleet_armed = TRUE /\ mgr'.last_estop = mgr.last_estop
        /\ arm'[k].pc = "done" /\ \A j \in ArmIds \ {k} : arm'[j] = arm[j]
    BY <1>a, <1>8, GotoRest DEF ArmSet, MgrStates, ArmPcs
  <2>3. StopHolds'
    BY <2>2 DEF RestInv, StopHolds, Arming
  <2>4. FirstArm'
    BY <2>2 DEF FirstArm, OneFlight, ArmIds
  <2> QED
    BY <2>1, <2>2, <2>3, <2>4, RestKept DEF Answered
<1> QED
  BY <1>1, <1>2, <1>3, <1>4, <1>5, <1>6, <1>7, <1>8 DEF ArmStep

-----------------------------------------------------------------------------
(* The disarm thread asks every tracker that answers, after all it was     *)
(* asked before.                                                           *)
LEMMA AppendLast ==
  ASSUME NEW S, NEW q \in Seq(S), NEW e \in S
  PROVE  LET r == Append(q, e) IN r # << >> /\ r[Len(r)] = e
OBVIOUS

LEMMA DisarmThreadRest ==
  ASSUME TypeOK, RestInv, DisarmThread, UNCHANGED trk
  PROVE  RestInv'
<1>a. svc \in [Drones -> Seq(Requests)]
  BY DEF TypeOK, ChannelsTypeOK
<1>b. SameArms(mgr') /\ UNCHANGED <<arm, up>>
  BY DEF DisarmThread, SameArms
<1> DEFINE request == [arm |-> FALSE, by |-> FleetDisarm]
<1>c. svc' = [d \in Drones |-> IF d \in up THEN Append(svc[d], request) ELSE svc[d]]
  BY DEF DisarmThread, Asked
<1>d. request \in Requests /\ ~request.arm
  <2>1. 0 \in 0 .. MaxArm + 1
    BY FleetAssumption
  <2> QED
    BY <2>1 DEF Requests, FleetDisarm
<1> HIDE DEF request
<1>1. ASSUME NEW d \in Drones
      PROVE  Attends(d)' /\ StartsDisarmed(d)'
  <2>1. CASE d \in up
    <3>1. svc'[d] = Append(svc[d], request) /\ svc[d] \in Seq(Requests)
      BY <1>a, <1>c, <2>1
    <3>2. svc'[d] # << >> /\ svc'[d][Len(svc'[d])] = request
      BY <1>d, <3>1, AppendLast
    <3> QED
      BY <1>b, <1>d, <2>1, <3>2 DEF Attends, WillBeDisarmed, StartsDisarmed
  <2>2. CASE d \notin up
    <3>1. svc'[d] = svc[d]
      BY <1>c, <2>2
    <3> QED
      BY <1>b, <2>2, <3>1 DEF RestInv, Attends, StartsDisarmed, Runs
  <2> QED
    BY <2>1, <2>2
<1> QED
  BY <1>b, <1>1, ArmsKept DEF RestInv

(* The disarm of one drone that is down, too, is a disarm.                 *)
LEMMA DownAloneRest ==
  ASSUME TypeOK, RestInv, NEW d \in Drones, DownAloneCallback(d), UNCHANGED trk
  PROVE  RestInv'
<1>a. mgr \in MgrStates /\ svc \in [Drones -> Seq(Requests)]
  BY DEF TypeOK, MgrTypeOK, ChannelsTypeOK
<1>b. SameArms(mgr') /\ UNCHANGED <<arm, disarming, up>>
  BY <1>a DEF DownAloneCallback, SameArms, MgrStates
<1> DEFINE request == [arm |-> FALSE, by |-> AloneDisarm]
<1>c. request \in Requests /\ ~request.arm
  <2>1. MaxArm + 1 \in 0 .. MaxArm + 1
    BY FleetAssumption
  <2> QED
    BY <2>1 DEF Requests, AloneDisarm
<1>d. UNCHANGED svc \/ (d \in up /\ svc' = [svc EXCEPT ![d] = Append(@, request)])
  BY DEF DownAloneCallback, MayDisarmAlone
<1> HIDE DEF request
<1>1. CASE UNCHANGED svc
  BY <1>b, <1>1, ArmsKept, RestKept DEF SameTrackers
<1>2. CASE d \in up /\ svc' = [svc EXCEPT ![d] = Append(@, request)]
  <2>1. /\ svc'[d] = Append(svc[d], request) /\ svc[d] \in Seq(Requests)
        /\ \A e \in Drones \ {d} : svc'[e] = svc[e]
    BY <1>a, <1>2
  <2>2. svc'[d] # << >> /\ svc'[d][Len(svc'[d])] = request
    BY <1>c, <2>1, AppendLast
  <2>3. Attends(d)' /\ StartsDisarmed(d)'
    BY <1>b, <1>c, <1>2, <2>2 DEF Attends, WillBeDisarmed, StartsDisarmed
  <2>4. Answered <=> Answered'
    BY <1>b, ArmsKept
  <2>5. \A e \in Drones \ {d} : Attends(e)' /\ StartsDisarmed(e)'
    BY <1>b, <2>1, <2>4 DEF RestInv, Attends, StartsDisarmed, Runs, WillBeDisarmed
  <2> QED
    BY <1>b, <2>3, <2>5, ArmsKept DEF RestInv
<1> QED
  BY <1>d, <1>1, <1>2

(* The other callbacks of the manager.                                     *)
LEMMA CallbackRest ==
  ASSUME TypeOK, AloneInv, RestInv, NEW d \in Drones, UNCHANGED trk,
         \/ MgrCallback(d, pl.up) \/ FcDisarmed(d) \/ LimitBreach(d)
  PROVE  RestInv'
<1>a. mgr \in MgrStates /\ SameArms(mgr) /\ arm \in [ArmIds -> ArmStates]
  BY DEF TypeOK, MgrTypeOK, SameArms
<1>b. ASSUME SameTrackers, SameArms(mgr'), UNCHANGED <<arm, disarming>>
      PROVE  RestInv'
  BY <1>b, ArmsKept, RestKept
<1>1. CASE ArmingFeedback(d, pl.up)
  <2> DEFINE S == IF Head(feedback[d].mgr) THEN mgr.drone_armed \union {d}
                                           ELSE mgr.drone_armed \ {d}
             m == [mgr EXCEPT !.drone_armed = S]
  <2>1. \/ mgr' = m /\ Quiet
        \/ mgr' = [m EXCEPT !.excused = @ \union {d}] /\ Quiet
        \/ ServiceDisarm(m, arm, TRUE)
        \/ EmergencyStop(m, Reason("disarmed", d))
    BY <1>1 DEF ArmingFeedback
  <2>2. S \in SUBSET Drones
    BY <1>a DEF MgrStates
  <2>3. SameTrackers
    BY <1>1 DEF ArmingFeedback, services, SameTrackers
  <2> HIDE DEF S
  <2>4. m \in MgrStates /\ SameArms(m)
    BY <1>a, <2>2 DEF MgrStates, SameArms
  <2> HIDE DEF m
  <2>5. SameArms([m EXCEPT !.excused = @ \union {d}])
    BY <2>4 DEF SameArms, MgrStates
  <2>6. Reason("disarmed", d) # NoReason
    BY DEF Reason, NoReason
  <2> QED
    BY <1>a, <1>b, <2>1, <2>3, <2>4, <2>5, <2>6, ServiceDisarmRest,
       EmergencyStopRest DEF Quiet
<1>2. CASE OnLoadCallback(d)
  <2> DEFINE m == [mgr EXCEPT !.on_load[d] = on_load_pub[d]]
  <2>1. (mgr' = m /\ Quiet) \/ EmergencyStop(m, Reason("on the ring", d))
    BY <1>2 DEF OnLoadCallback
  <2>2. SameTrackers
    BY <1>2 DEF OnLoadCallback, services, SameTrackers
  <2>3. on_load_pub[d] \in Flags
    BY DEF TypeOK, ChannelsTypeOK
  <2>4. m \in MgrStates /\ SameArms(m)
    BY <1>a, <2>3 DEF MgrStates, SameArms
  <2> HIDE DEF m
  <2>5. Reason("on the ring", d) # NoReason
    BY DEF Reason, NoReason
  <2> QED
    BY <1>b, <2>1, <2>2, <2>4, <2>5, EmergencyStopRest DEF Quiet
<1>3. CASE DownAloneCallback(d)
  BY <1>3, DownAloneRest
<1>4. CASE \/ MuxStateCallback(d) \/ DepartedCallback(d) \/ AloneReply(d)
           \/ TiltFaultCallback(d) \/ FcDisarmed(d) \/ LimitBreach(d)
  <2>1. SameTrackers
    BY <1>4 DEF MuxStateCallback, DepartedCallback, AloneReply,
                TiltFaultCallback, FcDisarmed, LimitBreach, Unread, chanVars,
                services, SameTrackers
  <2>2. UNCHANGED <<arm, disarming>>
    BY <1>4 DEF MuxStateCallback, DepartedCallback, AloneReply,
                TiltFaultCallback, FcDisarmed, LimitBreach, Unread, mgrVars
  <2>3. SameArms(mgr')
    BY <1>a, <1>4 DEF MuxStateCallback, DepartedCallback, AloneReply,
                TiltFaultCallback, FcDisarmed, LimitBreach, FaultLand, mgrVars,
                MgrStates, SameArms
  <2> QED
    BY <1>b, <2>1, <2>2, <2>3
<1> QED
  BY <1>1, <1>2, <1>3, <1>4 DEF MgrCallback

(* All the manager does.                                                   *)
LEMMA ManagerRest ==
  ASSUME TypeOK, AloneInv, RestInv, ~Crossed,
         OneFlight \/ (Newcomers = {} /\ CarrierInv),
         ManagerRuns \/ ManagerFaults
  PROVE  RestInv'
<1>a. mgr \in MgrStates /\ SameArms(mgr) /\ arm \in [ArmIds -> ArmStates]
  BY DEF TypeOK, MgrTypeOK, SameArms
<1>b. UNCHANGED trk
  BY DEF ManagerRuns, ManagerFaults, ManagerWorks, ManagerOnly, ArmTimesOut,
         PastTheLimit
<1>1. ASSUME NEW k \in ArmIds, ArmStep(k) \/ ArmTimeout(k)
      PROVE  RestInv'
  BY <1>b, <1>1, ArmRest
<1>2. CASE DisarmThread
  BY <1>b, <1>2, DisarmThreadRest
<1>3. ASSUME NEW d \in Drones,
             MgrCallback(d, pl.up) \/ FcDisarmed(d) \/ LimitBreach(d)
      PROVE  RestInv'
  BY <1>b, <1>3, CallbackRest
<1>4. CASE LandFleet
  <2>1. SameTrackers
    BY <1>b, <1>4 DEF LandFleet, services, SameTrackers
  <2>2. (SameArms(mgr') /\ Quiet) \/ ServiceDisarm(mgr, arm, TRUE)
    BY <1>a, <1>4 DEF LandFleet, SameArms, MgrStates
  <2> QED
    BY <1>a, <2>1, <2>2, ServiceDisarmRest, ArmsKept, RestKept DEF Quiet
<1>5. CASE Landed
  <2>1. SameTrackers
    BY <1>b, <1>5 DEF Landed, services, SameTrackers
  <2>2. \/ UNCHANGED mgr /\ Quiet
        \/ ServiceDisarm([mgr EXCEPT !.landing = FALSE], arm, FALSE)
    BY <1>5 DEF Landed
  <2>3. [mgr EXCEPT !.landing = FALSE] \in MgrStates
    BY <1>a DEF MgrStates
  <2> QED
    BY <1>a, <2>1, <2>2, <2>3, ServiceDisarmRest, ArmsKept, RestKept DEF Quiet
<1>6. CASE PayloadDropped \/ StepTimer
  <2>1. SameTrackers /\ UNCHANGED <<arm, disarming>>
    BY <1>b, <1>6 DEF PayloadDropped, StepTimer, mgrVars, services, SameTrackers
  <2>2. SameArms(mgr')
    BY <1>a, <1>6 DEF PayloadDropped, StepTimer, mgrVars, SameArms, MgrStates
  <2> QED
    BY <2>1, <2>2, ArmsKept, RestKept
<1> QED
  BY <1>1, <1>2, <1>3, <1>4, <1>5, <1>6
  DEF ManagerRuns, ManagerFaults, ManagerWorks, ManagerOnly, MgrStep,
      ArmTimesOut, PastTheLimit

-----------------------------------------------------------------------------
(* What a tracker does to its process, its requests and whether it is      *)
(* armed: it arms or keeps its state, takes the oldest request, which      *)
(* disarms it if it is a disarm, comes up, or ends with nothing to answer. *)
TrackerServes(d) ==
  \/ /\ UNCHANGED <<up, svc>> /\ Runs(d)
     /\ trk'[d].armed => trk[d].armed
  \/ /\ UNCHANGED up /\ Runs(d) /\ svc[d] # << >>
     /\ svc' = [svc EXCEPT ![d] = Tail(@)]
     /\ trk'[d].armed => Head(svc[d]).arm
  \/ /\ UNCHANGED <<svc, trk>> /\ d \notin up /\ up' = up \union {d}
     /\ ~trk[d].shutdown
  \/ /\ UNCHANGED trk /\ up' = up \ {d} /\ trk[d].shutdown
     /\ svc' = [svc EXCEPT ![d] = << >>]

LEMMA TrackerServesStep ==
  ASSUME TypeOK, NEW d \in Drones,
         \/ Start(d) \/ (\E r \in BOOLEAN : HandleArm(d, r)) \/ HandleDisarm(d)
         \/ HandleTakeoff(d) \/ FleetAbort(d) \/ DepartedCb(d) \/ TiltFault(d)
         \/ Wedge(d) \/ Exit(d) \/ Tick(d) \/ TickPoseTimeout(d)
         \/ TickEnvelopeFault(d) \/ TickSolverFailure(d) \/ TickDownAlone(d)
  PROVE  /\ TrackerServes(d)
         /\ \A e \in Drones \ {d} : trk'[e] = trk[e]
<1>a. trk \in [Drones -> TrackerStates] /\ trk[d] \in TrackerStates
  BY DEF TypeOK, TrackerTypeOK
<1>1. CASE Start(d)
  BY <1>1 DEF Start, services, TrackerServes
<1>2. ASSUME NEW r \in BOOLEAN, HandleArm(d, r)
      PROVE  TrackerServes(d) /\ \A e \in Drones \ {d} : trk'[e] = trk[e]
  BY <1>a, <1>2 DEF HandleArm, TrackerServes
<1>3. CASE HandleDisarm(d)
  <2> DEFINE flew == trk[d].takeoff \/ trk[d].flown
             keep == trk[d].keep
             t == [Disarmed(trk[d]) EXCEPT !.flown = flew, !.keep = FALSE,
                                           !.shutdown = flew /\ ~keep]
  <2>1. trk' = [trk EXCEPT ![d] = t]
    BY <1>3 DEF HandleDisarm, AnswerDisarm
  <2>2. t.armed = FALSE
    BY <1>a DEF Disarmed, TrackerStates
  <2> HIDE DEF t
  <2> QED
    BY <1>a, <1>3, <2>1, <2>2 DEF HandleDisarm, AnswerDisarm, TrackerServes
<1>4. CASE TiltFault(d)
  BY <1>4 DEF TiltFault, services, TrackerServes
<1>5. CASE Exit(d)
  BY <1>5 DEF Exit, Ends, TrackerServes
<1>6. CASE \/ HandleTakeoff(d) \/ FleetAbort(d) \/ DepartedCb(d) \/ Wedge(d)
           \/ Tick(d) \/ TickPoseTimeout(d) \/ TickEnvelopeFault(d)
           \/ TickSolverFailure(d) \/ TickDownAlone(d)
  <2>1. UNCHANGED <<up, svc>> /\ Runs(d)
    BY <1>6 DEF HandleTakeoff, FleetAbort, DepartedCb, Wedge, Tick, TickFly,
                TickDisarmed, TickPoseTimeout, TickEnvelopeFault, Latches,
                TickSolverFailure, TickDownAlone, Ticks, OnlyTicks,
                chanVars, services
  <2>2. trk'[d].armed => trk[d].armed
    <3>1. CASE HandleTakeoff(d) \/ DepartedCb(d) \/ Wedge(d) \/ TickDownAlone(d)
      BY <1>a, <3>1 DEF HandleTakeoff, DepartedCb, Wedge, TickDownAlone,
                        TrackerStates
    <3>2. CASE FleetAbort(d) \/ TickPoseTimeout(d) \/ TickEnvelopeFault(d)
      BY <1>a, <3>2 DEF FleetAbort, TickPoseTimeout, TickEnvelopeFault, Latches,
                        Disarmed, TrackerStates
    <3>3. EdgeReset(trk[d]) \in TrackerStates /\ EdgeReset(trk[d]).armed = trk[d].armed
      BY <1>a DEF EdgeReset, TrackerStates
    <3>4. CASE TickSolverFailure(d)
      BY <1>a, <3>3, <3>4 DEF TickSolverFailure, Disarmed, TrackerStates
    <3>5. CASE Tick(d)
      BY <1>a, <3>3, <3>5 DEF Tick, TickFly, TickDisarmed
    <3> QED
      BY <1>6, <3>1, <3>2, <3>4, <3>5
  <2>3. \A e \in Drones \ {d} : trk'[e] = trk[e]
    BY <1>a, <1>6 DEF HandleTakeoff, FleetAbort, DepartedCb, Wedge, Tick, TickFly,
                TickDisarmed, TickPoseTimeout, TickEnvelopeFault, Latches,
                TickSolverFailure, TickDownAlone
  <2> QED
    BY <2>1, <2>2, <2>3 DEF TrackerServes
<1> QED
  BY <1>1, <1>2, <1>3, <1>4, <1>5, <1>6 DEF TrackerServes, Start, TiltFault, Exit, Ends

(* A tracker that serves its requests in order ends up as the last asks.   *)
LEMMA TrackerRest ==
  ASSUME TypeOK, RestInv, UNCHANGED mgrVars, NEW d \in Drones, TrackerServes(d),
         \A e \in Drones \ {d} : trk'[e] = trk[e]
  PROVE  RestInv'
<1>a. svc \in [Drones -> Seq(Requests)]
  BY DEF TypeOK, ChannelsTypeOK
<1>b. UNCHANGED <<mgr, arm, disarming>> /\ SameArms(mgr')
  BY DEF mgrVars, SameArms
<1>c. StopHolds' /\ FirstArm' /\ (Answered <=> Answered')
  BY <1>b, ArmsKept
<1>1. \A e \in Drones \ {d} : Attends(e)' /\ StartsDisarmed(e)'
  <2>1. \A e \in Drones \ {d} : svc'[e] = svc[e] /\ (e \in up' <=> e \in up)
    BY <1>a DEF TrackerServes
  <2> QED
    BY <1>b, <1>c, <2>1 DEF RestInv, Attends, StartsDisarmed, Runs, WillBeDisarmed
<1>2. Attends(d)' /\ StartsDisarmed(d)'
  <2>a. Attends(d) /\ StartsDisarmed(d)
    BY DEF RestInv
  <2>1. CASE UNCHANGED <<up, svc>> /\ Runs(d) /\ (trk'[d].armed => trk[d].armed)
    <3>1. WillBeDisarmed(d) => WillBeDisarmed(d)'
      BY <1>b, <2>1 DEF WillBeDisarmed
    <3> QED
      BY <1>c, <2>a, <2>1, <3>1 DEF Attends, StartsDisarmed, Runs
  <2>2. CASE /\ UNCHANGED up /\ Runs(d) /\ svc[d] # << >>
             /\ svc' = [svc EXCEPT ![d] = Tail(@)]
             /\ trk'[d].armed => Head(svc[d]).arm
    <3>1. svc'[d] = Tail(svc[d]) /\ svc[d] \in Seq(Requests)
      BY <1>a, <2>2
    <3>2. /\ svc'[d] = << >> => svc[d][Len(svc[d])] = Head(svc[d])
          /\ svc'[d] # << >> => svc'[d][Len(svc'[d])] = svc[d][Len(svc[d])]
      BY <2>2, <3>1, TailLast
    <3>3. WillBeDisarmed(d) => WillBeDisarmed(d)'
      BY <1>b, <2>2, <3>2 DEF WillBeDisarmed
    <3> QED
      BY <1>c, <2>a, <2>2, <3>3 DEF Attends, StartsDisarmed, Runs
  <2>3. CASE /\ UNCHANGED <<svc, trk>> /\ d \notin up /\ up' = up \union {d}
             /\ ~trk[d].shutdown
    BY <2>a, <2>3 DEF Attends, StartsDisarmed, WillBeDisarmed
  <2>4. CASE /\ UNCHANGED trk /\ up' = up \ {d} /\ trk[d].shutdown
             /\ svc' = [svc EXCEPT ![d] = << >>]
    BY <1>a, <2>4 DEF Attends, StartsDisarmed, Runs
  <2> QED
    BY <2>1, <2>2, <2>3, <2>4 DEF TrackerServes
<1> QED
  BY <1>c, <1>1, <1>2 DEF RestInv

(* Every step of the fleet in which no disarm crosses an ARM sequence.     *)
LEMMA RestStep ==
  ASSUME OneFlight \/ Newcomers = {}
  PROVE  TypeOK /\ AloneInv /\ CarrierInv /\ RestInv /\ ~Crossed /\ [Next]_vars
         => RestInv'
<1> SUFFICES ASSUME TypeOK, AloneInv, CarrierInv, RestInv, ~Crossed, [Next]_vars
             PROVE  RestInv'
  OBVIOUS
<1>a. SameArms(mgr)
  BY DEF SameArms
<1>b. ASSUME SameTrackers, UNCHANGED mgrVars PROVE RestInv'
  BY <1>a, <1>b, ArmsKept, RestKept DEF mgrVars
<1>1. CASE Operator
  BY <1>1, OperatorRest
<1>2. CASE ManagerRuns \/ ManagerFaults
  BY <1>2, ManagerRest
<1>3. CASE PlannerRuns \/ PlannerFaults
  <2>1. SameTrackers /\ UNCHANGED mgrVars
    BY <1>3 DEF PlannerRuns, PlannerFaults, PlannerWorks, PlannerOnly,
                PlannerHears, PlannerTick, HearStep, FleetCommandLand,
                LandUnheard, HearNewcomerArming, LandTick, DropTick,
                AnnounceOnLoad, EnterPlannerPhase, TellDeparted, FoldIn,
                Detach, DropAndLand, PlannerCrash, PlannerQuiet, SameTrackers,
                chanVars, services
  <2> QED
    BY <1>b, <2>1
<1>4. ASSUME NEW d \in Drones, TrackerRuns(d) \/ TrackerFaults(d) \/ RefStale(d)
      PROVE  RestInv'
  <2>1. UNCHANGED mgrVars
    BY <1>4 DEF TrackerRuns, TrackerFaults, RefStale, TrackerOnly
  <2>2. \/ Start(d) \/ (\E r \in BOOLEAN : HandleArm(d, r)) \/ HandleDisarm(d)
        \/ HandleTakeoff(d) \/ FleetAbort(d) \/ DepartedCb(d) \/ TiltFault(d)
        \/ Wedge(d) \/ Exit(d) \/ Tick(d) \/ TickPoseTimeout(d)
        \/ TickEnvelopeFault(d) \/ TickSolverFailure(d) \/ TickDownAlone(d)
    BY <1>4 DEF TrackerRuns, TrackerFaults, RefStale, TrackerOnly, Serve
  <2> QED
    BY <2>1, <2>2, TrackerServesStep, TrackerRest
<1>5. ASSUME NEW d \in Drones, MuxRuns(d) \/ MuxHandsOver(d)
      PROVE  RestInv'
  <2>1. SameTrackers /\ UNCHANGED mgrVars
    BY <1>5 DEF MuxRuns, MuxHandsOver, MuxTakes, MuxReleases, MuxAborts,
                MuxCuts, PartnerStream, FcReport, MuxSets, SameTrackers, services
  <2> QED
    BY <1>b, <2>1
<1>6. CASE UNCHANGED vars
  BY <1>b, <1>6 DEF vars, chanVars, services, SameTrackers
<1> QED
  BY <1>1, <1>2, <1>3, <1>4, <1>5, <1>6 DEF Next

LEMMA RestInit == Init => RestInv
<1> SUFFICES ASSUME Init PROVE RestInv
  OBVIOUS
<1>1. \A d \in Drones : svc[d] = << >> /\ trk[d].armed = FALSE
  BY DEF Init, ChannelsInit, TrackerInit, FreshTracker
<1>2. /\ mgr.last_estop = NoReason /\ mgr.fleet_armed = FALSE
      /\ mgr.flying = FALSE
  BY DEF Init, MgrInit
<1> QED
  BY <1>1, <1>2 DEF RestInv, Attends, WillBeDisarmed, StartsDisarmed, StopHolds,
                    FirstArm

LEMMA RestFollows == RestInv => NobodyForgotten /\ RestDisarmed
<1>1. RestInv => NobodyForgotten
  BY DEF RestInv, Attends, Answered, NobodyForgotten
<1>2. NobodyForgotten => RestDisarmed
  <2>1. \A k \in ArmIds : Idle(k) => ~Arming(k)
    BY DEF Idle, Arming
  <2> QED
    BY <2>1 DEF NobodyForgotten, RestDisarmed, AtRest, WillBeDisarmed
<1> QED
  BY <1>1, <1>2

(* Unless a disarm crosses an ARM sequence, no drone that answers is left  *)
(* armed behind a fleet that is not: for any fleet in its first flight,    *)
(* and for a fleet without muxes in any number of flights (a later ARM     *)
(* refused for a latched mux drops fleet_armed without a disarm).          *)
THEOREM DisarmReachesEveryDrone ==
  OneFlight \/ Newcomers = {} => (Spec => DisarmReachesAll)
<1> SUFFICES ASSUME OneFlight \/ Newcomers = {}
             PROVE  Spec => ([]~Crossed => []NobodyForgotten)
  BY DEF DisarmReachesAll
<1>1. TypeOK /\ AloneInv /\ CarrierInv /\ RestInv /\ ~Crossed /\ [Next]_vars
      => RestInv'
  BY RestStep
<1>2. RestInv => NobodyForgotten
  BY RestFollows
<1> QED
  BY <1>1, <1>2, RestInit, CarrierInit, CarrierStep, AloneStep, TypeCorrect, PTL
  DEF Spec

-----------------------------------------------------------------------------
(* With nobody at the DISARM and ESTOP buttons nothing crosses the only    *)
(* ARM: until it has sent its requests, the fleet has nothing on that      *)
(* would disarm it.                                                        *)
NobodyDisarms == Presses \intersect {"DISARM", "ESTOP"} = {}
Early(k) == arm[k].pc \in {"idle", "start", "wait", "send"}
Uncrossed ==
  \A k \in ArmIds :
    /\ Early(k) => /\ ~mgr.fleet_armed /\ ~mgr.flying /\ ~mgr.landing
                   /\ mgr.last_estop = NoReason
    /\ arm[k].pc \in {"wait", "send"} => ~arm[k].stopped

(* Steps that leave the sequences where they are, and the flags, and the   *)
(* sequences' own state, while one is early.                               *)
SameEarly ==
  /\ \A k \in ArmIds : arm'[k].pc = arm[k].pc
  /\ (\E k \in ArmIds : Early(k)) =>
       SameArms(mgr') /\ mgr'.landing = mgr.landing /\ UNCHANGED arm
LEMMA UncrossedKept ==
  ASSUME Uncrossed, SameEarly PROVE Uncrossed'
BY DEF Uncrossed, SameEarly, SameArms, Early

LEMMA UncrossedOperator ==
  ASSUME TypeOK, OneFlight, NobodyDisarms, Uncrossed, Operator
  PROVE  Uncrossed'
<1>a. mgr \in MgrStates /\ arm \in [ArmIds -> ArmStates]
  BY DEF TypeOK, MgrTypeOK
<1>1. CASE OperatorArm
  <2>1. PICK k \in ArmIds : arm[k].pc = "idle" /\ arm' = Goto(k, "start")
    BY <1>1 DEF OperatorArm, Command_ARM
  <2>2. /\ mgr'.flying = mgr.flying /\ mgr'.fleet_armed = mgr.fleet_armed
        /\ mgr'.landing = mgr.landing /\ mgr'.last_estop = NoReason
    BY <1>a, <1>1 DEF OperatorArm, Command_ARM, MgrStates
  <2>3. arm'[k].pc = "start" /\ \A j \in ArmIds : j = k
    BY <1>a, <2>1 DEF Goto, ArmStates, OneFlight, ArmIds
  <2> QED
    BY <2>1, <2>2, <2>3 DEF Uncrossed, Early
<1>2. CASE OperatorTakeoff
  <2>1. \A k \in ArmIds : arm'[k].pc = arm[k].pc
    BY <1>a, <1>2 DEF OperatorTakeoff, Command_TAKEOFF, ServiceDisarm, StopArms,
                      Quiet, ArmStates
  <2>2. ~mgr.fleet_armed => SameArms(mgr') /\ mgr'.landing = mgr.landing /\ UNCHANGED arm
    BY <1>2 DEF OperatorTakeoff, Command_TAKEOFF, Quiet, SameArms
  <2> QED
    BY <2>1, <2>2, UncrossedKept DEF Uncrossed, SameEarly
<1>3. CASE OperatorLand
  BY <1>3, UncrossedKept DEF OperatorLand, mgrVars, SameEarly, SameArms
<1>4. ASSUME NEW c \in {"DISARM", "ESTOP"}, OperatorDisarm(c)
      PROVE  FALSE
  BY <1>4 DEF OperatorDisarm, Press1, NobodyDisarms
<1> QED
  BY <1>1, <1>2, <1>3, <1>4 DEF Operator

LEMMA UncrossedArm ==
  ASSUME TypeOK, OneFlight, Uncrossed, NEW k \in ArmIds, ArmStep(k) \/ ArmTimeout(k)
  PROVE  Uncrossed'
<1>a. mgr \in MgrStates /\ arm \in [ArmIds -> ArmStates]
  BY DEF TypeOK, MgrTypeOK
<1>b. \A j \in ArmIds : j = k
  BY DEF OneFlight, ArmIds
<1>c. ASSUME NEW pc \in ArmPcs, arm' = Goto(k, pc)
      PROVE  arm'[k].pc = pc /\ arm'[k].stopped = arm[k].stopped
  BY <1>c, GotoRest
<1>d. ASSUME ~Early(k)'
      PROVE  Uncrossed'
  BY <1>b, <1>d DEF Uncrossed, Early
<1>e. ASSUME ServiceDisarm(mgr, Goto(k, "done"), TRUE)
      PROVE  Uncrossed'
  <2>1. "done" \in ArmPcs
    BY DEF ArmPcs
  <2>2. Goto(k, "done") \in [ArmIds -> ArmStates] /\ Goto(k, "done")[k].pc = "done"
    BY <2>1, GotoRest
  <2>3. arm'[k].pc = "done"
    BY <1>e, <2>2, StopArmsRest DEF ServiceDisarm
  <2> QED
    BY <1>d, <2>3 DEF Early
<1>1. CASE ArmStart(k)
  <2>1. Early(k)
    BY <1>1 DEF ArmStart, Early
  <2>2. CASE arm' = Goto(k, "done")
    BY <1>c, <1>d, <2>2 DEF ArmPcs, Early
  <2>3. CASE /\ arm' = [Goto(k, "wait") EXCEPT ![k].stopped = FALSE]
             /\ mgr' = [mgr EXCEPT !.fleet_armed = FALSE, !.shutdown = FALSE]
    <3>1. Goto(k, "wait") \in [ArmIds -> ArmStates]
      BY GotoRest DEF ArmPcs
    <3>2. arm'[k].stopped = FALSE
      BY <2>3, <3>1 DEF ArmStates
    <3>3. /\ mgr'.fleet_armed = FALSE /\ mgr'.flying = mgr.flying
          /\ mgr'.landing = mgr.landing /\ mgr'.last_estop = mgr.last_estop
      BY <1>a, <2>3 DEF MgrStates
    <3> QED
      BY <1>b, <2>1, <3>2, <3>3 DEF Uncrossed
  <2> QED
    BY <1>1, <2>2, <2>3 DEF ArmStart
<1>2. CASE ArmWait(k) \/ ArmSend(k)
  <2>1. UNCHANGED mgr /\ arm[k].pc \in {"wait", "send"}
    BY <1>2 DEF ArmWait, ArmSend
  <2>2. arm'[k].stopped = arm[k].stopped
    <3>1. ASSUME NEW n, arm' = [arm EXCEPT ![k].next = n]
          PROVE  arm'[k].stopped = arm[k].stopped
      BY <1>a, <3>1 DEF ArmStates
    <3>2. CASE arm' = Goto(k, "send") \/ arm' = Goto(k, "collect")
      BY <1>c, <3>2 DEF ArmPcs
    <3> QED
      BY <1>2, <3>1, <3>2 DEF ArmWait, ArmSend
  <2> QED
    BY <1>b, <2>1, <2>2 DEF Uncrossed, Early
<1>3. CASE \/ ArmNoService(k) \/ ArmCollect(k) \/ ArmTimeout(k) \/ ArmCheck(k)
           \/ ArmWaitFc(k) \/ ArmSet(k)
  <2>1. \/ ServiceDisarm(mgr, Goto(k, "done"), TRUE)
        \/ \E pc \in {"check", "fc", "set", "done"} : arm' = Goto(k, pc)
    BY <1>3 DEF ArmNoService, ArmCollect, ArmTimeout, ArmCheck, ArmWaitFc, ArmSet
  <2>2. ASSUME NEW pc \in {"check", "fc", "set", "done"}, arm' = Goto(k, pc)
        PROVE  Uncrossed'
    <3>1. arm'[k].pc = pc
      BY <1>c, <2>2 DEF ArmPcs
    <3> QED
      BY <1>d, <2>2, <3>1 DEF Early
  <2> QED
    BY <1>e, <2>1, <2>2
<1> QED
  BY <1>1, <1>2, <1>3 DEF ArmStep

LEMMA UncrossedManager ==
  ASSUME TypeOK, OneFlight, Uncrossed, ManagerRuns \/ ManagerFaults
  PROVE  Uncrossed'
<1>a. mgr \in MgrStates /\ arm \in [ArmIds -> ArmStates]
  BY DEF TypeOK, MgrTypeOK
<1>b. (\E k \in ArmIds : Early(k)) => ~mgr.fleet_armed /\ ~mgr.flying /\ ~mgr.landing
  BY DEF Uncrossed
<1>c. ASSUME StopArms(arm) \/ UNCHANGED arm
      PROVE  \A k \in ArmIds : arm'[k].pc = arm[k].pc
  BY <1>a, <1>c DEF StopArms, ArmStates
<1>1. ASSUME NEW k \in ArmIds, ArmStep(k) \/ ArmTimeout(k)
      PROVE  Uncrossed'
  BY <1>1, UncrossedArm
<1>2. ASSUME NEW d \in Drones, \/ MgrCallback(d, pl.up) \/ FcDisarmed(d)
                               \/ LimitBreach(d)
      PROVE  Uncrossed'
  <2>1. StopArms(arm) \/ UNCHANGED arm
    BY <1>2 DEF MgrCallback, ArmingFeedback, OnLoadCallback, MuxStateCallback,
                DepartedCallback, DownAloneCallback, AloneReply,
                TiltFaultCallback, FcDisarmed, LimitBreach, Unread, Quiet,
                ServiceDisarm, EmergencyStop, mgrVars
  <2>2. ASSUME ~mgr.fleet_armed, ~mgr.flying
        PROVE  SameArms(mgr') /\ mgr'.landing = mgr.landing /\ UNCHANGED arm
    <3>1. CASE ArmingFeedback(d, pl.up)
      BY <1>a, <2>2, <3>1 DEF ArmingFeedback, Quiet, SameArms, MgrStates
    <3>2. CASE OnLoadCallback(d)
      BY <1>a, <2>2, <3>2 DEF OnLoadCallback, OnRing, Quiet, SameArms, MgrStates
    <3>3. CASE \/ MuxStateCallback(d) \/ DepartedCallback(d)
               \/ DownAloneCallback(d) \/ AloneReply(d)
      BY <1>a, <2>2, <3>3
      DEF MuxStateCallback, DepartedCallback, DownAloneCallback, MayDisarmAlone,
          AloneReply, mgrVars, SameArms, MgrStates
    <3>4. CASE TiltFaultCallback(d) \/ FcDisarmed(d) \/ LimitBreach(d)
      BY <2>2, <3>4 DEF TiltFaultCallback, FcDisarmed, LimitBreach, Unread, SameArms
    <3> QED
      BY <1>2, <3>1, <3>2, <3>3, <3>4 DEF MgrCallback
  <2> QED
    BY <1>b, <1>c, <2>1, <2>2, UncrossedKept DEF SameEarly
<1>3. CASE DisarmThread \/ LandFleet \/ Landed \/ PayloadDropped \/ StepTimer
  <2>1. StopArms(arm) \/ UNCHANGED arm
    BY <1>3 DEF DisarmThread, LandFleet, Landed, PayloadDropped, StepTimer,
                mgrVars, Quiet, ServiceDisarm
  <2>2. ASSUME ~mgr.fleet_armed, ~mgr.flying, ~mgr.landing
        PROVE  SameArms(mgr') /\ mgr'.landing = mgr.landing /\ UNCHANGED arm
    BY <1>3, <2>2 DEF DisarmThread, LandFleet, Landed, PayloadDropped, StepTimer,
                      mgrVars, Quiet, SameArms
  <2> QED
    BY <1>b, <1>c, <2>1, <2>2, UncrossedKept DEF SameEarly
<1> QED
  BY <1>1, <1>2, <1>3
  DEF ManagerRuns, ManagerFaults, ManagerWorks, ManagerOnly, MgrStep,
      ArmTimesOut, PastTheLimit

LEMMA UncrossedStep ==
  ASSUME OneFlight, NobodyDisarms
  PROVE  TypeOK /\ Uncrossed /\ [Next]_vars => Uncrossed'
<1> SUFFICES ASSUME TypeOK, Uncrossed, [Next]_vars PROVE Uncrossed'
  OBVIOUS
<1>1. CASE Operator
  BY <1>1, UncrossedOperator
<1>2. CASE ManagerRuns \/ ManagerFaults
  BY <1>2, UncrossedManager
<1>3. CASE UNCHANGED mgrVars
  BY <1>3, UncrossedKept DEF mgrVars, SameEarly, SameArms
<1>4. CASE PlannerRuns \/ PlannerFaults \/ UNCHANGED vars
           \/ \E d \in Drones : \/ TrackerRuns(d) \/ TrackerFaults(d) \/ RefStale(d)
                                \/ MuxRuns(d) \/ MuxHandsOver(d)
  BY <1>3, <1>4
  DEF PlannerRuns, PlannerFaults, PlannerWorks, PlannerOnly, TrackerRuns,
      TrackerFaults, RefStale, TrackerOnly, MuxRuns, MuxHandsOver, MuxTakes,
      MuxReleases, MuxAborts, MuxCuts, PartnerStream, FcReport, MuxSets, vars
<1> QED
  BY <1>1, <1>2, <1>4 DEF Next

(* Without a DISARM or ESTOP of the operator no drone that answers is left *)
(* armed at rest behind a fleet that is not, whatever refuses, times out,  *)
(* faults or lands: for any fleet in its first flight.                     *)
THEOREM NobodyLeftArmed ==
  OneFlight /\ NobodyDisarms => (Spec => []RestDisarmed)
<1> SUFFICES ASSUME OneFlight, NobodyDisarms PROVE Spec => []RestDisarmed
  OBVIOUS
<1>1. Init => Uncrossed
  <2> SUFFICES ASSUME Init PROVE Uncrossed
    OBVIOUS
  <2>1. \A k \in ArmIds : arm[k].pc = "idle"
    BY DEF Init, MgrInit
  <2>2. /\ mgr.last_estop = NoReason /\ mgr.fleet_armed = FALSE
        /\ mgr.flying = FALSE /\ mgr.landing = FALSE
    BY DEF Init, MgrInit
  <2> QED
    BY <2>1, <2>2 DEF Uncrossed
<1>2. TypeOK /\ Uncrossed /\ [Next]_vars => Uncrossed'
  BY UncrossedStep
<1>3. TypeOK /\ AloneInv /\ CarrierInv /\ RestInv /\ ~Crossed /\ [Next]_vars
      => RestInv'
  BY RestStep
<1>4. Uncrossed => ~Crossed
  BY DEF Uncrossed, Crossed, Early
<1>5. RestInv => RestDisarmed
  BY RestFollows
<1> QED
  BY <1>1, <1>2, <1>3, <1>4, <1>5, RestInit, CarrierInit, CarrierStep, AloneStep,
     TypeCorrect, PTL DEF Spec
=============================================================================
