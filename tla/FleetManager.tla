---------------------------- MODULE FleetManager ----------------------------
(***************************************************************************)
(* The fleet manager (fleet_manager_node.py): the operator's ARM, TAKEOFF, *)
(* LAND, DISARM and ESTOP, the ARM sequences and disarms it runs in        *)
(* threads of their own, and the callbacks that decide whether a drone's   *)
(* disarm stops the fleet, lands it or is ignored.                         *)
(*                                                                         *)
(* A callback is one step.  A thread steps between its blocking points and *)
(* interleaves with the callbacks.                                         *)
(***************************************************************************)
EXTENDS FleetChannels, FiniteSets

CONSTANTS
  RequireFcArmed,    \* parameter require_fc_armed
  LandedPartnerCut,  \* parameter landed_partner_cut
  LandFaults         \* which of tilt_fault_land, pos_limit_m, fc_disarm_land
                     \* are on: a subset of {"tilt", "limit", "fc"}

ASSUME ParametersAssumption ==
  /\ RequireFcArmed \in BOOLEAN
  /\ LandedPartnerCut \in BOOLEAN
  /\ LandFaults \subseteq {"tilt", "limit", "fc"}

VARIABLES
  mgr,        \* the manager's own state
  arm,        \* arm[k]: the k-th ARM sequence (a thread)
  disarming   \* disarm threads that have not asked the drones yet

mgrVars == <<mgr, arm, disarming>>

(* The reason of the last emergency stop: a second one with the same       *)
(* reason within a second is only repeated to the radios.                  *)
Reason(why, d) == [why |-> why, drone |-> d]
NoReason == Reason("none", N)
Reasons == [why: {"none", "DISARM", "ESTOP", "disarmed", "on the ring"},
            drone: 0 .. N]

MgrStates ==
  [flying: BOOLEAN, fleet_armed: BOOLEAN, landing: BOOLEAN,
   shutdown: BOOLEAN, fault_land: BOOLEAN,
   last_estop: Reasons,
   drone_armed: SUBSET Drones, mux_state: [Drones -> MuxStates],
   on_load: [Drones -> Flags], excused: SUBSET Drones,
   off_ring: SUBSET Drones, down_alone: SUBSET Drones]

(* An ARM sequence: where it is, the next drone of its loop, and whether a *)
(* disarm has come since it read _disarm_gen (the code compares the count).*)
ArmPcs == {"idle", "start", "wait", "send", "collect", "check", "fc", "set",
           "done"}
ArmStates == [pc: ArmPcs, next: 0 .. N, stopped: BOOLEAN]

MgrTypeOK ==
  /\ mgr \in MgrStates
  /\ arm \in [ArmIds -> ArmStates]
  /\ disarming \in Nat

MgrInit ==
  /\ mgr = [flying |-> FALSE, fleet_armed |-> FALSE, landing |-> FALSE,
            shutdown |-> FALSE, fault_land |-> FALSE,
            last_estop |-> NoReason, drone_armed |-> {},
            mux_state |-> [d \in Drones |-> "none"],
            on_load |-> [d \in Drones |-> "none"],
            excused |-> {}, off_ring |-> {}, down_alone |-> {}]
  /\ arm = [k \in ArmIds |-> [pc |-> "idle", next |-> 0, stopped |-> FALSE]]
  /\ disarming = 0

(* The mux forwards the partner's stream, or has cut it off.  Mutant: what *)
(* has no mux counts as his.                                               *)
PartnerNotOurs(s) == s # "ours"
Partner(s) == s \in {"partner", "cut"}
Idle(k) == arm[k].pc \in {"idle", "done"}
Goto(k, pc) == [arm EXCEPT ![k].pc = pc, ![k].next = 0]
-----------------------------------------------------------------------------
(* _disarm_fleet.  a is the state of the ARM threads otherwise: each of    *)
(* them that runs will find that _disarm_gen has moved.                    *)
StopArms(a) ==
  arm' = [k \in ArmIds |-> [a[k] EXCEPT !.stopped = @ \/ a[k].pc # "start"]]

(* ... as an emergency: abort and radio stop at once, then the services.   *)
(* Mutants: the muxes are not told; no stop straight to the radios.        *)
AbortMuxesNot == UNCHANGED mux_abort
AbortMuxes == mux_abort' = Newcomers
StopRadiosNot == UNCHANGED radio
StopRadios == radio' = [d \in Drones |-> "off"]

EmergencyStop(m, reason) ==
  /\ StopArms(arm)
  /\ abort' = [d \in Drones |-> IF d \in up THEN More(abort[d]) ELSE abort[d]]
  /\ AbortMuxes /\ StopRadios
  /\ \/ /\ m.last_estop = reason
        /\ mgr' = m /\ UNCHANGED disarming
     \/ /\ mgr' = [m EXCEPT !.flying = FALSE, !.fleet_armed = FALSE,
                             !.shutdown = FALSE, !.last_estop = reason]
        /\ disarming' = disarming + 1

(* ... through the services only; the stack stays up when keep is set.     *)
ServiceDisarm(m, a, keep) ==
  /\ StopArms(a)
  /\ mgr' = [m EXCEPT !.flying = FALSE, !.fleet_armed = FALSE,
                      !.shutdown = ~keep]
  /\ disarming' = disarming + 1
  /\ UNCHANGED <<abort, mux_abort, radio>>

Quiet == UNCHANGED <<arm, disarming, abort, mux_abort, radio>>

(* _disarm_fleet_thread: every tracker whose service is ready is asked.    *)
(* Mutant: only those that the manager believes armed.                     *)
AskedArmed == up \intersect mgr.drone_armed
Asked == up
DisarmThread ==
  /\ disarming > 0
  /\ disarming' = disarming - 1
  /\ svc' = [d \in Drones |-> IF d \in Asked
               THEN Append(svc[d], [arm |-> FALSE, by |-> FleetDisarm]) ELSE svc[d]]
  /\ UNCHANGED <<mgr, arm, up, reply, alone_reply, trackerTopics, radio,
                 plannerTopics, muxTopics>>
-----------------------------------------------------------------------------
(* The ARM sequence: the command, then the thread's steps.  The second in  *)
(* which an emergency stop is not repeated in full is over when a person   *)
(* presses ARM (or TAKEOFF) again.                                         *)
Command_ARM ==
  \E k \in ArmIds :
    /\ arm[k].pc = "idle" /\ \A j \in 1 .. k-1 : arm[j].pc # "idle"
    /\ mgr' = [mgr EXCEPT !.excused = {}, !.fault_land = FALSE,
                          !.off_ring = {}, !.down_alone = {},
                          !.last_estop = NoReason]
    /\ arm' = Goto(k, "start")
    /\ UNCHANGED <<disarming, chanVars>>

(* Refused behind a latched or cut mux, or while the partner's drone is    *)
(* not armed by his own ARM; else the sequence begins.                     *)
ArmStart(k) ==
  LET held  == {d \in Drones : mgr.mux_state[d] \in {"latched", "cut"}}
      his   == {d \in Drones : mgr.mux_state[d] = "partner" /\ fc[d] # "armed"}
  IN  /\ arm[k].pc = "start"
      /\ \/ /\ held # {}
            /\ mgr' = [mgr EXCEPT !.fleet_armed = FALSE]
            /\ arm' = Goto(k, "done")
         \/ /\ held = {} /\ RequireFcArmed /\ his # {}
            /\ arm' = Goto(k, "done")
            /\ UNCHANGED mgr
         \/ /\ held = {} /\ (RequireFcArmed => his = {})
            /\ mgr' = [mgr EXCEPT !.fleet_armed = FALSE, !.shutdown = FALSE]
            /\ arm' = [Goto(k, "wait") EXCEPT ![k].stopped = FALSE]
      /\ UNCHANGED <<disarming, chanVars>>

(* wait_for_service, drone by drone, each for at most five seconds: passes *)
(* the drones that are up, and times out on one that is not.               *)
ArmWait(k) ==
  /\ arm[k].pc = "wait"
  /\ arm[k].next \in up
  /\ \E n \in arm[k].next + 1 .. N :
       /\ \A d \in arm[k].next .. n-1 : d \in up
       /\ n < N => n \notin up
       /\ arm' = IF n = N THEN Goto(k, "send") ELSE [arm EXCEPT ![k].next = n]
  /\ UNCHANGED <<mgr, disarming, chanVars>>

ArmNoService(k) ==
  /\ arm[k].pc = "wait" /\ arm[k].next \notin up
  /\ ServiceDisarm(mgr, Goto(k, "done"), TRUE)
  /\ UNCHANGED <<up, services, feedback, takeoff, departed_trk, down_sent,
                 plannerTopics, tilt_sent, mux, mux_cut, fc>>

(* The arm requests, one call after the other.                             *)
ArmSend(k) ==
  /\ arm[k].pc = "send"
  /\ IF arm[k].next = N
     THEN arm' = Goto(k, "collect") /\ UNCHANGED <<svc, reply>>
     ELSE LET d == arm[k].next
          IN  /\ arm' = [arm EXCEPT ![k].next = @ + 1]
              /\ reply' = [reply EXCEPT ![k][d] = "pending"]
              /\ svc' = IF d \in up
                        THEN [svc EXCEPT ![d] = Append(@, [arm |-> TRUE, by |-> k])]
                        ELSE svc
  /\ UNCHANGED <<mgr, disarming, up, alone_reply, trackerTopics, radio,
                 plannerTopics, muxTopics>>

(* Mutant: it waits as long as one drone has answered.                     *)
NoneAnswered(k) == \A d \in Drones : reply[k][d] = "pending"
Missing(k) == \E d \in Drones : reply[k][d] = "pending"

(* All replies are in, within five seconds, or some are still missing: a   *)
(* drone that refused or did not answer disarms the fleet.                 *)
Collected(k) ==
  /\ reply' = [reply EXCEPT ![k] = [d \in Drones |-> "none"]]
  /\ UNCHANGED <<up, svc, alone_reply, feedback, takeoff, departed_trk, down_sent,
                 plannerTopics, tilt_sent, mux, mux_cut, fc>>

ArmCollect(k) ==
  /\ arm[k].pc = "collect" /\ \A d \in Drones : reply[k][d] # "pending"
  /\ IF \A d \in Drones : reply[k][d] = "ok"
     THEN arm' = Goto(k, "check")
          /\ UNCHANGED <<mgr, disarming, abort, mux_abort, radio>>
     ELSE ServiceDisarm(mgr, Goto(k, "done"), TRUE)
  /\ Collected(k)

ArmTimeout(k) ==
  /\ arm[k].pc = "collect" /\ Missing(k)
  /\ ServiceDisarm(mgr, Goto(k, "done"), TRUE)
  /\ Collected(k)

(* The comparison with _disarm_gen.                                        *)
ArmCheck(k) ==
  /\ arm[k].pc = "check"
  /\ arm' = Goto(k, IF arm[k].stopped THEN "done"
                    ELSE IF RequireFcArmed THEN "fc" ELSE "set")
  /\ UNCHANGED <<mgr, disarming, chanVars>>

(* _wait_fc_armed: stopped by a disarm, passed once every flight           *)
(* controller reports armed, failed by a refusal or after ten seconds.     *)
ArmWaitFc(k) ==
  /\ arm[k].pc = "fc"
  /\ \/ /\ arm[k].stopped
        /\ arm' = Goto(k, "done")
        /\ UNCHANGED <<mgr, disarming, abort, mux_abort, radio>>
     \/ /\ ~arm[k].stopped /\ \A d \in Drones : fc[d] = "armed"
        /\ arm' = Goto(k, "set")
        /\ UNCHANGED <<mgr, disarming, abort, mux_abort, radio>>
     \/ /\ \E d \in Drones : fc[d] # "armed"
        /\ ServiceDisarm(mgr, Goto(k, "done"), TRUE)
  /\ UNCHANGED <<up, services, feedback, takeoff, departed_trk, down_sent,
                 plannerTopics, tilt_sent, mux, mux_cut, fc>>

ArmSet(k) ==
  /\ arm[k].pc = "set"
  /\ mgr' = [mgr EXCEPT !.fleet_armed = TRUE]
  /\ arm' = Goto(k, "done")
  /\ UNCHANGED <<disarming, chanVars>>

ArmStep(k) ==
  \/ ArmStart(k) \/ ArmWait(k) \/ ArmNoService(k) \/ ArmSend(k)
  \/ ArmCollect(k) \/ ArmCheck(k) \/ ArmWaitFc(k) \/ ArmSet(k)
-----------------------------------------------------------------------------
(* The operator's other commands.  TAKEOFF wants every drone armed.        *)
(* Mutant: the fleet's flag is enough.                                     *)
ReadyByFlag == TRUE
Ready == mgr.drone_armed = Drones

Command_TAKEOFF ==
  /\ \/ /\ ~mgr.fleet_armed
        /\ UNCHANGED <<mgr, takeoff>> /\ Quiet
     \/ /\ mgr.fleet_armed /\ ~Ready
        /\ ServiceDisarm(mgr, arm, TRUE)
        /\ UNCHANGED takeoff
     \/ /\ mgr.fleet_armed /\ Ready
        /\ mgr' = [mgr EXCEPT !.flying = TRUE, !.last_estop = NoReason]
        /\ takeoff' = [d \in Drones |-> IF d \in up THEN More(takeoff[d])
                                                    ELSE takeoff[d]]
        /\ Quiet
  /\ UNCHANGED <<up, services, feedback, departed_trk, down_sent, plannerTopics,
                 tilt_sent, mux, mux_cut, fc>>

(* LAND reaches the manager through /fleet/command, its own LAND too.      *)
LandFleet ==
  /\ land_mgr > 0
  /\ land_mgr' = land_mgr - 1
  /\ \/ /\ mgr.flying
        /\ mgr' = [mgr EXCEPT !.landing = TRUE] /\ Quiet
     \/ /\ ~mgr.flying /\ mgr.fleet_armed
        /\ ServiceDisarm(mgr, arm, TRUE)
     \/ /\ ~mgr.flying /\ ~mgr.fleet_armed
        /\ UNCHANGED mgr /\ Quiet
  /\ UNCHANGED <<up, services, feedback, takeoff, departed_trk, down_sent,
                 land_pl, step_sent, landed, dropped, on_load_pub,
                 departed_mgr, tilt_sent, mux, mux_cut, fc>>

(* DISARM and ESTOP: both are the emergency stop.                          *)
Command_DISARM(c) ==
  /\ EmergencyStop(mgr, Reason(c, N))
  /\ UNCHANGED <<up, services, feedback, takeoff, departed_trk, down_sent,
                 plannerTopics, tilt_sent, mux, mux_cut, fc>>

-----------------------------------------------------------------------------
(* Callbacks.  PublishLand is the manager's own LAND on /fleet/command,    *)
(* which it hears like everyone else.                                      *)
PublishLand ==
  /\ land_mgr' = More(land_mgr)
  /\ land_pl' = More(land_pl)

(* A disarm that nobody asked for.  Mutant: nor in a descent of its own.   *)
LostAnywhere(d) == ~Head(feedback[d].mgr) /\ d \in mgr.drone_armed
Lost(d) ==
  ~Head(feedback[d].mgr) /\ d \in mgr.drone_armed /\ d \notin mgr.down_alone

(* The arming state a tracker reports: expected, grounding an armed fleet, *)
(* not ours to stop, landing the fleet, or an emergency.  A latched on_load *)
(* counts only while its publisher, the planner, is there (live).          *)
ArmingFeedback(d, live) ==
  LET m    == [mgr EXCEPT !.drone_armed = IF Head(feedback[d].mgr) THEN @ \union {d}
                                                              ELSE @ \ {d}]
      lost == Lost(d)
      his  == Partner(mgr.mux_state[d])
      off  == mgr.on_load[d] = "F" /\ live
  IN  /\ feedback[d].mgr # << >>
      /\ feedback' = [feedback EXCEPT ![d].mgr = Tail(@)]
      /\ \/ /\ ~lost \/ (~mgr.flying /\ ~mgr.fleet_armed) \/ (mgr.flying /\ his)
            /\ mgr' = m /\ Quiet /\ UNCHANGED <<land_mgr, land_pl>>
         \/ /\ lost /\ mgr.fleet_armed /\ ~mgr.flying
            /\ ServiceDisarm(m, arm, TRUE) /\ UNCHANGED <<land_mgr, land_pl>>
         \/ /\ lost /\ mgr.flying /\ ~his /\ off
            /\ mgr' = [m EXCEPT !.excused = @ \union {d}]
            /\ IF mgr.landing THEN UNCHANGED <<land_mgr, land_pl>>
                              ELSE PublishLand
            /\ Quiet
         \/ /\ lost /\ mgr.flying /\ ~his /\ ~off
            /\ EmergencyStop(m, Reason("disarmed", d))
            /\ UNCHANGED <<land_mgr, land_pl>>
      /\ UNCHANGED <<up, services, takeoff, departed_trk, down_sent, step_sent,
                     landed, dropped, on_load_pub, departed_mgr, tilt_sent, mux,
                     mux_cut, fc>>

(* An excused drone that is on the ring after all is a carrier fault.      *)
(* Mutant: the flag as it was before this message.                         *)
OnRingBefore(d) == mgr.on_load[d] = "T" /\ d \in mgr.excused /\ mgr.flying
OnRing(d) == on_load_pub[d] = "T" /\ d \in mgr.excused /\ mgr.flying
OnLoadCallback(d) ==
  LET m == [mgr EXCEPT !.on_load[d] = on_load_pub[d]]
  IN  /\ mgr.on_load[d] # on_load_pub[d]
      /\ IF OnRing(d)
         THEN EmergencyStop(m, Reason("on the ring", d))
         ELSE mgr' = m /\ Quiet
      /\ UNCHANGED <<up, services, feedback, takeoff, departed_trk, down_sent,
                     plannerTopics, tilt_sent, mux, mux_cut, fc>>

MuxStateCallback(d) ==
  /\ mgr.mux_state[d] # mux[d]
  /\ mgr' = [mgr EXCEPT !.mux_state[d] = mux[d]]
  /\ UNCHANGED <<arm, disarming, chanVars>>

(* The planner let d go: it counts only while the fleet flies.             *)
DepartedCallback(d) ==
  /\ d \in departed_mgr
  /\ departed_mgr' = departed_mgr \ {d}
  /\ mgr' = IF mgr.flying THEN [mgr EXCEPT !.off_ring = @ \union {d}] ELSE mgr
  /\ UNCHANGED <<arm, disarming, up, services, trackerTopics, radio, land_mgr,
                 land_pl, step_sent, landed, dropped, on_load_pub, muxTopics>>

(* d idles at its rest: disarmed alone if the planner released it in this  *)
(* flight, ours flies it and its tracker answers.  Mutant: only behind a   *)
(* mux.                                                                    *)
AloneBehindMux(d) ==
  /\ mgr.flying /\ d \notin mgr.down_alone /\ d \in mgr.off_ring
  /\ mgr.mux_state[d] = "ours" /\ d \in up
MayDisarmAlone(d) ==
  /\ mgr.flying /\ d \notin mgr.down_alone /\ d \in mgr.off_ring
  /\ mgr.mux_state[d] # "partner" /\ d \in up
DownAloneCallback(d) ==
  /\ d \in down_sent
  /\ down_sent' = down_sent \ {d}
  /\ IF MayDisarmAlone(d)
     THEN /\ mgr' = [mgr EXCEPT !.down_alone = @ \union {d}]
          /\ svc' = [svc EXCEPT ![d] = Append(@, [arm |-> FALSE, by |-> AloneDisarm])]
     ELSE UNCHANGED <<mgr, svc>>
  /\ UNCHANGED <<arm, disarming, up, reply, alone_reply, feedback, abort,
                 takeoff, departed_trk, radio, plannerTopics, muxTopics>>

(* The reply to the disarm alone: now a stop straight to its radio too.    *)
AloneReply(d) ==
  /\ d \in alone_reply
  /\ alone_reply' = alone_reply \ {d}
  /\ radio' = [radio EXCEPT ![d] = "off"]
  /\ UNCHANGED <<mgrVars, up, svc, reply, trackerTopics, plannerTopics,
                 muxTopics>>

(* _fault_land: one LAND per flight for a fault that lands the fleet.      *)
(* Mutant: latched without a LAND.                                         *)
FaultLandLatched(m) ==
  mgr' = [m EXCEPT !.fault_land = TRUE] /\ UNCHANGED <<land_mgr, land_pl>>
FaultLand(m) ==
  IF m.landing \/ m.fault_land
  THEN mgr' = m /\ UNCHANGED <<land_mgr, land_pl>>
  ELSE mgr' = [m EXCEPT !.fault_land = TRUE] /\ PublishLand

Unread == UNCHANGED <<arm, disarming, up, services, trackerTopics, radio,
                      step_sent, landed, dropped, on_load_pub, departed_mgr>>

(* A tilt fault of a drone the partner flies (or that was cut).            *)
TiltFaultCallback(d) ==
  /\ "tilt" \in LandFaults /\ d \in tilt_sent
  /\ tilt_sent' = tilt_sent \ {d}
  /\ IF mgr.flying /\ Partner(mgr.mux_state[d])
     THEN FaultLand([mgr EXCEPT !.excused = @ \union {d}])
     ELSE UNCHANGED <<mgr, land_mgr, land_pl>>
  /\ Unread /\ UNCHANGED <<mux, mux_abort, mux_cut, fc>>

(* A drone of ours past the position limit for long enough.                *)
LimitBreach(d) ==
  /\ "limit" \in LandFaults /\ mgr.flying /\ ~Partner(mgr.mux_state[d])
  /\ FaultLand(mgr)
  /\ Unread /\ UNCHANGED muxTopics

(* The partner's stream disarmed the drone it flies, in the air.           *)
FcDisarmed(d) ==
  /\ "fc" \in LandFaults /\ mgr.flying /\ mgr.mux_state[d] = "partner"
  /\ fc[d] \in {"disarmed", "failed"}
  /\ FaultLand([mgr EXCEPT !.excused = @ \union {d}])
  /\ Unread /\ UNCHANGED muxTopics

(* The planner dropped the ring: landing from here on.                     *)
PayloadDropped ==
  /\ dropped
  /\ dropped' = FALSE
  /\ mgr' = IF mgr.flying THEN [mgr EXCEPT !.landing = TRUE] ELSE mgr
  /\ UNCHANGED <<arm, disarming, up, services, trackerTopics, radio, land_mgr,
                 land_pl, step_sent, landed, on_load_pub, departed_mgr,
                 muxTopics>>

(* /fleet/landed: the fleet is disarmed for good; a drone still on the     *)
(* partner's stream that is down and still has its mux cut.                *)
Landed ==
  /\ landed
  /\ landed' = FALSE
  /\ IF mgr.landing
     THEN /\ ServiceDisarm([mgr EXCEPT !.landing = FALSE], arm, FALSE)
          /\ IF LandedPartnerCut
             THEN \E atRest \in SUBSET {d \in Newcomers : mgr.mux_state[d] = "partner"} :
                    mux_cut' = mux_cut \union atRest
             ELSE UNCHANGED mux_cut
     ELSE UNCHANGED <<mgr, mux_cut>> /\ Quiet
  /\ UNCHANGED <<up, services, feedback, takeoff, departed_trk, down_sent,
                 land_mgr, land_pl, step_sent, dropped, on_load_pub,
                 departed_mgr, tilt_sent, mux, fc>>

(* The step timer: the step counts on, and is sent, while the fleet flies. *)
StepTimer ==
  /\ ~mgr.shutdown /\ mgr.flying
  /\ step_sent' = TRUE
  /\ UNCHANGED <<mgrVars, up, services, trackerTopics, radio, land_mgr, land_pl,
                 landed, dropped, on_load_pub, departed_mgr, muxTopics>>

MgrCallback(d, live) ==
  \/ ArmingFeedback(d, live) \/ OnLoadCallback(d) \/ MuxStateCallback(d)
  \/ DepartedCallback(d) \/ DownAloneCallback(d) \/ AloneReply(d)
  \/ TiltFaultCallback(d)

MgrStep(live) ==
  \/ \E k \in ArmIds : ArmStep(k)
  \/ DisarmThread
  \/ \E d \in Drones : MgrCallback(d, live) \/ FcDisarmed(d)
  \/ LandFleet \/ PayloadDropped \/ StepTimer
=============================================================================
