------------------------------- MODULE Tracker -------------------------------
(***************************************************************************)
(* The tracker process of every drone (tracker_node.py) with its           *)
(* CallbackManagerMulti: arming service, TAKEOFF command, /fleet/abort,    *)
(* the 50 Hz control loop with its watchdogs, and the shutdown of the      *)
(* process after a flight.  A tracker is single threaded: one callback or  *)
(* one control tick is one step.                                           *)
(***************************************************************************)
EXTENDS FleetChannels

VARIABLE trk   \* trk[d]: the state of drone d's tracker

TrackerStates ==
  [wedged:    BOOLEAN,   \* it runs and answers nothing any more
   armed:     BOOLEAN,
   takeoff:   BOOLEAN,   \* takeoff_requested
   flown:     BOOLEAN,   \* has_flown
   shutdown:  BOOLEAN,   \* shutdown_requested
   aborted:   BOOLEAN,   \* _aborted: a fault or an abort is latched
   was_armed: BOOLEAN,   \* _was_armed, as the last _safety_check left it
   keep:      BOOLEAN,   \* keep_alive_on_disarm
   departed:  BOOLEAN,   \* _departed, heard in this flight
   down:      BOOLEAN]   \* _gi_latched: idles at its rest until disarmed

FreshTracker ==
  [wedged |-> FALSE, armed |-> FALSE, takeoff |-> FALSE, flown |-> FALSE,
   shutdown |-> FALSE, aborted |-> FALSE,
   was_armed |-> FALSE, keep |-> FALSE, departed |-> FALSE, down |-> FALSE]

TrackerTypeOK == trk \in [Drones -> TrackerStates]
TrackerInit == trk = [d \in Drones |-> FreshTracker]

Runs(d) == d \in up /\ ~trk[d].wedged

(* A tracker's command reaches its radio unless a mux forwards another     *)
(* stream (or has latched a disarm).                                       *)
(* Mutant: a latched mux lets ours through.                                *)
CommandPastLatch(d, c) ==
  radio' = IF mux[d] \in {"none", "ours", "latched"}
           THEN [radio EXCEPT ![d] = c] ELSE radio
Command(d, c) ==
  radio' = IF mux[d] \in {"none", "ours"} THEN [radio EXCEPT ![d] = c]
                                          ELSE radio

PublishArmingState(d) ==
  feedback' = [feedback EXCEPT
                 ![d].mgr = Push(@, trk'[d].armed),
                 ![d].pl = IF d \in Newcomers THEN Flag(trk'[d].armed) ELSE @]

(* CallbackManagerMulti.disarm: what the watchdogs and the abort call.     *)
Disarmed(t) == [t EXCEPT !.armed = FALSE, !.takeoff = FALSE]

(* The rising edge of armed seen by _safety_check, which runs only while   *)
(* armed: latches are cleared.                                             *)
EdgeReset(t) ==
  IF t.was_armed THEN t
  ELSE [t EXCEPT !.aborted = FALSE, !.departed = FALSE, !.down = FALSE,
                 !.was_armed = TRUE]

-----------------------------------------------------------------------------
(* The process comes up: its solver is built and its services answer.      *)
Start(d) ==
  /\ d \notin up /\ ~trk[d].shutdown
  /\ up' = up \union {d}
  /\ UNCHANGED <<trk, services, trackerTopics, radio, plannerTopics, muxTopics>>

(* The process stops answering (a wedged solver, a blocked executor).      *)
Wedge(d) ==
  /\ Runs(d)
  /\ trk' = [trk EXCEPT ![d].wedged = TRUE]
  /\ UNCHANGED chanVars

(* The reply to sequence k, unless it no longer waits for it.              *)
Answer(k, d, a) ==
  reply' = IF k \in ArmIds /\ reply[k][d] = "pending"
           THEN [reply EXCEPT ![k][d] = a] ELSE reply

(* SetArming with arm = true; the interlock refuses on a stale pose.       *)
HandleArm(d, ready) ==
  /\ Runs(d) /\ svc[d] # << >> /\ Head(svc[d]).arm
  /\ trk' = IF ready THEN [trk EXCEPT ![d].armed = TRUE] ELSE trk
  /\ Answer(Head(svc[d]).by, d, IF ready THEN "ok" ELSE "refused")
  /\ PublishArmingState(d)
  /\ svc' = [svc EXCEPT ![d] = Tail(@)]
  /\ UNCHANGED <<up, alone_reply, abort, takeoff, departed_trk, down_sent,
                 radio, plannerTopics, muxTopics>>

(* SetArming with arm = false: a drone that flew shuts its process down,   *)
(* unless it is disarmed alone while the fleet still flies.                *)
AnswerDisarm(d, flew, keep) ==
  /\ Runs(d) /\ svc[d] # << >> /\ ~Head(svc[d]).arm
  /\ trk' = [trk EXCEPT ![d] =
                [Disarmed(@) EXCEPT !.flown = flew, !.keep = FALSE,
                                    !.shutdown = flew /\ ~keep]]
  /\ alone_reply' = IF Head(svc[d]).by = AloneDisarm
                    THEN alone_reply \union {d} ELSE alone_reply
  /\ PublishArmingState(d)
  /\ svc' = [svc EXCEPT ![d] = Tail(@)]
  /\ UNCHANGED <<up, reply, abort, takeoff, departed_trk, down_sent, radio,
                 plannerTopics, muxTopics>>

(* Mutants: a drone that a watchdog has disarmed counts as not flown; a    *)
(* drone disarmed alone leaves.                                            *)
HandleDisarmForgets(d) == AnswerDisarm(d, trk[d].takeoff, trk[d].keep)
HandleDisarmLeaves(d) == AnswerDisarm(d, trk[d].takeoff \/ trk[d].flown, FALSE)
HandleDisarm(d) == AnswerDisarm(d, trk[d].takeoff \/ trk[d].flown, trk[d].keep)

(* TAKEOFF on /drone_d/command: only an armed tracker takes it.            *)
HandleTakeoff(d) ==
  /\ Runs(d) /\ takeoff[d] > 0
  /\ takeoff' = [takeoff EXCEPT ![d] = @ - 1]
  /\ trk' = IF trk[d].armed
            THEN [trk EXCEPT ![d].takeoff = TRUE, ![d].flown = TRUE] ELSE trk
  /\ UNCHANGED <<up, services, feedback, abort, departed_trk, down_sent, radio,
                 plannerTopics, muxTopics>>

(* /fleet/abort: disarm, unless a fault is latched already.                *)
FleetAbort(d) ==
  /\ Runs(d) /\ abort[d] > 0
  /\ abort' = [abort EXCEPT ![d] = @ - 1]
  /\ IF trk[d].aborted
     THEN UNCHANGED <<trk, radio, feedback>>
     ELSE /\ trk' = [trk EXCEPT ![d] = [Disarmed(@) EXCEPT !.aborted = TRUE]]
          /\ Command(d, "off")
          /\ PublishArmingState(d)
  /\ UNCHANGED <<up, services, takeoff, departed_trk, down_sent, plannerTopics,
                 muxTopics>>

(* /drone_d/departed: counts only while this drone flies.                  *)
DepartedCb(d) ==
  /\ Runs(d) /\ d \in departed_trk
  /\ departed_trk' = departed_trk \ {d}
  /\ trk' = IF trk[d].armed /\ trk[d].takeoff
            THEN [trk EXCEPT ![d].departed = TRUE] ELSE trk
  /\ UNCHANGED <<up, services, feedback, abort, takeoff, down_sent, radio,
                 plannerTopics, muxTopics>>

(* The tilt rule, on a fresh pose of a newcomer from TAKEOFF on: told to   *)
(* its mux, which may cut it, and to the manager.  Armed or not.           *)
TiltFault(d) ==
  /\ Runs(d) /\ d \in Newcomers /\ trk[d].flown
  /\ tilt_sent' = tilt_sent \union {d}
  /\ mux_cut' = mux_cut \union {d}
  /\ UNCHANGED <<trk, up, services, trackerTopics, radio, plannerTopics, mux,
                 mux_abort, fc>>

-----------------------------------------------------------------------------
(* The control loop.  Each tick takes exactly one of the paths below.      *)
Ticks(d) == Runs(d) /\ ~trk[d].shutdown
OnlyTicks == UNCHANGED <<up, services, abort, takeoff, departed_trk,
                         plannerTopics, muxTopics>>

(* shutdown_requested: request_shutdown's thread sends a last disarm and   *)
(* ends the process.  What was still queued for it is lost.                *)
Ends(d) ==
  /\ Runs(d) /\ trk[d].shutdown
  /\ up' = up \ {d}
  /\ svc' = [svc EXCEPT ![d] = << >>]
  /\ abort' = [abort EXCEPT ![d] = 0]
  /\ takeoff' = [takeoff EXCEPT ![d] = 0]
  /\ departed_trk' = departed_trk \ {d}
  /\ UNCHANGED <<trk, reply, alone_reply, feedback, down_sent, plannerTopics,
                 muxTopics>>

(* Mutant: it ends without that last disarm.                               *)
ExitSilently(d) == Ends(d) /\ UNCHANGED radio
Exit(d) == Ends(d) /\ Command(d, "off")

(* The pose watchdog fires: disarmed, nothing latched, before the envelope *)
(* is looked at.                                                           *)
TickPoseTimeout(d) ==
  /\ Ticks(d) /\ trk[d].armed
  /\ trk' = [trk EXCEPT ![d] = Disarmed(@)]
  /\ Command(d, "off") /\ PublishArmingState(d)
  /\ UNCHANGED down_sent /\ OnlyTicks

(* An envelope fault: airborne, debounced over ticks after the reset, and  *)
(* only while nothing is latched.                                          *)
Latches(d) ==
  /\ Ticks(d) /\ trk[d].armed /\ trk[d].takeoff
  /\ trk[d].was_armed /\ ~trk[d].aborted
  /\ trk' = [trk EXCEPT ![d] = [Disarmed(@) EXCEPT !.aborted = TRUE]]
  /\ Command(d, "off")
  /\ UNCHANGED down_sent /\ OnlyTicks

(* Mutant: the fault is not told to the manager.                           *)
TickEnvelopeFaultQuiet(d) == Latches(d) /\ UNCHANGED feedback
TickEnvelopeFault(d) == Latches(d) /\ PublishArmingState(d)

(* Too many solver failures in a row: disarmed, nothing latched.           *)
TickSolverFailure(d) ==
  /\ Ticks(d) /\ trk[d].armed
  /\ trk' = [trk EXCEPT ![d] = Disarmed(EdgeReset(@))]
  /\ Command(d, "off") /\ PublishArmingState(d)
  /\ UNCHANGED down_sent /\ OnlyTicks

(* The normal tick of an armed drone: thrust after TAKEOFF, idle before it *)
(* and idle again once it is down at its rest: armed commands, all three.  *)
TickFly(d) ==
  /\ Ticks(d) /\ trk[d].armed
  /\ trk' = [trk EXCEPT ![d] = EdgeReset(@)]
  /\ Command(d, "armed")
  /\ UNCHANGED <<feedback, down_sent>> /\ OnlyTicks

(* _ground_idle_update: off the ring and down at its own rest: it idles,   *)
(* keeps its process for the disarm that follows and asks for it.          *)
TickDownAlone(d) ==
  /\ Ticks(d) /\ trk[d].armed /\ trk[d].takeoff
  /\ trk[d].was_armed /\ trk[d].departed /\ ~trk[d].down
  /\ trk' = [trk EXCEPT ![d].down = TRUE, ![d].keep = TRUE]
  /\ Command(d, "armed")
  /\ down_sent' = down_sent \union {d}
  /\ UNCHANGED feedback /\ OnlyTicks

(* A disarmed tracker sends a disarm every tick.                           *)
TickDisarmed(d) ==
  /\ Ticks(d) /\ ~trk[d].armed
  /\ Command(d, "off")
  /\ UNCHANGED <<trk, feedback, down_sent>> /\ OnlyTicks

(* A tick that meets no fault.                                             *)
Tick(d) == TickFly(d) \/ TickDisarmed(d)
=============================================================================
