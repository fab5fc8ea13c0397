---------------------------- MODULE JoinPlanner ----------------------------
(***************************************************************************)
(* The approach planner that flies a newcomer to the ring                  *)
(* (drone_magnet/online_join_planner.py): its mission states, the hold     *)
(* before an obstacle, the abort to a landing and the magnet's words, in   *)
(* the mission that joins only and in the one that picks up an object and  *)
(* delivers it first.                                                      *)
(*                                                                         *)
(* A run of the timer is one step, made of the parts it calls in their     *)
(* order, each a function of the planner's state.  References, obstacle    *)
(* avoidance and errors are not here: a tick is told whether the tip is as *)
(* its state wants it and what the margins to the obstacles are.           *)
(***************************************************************************)
EXTENDS Integers, FiniteSets

CONSTANTS
  Missions,       \* the launches, see Mission
  Dwell,          \* every state's dwell (condition_true_for), in ticks
  BlockedFor,     \* blocked_dwell_time_s
  RecoveredFor,   \* recovered_dwell_time_s
  MaxBlocked,     \* max_blocked_time_s
  LandAfter,      \* pickup_land_after_s and attach_ready_land_after_s
  LandMin,        \* landing_min_time_before_disarm_s
  Grace,          \* fallback_after_takeoff_grace_time_s
  Ramp,           \* ticks of the last descent
  DetectRise,     \* takeoff_detection_height, in steps of height
  DisarmRise,     \* landing_disarm_height_above_start
  HoldRise,       \* fallback_min_height_above_start
  Top,            \* bound: the height of the flight
  MaxWords        \* bound: words on /drone_command and land_now

(* mission_mode pickup_delivery; gate_approach_on_magnet in mode join;     *)
(* auto_descend.                                                           *)
Mission == [pickup : BOOLEAN, gated : BOOLEAN, auto_descend : BOOLEAN]

ASSUME JoinAssumption ==
  /\ Missions \subseteq Mission /\ \A m \in Missions : m.pickup => ~m.gated
  /\ {Dwell, BlockedFor, RecoveredFor, MaxBlocked, LandAfter, Ramp}
       \subseteq Nat \ {0}
  /\ {LandMin, Grace, DetectRise, DisarmRise, HoldRise, Top, MaxWords}
       \subseteq Nat

VARIABLES
  mission,
  join,      \* the planner's state
  z,         \* the drone's height, and whether a sample has come
  seen,
  object_attached,
  words      \* words and triggers so far

joinVars == <<mission, join, z, seen, object_attached, words>>

Reattach == {"APPROACH_ABOVE_TARGET", "MATCH_VELOCITY",
             "DESCEND_TO_ATTACHMENT", "ATTACH_READY"}
Empty == {"APPROACH_ABOVE_PICKUP", "SETTLE_ABOVE_PICKUP"}
Carrying == {"DESCEND_TO_PICKUP", "MAGNET_ATTACH_WAIT", "LIFT_OBJECT",
             "TRANSIT_TO_DROP_POINT", "SETTLE_ABOVE_DROP_POINT",
             "DESCEND_TO_DROP_HEIGHT"}
Released == {"DROP_OBJECT", "CLEAR_DROP_ZONE", "TRANSIT_TO_REATTACH"}
Aborted == {"LANDING", "LANDED_DISARMED"}
Flown == Reattach \cup Empty \cup Carrying \cup Released
JoinModes == Flown \cup Aborted \cup {"WAIT_FOR_TAKEOFF", "HOLD_FOR_OBSTACLE"}

Larger(m, n) == IF m > n THEN m ELSE n
MaxAge == Larger(MaxBlocked, Larger(LandAfter, LandMin))

(* state, resume_state_after_hold; ticks since state_entry_time;           *)
(* condition_start_time, blocked_, recovered_condition_start_time,         *)
(* takeoff_detected_time (0 = None, n = n - 1 ticks ago); current_offset_z *)
(* in ticks of descent; initial_quad_z, landing_disarm_z; approach_armed,  *)
(* external_landing_pending; last_magnet_command; whether a hold was left  *)
(* because the fallback's gate had closed (history).                       *)
JoinStates ==
  [mode : JoinModes, resume : JoinModes, age : 0 .. MaxAge,
   dwell : 0 .. Dwell + 1, blocked : 0 .. BlockedFor + 1,
   recovered : 0 .. RecoveredFor + 1, detected : 0 .. Grace + 1,
   offset : 0 .. Ramp, initial : 0 .. Top, disarm_z : 0 .. Top + DisarmRise,
   armed : BOOLEAN, pending : BOOLEAN, word : {"none", "ON", "OFF"},
   gave_up : BOOLEAN]

JoinTypeOK ==
  /\ mission \in Missions /\ join \in JoinStates
  /\ z \in 0 .. Top /\ seen \in BOOLEAN /\ object_attached \in BOOLEAN
  /\ words \in 0 .. MaxWords

JoinInit ==
  /\ mission \in Missions
  /\ join = [mode |-> IF mission.pickup THEN "WAIT_FOR_TAKEOFF"
                        ELSE "APPROACH_ABOVE_TARGET",
             resume |-> "APPROACH_ABOVE_TARGET", age |-> 0, dwell |-> 0,
             blocked |-> 0, recovered |-> 0, detected |-> 0, offset |-> Ramp,
             initial |-> 0, disarm_z |-> 0, armed |-> ~mission.gated,
             pending |-> FALSE, word |-> "none", gave_up |-> FALSE]
  /\ z = 0 /\ seen = FALSE /\ object_attached = FALSE /\ words = 0

-----------------------------------------------------------------------------
AtMost(n, cap) == IF n > cap THEN cap ELSE n
Older(n, wait) == IF n = 0 THEN 0 ELSE AtMost(n + 1, wait + 1)

(* condition_true_for, fallback_condition_true_for: the clock, and whether *)
(* it has run its time.                                                    *)
Clock(n, holds) == IF holds THEN (IF n = 0 THEN 1 ELSE n) ELSE 0
Run(n, holds, wait) == holds /\ n > wait

OffsetIn(p, m) ==
  CASE m \in {"APPROACH_ABOVE_TARGET", "MATCH_VELOCITY", "TRANSIT_TO_REATTACH",
              "DESCEND_TO_ATTACHMENT", "HOLD_FOR_OBSTACLE"} -> Ramp
    [] m = "ATTACH_READY" -> 0
    [] OTHER -> p.offset

(* transition_to; a landing latches its ramp (initialise_landing_reference)*)
(* and clears the fallback's clocks.                                       *)
Lands(p) ==
  [p EXCEPT !.disarm_z = p.initial + DisarmRise, !.blocked = 0,
            !.recovered = 0]
Entered(p, m) ==
  [p EXCEPT !.mode = m, !.age = 0, !.dwell = 0, !.offset = OffsetIn(p, m)]
Transition(p, m) ==
  IF m = p.mode THEN p
  ELSE IF m = "LANDING" THEN Entered(Lands(p), m) ELSE Entered(p, m)

-----------------------------------------------------------------------------
(* update_state_machine.  The word of a state goes out before it is left,  *)
(* and never in mode join: the operator's ATTACH owns the magnet there.    *)
Word(m) ==
  CASE m \in Carrying -> "ON"
    [] m \in Empty \cup Released \cup Reattach -> "OFF"
    [] OTHER -> "none"
Publishes(p) ==
  IF mission.pickup /\ Word(p.mode) # "none"
    THEN [p EXCEPT !.word = Word(p.mode)] ELSE p

(* States left after a dwell of the tip where it should be.                *)
AfterDwell ==
  [APPROACH_ABOVE_PICKUP |-> "SETTLE_ABOVE_PICKUP",
   SETTLE_ABOVE_PICKUP |-> "DESCEND_TO_PICKUP",
   MAGNET_ATTACH_WAIT |-> "LIFT_OBJECT",
   TRANSIT_TO_DROP_POINT |-> "SETTLE_ABOVE_DROP_POINT",
   SETTLE_ABOVE_DROP_POINT |-> "DESCEND_TO_DROP_HEIGHT",
   APPROACH_ABOVE_TARGET |-> "MATCH_VELOCITY",
   MATCH_VELOCITY |-> "DESCEND_TO_ATTACHMENT"]
(* States left when their ramp, climb or wait has ended.                   *)
AfterRamp ==
  [DESCEND_TO_PICKUP |-> "MAGNET_ATTACH_WAIT",
   LIFT_OBJECT |-> "TRANSIT_TO_DROP_POINT",
   DESCEND_TO_DROP_HEIGHT |-> "DROP_OBJECT",
   DROP_OBJECT |-> "CLEAR_DROP_ZONE",
   CLEAR_DROP_ZONE |-> "TRANSIT_TO_REATTACH",
   TRANSIT_TO_REATTACH |-> "APPROACH_ABOVE_TARGET"]

(* What a tick is told.  fine: the tip is within what its state tolerates, *)
(* or the ramp, climb or wait of the state has ended; margins: blocked is  *)
(* below the blocked margin, clear above the recovered one, and no margin  *)
(* at all does what one between does.                                      *)
Inputs == [fine : BOOLEAN, margins : {"blocked", "between", "clear"}]

Follows(p, in) ==
  in.fine /\ (p.mode = "MAGNET_ATTACH_WAIT" => object_attached)
Ended(p, in) ==
  \/ in.fine
  \/ p.mode = "TRANSIT_TO_REATTACH"
  \/ p.mode = "DROP_OBJECT" /\ ~object_attached

PickupTimeout(p) ==
  IF p.mode = "APPROACH_ABOVE_PICKUP" /\ p.age >= LandAfter /\ p.detected # 0
    THEN Transition(p, "LANDING") ELSE p
Dwells(p, next, holds) ==
  IF Run(p.dwell, holds, Dwell) THEN Transition(p, next)
  ELSE [p EXCEPT !.dwell = Clock(@, holds)]

(* auto_descend FALSE: matched, and waiting again.                         *)
Inhibited(p) == p.mode = "MATCH_VELOCITY" /\ ~mission.auto_descend
MatchAgain(p, holds) ==
  [p EXCEPT !.dwell = IF Run(@, holds, Dwell) THEN 1 ELSE Clock(@, holds)]

Descend(p, in) ==
  IF ~in.fine THEN Transition(p, "APPROACH_ABOVE_TARGET")
  ELSE IF p.offset <= 1 THEN Transition(p, "ATTACH_READY")
  ELSE [p EXCEPT !.offset = @ - 1]
AttachReady(p, in) ==
  IF p.age >= LandAfter THEN Transition(p, "LANDING")
  ELSE IF ~in.fine THEN Transition(p, "APPROACH_ABOVE_TARGET")
  ELSE p

Advance(p, in) ==
  CASE Inhibited(p) -> MatchAgain(p, Follows(p, in))
    [] ~Inhibited(p) /\ p.mode \in DOMAIN AfterDwell ->
         Dwells(PickupTimeout(p), AfterDwell[p.mode], Follows(p, in))
    [] p.mode \in DOMAIN AfterRamp ->
         IF Ended(p, in) THEN Transition(p, AfterRamp[p.mode]) ELSE p
    [] p.mode = "DESCEND_TO_ATTACHMENT" -> Descend(p, in)
    [] p.mode = "ATTACH_READY" -> AttachReady(p, in)
    [] OTHER -> p

UpdateStateMachine(p, in) ==
  IF p.armed THEN Advance(Publishes(p), in) ELSE [p EXCEPT !.dwell = 0]

(* maybe_start_landing_from_blocked_timeout.                               *)
(* Mutant: the time is that of the condition, which a hold has cleared.    *)
BlockedSince(p) ==
  IF p.mode = "HOLD_FOR_OBSTACLE" /\ p.blocked > MaxBlocked
    THEN Transition(p, "LANDING") ELSE p
BlockedTimeout(p) ==
  IF p.mode = "HOLD_FOR_OBSTACLE" /\ p.age >= MaxBlocked
    THEN Transition(p, "LANDING") ELSE p

-----------------------------------------------------------------------------
(* blocked_fallback_allowed_now, with update_takeoff_detection_from_height:*)
(* a lift-off seen now starts the state's time again.                      *)
Rise(p) == z - p.initial
LiftsOff(p) == p.detected = 0 /\ Rise(p) >= DetectRise
Detected(p) ==
  IF LiftsOff(p) THEN [p EXCEPT !.detected = 1, !.age = 0] ELSE p
Allowed(p) == p.detected > Grace /\ Rise(p) >= HoldRise

Cleared(p) == [p EXCEPT !.blocked = 0, !.recovered = 0]

GateClosed(p) ==
  IF p.mode = "HOLD_FOR_OBSTACLE"
    THEN [Transition(Cleared(p), "APPROACH_ABOVE_TARGET") EXCEPT
            !.gave_up = TRUE]
    ELSE Cleared(p)

(* Mutant: it does not remember what it was doing.                         *)
HoldForgets(p) == Transition(p, "HOLD_FOR_OBSTACLE")
Hold(p) == Transition([p EXCEPT !.resume = p.mode], "HOLD_FOR_OBSTACLE")
MayBlock(p, in) ==
  IF Run(p.blocked, in.margins = "blocked", BlockedFor) THEN Cleared(Hold(p))
  ELSE [p EXCEPT !.blocked = Clock(@, in.margins = "blocked"), !.recovered = 0]

(* Mutant: back to where the hold began.                                   *)
ResumesWhole(p) == p.resume
ResumesAt(p) ==
  IF p.resume = "ATTACH_READY" THEN "DESCEND_TO_ATTACHMENT" ELSE p.resume
MayResume(p, in) ==
  IF Run(p.recovered, in.margins = "clear", RecoveredFor)
    THEN Cleared(Transition(p, ResumesAt(p)))
    ELSE [p EXCEPT !.blocked = 0,
                   !.recovered = Clock(@, in.margins = "clear")]

(* evaluate_blocked_fallback, once the gate is open.                       *)
Fallback(p, in) ==
  IF p.mode = "HOLD_FOR_OBSTACLE" THEN MayResume(p, in) ELSE MayBlock(p, in)
(* Mutant: a landing is looked at like any other state.                    *)
EvaluateAlways(p, in) ==
  LET d == Detected(p) IN IF Allowed(d) THEN Fallback(d, in) ELSE GateClosed(d)
EvaluateBlockedFallback(p, in) ==
  IF p.mode \in Aborted THEN Cleared(p)
  ELSE LET d == Detected(p)
       IN  IF Allowed(d) THEN Fallback(d, in) ELSE GateClosed(d)

(* maybe_publish_landing_disarm.                                           *)
LandingDisarm(p) ==
  IF p.mode = "LANDING" /\ p.age >= LandMin /\ z <= p.disarm_z
    THEN Transition(p, "LANDED_DISARMED") ELSE p

(* A tick later; only the states of Timed read their time.                 *)
Timed == {"APPROACH_ABOVE_PICKUP", "ATTACH_READY", "HOLD_FOR_OBSTACLE",
          "LANDING"}
Aged(p) ==
  [p EXCEPT !.age = IF p.mode \in Timed THEN AtMost(@ + 1, MaxAge) ELSE @,
            !.dwell = Older(@, Dwell),
            !.blocked = Older(@, BlockedFor),
            !.recovered = Older(@, RecoveredFor),
            !.detected = Older(@, Grace)]

(* timer_callback with every input fresh; with a stale one it does nothing.*)
TimerCallback(in) ==
  /\ seen
  /\ \E now \in {Aged(join)} :
       \E moved \in {UpdateStateMachine(now, in)} :
         \E held \in {BlockedTimeout(moved)} :
           \E met \in {EvaluateBlockedFallback(held, in)} :
             join' = LandingDisarm(met)
  /\ UNCHANGED <<mission, z, seen, object_attached, words>>

-----------------------------------------------------------------------------
(* drone_state_callback: a sample of the drone at height h.                *)
Sampled(p, h) ==
  IF p.mode = "WAIT_FOR_TAKEOFF" /\ h - p.initial >= DetectRise
    THEN Transition([p EXCEPT !.detected = IF @ = 0 THEN 1 ELSE @],
                    "APPROACH_ABOVE_PICKUP")
    ELSE p
LandsNow(p) ==
  IF p.pending /\ p.mode \notin Aborted
    THEN Transition([p EXCEPT !.pending = FALSE], "LANDING") ELSE p
DroneStateCallback(h) ==
  /\ z' = h /\ seen' = TRUE
  /\ \E p \in {IF seen THEN join ELSE [join EXCEPT !.initial = h]} :
       join' = LandsNow(Sampled(p, h))
  /\ UNCHANGED <<mission, object_attached, words>>

(* The drone flies: up and down, and only down on its landing reference.   *)
Moves ==
  \E h \in 0 .. Top :
    /\ h \in {z - 1, z + 1} \/ (~seen /\ h = z)
    /\ join.mode \in Aborted => h < z
    /\ DroneStateCallback(h)
Sinks == join.mode = "LANDING" /\ z > 0 /\ DroneStateCallback(z - 1)

(* drone_command_callback: ARM, DISARM, LAND, its own landing's among      *)
(* them.  TAKEOFF changes nothing once a sample has come.                  *)
DroneCommandCallback ==
  /\ words < MaxWords /\ words' = words + 1
  /\ join' = [join EXCEPT !.initial = IF seen THEN z ELSE @, !.detected = 0]
  /\ UNCHANGED <<mission, z, seen, object_attached>>

ExternalLandingCallback ==
  /\ words < MaxWords /\ words' = words + 1
  /\ join.mode \notin Aborted
  /\ join' = IF seen
               THEN Transition([join EXCEPT !.pending = FALSE], "LANDING")
               ELSE [join EXCEPT !.pending = TRUE]
  /\ UNCHANGED <<mission, z, seen, object_attached>>

(* magnet_command_in_callback: ATTACH.                                     *)
MagnetCommandInCallback ==
  /\ mission.gated /\ ~join.armed
  /\ join' = [join EXCEPT !.armed = TRUE]
  /\ UNCHANGED <<mission, z, seen, object_attached, words>>

(* object_attached_callback: heard in the pickup mission only; the magnet  *)
(* takes an object while it is ON, and may lose it.                        *)
ObjectAttachedCallback ==
  /\ mission.pickup
  /\ object_attached' = ~object_attached
  /\ object_attached' => join.word = "ON"
  /\ UNCHANGED <<mission, join, z, seen, words>>

JoinNext ==
  \/ \E in \in Inputs : TimerCallback(in)
  \/ Moves
  \/ Sinks
  \/ DroneCommandCallback
  \/ ExternalLandingCallback
  \/ MagnetCommandInCallback
  \/ ObjectAttachedCallback

JoinSpec == JoinInit /\ [][JoinNext]_joinVars

(* The timer runs with fresh inputs, and the drone follows its landing.    *)
Ticked == \E in \in Inputs : TimerCallback(in)
JoinFairness == WF_joinVars(Ticked) /\ WF_joinVars(Sinks)

-----------------------------------------------------------------------------
(* A landing is the end of the mission: nothing that still runs in the     *)
(* same tick or comes later - a dwell that completes, a hold that          *)
(* recovers, a take-off seen, a second land_now - flies the drone on.      *)
AbortIsFinal ==
  [][join.mode \in Aborted =>
       /\ join'.mode \in Aborted
       /\ join.mode = "LANDED_DISARMED" => join'.mode = "LANDED_DISARMED"
       /\ join'.disarm_z = join.disarm_z]_joinVars

(* The tip is at the ring's height (ATTACH_READY) only at the end of a     *)
(* whole descent from above it: an abort or a hold in between sends it     *)
(* back to the top, also one that began when it was ready.                 *)
ReadyIsEarned ==
  [][/\ join'.mode = "ATTACH_READY" =>
          \/ join.mode = "ATTACH_READY"
          \/ join.mode = "DESCEND_TO_ATTACHMENT" /\ join.offset = 1
     /\ join'.offset < join.offset =>
          /\ join.mode = "DESCEND_TO_ATTACHMENT"
          /\ join'.offset = join.offset - 1]_joinVars

(* The coil that has been told ON is told OFF where it is to drop, after   *)
(* a descent to the drop height, and nowhere on the way: no hold, recovery *)
(* or landing opens the magnet.  The code's exception: a hold that ends    *)
(* because the fallback's gate has closed gives the delivery up.           *)
ObjectIsCarried ==
  [][join.word = "ON" /\ join'.word = "OFF"
     => join.mode = "DROP_OBJECT" \/ join.gave_up]_joinVars

(* A blocked approach is not held for ever, and a landing ends disarmed.   *)
ApproachEnds ==
  /\ (join.mode = "HOLD_FOR_OBSTACLE") ~> (join.mode # "HOLD_FOR_OBSTACLE")
  /\ (join.mode = "LANDING") ~> (join.mode = "LANDED_DISARMED")
=============================================================================
