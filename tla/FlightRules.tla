---------------------------- MODULE FlightRules ----------------------------
(***************************************************************************)
(* The three rules that turn poses into faults, each with its counters:    *)
(* the tracker's envelope (EnvelopeChecker, looked at once a control tick  *)
(* on the newest pose), the tilt cut (TiltCutRule, fed every pose) and the *)
(* fleet manager's position limit (_limit_check, every pose).  A tick      *)
(* brings one pose, or none.                                               *)
(*                                                                         *)
(* log is history: the rules are compared with what they do, and what      *)
(* their documents say, with the whole flight.                             *)
(***************************************************************************)
EXTENDS Integers, Sequences, FiniteSets

CONSTANTS
  FaultDebounce,  \* control ticks in violation before the envelope latches
  LimitSamples,   \* POS_LIMIT_SAMPLES
  CutHold,        \* cut_hold_s, in ticks
  Holdoff,        \* glitch_holdoff_s, in ticks
  MaxTicks        \* bound: ticks of a behaviour

ASSUME RulesAssumption ==
  /\ {FaultDebounce, LimitSamples} \subseteq Nat \ {0}
  /\ {CutHold, Holdoff, MaxTicks} \subseteq Nat

VARIABLES
  log,
  newest,                 \* the newest pose
  violations, env_latched,\* EnvelopeChecker
  tilt_flying, above,     \* TiltCutRule: flying, _above_t0 (0 = None)
  holdoff_until, tilt_fault,
  limit_count, limit_land \* _limit_count, _fault_land_sent

envVars == <<violations, env_latched>>
tiltVars == <<tilt_flying, above, holdoff_until, tilt_fault>>
limitVars == <<limit_count, limit_land>>
rulesVars == <<log, newest, envVars, tiltVars, limitVars>>

(* A glitch turns faster than a body; it and a tilted pose are past the    *)
(* tilt limit, an out pose past the position limit.                        *)
Poses == {"level", "tilted", "glitch", "out"}
PastTilt == {"tilted", "glitch"}
Samples == [pose : Poses \cup {"none"}, flying : BOOLEAN]

RulesTypeOK ==
  /\ log \in Seq(Samples)
  /\ newest \in Poses
  /\ violations \in 0 .. FaultDebounce /\ env_latched \in BOOLEAN
  /\ tilt_flying \in BOOLEAN /\ above \in 0 .. MaxTicks
  /\ holdoff_until \in 0 .. MaxTicks + Holdoff /\ tilt_fault \in BOOLEAN
  /\ limit_count \in 0 .. MaxTicks /\ limit_land \in BOOLEAN

RulesInit ==
  /\ log = << >> /\ newest = "level"
  /\ violations = 0 /\ env_latched = FALSE
  /\ tilt_flying = FALSE /\ above = 0 /\ holdoff_until = 0
  /\ tilt_fault = FALSE
  /\ limit_count = 0 /\ limit_land = FALSE

-----------------------------------------------------------------------------
(* EnvelopeChecker.check: on the ground nothing is counted, and nothing    *)
(* forgotten.                                                              *)
Check(p, flying) ==
  /\ violations' = CASE ~flying \/ env_latched -> violations
                     [] flying /\ ~env_latched /\ p \in PastTilt ->
                          violations + 1
                     [] OTHER -> 0
  /\ env_latched' = (env_latched \/ violations' >= FaultDebounce)

(* TiltCutRule.step on pose p at time t.                                   *)
TiltIdle == UNCHANGED <<above, holdoff_until, tilt_fault>>
TiltGlitch(t) ==
  above' = 0 /\ holdoff_until' = t + Holdoff /\ UNCHANGED tilt_fault
TiltCounts(p, t) ==
  /\ above' = CASE p # "tilted" -> 0
                [] p = "tilted" /\ above = 0 -> t
                [] OTHER -> above
  /\ tilt_fault' = (p = "tilted" /\ t - above' >= CutHold)
  /\ UNCHANGED holdoff_until

(* Mutant: a glitch holds the count off, and keeps it.                     *)
StepKeeps(p, t) ==
  CASE ~tilt_flying' \/ tilt_fault -> TiltIdle
    [] tilt_flying' /\ ~tilt_fault /\ p = "glitch" ->
         holdoff_until' = t + Holdoff /\ UNCHANGED <<above, tilt_fault>>
    [] tilt_flying' /\ ~tilt_fault /\ p # "glitch" /\ t < holdoff_until ->
         TiltIdle
    [] OTHER -> TiltCounts(p, t)
Step(p, t) ==
  CASE ~tilt_flying' \/ tilt_fault -> TiltIdle
    [] tilt_flying' /\ ~tilt_fault /\ p = "glitch" -> TiltGlitch(t)
    [] tilt_flying' /\ ~tilt_fault /\ p # "glitch" /\ t < holdoff_until ->
         TiltIdle
    [] OTHER -> TiltCounts(p, t)

(* _limit_check: LAND on the sample that completes the count, once.        *)
LimitCheck(p, flying) ==
  /\ limit_count' = IF p = "out" /\ flying THEN limit_count + 1 ELSE 0
  /\ limit_land' = (limit_land \/ limit_count' = LimitSamples)

(* A pose arrives; the control loop looks at it.  Flying ends with a       *)
(* touchdown for the envelope and the limit, with the next ARM for the     *)
(* tilt cut.                                                               *)
Pose(p, flying) ==
  /\ newest' = p
  /\ tilt_flying' = (tilt_flying \/ flying)
  /\ Step(p, Len(log) + 1)
  /\ LimitCheck(p, flying)
  /\ Check(p, flying)
  /\ log' = Append(log, [pose |-> p, flying |-> flying])

(* No pose: the control loop looks at the last one again.                  *)
NoPose(flying) ==
  /\ Check(newest, flying)
  /\ log' = Append(log, [pose |-> "none", flying |-> flying])
  /\ UNCHANGED <<newest, tiltVars, limitVars>>

RulesNext ==
  /\ Len(log) < MaxTicks
  /\ \E flying \in BOOLEAN :
       NoPose(flying) \/ \E p \in Poses : Pose(p, flying)

RulesSpec == RulesInit /\ [][RulesNext]_rulesVars

-----------------------------------------------------------------------------
(* The flight as it was.                                                   *)
Ticks == DOMAIN log
Posed(i) == log[i].pose # "none"
LastPose(i) ==
  IF \E j \in 1 .. i : Posed(j)
    THEN log[CHOOSE j \in 1 .. i : Posed(j) /\ \A k \in j+1 .. i : ~Posed(k)].pose
    ELSE "level"
TakenOff(i) == \E j \in 1 .. i : Posed(j) /\ log[j].flying

(* n ticks that P picks, in a row, are bad.                                *)
RunOf(n, P, Bad) ==
  \E i, j \in Ticks :
    P \cap i .. j \subseteq Bad /\ Cardinality(P \cap i .. j) >= n

(* What the envelope does: it latches when, and only when, the newest pose *)
(* was past its limits on FaultDebounce control ticks of the flight in a   *)
(* row, and stays latched.                                                 *)
EnvelopeOfTicks ==
  env_latched <=>
    RunOf(FaultDebounce, {i \in Ticks : log[i].flying},
          {i \in Ticks : LastPose(i) \in PastTilt})

(* What its documents ask for: FaultDebounce poses in a row of the flight  *)
(* were past the limits, so that one bad mocap frame drops nobody.         *)
EnvelopeOfPoses ==
  env_latched <=>
    RunOf(FaultDebounce, {i \in Ticks : Posed(i) /\ log[i].flying},
          {i \in Ticks : log[i].pose \in PastTilt})

(* The two agree while every control tick has a new pose, and not in a gap *)
(* (CommandProofs!OneFrameLatches).                                        *)
Gapless == \A i \in Ticks : Posed(i)
EnvelopeAsDefined == EnvelopeOfTicks /\ (Gapless => EnvelopeOfPoses)

(* The tilt cut fires when, and only when, every pose from t0 to t1, at    *)
(* least CutHold apart, was tilted, none of them a glitch, and t0 is out   *)
(* of the hold-off of every glitch before it.                              *)
TiltAsDefined ==
  tilt_fault <=>
    \E t0, t1 \in Ticks :
      /\ t0 <= t1 /\ t1 - t0 >= CutHold
      /\ TakenOff(t0) /\ Posed(t0) /\ Posed(t1)
      /\ \A i \in t0 .. t1 : log[i].pose \in {"tilted", "none"}
      /\ \A g \in 1 .. t0 :
           log[g].pose = "glitch" /\ TakenOff(g) => t0 >= g + Holdoff

(* The position limit lands the fleet when, and only when, LimitSamples    *)
(* poses in a row of the flight were out.                                  *)
LimitAsDefined ==
  limit_land <=>
    RunOf(LimitSamples, {i \in Ticks : Posed(i)},
          {i \in Ticks : log[i].pose = "out" /\ log[i].flying})

(* All three rules, on every sequence of poses and gaps; of the envelope's *)
(* documents, which gaps break, what holds without one.                    *)
RulesAsDefined == EnvelopeAsDefined /\ TiltAsDefined /\ LimitAsDefined
=============================================================================
