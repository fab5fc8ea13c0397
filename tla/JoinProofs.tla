----------------------------- MODULE JoinProofs -----------------------------
(***************************************************************************)
(* The approach planner's type invariant and its action properties, for    *)
(* every mission and every constant.  Each part of the timer is shown to   *)
(* keep a relation (Keeps) that composes, all but the state machine, the   *)
(* one part that may end a descent or say a word to the magnet.            *)
(***************************************************************************)
EXTENDS JoinPlanner, TLAPS

(* In a descent the tip is above the ring.                                 *)
DescentInv(p) == p.mode = "DESCEND_TO_ATTACHMENT" => p.offset >= 1

(* While the coil is told ON the planner is between the object and the     *)
(* drop point, or held there, or ends there.                               *)
Laden == Carrying \cup {"DROP_OBJECT"}
WordInv(p) ==
  /\ p.word # "none" => mission.pickup
  /\ p.word = "ON" => \/ p.gave_up
                      \/ p.mode \in Laden \cup Aborted
                      \/ p.mode = "HOLD_FOR_OBSTACLE" /\ p.resume \in Laden

JoinInv == JoinTypeOK /\ DescentInv(join) /\ WordInv(join)

StaysAborted(p, q) ==
  p.mode \in Aborted =>
    /\ q.mode \in Aborted
    /\ p.mode = "LANDED_DISARMED" => q.mode = "LANDED_DISARMED"
    /\ q.disarm_z = p.disarm_z

Keeps(p, q) ==
  /\ q \in JoinStates
  /\ StaysAborted(p, q)
  /\ q.mode = "ATTACH_READY" => p.mode = "ATTACH_READY"
  /\ q.offset >= p.offset
  /\ q.word = p.word
  /\ DescentInv(p) => DescentInv(q)
  /\ WordInv(p) => WordInv(q)

-----------------------------------------------------------------------------
(* The constants of the clocks are naturals.                               *)
LEMMA JoinConstants ==
  /\ MaxAge \in Nat /\ Ramp \in Nat \ {0} /\ Dwell \in Nat
  /\ BlockedFor \in Nat /\ RecoveredFor \in Nat /\ Grace \in Nat
  /\ Top \in Nat /\ DisarmRise \in Nat /\ Dwell + 1 > 0
  /\ BlockedFor + 1 > 0 /\ RecoveredFor + 1 > 0 /\ Grace + 1 > 0
  BY JoinAssumption DEF MaxAge, Larger

(* A capped count stays under its cap.                                     *)
LEMMA CappedAge ==
  ASSUME NEW n \in Nat, NEW cap \in Nat
  PROVE  /\ AtMost(n + 1, cap) \in 0 .. cap
         /\ Older(n, cap) \in 0 .. cap + 1
  BY DEF AtMost, Older

(* Keeps is reflexive and composes.                                        *)
LEMMA KeepsItself ==
  ASSUME NEW p \in JoinStates
  PROVE  Keeps(p, p)
  BY DEF Keeps, StaysAborted, JoinStates

LEMMA KeepsOn ==
  ASSUME NEW p \in JoinStates, NEW q, NEW r, Keeps(p, q), Keeps(q, r)
  PROVE  Keeps(p, r)
  BY DEF Keeps, StaysAborted, JoinStates

(* What a transition does to a state.                                      *)
LEMMA EnteredIs ==
  ASSUME NEW p \in JoinStates, NEW m \in JoinModes
  PROVE  /\ Entered(p, m) \in JoinStates
         /\ Entered(p, m).mode = m /\ Entered(p, m).dwell = 0
         /\ Entered(p, m).word = p.word
         /\ Entered(p, m).resume = p.resume
         /\ Entered(p, m).gave_up = p.gave_up
         /\ Entered(p, m).disarm_z = p.disarm_z
         /\ m # "ATTACH_READY" => Entered(p, m).offset >= p.offset
         /\ m = "DESCEND_TO_ATTACHMENT" => Entered(p, m).offset = Ramp
         /\ m = "ATTACH_READY" => Entered(p, m).offset = 0
         /\ m \notin Reattach \cup {"TRANSIT_TO_REATTACH",
                                    "HOLD_FOR_OBSTACLE"} =>
              Entered(p, m).offset = p.offset
<1>1. /\ OffsetIn(p, m) \in 0 .. Ramp
      /\ m # "ATTACH_READY" => OffsetIn(p, m) >= p.offset
      /\ m = "DESCEND_TO_ATTACHMENT" => OffsetIn(p, m) = Ramp
      /\ m = "ATTACH_READY" => OffsetIn(p, m) = 0
      /\ m \notin Reattach \cup {"TRANSIT_TO_REATTACH",
                                 "HOLD_FOR_OBSTACLE"} =>
           OffsetIn(p, m) = p.offset
  BY JoinConstants DEF OffsetIn, JoinStates, Reattach
<1>2. /\ 0 \in 0 .. MaxAge /\ 0 \in 0 .. Dwell + 1
  BY JoinConstants
<1>. QED
  BY <1>1, <1>2 DEF Entered, JoinStates

LEMMA LandsIs ==
  ASSUME NEW p \in JoinStates
  PROVE  /\ Lands(p) \in JoinStates
         /\ Lands(p).mode = p.mode /\ Lands(p).word = p.word
         /\ Lands(p).resume = p.resume /\ Lands(p).gave_up = p.gave_up
         /\ Lands(p).offset = p.offset
<1>1. p.initial + DisarmRise \in 0 .. Top + DisarmRise
  BY JoinConstants DEF JoinStates
<1>2. 0 \in 0 .. BlockedFor + 1 /\ 0 \in 0 .. RecoveredFor + 1
  BY JoinConstants
<1>. QED
  BY <1>1, <1>2 DEF Lands, JoinStates

LEMMA TransitionIs ==
  ASSUME NEW p \in JoinStates, NEW m \in JoinModes
  PROVE  LET q == Transition(p, m) IN
         /\ q \in JoinStates /\ q.mode = m /\ q.word = p.word
         /\ q.resume = p.resume /\ q.gave_up = p.gave_up
         /\ m # "LANDING" => q.disarm_z = p.disarm_z
         /\ m = p.mode => q = p
         /\ m # p.mode => q.dwell = 0
         /\ m # "ATTACH_READY" => q.offset >= p.offset
         /\ m = "DESCEND_TO_ATTACHMENT" /\ m # p.mode => q.offset = Ramp
         /\ m = "ATTACH_READY" /\ m # p.mode => q.offset = 0
         /\ m \notin Reattach \cup {"TRANSIT_TO_REATTACH",
                                    "HOLD_FOR_OBSTACLE"} =>
              q.offset = p.offset
<1>1. CASE m = p.mode
  BY <1>1 DEF Transition, JoinStates
<1>2. CASE m # p.mode /\ m = "LANDING"
  BY <1>2, LandsIs, EnteredIs, Lands(p) \in JoinStates
     DEF Transition, Reattach
<1>3. CASE m # p.mode /\ m # "LANDING"
  BY <1>3, EnteredIs DEF Transition
<1>. QED
  BY <1>1, <1>2, <1>3

(* The modes the proofs name are modes, and of which sets.                 *)
LEMMA Modes ==
  /\ Laden \subseteq JoinModes /\ Reattach \subseteq JoinModes
  /\ {"LANDING", "LANDED_DISARMED", "HOLD_FOR_OBSTACLE",
      "APPROACH_ABOVE_TARGET", "APPROACH_ABOVE_PICKUP",
      "DESCEND_TO_ATTACHMENT"} \subseteq JoinModes
  /\ "HOLD_FOR_OBSTACLE" \notin Laden \cup Aborted
  /\ "ATTACH_READY" \notin Laden \cup Aborted
  /\ "WAIT_FOR_TAKEOFF" \notin Laden \cup Aborted
  /\ Laden \cap Aborted = {}
  BY DEF Laden, JoinModes, Flown, Reattach, Empty, Carrying, Released, Aborted

(* A transition that does not make the tip ready, and takes a coil that is *)
(* ON to where it may be ON.                                               *)
LEMMA MovesOn ==
  ASSUME NEW p \in JoinStates, NEW m \in JoinModes,
         p.mode \in Aborted => p.mode = "LANDING" /\ m = "LANDED_DISARMED",
         m # "ATTACH_READY",
         WordInv(p) /\ p.word = "ON" /\ ~p.gave_up =>
           \/ m \in Laden \cup Aborted
           \/ m = "HOLD_FOR_OBSTACLE" /\ p.resume \in Laden
  PROVE  Keeps(p, Transition(p, m))
<1> SUFFICES ASSUME NEW q, q = Transition(p, m)
             PROVE  Keeps(p, q)
  OBVIOUS
<1>1. /\ q \in JoinStates /\ q.mode = m /\ q.word = p.word
      /\ q.resume = p.resume /\ q.gave_up = p.gave_up
      /\ q.offset >= p.offset
      /\ m # "LANDING" => q.disarm_z = p.disarm_z
      /\ m = p.mode => q = p
      /\ m = "DESCEND_TO_ATTACHMENT" /\ m # p.mode => q.offset = Ramp
  BY TransitionIs
<1>2. StaysAborted(p, q)
  BY <1>1 DEF StaysAborted, Aborted
<1>3. DescentInv(p) => DescentInv(q)
  BY <1>1, JoinConstants DEF DescentInv
<1>4. WordInv(p) => WordInv(q)
  BY <1>1 DEF WordInv
<1>. QED
  BY <1>1, <1>2, <1>3, <1>4 DEF Keeps

(* Nor does a part that touches clocks and flags only.                     *)
LEMMA Touches ==
  ASSUME NEW p \in JoinStates, NEW q \in JoinStates,
         q.mode = p.mode, q.word = p.word, q.resume = p.resume,
         q.gave_up = p.gave_up, q.offset = p.offset,
         q.disarm_z = p.disarm_z
  PROVE  Keeps(p, q)
  BY DEF Keeps, StaysAborted, DescentInv, WordInv, JoinStates

-----------------------------------------------------------------------------
(* The parts of a tick around the state machine.                           *)
LEMMA AgedKeeps ==
  ASSUME NEW p \in JoinStates
  PROVE  /\ Keeps(p, Aged(p)) /\ Aged(p) \in JoinStates
         /\ Aged(p).mode = p.mode /\ Aged(p).word = p.word
         /\ Aged(p).offset = p.offset /\ Aged(p).disarm_z = p.disarm_z
         /\ Aged(p).gave_up = p.gave_up
<1>1. /\ AtMost(p.age + 1, MaxAge) \in 0 .. MaxAge
      /\ Older(p.dwell, Dwell) \in 0 .. Dwell + 1
      /\ Older(p.blocked, BlockedFor) \in 0 .. BlockedFor + 1
      /\ Older(p.recovered, RecoveredFor) \in 0 .. RecoveredFor + 1
      /\ Older(p.detected, Grace) \in 0 .. Grace + 1
  <2>1. /\ p.age \in Nat /\ p.dwell \in Nat /\ p.blocked \in Nat
        /\ p.recovered \in Nat /\ p.detected \in Nat
    BY JoinConstants DEF JoinStates
  <2>. QED
    BY <2>1, JoinConstants, CappedAge
<1>2. /\ Aged(p) \in JoinStates
      /\ Aged(p).mode = p.mode /\ Aged(p).word = p.word
      /\ Aged(p).resume = p.resume /\ Aged(p).gave_up = p.gave_up
      /\ Aged(p).offset = p.offset /\ Aged(p).disarm_z = p.disarm_z
  BY <1>1 DEF Aged, JoinStates
<1>. QED
  BY <1>2, Touches

LEMMA BlockedTimeoutKeeps ==
  ASSUME NEW p \in JoinStates
  PROVE  Keeps(p, BlockedTimeout(p))
<1>1. CASE p.mode = "HOLD_FOR_OBSTACLE" /\ p.age >= MaxBlocked
  <2>1. Keeps(p, Transition(p, "LANDING"))
    <3>1. /\ "LANDING" \in JoinModes /\ "LANDED_DISARMED" \in JoinModes
          /\ "LANDING" \in Laden \cup Aborted
          /\ "LANDED_DISARMED" \in Laden \cup Aborted
          /\ "LANDING" # "ATTACH_READY"
          /\ "LANDED_DISARMED" # "ATTACH_READY"
          /\ p.mode \notin Aborted
      BY <1>1, Modes DEF Aborted
    <3>. QED
      BY <3>1, MovesOn
  <2>. QED
    BY <1>1, <2>1 DEF BlockedTimeout
<1>. QED
  BY <1>1, KeepsItself DEF BlockedTimeout

LEMMA LandingDisarmKeeps ==
  ASSUME NEW p \in JoinStates
  PROVE  Keeps(p, LandingDisarm(p))
<1>1. CASE p.mode = "LANDING" /\ p.age >= LandMin /\ z <= p.disarm_z
  <2>1. Keeps(p, Transition(p, "LANDED_DISARMED"))
    <3>1. /\ "LANDING" \in JoinModes /\ "LANDED_DISARMED" \in JoinModes
          /\ "LANDING" \in Laden \cup Aborted
          /\ "LANDED_DISARMED" \in Laden \cup Aborted
          /\ "LANDING" # "ATTACH_READY"
          /\ "LANDED_DISARMED" # "ATTACH_READY"
          /\ p.mode \in Aborted => p.mode = "LANDING"
      BY <1>1, Modes DEF Aborted
    <3>. QED
      BY <1>1, <3>1, MovesOn
  <2>. QED
    BY <1>1, <2>1 DEF LandingDisarm
<1>. QED
  BY <1>1, KeepsItself DEF LandingDisarm

LEMMA ClearedKeeps ==
  ASSUME NEW p \in JoinStates
  PROVE  /\ Keeps(p, Cleared(p)) /\ Cleared(p) \in JoinStates
         /\ Cleared(p).mode = p.mode /\ Cleared(p).word = p.word
<1>1. 0 \in 0 .. BlockedFor + 1 /\ 0 \in 0 .. RecoveredFor + 1
  BY JoinConstants
<1>2. /\ Cleared(p) \in JoinStates
      /\ Cleared(p).mode = p.mode /\ Cleared(p).word = p.word
      /\ Cleared(p).resume = p.resume /\ Cleared(p).gave_up = p.gave_up
      /\ Cleared(p).offset = p.offset /\ Cleared(p).disarm_z = p.disarm_z
  BY <1>1 DEF Cleared, JoinStates
<1>. QED
  BY <1>2, Touches

LEMMA DetectedKeeps ==
  ASSUME NEW p \in JoinStates
  PROVE  /\ Keeps(p, Detected(p)) /\ Detected(p) \in JoinStates
         /\ Detected(p).mode = p.mode
<1>1. 0 \in 0 .. MaxAge /\ 1 \in 0 .. Grace + 1
  BY JoinConstants
<1>2. /\ Detected(p) \in JoinStates
      /\ Detected(p).mode = p.mode /\ Detected(p).word = p.word
      /\ Detected(p).resume = p.resume /\ Detected(p).gave_up = p.gave_up
      /\ Detected(p).offset = p.offset /\ Detected(p).disarm_z = p.disarm_z
  BY <1>1 DEF Detected, JoinStates
<1>. QED
  BY <1>2, Touches

(* A hold that ends with the gate has given the delivery up.               *)
LEMMA GateClosedKeeps ==
  ASSUME NEW p \in JoinStates, p.mode \notin Aborted
  PROVE  Keeps(p, GateClosed(p))
<1>1. CASE p.mode = "HOLD_FOR_OBSTACLE"
  <2> DEFINE c == Cleared(p)
             q == Transition(c, "APPROACH_ABOVE_TARGET")
  <2>1. c \in JoinStates /\ c.mode = "HOLD_FOR_OBSTACLE" /\ Keeps(p, c)
    BY <1>1, ClearedKeeps
  <2>2. /\ q \in JoinStates /\ q.mode = "APPROACH_ABOVE_TARGET"
        /\ q.word = c.word /\ q.offset >= c.offset
    BY <2>1, TransitionIs, Modes
  <2>3. /\ GateClosed(p) = [q EXCEPT !.gave_up = TRUE]
        /\ GateClosed(p) \in JoinStates
        /\ GateClosed(p).mode = "APPROACH_ABOVE_TARGET"
        /\ GateClosed(p).word = c.word
        /\ GateClosed(p).offset >= c.offset
        /\ GateClosed(p).gave_up
    BY <1>1, <2>2 DEF GateClosed, JoinStates
  <2> HIDE DEF c, q
  <2>4. Keeps(c, GateClosed(p))
    BY <2>1, <2>3
       DEF Keeps, StaysAborted, DescentInv, WordInv, Aborted
  <2>. QED
    BY <2>1, <2>4, KeepsOn, <2>3
<1>. QED
  BY <1>1, ClearedKeeps DEF GateClosed

LEMMA HoldKeeps ==
  ASSUME NEW p \in JoinStates, p.mode \notin Aborted,
         p.mode # "HOLD_FOR_OBSTACLE"
  PROVE  Keeps(p, Hold(p)) /\ Hold(p) \in JoinStates
<1> SUFFICES ASSUME NEW q, q = Hold(p)
             PROVE  Keeps(p, q) /\ q \in JoinStates
  OBVIOUS
<1> DEFINE r == [p EXCEPT !.resume = p.mode]
<1>1. /\ r \in JoinStates /\ r.mode = p.mode /\ r.resume = p.mode
      /\ r.word = p.word /\ r.gave_up = p.gave_up /\ r.offset = p.offset
  BY DEF JoinStates
<1>2. /\ q \in JoinStates /\ q.mode = "HOLD_FOR_OBSTACLE" /\ q.word = p.word
      /\ q.resume = p.mode /\ q.gave_up = p.gave_up /\ q.offset >= p.offset
  BY <1>1, TransitionIs, Modes DEF Hold
<1>. QED
  BY <1>2 DEF Keeps, StaysAborted, DescentInv, WordInv, Aborted

LEMMA FallbackKeeps ==
  ASSUME NEW p \in JoinStates, NEW in \in Inputs, p.mode \notin Aborted
  PROVE  Keeps(p, Fallback(p, in))
<1>1. CASE p.mode = "HOLD_FOR_OBSTACLE"
  <2>1. CASE Run(p.recovered, in.margins = "clear", RecoveredFor)
    <3>1. ResumesAt(p) \in JoinModes \ {"ATTACH_READY"}
      BY Modes DEF ResumesAt, JoinStates
    <3>2. WordInv(p) /\ p.word = "ON" /\ ~p.gave_up => ResumesAt(p) \in Laden
      BY <1>1, Modes DEF WordInv, ResumesAt
    <3>3. Keeps(p, Transition(p, ResumesAt(p)))
      <4>1. p.mode \notin Aborted
        OBVIOUS
      <4>. QED
        BY <3>1, <3>2, <4>1, MovesOn, ResumesAt(p) # "ATTACH_READY"
    <3>4. Transition(p, ResumesAt(p)) \in JoinStates
      BY <3>3 DEF Keeps
    <3>. QED
      BY <1>1, <2>1, <3>3, <3>4, ClearedKeeps, KeepsOn
         DEF Fallback, MayResume
  <2>2. CASE ~Run(p.recovered, in.margins = "clear", RecoveredFor)
    <3> DEFINE q == [p EXCEPT !.blocked = 0,
                              !.recovered = Clock(@, in.margins = "clear")]
    <3>1. /\ Clock(p.recovered, in.margins = "clear") \in 0 .. RecoveredFor + 1
          /\ Clock(p.blocked, in.margins = "blocked") \in 0 .. BlockedFor + 1
          /\ 0 \in 0 .. RecoveredFor + 1 /\ 0 \in 0 .. BlockedFor + 1
      BY JoinConstants DEF JoinStates, Clock
    <3>2. /\ q \in JoinStates
          /\ q.mode = p.mode /\ q.word = p.word /\ q.resume = p.resume
          /\ q.gave_up = p.gave_up /\ q.offset = p.offset
          /\ q.disarm_z = p.disarm_z
      BY <3>1 DEF JoinStates
    <3>3. Keeps(p, q)
      BY <3>2, Touches
    <3>. QED
      BY <1>1, <2>2, <3>3 DEF Fallback, MayResume
  <2>. QED
    BY <2>1, <2>2
<1>2. CASE p.mode # "HOLD_FOR_OBSTACLE"
  <2>1. CASE Run(p.blocked, in.margins = "blocked", BlockedFor)
    BY <1>2, <2>1, HoldKeeps, ClearedKeeps, KeepsOn DEF Fallback, MayBlock
  <2>2. CASE ~Run(p.blocked, in.margins = "blocked", BlockedFor)
    <3> DEFINE q == [p EXCEPT !.blocked = Clock(@, in.margins = "blocked"),
                              !.recovered = 0]
    <3>1. /\ Clock(p.recovered, in.margins = "clear") \in 0 .. RecoveredFor + 1
          /\ Clock(p.blocked, in.margins = "blocked") \in 0 .. BlockedFor + 1
          /\ 0 \in 0 .. RecoveredFor + 1 /\ 0 \in 0 .. BlockedFor + 1
      BY JoinConstants DEF JoinStates, Clock
    <3>2. /\ q \in JoinStates
          /\ q.mode = p.mode /\ q.word = p.word /\ q.resume = p.resume
          /\ q.gave_up = p.gave_up /\ q.offset = p.offset
          /\ q.disarm_z = p.disarm_z
      BY <3>1 DEF JoinStates
    <3>3. Keeps(p, q)
      BY <3>2, Touches
    <3>. QED
      BY <1>2, <2>2, <3>3 DEF Fallback, MayBlock
  <2>. QED
    BY <2>1, <2>2
<1>. QED
  BY <1>1, <1>2

LEMMA EvaluateKeeps ==
  ASSUME NEW p \in JoinStates, NEW in \in Inputs
  PROVE  Keeps(p, EvaluateBlockedFallback(p, in))
<1>1. CASE p.mode \in Aborted
  BY <1>1, ClearedKeeps DEF EvaluateBlockedFallback
<1>2. CASE p.mode \notin Aborted
  <2>1. /\ Keeps(p, Detected(p)) /\ Detected(p) \in JoinStates
        /\ Detected(p).mode \notin Aborted
    BY <1>2, DetectedKeeps
  <2>2. /\ Keeps(Detected(p), Fallback(Detected(p), in))
        /\ Keeps(Detected(p), GateClosed(Detected(p)))
    BY <2>1, FallbackKeeps, GateClosedKeeps
  <2>3. /\ Keeps(p, Fallback(Detected(p), in))
        /\ Keeps(p, GateClosed(Detected(p)))
    BY <2>1, <2>2, KeepsOn
  <2>. QED
    BY <1>2, <2>3 DEF EvaluateBlockedFallback
<1>. QED
  BY <1>1, <1>2

-----------------------------------------------------------------------------
(* The state machine.  Once a state's word is out, a coil that is ON has   *)
(* not reached the drop point.                                             *)
Published(p) ==
  WordInv(p) /\ (p.word = "ON" /\ ~p.gave_up => p.mode # "DROP_OBJECT")

EarnedStep(p, q) ==
  /\ q.mode = "ATTACH_READY" =>
       \/ p.mode = "ATTACH_READY"
       \/ p.mode = "DESCEND_TO_ATTACHMENT" /\ p.offset = 1
  /\ q.offset < p.offset =>
       p.mode = "DESCEND_TO_ATTACHMENT" /\ q.offset = p.offset - 1

(* What Advance is shown to do.                                            *)
Works(p, q) ==
  /\ q \in JoinStates
  /\ StaysAborted(p, q)
  /\ EarnedStep(p, q)
  /\ DescentInv(q)
  /\ WordInv(q)
  /\ q.word = p.word

LEMMA KeepsWorks ==
  ASSUME NEW p \in JoinStates, NEW q, DescentInv(p), WordInv(p), Keeps(p, q)
  PROVE  Works(p, q)
  BY DEF Keeps, Works, EarnedStep, JoinStates

LEMMA PublishesIs ==
  ASSUME NEW p \in JoinStates, mission \in Missions, WordInv(p)
  PROVE  LET w == Publishes(p) IN
         /\ w \in JoinStates /\ w.mode = p.mode /\ w.offset = p.offset
         /\ w.disarm_z = p.disarm_z
         /\ Published(w)
         /\ p.word = "ON" /\ w.word = "OFF" =>
              p.mode = "DROP_OBJECT" \/ p.gave_up
<1>1. mission.pickup \in BOOLEAN
  BY JoinAssumption DEF Mission
<1>2. /\ Word(p.mode) \in {"none", "ON", "OFF"}
      /\ Word(p.mode) = "ON" <=> p.mode \in Carrying
      /\ Word(p.mode) = "OFF" => p.mode \notin Carrying \cup Aborted
                                   \cup {"HOLD_FOR_OBSTACLE"}
      /\ p.mode = "DROP_OBJECT" => Word(p.mode) = "OFF"
  BY DEF Word, Carrying, Empty, Released, Reattach, Aborted
<1>3. CASE mission.pickup /\ Word(p.mode) # "none"
  <2> SUFFICES ASSUME NEW w, w = Publishes(p)
               PROVE  /\ w \in JoinStates /\ w.mode = p.mode
                      /\ w.offset = p.offset
                      /\ w.disarm_z = p.disarm_z
                      /\ Published(w)
                      /\ p.word = "ON" /\ w.word = "OFF" =>
                           p.mode = "DROP_OBJECT" \/ p.gave_up
    OBVIOUS
  <2>1. /\ w \in JoinStates /\ w.mode = p.mode /\ w.word = Word(p.mode)
        /\ w.offset = p.offset /\ w.disarm_z = p.disarm_z
        /\ w.resume = p.resume /\ w.gave_up = p.gave_up
    BY <1>2, <1>3 DEF Publishes, JoinStates
  <2>2. WordInv(w) /\ (w.word = "ON" => w.mode # "DROP_OBJECT")
    BY <1>2, <1>3, <2>1 DEF WordInv, Laden
  <2>3. p.word = "ON" /\ w.word = "OFF" => p.mode = "DROP_OBJECT" \/ p.gave_up
    BY <1>2, <2>1 DEF WordInv, Laden
  <2>. QED
    BY <2>1, <2>2, <2>3 DEF Published
<1>4. CASE ~mission.pickup
  BY <1>4 DEF Publishes, Published, WordInv
<1>5. CASE Word(p.mode) = "none"
  BY <1>2, <1>5 DEF Publishes, Published, WordInv
<1>. QED
  BY <1>1, <1>3, <1>4, <1>5

(* Where a dwell and a ramp lead.                                          *)
LEMMA NextOfDwell ==
  ASSUME NEW m \in DOMAIN AfterDwell
  PROVE  /\ AfterDwell[m] \in JoinModes \ {"ATTACH_READY"}
         /\ m \in Laden => AfterDwell[m] \in Laden
         /\ m \notin Aborted
  BY DEF AfterDwell, JoinModes, Flown, Reattach, Empty, Carrying, Released,
         Aborted, Laden

LEMMA NextOfRamp ==
  ASSUME NEW m \in DOMAIN AfterRamp
  PROVE  /\ AfterRamp[m] \in JoinModes \ {"ATTACH_READY"}
         /\ m \in Carrying => AfterRamp[m] \in Laden
         /\ m \notin Aborted
  BY DEF AfterRamp, JoinModes, Flown, Reattach, Empty, Carrying, Released,
         Aborted, Laden

LEMMA PickupTimeoutKeeps ==
  ASSUME NEW p \in JoinStates
  PROVE  LET r == PickupTimeout(p) IN
         /\ Keeps(p, r) /\ r \in JoinStates
         /\ r = p \/ r.dwell = 0
<1>1. CASE /\ p.mode = "APPROACH_ABOVE_PICKUP" /\ p.age >= LandAfter
           /\ p.detected # 0
  <2>1. /\ p.mode \notin Aborted /\ "LANDING" \in JoinModes
        /\ "LANDING" \in Laden \cup Aborted /\ "LANDING" # "ATTACH_READY"
    BY <1>1, Modes DEF Aborted
  <2>2. Keeps(p, Transition(p, "LANDING"))
    BY <2>1, MovesOn
  <2>3. Transition(p, "LANDING").dwell = 0
    BY <1>1, <2>1, TransitionIs
  <2>. QED
    BY <1>1, <2>2, <2>3 DEF PickupTimeout, Keeps
<1>. QED
  BY <1>1, KeepsItself DEF PickupTimeout

LEMMA DwellTouches ==
  ASSUME NEW p \in JoinStates, NEW n \in 0 .. Dwell + 1
  PROVE  Keeps(p, [p EXCEPT !.dwell = n])
<1> SUFFICES ASSUME NEW q, q = [p EXCEPT !.dwell = n]
             PROVE  Keeps(p, q)
  OBVIOUS
<1>1. /\ q \in JoinStates /\ q.mode = p.mode /\ q.word = p.word
      /\ q.resume = p.resume /\ q.gave_up = p.gave_up
      /\ q.offset = p.offset /\ q.disarm_z = p.disarm_z
  BY DEF JoinStates
<1>. QED
  BY <1>1, Touches

LEMMA DwellsKeeps ==
  ASSUME NEW p \in JoinStates, p.mode \in DOMAIN AfterDwell,
         NEW holds \in BOOLEAN
  PROVE  Keeps(p, Dwells(PickupTimeout(p), AfterDwell[p.mode], holds))
<1> DEFINE r == PickupTimeout(p)
           next == AfterDwell[p.mode]
<1>1. Keeps(p, r) /\ r \in JoinStates /\ (r = p \/ r.dwell = 0)
  BY PickupTimeoutKeeps
<1>2. /\ next \in JoinModes /\ next # "ATTACH_READY"
      /\ p.mode \in Laden => next \in Laden
      /\ p.mode \notin Aborted
  BY NextOfDwell
<1> HIDE DEF r, next
<1>3. CASE Run(r.dwell, holds, Dwell)
  <2>1. r = p
    BY <1>1, <1>3, JoinConstants DEF Run
  <2>2. p.mode # "HOLD_FOR_OBSTACLE"
    BY DEF AfterDwell
  <2>3. WordInv(p) /\ p.word = "ON" /\ ~p.gave_up => next \in Laden
    BY <1>2, <2>2 DEF WordInv
  <2>4. Keeps(p, Transition(p, next))
    BY <1>2, <2>3, MovesOn
  <2>. QED
    BY <1>3, <2>1, <2>4 DEF Dwells, r, next
<1>4. CASE ~Run(r.dwell, holds, Dwell)
  <2>1. Clock(r.dwell, holds) \in 0 .. Dwell + 1
    BY <1>1, JoinConstants DEF Clock, JoinStates
  <2>2. Keeps(r, [r EXCEPT !.dwell = Clock(r.dwell, holds)])
    BY <1>1, <2>1, DwellTouches
  <2>3. Keeps(p, [r EXCEPT !.dwell = Clock(r.dwell, holds)])
    BY <1>1, <2>2, KeepsOn
  <2>. QED
    BY <1>4, <2>3 DEF Dwells, r
<1>. QED
  BY <1>3, <1>4

LEMMA MatchAgainKeeps ==
  ASSUME NEW p \in JoinStates, NEW holds \in BOOLEAN
  PROVE  Keeps(p, MatchAgain(p, holds))
<1>1. /\ Clock(p.dwell, holds) \in 0 .. Dwell + 1 /\ 1 \in 0 .. Dwell + 1
  BY JoinConstants DEF Clock, JoinStates
<1>. QED
  BY <1>1, DwellTouches DEF MatchAgain

LEMMA DescendWorks ==
  ASSUME NEW p \in JoinStates, NEW in \in Inputs,
         p.mode = "DESCEND_TO_ATTACHMENT", DescentInv(p), WordInv(p)
  PROVE  Works(p, Descend(p, in))
<1>1. /\ p.mode \notin Laden \cup Aborted
      /\ "APPROACH_ABOVE_TARGET" \in JoinModes /\ "ATTACH_READY" \in JoinModes
      /\ "ATTACH_READY" \notin Aborted
  BY Modes DEF Laden, Carrying, Aborted, Reattach
<1>2. p.offset \in 0 .. Ramp /\ p.offset >= 1 /\ Ramp \in Nat
  BY JoinConstants DEF DescentInv, JoinStates
<1>3. CASE ~in.fine
  <2>1. WordInv(p) /\ p.word = "ON" => p.gave_up
    BY <1>1 DEF WordInv
  <2>2. Keeps(p, Transition(p, "APPROACH_ABOVE_TARGET"))
    BY <1>1, <2>1, MovesOn
  <2>. QED
    BY <1>3, <2>2, KeepsWorks DEF Descend
<1>4. CASE in.fine /\ p.offset <= 1
  <2> SUFFICES ASSUME NEW q, q = Transition(p, "ATTACH_READY")
               PROVE  Works(p, q)
    BY <1>4 DEF Descend
  <2>1. /\ q \in JoinStates /\ q.mode = "ATTACH_READY" /\ q.word = p.word
        /\ q.offset = 0 /\ q.gave_up = p.gave_up
    BY <1>1, TransitionIs
  <2>2. p.offset = 1
    BY <1>2, <1>4
  <2>. QED
    BY <1>1, <2>1, <2>2
       DEF Works, StaysAborted, EarnedStep, DescentInv, WordInv
<1>5. CASE in.fine /\ p.offset > 1
  <2> SUFFICES ASSUME NEW q, q = [p EXCEPT !.offset = p.offset - 1]
               PROVE  Works(p, q)
    BY <1>2, <1>5 DEF Descend
  <2>1. /\ p.offset - 1 \in 0 .. Ramp /\ p.offset - 1 >= 1
    BY <1>2, <1>5
  <2>2. /\ q \in JoinStates /\ q.mode = p.mode /\ q.word = p.word
        /\ q.offset = p.offset - 1 /\ q.gave_up = p.gave_up
        /\ q.disarm_z = p.disarm_z /\ q.resume = p.resume
    BY <2>1 DEF JoinStates
  <2>. QED
    BY <1>2, <2>1, <2>2
       DEF Works, StaysAborted, EarnedStep, DescentInv, WordInv
<1>. QED
  BY <1>2, <1>3, <1>4, <1>5 DEF Inputs

LEMMA AttachReadyKeeps ==
  ASSUME NEW p \in JoinStates, NEW in \in Inputs, p.mode = "ATTACH_READY",
         WordInv(p)
  PROVE  Keeps(p, AttachReady(p, in))
<1>1. /\ p.mode \notin Laden \cup Aborted
      /\ "APPROACH_ABOVE_TARGET" \in JoinModes /\ "LANDING" \in JoinModes
      /\ "LANDING" \in Laden \cup Aborted
  BY Modes DEF Laden, Carrying, Aborted
<1>2. p.word = "ON" => p.gave_up
  BY <1>1 DEF WordInv
<1>3. /\ Keeps(p, Transition(p, "LANDING"))
      /\ Keeps(p, Transition(p, "APPROACH_ABOVE_TARGET"))
  BY <1>1, <1>2, MovesOn
<1>. QED
  BY <1>3, KeepsItself DEF AttachReady

LEMMA RampKeeps ==
  ASSUME NEW p \in JoinStates, p.mode \in DOMAIN AfterRamp, Published(p)
  PROVE  Keeps(p, Transition(p, AfterRamp[p.mode]))
<1> DEFINE next == AfterRamp[p.mode]
<1>1. /\ next \in JoinModes /\ next # "ATTACH_READY"
      /\ p.mode \in Carrying => next \in Laden
      /\ p.mode \notin Aborted
  BY NextOfRamp
<1>2. p.mode # "HOLD_FOR_OBSTACLE"
  BY DEF AfterRamp
<1> HIDE DEF next
<1>3. p.word = "ON" /\ ~p.gave_up => next \in Laden
  BY <1>1, <1>2 DEF Published, WordInv, Laden
<1>4. Keeps(p, Transition(p, next))
  BY <1>1, <1>3, MovesOn
<1>. QED
  BY <1>4 DEF next

LEMMA AdvanceWorks ==
  ASSUME NEW p \in JoinStates, NEW in \in Inputs, object_attached \in BOOLEAN,
         DescentInv(p), Published(p)
  PROVE  Works(p, Advance(p, in))
<1>1. WordInv(p) /\ Follows(p, in) \in BOOLEAN
  BY DEF Published, Follows, Inputs
<1>2. CASE Inhibited(p)
  BY <1>1, <1>2, MatchAgainKeeps, KeepsWorks DEF Advance, Inhibited,
     AfterRamp, AfterDwell
<1>3. CASE ~Inhibited(p) /\ p.mode \in DOMAIN AfterDwell
  <2>1. p.mode \notin DOMAIN AfterRamp
    BY <1>3 DEF AfterDwell, AfterRamp
  <2>2. /\ p.mode # "DESCEND_TO_ATTACHMENT" /\ p.mode # "ATTACH_READY"
    BY <1>3 DEF AfterDwell
  <2>3. Advance(p, in) =
          Dwells(PickupTimeout(p), AfterDwell[p.mode], Follows(p, in))
    BY <1>3, <2>1, <2>2 DEF Advance
  <2>. QED
    BY <1>1, <1>3, <2>3, DwellsKeeps, KeepsWorks
<1>4. CASE p.mode \in DOMAIN AfterRamp
  <2>1. p.mode \notin DOMAIN AfterDwell /\ p.mode # "MATCH_VELOCITY"
    BY <1>4 DEF AfterDwell, AfterRamp
  <2>2. /\ p.mode # "DESCEND_TO_ATTACHMENT" /\ p.mode # "ATTACH_READY"
    BY <1>4 DEF AfterRamp
  <2>3. Advance(p, in) =
          IF Ended(p, in) THEN Transition(p, AfterRamp[p.mode]) ELSE p
    BY <1>4, <2>1, <2>2 DEF Advance, Inhibited
  <2>. QED
    BY <1>1, <1>4, <2>3, RampKeeps, KeepsItself, KeepsWorks
<1>5. CASE p.mode = "DESCEND_TO_ATTACHMENT"
  <2>1. Advance(p, in) = Descend(p, in)
    BY <1>5 DEF Advance, Inhibited, AfterDwell, AfterRamp
  <2>. QED
    BY <1>1, <1>5, <2>1, DescendWorks
<1>6. CASE p.mode = "ATTACH_READY"
  <2>1. Advance(p, in) = AttachReady(p, in)
    BY <1>6 DEF Advance, Inhibited, AfterDwell, AfterRamp
  <2>. QED
    BY <1>1, <1>6, <2>1, AttachReadyKeeps, KeepsWorks
<1>7. CASE /\ ~Inhibited(p) /\ p.mode \notin DOMAIN AfterDwell
           /\ p.mode \notin DOMAIN AfterRamp
           /\ p.mode # "DESCEND_TO_ATTACHMENT" /\ p.mode # "ATTACH_READY"
  <2>1. Advance(p, in) = p
    BY <1>7 DEF Advance
  <2>. QED
    BY <1>1, <2>1, KeepsItself, KeepsWorks
<1>. QED
  BY <1>2, <1>3, <1>4, <1>5, <1>6, <1>7

-----------------------------------------------------------------------------
(* A whole tick.                                                           *)
TickKeeps(p, q) ==
  /\ q \in JoinStates
  /\ StaysAborted(p, q)
  /\ EarnedStep(p, q)
  /\ DescentInv(q)
  /\ WordInv(q)
  /\ p.word = "ON" /\ q.word = "OFF" => p.mode = "DROP_OBJECT" \/ p.gave_up

LEMMA UpdateTicks ==
  ASSUME NEW p \in JoinStates, NEW in \in Inputs, object_attached \in BOOLEAN,
         mission \in Missions, DescentInv(p), WordInv(p)
  PROVE  TickKeeps(p, UpdateStateMachine(p, in))
<1>1. CASE p.armed
  <2> SUFFICES ASSUME NEW w, w = Publishes(p)
               PROVE  TickKeeps(p, Advance(w, in))
    BY <1>1 DEF UpdateStateMachine
  <2>1. /\ w \in JoinStates /\ w.mode = p.mode /\ w.offset = p.offset
        /\ w.disarm_z = p.disarm_z
        /\ Published(w)
        /\ p.word = "ON" /\ w.word = "OFF" =>
             p.mode = "DROP_OBJECT" \/ p.gave_up
    BY PublishesIs
  <2>2. Works(w, Advance(w, in))
    BY <2>1, AdvanceWorks DEF DescentInv
  <2>. QED
    BY <2>1, <2>2 DEF TickKeeps, Works, StaysAborted, EarnedStep
<1>2. CASE ~p.armed
  <2>1. 0 \in 0 .. Dwell + 1
    BY JoinConstants
  <2>2. Keeps(p, [p EXCEPT !.dwell = 0])
    BY <2>1, DwellTouches
  <2>3. Keeps(p, UpdateStateMachine(p, in))
    BY <1>2, <2>2 DEF UpdateStateMachine
  <2>. QED
    BY <2>3 DEF TickKeeps, Keeps, EarnedStep, JoinStates
<1>. QED
  BY <1>1, <1>2

LEMMA TicksOn ==
  ASSUME NEW p \in JoinStates, NEW q, NEW r, TickKeeps(p, q), Keeps(q, r)
  PROVE  TickKeeps(p, r)
<1>1. q \in JoinStates /\ r \in JoinStates
  BY DEF TickKeeps, Keeps
<1>2. StaysAborted(p, r) /\ DescentInv(r) /\ WordInv(r) /\ r.word = q.word
  BY DEF TickKeeps, Keeps, StaysAborted
<1>3. EarnedStep(p, r)
  <2>1. /\ p.offset \in Int /\ q.offset \in Int /\ r.offset \in Int
        /\ q.offset >= 0
    BY <1>1, JoinConstants DEF JoinStates
  <2>2. /\ r.mode = "ATTACH_READY" => q.mode = "ATTACH_READY"
        /\ r.offset >= q.offset
        /\ EarnedStep(p, q)
    BY DEF TickKeeps, Keeps
  <2>. QED
    BY <2>1, <2>2 DEF EarnedStep
<1>. QED
  BY <1>1, <1>2, <1>3 DEF TickKeeps

LEMMA TimerTicks ==
  ASSUME JoinInv, NEW in \in Inputs, TimerCallback(in)
  PROVE  TickKeeps(join, join')
<1>1. /\ join \in JoinStates /\ mission \in Missions
      /\ object_attached \in BOOLEAN /\ DescentInv(join) /\ WordInv(join)
  BY DEF JoinInv, JoinTypeOK
<1> DEFINE now == Aged(join)
           moved == UpdateStateMachine(now, in)
           held == BlockedTimeout(moved)
           met == EvaluateBlockedFallback(held, in)
<1>2. join' = LandingDisarm(met)
  BY DEF TimerCallback
<1>3. /\ now \in JoinStates /\ now.mode = join.mode /\ now.word = join.word
      /\ now.offset = join.offset /\ now.disarm_z = join.disarm_z
      /\ now.gave_up = join.gave_up
      /\ DescentInv(now) /\ WordInv(now)
  BY <1>1, AgedKeeps DEF Keeps
<1>4. TickKeeps(now, moved)
  BY <1>1, <1>3, UpdateTicks
<1> HIDE DEF now, moved
<1>5. TickKeeps(join, moved) /\ moved \in JoinStates
  BY <1>3, <1>4 DEF TickKeeps, StaysAborted, EarnedStep
<1>6. TickKeeps(join, held) /\ held \in JoinStates
  BY <1>1, <1>5, BlockedTimeoutKeeps, TicksOn DEF Keeps
<1> HIDE DEF held
<1>7. TickKeeps(join, met) /\ met \in JoinStates
  BY <1>1, <1>6, EvaluateKeeps, TicksOn DEF Keeps
<1> HIDE DEF met
<1>8. TickKeeps(join, LandingDisarm(met))
  BY <1>1, <1>7, LandingDisarmKeeps, TicksOn
<1>. QED
  BY <1>2, <1>8

-----------------------------------------------------------------------------
(* What the callbacks do to the planner's state.                           *)
LEMMA SampleKeeps ==
  ASSUME NEW h \in 0 .. Top, JoinTypeOK, DroneStateCallback(h)
  PROVE  Keeps(join, join')
<1>1. join \in JoinStates /\ "LANDING" \in JoinModes
      /\ "LANDING" \in Laden \cup Aborted
      /\ "APPROACH_ABOVE_PICKUP" \in JoinModes
  BY Modes DEF JoinTypeOK, Aborted
<1>2. PICK p \in {IF seen THEN join ELSE [join EXCEPT !.initial = h]} :
        join' = LandsNow(Sampled(p, h))
  BY DEF DroneStateCallback
<1>3. Keeps(join, p) /\ p \in JoinStates
  <2>1. CASE seen
    BY <1>1, <1>2, <2>1, KeepsItself
  <2>2. CASE ~seen
    <3>1. /\ p \in JoinStates /\ p.mode = join.mode /\ p.word = join.word
          /\ p.resume = join.resume /\ p.gave_up = join.gave_up
          /\ p.offset = join.offset /\ p.disarm_z = join.disarm_z
      BY <1>1, <1>2, <2>2 DEF JoinStates
    <3>. QED
      BY <1>1, <3>1, Touches
  <2>. QED
    BY <2>1, <2>2
<1>4. Keeps(p, Sampled(p, h)) /\ Sampled(p, h) \in JoinStates
  <2>1. CASE p.mode = "WAIT_FOR_TAKEOFF" /\ h - p.initial >= DetectRise
    <3> DEFINE r == [p EXCEPT !.detected = IF @ = 0 THEN 1 ELSE @]
    <3>1. 1 \in 0 .. Grace + 1
      BY JoinConstants
    <3>2. /\ r \in JoinStates /\ r.mode = p.mode /\ r.word = p.word
          /\ r.resume = p.resume /\ r.gave_up = p.gave_up
          /\ r.offset = p.offset /\ r.disarm_z = p.disarm_z
      BY <1>3, <3>1 DEF JoinStates
    <3> HIDE DEF r
    <3>3. Keeps(p, r)
      BY <1>3, <3>2, Touches
    <3>4. /\ r.mode \notin Laden \cup Aborted
          /\ r.mode # "HOLD_FOR_OBSTACLE"
      BY <2>1, <3>2, Modes
    <3>5. Keeps(r, Transition(r, "APPROACH_ABOVE_PICKUP"))
      <4>1. WordInv(r) /\ r.word = "ON" => r.gave_up
        BY <3>4 DEF WordInv
      <4>. QED
        BY <1>1, <3>2, <3>4, <4>1, MovesOn
    <3>6. Keeps(p, Transition(r, "APPROACH_ABOVE_PICKUP"))
      BY <1>3, <3>3, <3>5, KeepsOn
    <3>7. Sampled(p, h) = Transition(r, "APPROACH_ABOVE_PICKUP")
      BY <2>1 DEF Sampled, r
    <3>. QED
      BY <3>6, <3>7 DEF Keeps
  <2>2. CASE ~(p.mode = "WAIT_FOR_TAKEOFF" /\ h - p.initial >= DetectRise)
    BY <1>3, <2>2, KeepsItself DEF Sampled
  <2>. QED
    BY <2>1, <2>2
<1> DEFINE s == Sampled(p, h)
<1>5. Keeps(s, LandsNow(s))
  <2> HIDE DEF s
  <2>1. CASE s.pending /\ s.mode \notin Aborted
    <3> DEFINE r == [s EXCEPT !.pending = FALSE]
    <3>1. /\ r \in JoinStates /\ r.mode = s.mode /\ r.word = s.word
          /\ r.resume = s.resume /\ r.gave_up = s.gave_up
          /\ r.offset = s.offset /\ r.disarm_z = s.disarm_z
      BY <1>4 DEF JoinStates, s
    <3> HIDE DEF r
    <3>2. Keeps(s, r) /\ s \in JoinStates
      BY <1>4, <3>1, Touches DEF s
    <3>3. Keeps(r, Transition(r, "LANDING"))
      BY <1>1, <2>1, <3>1, MovesOn
    <3>4. LandsNow(s) = Transition(r, "LANDING")
      BY <2>1 DEF LandsNow, r
    <3>. QED
      BY <3>2, <3>3, <3>4, KeepsOn
  <2>2. CASE ~(s.pending /\ s.mode \notin Aborted)
    BY <1>4, <2>2, KeepsItself DEF LandsNow, s
  <2>. QED
    BY <2>1, <2>2
<1>6. Keeps(p, LandsNow(s))
  BY <1>3, <1>4, <1>5, KeepsOn
<1>. QED
  BY <1>1, <1>2, <1>3, <1>6, KeepsOn

LEMMA KeepsTicks ==
  ASSUME NEW p \in JoinStates, NEW q, DescentInv(p), WordInv(p), Keeps(p, q)
  PROVE  TickKeeps(p, q)
  BY DEF Keeps, TickKeeps, EarnedStep, JoinStates

LEMMA SampleTicks ==
  ASSUME NEW h \in 0 .. Top, JoinInv, DroneStateCallback(h)
  PROVE  TickKeeps(join, join')
  BY SampleKeeps, KeepsTicks DEF JoinInv, JoinTypeOK

LEMMA WordTicks ==
  ASSUME JoinInv, DroneCommandCallback
  PROVE  TickKeeps(join, join')
<1> SUFFICES ASSUME NEW q, q = join'
             PROVE  TickKeeps(join, q)
  OBVIOUS
<1>1. join \in JoinStates /\ z \in 0 .. Top /\ 0 \in 0 .. Grace + 1
  BY JoinConstants DEF JoinInv, JoinTypeOK
<1>2. q = [join EXCEPT !.initial = IF seen THEN z ELSE @, !.detected = 0]
  BY DEF DroneCommandCallback
<1>3. /\ q \in JoinStates /\ q.mode = join.mode /\ q.word = join.word
      /\ q.resume = join.resume /\ q.gave_up = join.gave_up
      /\ q.offset = join.offset /\ q.disarm_z = join.disarm_z
  BY <1>1, <1>2 DEF JoinStates
<1>. QED
  BY <1>1, <1>3, Touches, KeepsTicks DEF JoinInv

LEMMA LandNowTicks ==
  ASSUME JoinInv, ExternalLandingCallback
  PROVE  TickKeeps(join, join')
<1>1. join \in JoinStates /\ join.mode \notin Aborted
  BY DEF JoinInv, JoinTypeOK, ExternalLandingCallback
<1>2. CASE seen
  <2> DEFINE r == [join EXCEPT !.pending = FALSE]
  <2>1. /\ r \in JoinStates /\ r.mode = join.mode /\ r.word = join.word
        /\ r.resume = join.resume /\ r.gave_up = join.gave_up
        /\ r.offset = join.offset /\ r.disarm_z = join.disarm_z
    BY <1>1 DEF JoinStates
  <2>2. join' = Transition(r, "LANDING")
    BY <1>2 DEF ExternalLandingCallback
  <2> HIDE DEF r
  <2>3. "LANDING" \in JoinModes /\ "LANDING" \in Laden \cup Aborted
    BY Modes DEF Aborted
  <2>4. Keeps(r, Transition(r, "LANDING"))
    BY <1>1, <2>1, <2>3, MovesOn
  <2>5. Keeps(join, join')
    BY <1>1, <2>1, <2>2, <2>4, Touches, KeepsOn
  <2>. QED
    BY <1>1, <2>5, KeepsTicks DEF JoinInv
<1>3. CASE ~seen
  <2> SUFFICES ASSUME NEW q, q = join'
               PROVE  TickKeeps(join, q)
    OBVIOUS
  <2>1. q = [join EXCEPT !.pending = TRUE]
    BY <1>3 DEF ExternalLandingCallback
  <2>2. /\ q \in JoinStates /\ q.mode = join.mode /\ q.word = join.word
        /\ q.resume = join.resume /\ q.gave_up = join.gave_up
        /\ q.offset = join.offset /\ q.disarm_z = join.disarm_z
    BY <1>1, <2>1 DEF JoinStates
  <2>. QED
    BY <1>1, <2>2, Touches, KeepsTicks DEF JoinInv
<1>. QED
  BY <1>2, <1>3

LEMMA AttachTicks ==
  ASSUME JoinInv, MagnetCommandInCallback
  PROVE  TickKeeps(join, join')
<1> SUFFICES ASSUME NEW q, q = join'
             PROVE  TickKeeps(join, q)
  OBVIOUS
<1>1. join \in JoinStates
  BY DEF JoinInv, JoinTypeOK
<1>2. q = [join EXCEPT !.armed = TRUE]
  BY DEF MagnetCommandInCallback
<1>3. /\ q \in JoinStates /\ q.mode = join.mode /\ q.word = join.word
      /\ q.resume = join.resume /\ q.gave_up = join.gave_up
      /\ q.offset = join.offset /\ q.disarm_z = join.disarm_z
  BY <1>1, <1>2 DEF JoinStates
<1>. QED
  BY <1>1, <1>3, Touches, KeepsTicks DEF JoinInv

(* Every step of the planner, and the rest of its types.                   *)
LEMMA StepTicks ==
  ASSUME JoinInv, JoinNext
  PROVE  /\ TickKeeps(join, join') /\ mission' = mission
         /\ z' \in 0 .. Top /\ seen' \in BOOLEAN
         /\ object_attached' \in BOOLEAN /\ words' \in 0 .. MaxWords
<1>0. /\ join \in JoinStates /\ z \in 0 .. Top /\ seen \in BOOLEAN
      /\ object_attached \in BOOLEAN /\ words \in 0 .. MaxWords
      /\ Top \in Nat /\ MaxWords \in Nat
      /\ DescentInv(join) /\ WordInv(join)
  BY JoinConstants, JoinAssumption DEF JoinInv, JoinTypeOK
<1>1. ASSUME NEW in \in Inputs, TimerCallback(in)
      PROVE  /\ TickKeeps(join, join')
             /\ UNCHANGED <<mission, z, seen, object_attached, words>>
  BY <1>1, TimerTicks DEF TimerCallback
<1>2. ASSUME NEW h \in 0 .. Top, DroneStateCallback(h)
      PROVE  /\ TickKeeps(join, join') /\ z' = h /\ seen' = TRUE
             /\ UNCHANGED <<mission, object_attached, words>>
  BY <1>2, SampleTicks DEF DroneStateCallback
<1>3. CASE Moves
  BY <1>0, <1>2, <1>3 DEF Moves
<1>4. CASE Sinks
  <2>1. z - 1 \in 0 .. Top /\ DroneStateCallback(z - 1)
    BY <1>0, <1>4 DEF Sinks
  <2>. QED
    BY <1>0, <1>2, <2>1
<1>5. CASE DroneCommandCallback
  BY <1>0, <1>5, WordTicks DEF DroneCommandCallback
<1>6. CASE ExternalLandingCallback
  BY <1>0, <1>6, LandNowTicks DEF ExternalLandingCallback
<1>7. CASE MagnetCommandInCallback
  BY <1>0, <1>7, AttachTicks DEF MagnetCommandInCallback
<1>8. CASE ObjectAttachedCallback
  <2>1. join' = join
    BY <1>8 DEF ObjectAttachedCallback
  <2>2. TickKeeps(join, join)
    BY <1>0, KeepsItself, KeepsTicks
  <2>3. object_attached' \in BOOLEAN
    BY <1>0, <1>8 DEF ObjectAttachedCallback
  <2>. QED
    BY <1>0, <1>8, <2>1, <2>2, <2>3 DEF ObjectAttachedCallback
<1>. QED
  BY <1>0, <1>1, <1>3, <1>4, <1>5, <1>6, <1>7, <1>8 DEF JoinNext

LEMMA InvInit ==
  ASSUME JoinInit
  PROVE  JoinInv
<1>1. /\ {"WAIT_FOR_TAKEOFF", "APPROACH_ABOVE_TARGET"} \subseteq JoinModes
      /\ 0 \in 0 .. MaxAge /\ 0 \in 0 .. Dwell + 1
      /\ 0 \in 0 .. BlockedFor + 1 /\ 0 \in 0 .. RecoveredFor + 1
      /\ 0 \in 0 .. Grace + 1 /\ Ramp \in 0 .. Ramp /\ 0 \in 0 .. Top
      /\ 0 \in 0 .. Top + DisarmRise /\ 0 \in 0 .. MaxWords
  BY JoinConstants, JoinAssumption DEF JoinModes, Flown, Reattach
<1>2. /\ mission \in Missions /\ mission.pickup \in BOOLEAN
      /\ mission.gated \in BOOLEAN
  BY JoinAssumption DEF JoinInit, Mission
<1>3. /\ join \in JoinStates /\ join.word = "none"
      /\ join.mode # "DESCEND_TO_ATTACHMENT"
  BY <1>1, <1>2 DEF JoinInit, JoinStates
<1>. QED
  BY <1>1, <1>2, <1>3 DEF JoinInit, JoinInv, JoinTypeOK, DescentInv, WordInv

LEMMA InvNext ==
  ASSUME JoinInv, [JoinNext]_joinVars
  PROVE  JoinInv'
<1>1. CASE JoinNext
  <2>1. /\ TickKeeps(join, join') /\ mission' = mission
        /\ z' \in 0 .. Top /\ seen' \in BOOLEAN
        /\ object_attached' \in BOOLEAN /\ words' \in 0 .. MaxWords
    BY <1>1, StepTicks
  <2>. QED
    BY <2>1 DEF JoinInv, JoinTypeOK, TickKeeps, DescentInv, WordInv
<1>2. CASE UNCHANGED joinVars
  BY <1>2 DEF joinVars, JoinInv, JoinTypeOK, DescentInv, WordInv
<1>. QED
  BY <1>1, <1>2

(* The planner's state stays of its type, in a descent the tip is above    *)
(* the ring, and a coil told ON is with the object's delivery.             *)
THEOREM JoinInvariant == JoinSpec => []JoinInv
  BY InvInit, InvNext, PTL DEF JoinSpec

(* The planner's state stays of its type.                                  *)
THEOREM JoinTypeCorrect == JoinSpec => []JoinTypeOK
<1>1. JoinInv => JoinTypeOK
  BY DEF JoinInv
<1>. QED
  BY <1>1, JoinInvariant, PTL

(* A landing is the end of the mission.                                    *)
THEOREM LandingIsFinal == JoinSpec => AbortIsFinal
<1>1. JoinInv /\ [JoinNext]_joinVars =>
        [join.mode \in Aborted =>
           /\ join'.mode \in Aborted
           /\ join.mode = "LANDED_DISARMED" => join'.mode = "LANDED_DISARMED"
           /\ join'.disarm_z = join.disarm_z]_joinVars
  BY StepTicks DEF TickKeeps, StaysAborted
<1>. QED
  BY <1>1, JoinInvariant, PTL DEF JoinSpec, AbortIsFinal

(* The tip is ready only at the end of a whole descent.                    *)
THEOREM DescentIsWhole == JoinSpec => ReadyIsEarned
<1>1. JoinInv /\ [JoinNext]_joinVars =>
        [/\ join'.mode = "ATTACH_READY" =>
              \/ join.mode = "ATTACH_READY"
              \/ join.mode = "DESCEND_TO_ATTACHMENT" /\ join.offset = 1
         /\ join'.offset < join.offset =>
              /\ join.mode = "DESCEND_TO_ATTACHMENT"
              /\ join'.offset = join.offset - 1]_joinVars
  BY StepTicks DEF TickKeeps, EarnedStep
<1>. QED
  BY <1>1, JoinInvariant, PTL DEF JoinSpec, ReadyIsEarned

(* The coil is told OFF where the object is to be dropped.                 *)
THEOREM DeliveryIsKept == JoinSpec => ObjectIsCarried
<1>1. JoinInv /\ [JoinNext]_joinVars =>
        [join.word = "ON" /\ join'.word = "OFF"
         => join.mode = "DROP_OBJECT" \/ join.gave_up]_joinVars
  BY StepTicks DEF TickKeeps
<1>. QED
  BY <1>1, JoinInvariant, PTL DEF JoinSpec, ObjectIsCarried
=============================================================================
