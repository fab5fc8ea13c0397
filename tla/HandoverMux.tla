----------------------------- MODULE HandoverMux -----------------------------
(***************************************************************************)
(* elrs_mux with its HandoverPolicy: the two-input multiplexer that gives  *)
(* a newcomer's radio to the partner's stream or to our tracker's.  One    *)
(* action per callback; a callback that returns early is a guard.  The     *)
(* environment may send any message the launch wires, at any time.         *)
(*                                                                         *)
(* The policy's latch and require_live are True in every launch file, and  *)
(* are taken as such.  A policy age beyond Live and no live command at all *)
(* answer tracker_live alike, and are one value here.                      *)
(***************************************************************************)
EXTENDS HandoverLaunch, Naturals

CONSTANT Live   \* live_timeout_s, in ticks

ASSUME MuxAssumption == Live \in Nat

VARIABLES
  welded, policy_taken, switched,  \* HandoverPolicy
  age,              \* ticks since our tracker's last live command
  attached, latched, cut,
  release_pending, released, taken_back,
  planner_flying,
  radio,            \* last command published to the radio, and whose it was
  thrust            \* environment: the streams that command thrust now

policyVars == <<welded, policy_taken, switched, age>>
releaseVars == <<release_pending, released, taken_back>>
stopVars == <<latched, cut>>
muxVars == <<launch, policyVars, attached, stopVars, releaseVars,
             planner_flying, radio, thrust>>

Cmds == {"off", "idle", "fly"}
Disarm == [by |-> "mux", cmd |-> "off"]
Radio == [by : Streams, cmd : Cmds] \cup {Disarm}

MuxTypeOK ==
  /\ launch \in Launches
  /\ welded \in BOOLEAN /\ policy_taken \in BOOLEAN /\ switched \in BOOLEAN
  /\ age \in 0 .. Live + 1
  /\ attached \in BOOLEAN /\ latched \in BOOLEAN /\ cut \in BOOLEAN
  /\ release_pending \in BOOLEAN /\ released \in BOOLEAN
  /\ taken_back \in BOOLEAN
  /\ planner_flying \in BOOLEAN
  /\ radio \in Radio
  /\ thrust \subseteq Streams

MuxInit ==
  /\ launch \in Launches
  /\ welded = launch.start_ours
  /\ switched = launch.start_ours
  /\ attached = launch.start_ours
  /\ policy_taken = FALSE
  /\ age = Live + 1
  /\ latched = FALSE /\ cut = FALSE
  /\ release_pending = FALSE /\ released = FALSE /\ taken_back = FALSE
  /\ planner_flying = FALSE
  /\ radio = Disarm
  /\ thrust = {}

-----------------------------------------------------------------------------
(* What /drone_i/mux_state reads: published at every change of a flag.     *)
MuxState ==
  CASE latched -> "latched"
    [] ~latched /\ cut -> "cut"
    [] ~latched /\ ~cut /\ (launch.ours_only \/ attached) -> "ours"
    [] OTHER -> "partner"

(* HandoverPolicy.attached, for a policy with these weld, take-back, age.  *)
(* Mutant: switch on the weld, whether or not our tracker is flying.       *)
TakesOnWeld(w, t, a) == switched \/ w \/ t
Takes(w, t, a) == switched \/ ((w \/ t) /\ a <= Live)

(* The policy is fed, decides, and the mux applies its decision.           *)
Feed(w, t, a) ==
  /\ welded' = w /\ policy_taken' = t /\ age' = a
  /\ switched' = Takes(w, t, a)
  /\ attached' = Takes(w, t, a)

(* What _forward sends of a command c of stream s.                         *)
Sent(s, c) == IF latched \/ cut THEN Disarm ELSE [by |-> s, cmd |-> c]

(* The partner's throttle is held at armed idle until our planner flies.   *)
(* Mutant: the hold ends with the hand-back.                               *)
HeldBeforeRelease(c) ==
  IF launch.hold /\ ~planner_flying /\ ~release_pending /\ c = "fly"
    THEN "idle" ELSE c
Held(c) ==
  IF launch.hold /\ ~planner_flying /\ c = "fly" THEN "idle" ELSE c

-----------------------------------------------------------------------------
AbortCb ==
  /\ launch.abort_latch /\ ~latched
  /\ latched' = TRUE
  /\ radio' = Disarm
  /\ UNCHANGED <<launch, policyVars, attached, cut, releaseVars,
                 planner_flying, thrust>>

CutCb ==
  /\ launch.cut /\ ~cut /\ ~latched
  /\ ~launch.ours_only /\ ~attached
  /\ cut' = TRUE
  /\ release_pending' = FALSE
  /\ radio' = Disarm
  /\ UNCHANGED <<launch, policyVars, attached, latched, released, taken_back,
                 planner_flying, thrust>>

AttachedCb(b) ==
  /\ ~launch.ours_only
  /\ Feed(welded \/ b, policy_taken, age)
  /\ UNCHANGED <<launch, stopVars, releaseVars, planner_flying, radio, thrust>>

HandoffCb ==
  /\ launch.handoff /\ ~launch.ours_only
  /\ Feed(TRUE, policy_taken, age)
  /\ UNCHANGED <<launch, stopVars, releaseVars, planner_flying, radio, thrust>>

(* Nothing to hand over, or already handed over or taken back: ignored.    *)
ReleaseCb ==
  /\ launch.release
  /\ release_pending' = (release_pending
       \/ ~(released \/ launch.ours_only \/ taken_back))
  /\ UNCHANGED <<launch, policyVars, attached, stopVars, released, taken_back,
                 planner_flying, radio, thrust>>

(* Mutant: the take-back leaves a release that waits for his stream.       *)
TakeBackKeepsRelease ==
  /\ launch.take_back /\ ~launch.ours_only
  /\ taken_back' = TRUE
  /\ Feed(welded, TRUE, age)
  /\ UNCHANGED <<launch, stopVars, release_pending, released, planner_flying,
                 radio, thrust>>
TakeBackCb ==
  /\ launch.take_back /\ ~launch.ours_only
  /\ taken_back' = TRUE
  /\ release_pending' = FALSE
  /\ Feed(welded, TRUE, age)
  /\ UNCHANGED <<launch, stopVars, released, planner_flying, radio, thrust>>

PlannerStatusCb ==
  /\ launch.hold /\ ~planner_flying
  /\ planner_flying' = TRUE
  /\ UNCHANGED <<launch, policyVars, attached, stopVars, releaseVars, radio,
                 thrust>>

(* A stream that commands thrust sends flying commands; one that does not  *)
(* sends disarmed or armed idle ones.                                      *)
Sends(s, c) == c = "fly" <=> s \in thrust

(* His first flying command after the release takes the drone: a fresh     *)
(* policy, the approach stream, and this very command goes out.            *)
TejenTakesRelease(c) ==
  /\ release_pending /\ ~cut /\ c = "fly"
  /\ release_pending' = FALSE /\ released' = TRUE
  /\ welded' = FALSE /\ policy_taken' = FALSE /\ switched' = FALSE
  /\ age' = Live + 1
  /\ attached' = FALSE
  /\ radio' = Sent("partner", Held(c))
  /\ UNCHANGED <<launch, stopVars, taken_back, planner_flying, thrust>>

TejenForward(c) ==
  /\ ~(release_pending /\ ~cut /\ c = "fly")
  /\ ~attached /\ ~launch.ours_only
  /\ radio' = Sent("partner", Held(c))
  /\ UNCHANGED <<launch, policyVars, attached, stopVars, releaseVars,
                 planner_flying, thrust>>

(* Mutant: his command is held before the release looks at it.             *)
TejenHeldFirst(c) ==
  Sends("partner", c) /\ (TejenTakesRelease(Held(c)) \/ TejenForward(Held(c)))
TejenCb(c) ==
  Sends("partner", c) /\ (TejenTakesRelease(c) \/ TejenForward(c))

DissForward(c) ==
  /\ launch.ours_only
  /\ radio' = Sent("ours", c)
  /\ UNCHANGED <<policyVars, attached>>

DissFeed(c) ==
  /\ ~launch.ours_only
  /\ Feed(welded, policy_taken, IF c = "fly" THEN 0 ELSE age)
  /\ radio' = IF attached' THEN Sent("ours", c) ELSE radio

(* Mutant: the policy is asked only when a weld is announced.              *)
DissNoDecision(c) ==
  /\ Sends("ours", c)
  /\ IF launch.ours_only THEN DissForward(c)
     ELSE /\ age' = IF c = "fly" THEN 0 ELSE age
          /\ radio' = IF attached THEN Sent("ours", c) ELSE radio
          /\ UNCHANGED <<welded, policy_taken, switched, attached>>
  /\ UNCHANGED <<launch, stopVars, releaseVars, planner_flying, thrust>>
DissCb(c) ==
  /\ Sends("ours", c)
  /\ DissForward(c) \/ DissFeed(c)
  /\ UNCHANGED <<launch, stopVars, releaseVars, planner_flying, thrust>>

-----------------------------------------------------------------------------
(* The live command ages; a controller starts or stops commanding thrust.  *)
Tick ==
  /\ age <= Live
  /\ age' = age + 1
  /\ UNCHANGED <<launch, welded, policy_taken, switched, attached, stopVars,
                 releaseVars, planner_flying, radio, thrust>>

ThrustChanges ==
  /\ \E s \in SUBSET Streams : s # thrust /\ thrust' = s
  /\ UNCHANGED <<launch, policyVars, attached, stopVars, releaseVars,
                 planner_flying, radio>>

MuxNext ==
  \/ AbortCb \/ CutCb
  \/ \E b \in BOOLEAN : AttachedCb(b)
  \/ HandoffCb \/ ReleaseCb \/ TakeBackCb
  \/ PlannerStatusCb
  \/ \E c \in Cmds : TejenCb(c) \/ DissCb(c)
  \/ Tick \/ ThrustChanges

MuxSpec == MuxInit /\ [][MuxNext]_muxVars

(* A stream that keeps commanding thrust is heard again: both publish at   *)
(* their control rate, on topics of depth 1 that one executor serves.      *)
MuxFairness ==
  /\ WF_muxVars(TejenCb("fly"))
  /\ WF_muxVars(DissCb("fly"))

-----------------------------------------------------------------------------
(* The mux keeps what MuxAuthority promises: each authority passes only    *)
(* its own stream, the drone comes to us only while our tracker commands   *)
(* thrust, goes back to the partner once at most, is cut only under the    *)
(* partner, and a stopped drone sends nothing but disarmed idle.           *)
A == INSTANCE MuxAuthority
       WITH auth <- MuxState, fresh <- age <= Live, handed <- released
MuxIsAuthority == A!AuthSpec

(* A take-back takes the drone while our tracker keeps commanding thrust,  *)
(* in whatever order the take-back, a pending release and his stream come. *)
TakeBackTakes ==
  taken_back ~> (MuxState # "partner" \/ "ours" \notin thrust)

(* A pending release hands the drone over while his stream keeps           *)
(* commanding thrust, unless it is voided or the drone is cut.             *)
ReleaseHands ==
  release_pending ~> (~release_pending \/ cut \/ "partner" \notin thrust)

(* Once a take-back has given us the drone no release, pending or new,     *)
(* gives it back.                                                          *)
TakenBackStays ==
  [][taken_back /\ MuxState = "ours" => MuxState' # "partner"]_muxVars

(* No flying throttle of the partner's reaches the radio before our        *)
(* planner flies, nor from a welded start before its hand-over.            *)
HisThrottleWaits ==
  radio = [by |-> "partner", cmd |-> "fly"] =>
    /\ launch.hold => planner_flying
    /\ launch.start_ours => released
=============================================================================
