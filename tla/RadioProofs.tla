----------------------------- MODULE RadioProofs -----------------------------
(***************************************************************************)
(* The command path to a drone, in two parts.  What the mux keeps for      *)
(* every set of launches and every live timeout: its types, the agreement  *)
(* of its flags with its policy's, what it promises (MuxAuthority), and    *)
(* its order of releases and take-backs.  What the arm switch keeps for    *)
(* every timing its assumptions allow: its types, that the FC sees every   *)
(* edge, that the switch never falls under an armed FC, and that a         *)
(* confirmed arm is of its own attempt.                                    *)
(***************************************************************************)
EXTENDS HandoverMux, ArmSwitch, TLAPS

-----------------------------------------------------------------------------
(* The mux.                                                                *)

(* The inductive invariant.  The mux's attached is its policy's switched;  *)
(* a release that waits is of a drone never handed over nor taken back;    *)
(* and a stopped mux sent its disarm last.                                 *)
PendingIsFresh ==
  release_pending => ~launch.ours_only /\ ~released /\ ~taken_back
StoppedIsOff == latched \/ cut => radio = Disarm
WeldedStart == launch.start_ours /\ ~attached => released

MuxInv ==
  /\ MuxTypeOK
  /\ attached = switched
  /\ PendingIsFresh
  /\ StoppedIsOff
  /\ WeldedStart
  /\ HisThrottleWaits

-----------------------------------------------------------------------------
(* The launch is a record of flags.                                        *)
LEMMA LaunchFlags ==
  ASSUME MuxTypeOK
  PROVE  /\ launch.ours_only \in BOOLEAN /\ launch.start_ours \in BOOLEAN
         /\ launch.hold \in BOOLEAN /\ launch.release \in BOOLEAN
         /\ launch.handoff \in BOOLEAN /\ launch.take_back \in BOOLEAN
         /\ launch.cut \in BOOLEAN /\ launch.abort_latch \in BOOLEAN
  BY LaunchAssumption DEF MuxTypeOK, LaunchFields

(* What the mux forwards is a command of the stream, or its own disarm.    *)
LEMMA SentType ==
  ASSUME NEW s \in Streams, NEW c \in Cmds
  PROVE  /\ Sent(s, c) \in Radio
         /\ Sent(s, Held(c)) \in Radio
         /\ Held(c) \in Cmds
         /\ c = "fly" => Held(c) \in {"idle", "fly"}
  BY DEF Sent, Held, Radio, Disarm, Cmds

LEMMA TakesType ==
  ASSUME MuxTypeOK, NEW w \in BOOLEAN, NEW t \in BOOLEAN, NEW a \in 0 .. Live + 1
  PROVE  Takes(w, t, a) \in BOOLEAN
  BY DEF Takes, MuxTypeOK

LEMMA InitInv == MuxInit => MuxInv
  <1> SUFFICES ASSUME MuxInit PROVE MuxInv
    OBVIOUS
  <1>1. launch.start_ours \in BOOLEAN
    BY LaunchAssumption DEF MuxInit, LaunchFields
  <1>2. MuxTypeOK
    <2>1. thrust \subseteq Streams /\ radio \in Radio
      BY DEF MuxInit, Radio
    <2>2. age \in 0 .. Live + 1
      BY MuxAssumption DEF MuxInit
    <2> QED
      BY <1>1, <2>1, <2>2 DEF MuxInit, MuxTypeOK
  <1>3. HisThrottleWaits
    BY DEF MuxInit, HisThrottleWaits, Disarm
  <1> QED
    BY <1>1, <1>2, <1>3
    DEF MuxInit, MuxInv, PendingIsFresh, StoppedIsOff, WeldedStart

-----------------------------------------------------------------------------
(* The policy is fed: nothing but the policy and attached moves.           *)
LEMMA FeedInv ==
  ASSUME MuxInv, NEW w \in BOOLEAN, NEW t \in BOOLEAN, NEW a \in 0 .. Live + 1,
         Feed(w, t, a)
  PROVE  /\ welded' \in BOOLEAN /\ policy_taken' \in BOOLEAN
         /\ switched' \in BOOLEAN /\ attached' \in BOOLEAN
         /\ age' \in 0 .. Live + 1
         /\ attached' = switched'
         /\ attached => attached'
         /\ attached' /\ ~attached => age' <= Live
  <1>1. Takes(w, t, a) \in BOOLEAN
    BY TakesType DEF MuxInv
  <1>2. attached \in BOOLEAN /\ switched \in BOOLEAN /\ attached = switched
    BY DEF MuxInv, MuxTypeOK
  <1>3. attached => Takes(w, t, a)
    BY <1>2 DEF Takes
  <1>4. Takes(w, t, a) /\ ~attached => a <= Live
    BY <1>2 DEF Takes
  <1> QED
    BY <1>1, <1>2, <1>3, <1>4, Zenon DEF Feed

LEMMA StepInv == MuxInv /\ [MuxNext]_muxVars => MuxInv'
  <1> SUFFICES ASSUME MuxInv, [MuxNext]_muxVars PROVE MuxInv'
    OBVIOUS
  <1> USE DEF MuxInv
  <1> USE MuxAssumption
  <1>1. CASE AbortCb
    BY <1>1 DEF AbortCb, MuxTypeOK, Radio, Disarm, PendingIsFresh,
       StoppedIsOff, WeldedStart, HisThrottleWaits, policyVars, releaseVars
  <1>2. CASE CutCb
    BY <1>2 DEF CutCb, MuxTypeOK, Radio, Disarm, PendingIsFresh,
       StoppedIsOff, WeldedStart, HisThrottleWaits, policyVars
  <1>3. ASSUME NEW b \in BOOLEAN, AttachedCb(b) PROVE MuxInv'
    <2>1. /\ Feed(welded \/ b, policy_taken, age)
          /\ UNCHANGED <<launch, stopVars, releaseVars, planner_flying, radio,
                         thrust>>
      BY <1>3 DEF AttachedCb
    <2>2. (welded \/ b) \in BOOLEAN /\ policy_taken \in BOOLEAN
          /\ age \in 0 .. Live + 1
      BY DEF MuxTypeOK
    <2> QED
      BY <2>1, <2>2, FeedInv DEF MuxTypeOK, PendingIsFresh, StoppedIsOff,
         WeldedStart, HisThrottleWaits, stopVars, releaseVars
  <1>4. CASE HandoffCb
    <2>1. /\ Feed(TRUE, policy_taken, age)
          /\ UNCHANGED <<launch, stopVars, releaseVars, planner_flying, radio,
                         thrust>>
      BY <1>4 DEF HandoffCb
    <2>2. policy_taken \in BOOLEAN /\ age \in 0 .. Live + 1
      BY DEF MuxTypeOK
    <2> QED
      BY <2>1, <2>2, FeedInv DEF MuxTypeOK, PendingIsFresh, StoppedIsOff,
         WeldedStart, HisThrottleWaits, stopVars, releaseVars
  <1>5. CASE ReleaseCb
    BY <1>5, LaunchFlags DEF ReleaseCb, MuxTypeOK, PendingIsFresh,
       StoppedIsOff, WeldedStart, HisThrottleWaits, policyVars, stopVars
  <1>6. CASE TakeBackCb
    <2>1. /\ Feed(welded, TRUE, age)
          /\ taken_back' = TRUE /\ release_pending' = FALSE
          /\ UNCHANGED <<launch, stopVars, released, planner_flying, radio,
                         thrust>>
      BY <1>6 DEF TakeBackCb
    <2>2. welded \in BOOLEAN /\ age \in 0 .. Live + 1
      BY DEF MuxTypeOK
    <2> QED
      BY <2>1, <2>2, FeedInv DEF MuxTypeOK, PendingIsFresh, StoppedIsOff,
         WeldedStart, HisThrottleWaits, stopVars
  <1>7. CASE PlannerStatusCb
    BY <1>7 DEF PlannerStatusCb, MuxTypeOK, PendingIsFresh, StoppedIsOff,
       WeldedStart, HisThrottleWaits, policyVars, stopVars, releaseVars
  <1>8. ASSUME NEW c \in Cmds, TejenCb(c) PROVE MuxInv'
    <2>1. /\ Sent("partner", Held(c)) \in Radio
          /\ launch.hold /\ ~planner_flying => Held(c) # "fly"
      BY SentType DEF Held, Streams
    <2>2. CASE TejenTakesRelease(c)
      <3>1. /\ release_pending' = FALSE /\ released' = TRUE
            /\ welded' = FALSE /\ policy_taken' = FALSE /\ switched' = FALSE
            /\ age' = Live + 1 /\ attached' = FALSE
            /\ radio' = Sent("partner", Held(c))
            /\ UNCHANGED <<launch, stopVars, taken_back, planner_flying,
                           thrust>>
        BY <2>2 DEF TejenTakesRelease
      <3>2. MuxTypeOK'
        <4>1. age' \in 0 .. Live + 1
          BY <3>1
        <4>2. /\ launch' \in Launches /\ latched' \in BOOLEAN
              /\ cut' \in BOOLEAN /\ taken_back' \in BOOLEAN
              /\ planner_flying' \in BOOLEAN /\ thrust' \subseteq Streams
          BY <3>1 DEF MuxTypeOK, stopVars
        <4> QED
          BY <2>1, <3>1, <4>1, <4>2 DEF MuxTypeOK
      <3>3. PendingIsFresh' /\ WeldedStart' /\ (attached = switched)'
        BY <3>1 DEF PendingIsFresh, WeldedStart
      <3>4. StoppedIsOff'
        BY <3>1 DEF StoppedIsOff, stopVars, Sent
      <3>5. HisThrottleWaits'
        <4>1. Sent("partner", Held(c)) = [by |-> "partner", cmd |-> "fly"]
                => (launch.hold => planner_flying)
          BY <2>1 DEF Sent, Disarm
        <4> QED
          BY <3>1, <4>1 DEF HisThrottleWaits
      <3> QED
        BY <3>2, <3>3, <3>4, <3>5
    <2>3. CASE TejenForward(c)
      BY <2>1, <2>3 DEF TejenForward, MuxTypeOK, PendingIsFresh,
         StoppedIsOff, WeldedStart, HisThrottleWaits, stopVars, releaseVars,
         policyVars, Sent, Disarm
    <2> QED
      BY <1>8, <2>2, <2>3 DEF TejenCb
  <1>9. ASSUME NEW c \in Cmds, DissCb(c) PROVE MuxInv'
    <2>1. Sent("ours", c) \in Radio /\ Sent("ours", c).by # "partner"
      BY SentType DEF Streams, Sent, Disarm
    <2>2. UNCHANGED <<launch, stopVars, releaseVars, planner_flying, thrust>>
      BY <1>9 DEF DissCb
    <2>3. CASE DissForward(c)
      BY <2>1, <2>2, <2>3 DEF DissForward, MuxTypeOK, PendingIsFresh,
         StoppedIsOff, WeldedStart, HisThrottleWaits, stopVars, releaseVars,
         policyVars, Sent, Disarm
    <2>4. CASE DissFeed(c)
      <3>1. Feed(welded, policy_taken, IF c = "fly" THEN 0 ELSE age)
        BY <2>4 DEF DissFeed
      <3>2. /\ welded \in BOOLEAN /\ policy_taken \in BOOLEAN
            /\ (IF c = "fly" THEN 0 ELSE age) \in 0 .. Live + 1
        BY DEF MuxTypeOK
      <3>3. radio' = Sent("ours", c) \/ radio' = radio
        BY <2>4 DEF DissFeed
      <3>4. /\ radio' \in Radio
            /\ latched \/ cut => radio' = Disarm
            /\ radio' = [by |-> "partner", cmd |-> "fly"] => radio' = radio
        BY <2>1, <3>3 DEF MuxTypeOK, StoppedIsOff, Sent, Disarm
      <3> QED
        BY <2>2, <3>1, <3>2, <3>4, FeedInv DEF MuxTypeOK, PendingIsFresh,
           StoppedIsOff, WeldedStart, HisThrottleWaits, stopVars, releaseVars
    <2> QED
      BY <1>9, <2>3, <2>4 DEF DissCb
  <1>10. CASE Tick
    BY <1>10 DEF Tick, MuxTypeOK, PendingIsFresh, StoppedIsOff,
       WeldedStart, HisThrottleWaits, stopVars, releaseVars
  <1>11. CASE ThrustChanges
    BY <1>11 DEF ThrustChanges, MuxTypeOK, PendingIsFresh, StoppedIsOff,
       WeldedStart, HisThrottleWaits, policyVars, stopVars, releaseVars
  <1>12. CASE UNCHANGED muxVars
    BY <1>12 DEF muxVars, MuxTypeOK, PendingIsFresh, StoppedIsOff,
       WeldedStart, HisThrottleWaits, policyVars, stopVars, releaseVars
  <1> QED
    BY <1>1, <1>2, <1>3, <1>4, <1>5, <1>6, <1>7, <1>8, <1>9, <1>10, <1>11,
       <1>12 DEF MuxNext

(* The mux's flags keep their types.                                       *)
THEOREM MuxTypeCorrect == MuxSpec => []MuxTypeOK
  <1>1. MuxInv => MuxTypeOK
    BY DEF MuxInv
  <1> QED
    BY InitInv, StepInv, <1>1, PTL DEF MuxSpec

(* The partner's flying throttle waits for our planner, and from a welded  *)
(* start for the hand-over.                                                *)
THEOREM ThrottleWaits == MuxSpec => []HisThrottleWaits
  <1>1. MuxInv => HisThrottleWaits
    BY DEF MuxInv
  <1> QED
    BY InitInv, StepInv, <1>1, PTL DEF MuxSpec

-----------------------------------------------------------------------------
(* Only a hand-over gives the drone away: any other step of the mux keeps  *)
(* its launch and what is attached.                                        *)
LEMMA KeepsAttached ==
  ASSUME MuxInv, MuxNext, ~ \E c \in Cmds : TejenTakesRelease(c)
  PROVE  launch' = launch /\ (attached => attached')
  <1>1. \A w, t, a : Feed(w, t, a) => (attached => attached')
    BY DEF Feed, Takes, MuxInv
  <1>2. ASSUME NEW c \in Cmds, TejenCb(c)
        PROVE  launch' = launch /\ (attached => attached')
    BY <1>2 DEF TejenCb, TejenForward, policyVars
  <1>3. ASSUME NEW c \in Cmds, DissCb(c)
        PROVE  launch' = launch /\ (attached => attached')
    BY <1>1, <1>3 DEF DissCb, DissForward, DissFeed
  <1>4. ASSUME NEW b \in BOOLEAN, AttachedCb(b)
        PROVE  launch' = launch /\ (attached => attached')
    BY <1>1, <1>4 DEF AttachedCb
  <1>5. CASE HandoffCb \/ TakeBackCb
    BY <1>1, <1>5 DEF HandoffCb, TakeBackCb
  <1>6. CASE AbortCb \/ CutCb \/ ReleaseCb \/ PlannerStatusCb \/ Tick
               \/ ThrustChanges
    BY <1>6 DEF AbortCb, CutCb, ReleaseCb, PlannerStatusCb, Tick, ThrustChanges
  <1> QED
    BY <1>2, <1>3, <1>4, <1>5, <1>6 DEF MuxNext

(* A drone that was taken back stays ours: no release reaches it.          *)
LEMMA TakenBackStep ==
  ASSUME MuxInv, [MuxNext]_muxVars, taken_back, MuxState = "ours"
  PROVE  MuxState' # "partner"
  <1>1. launch.ours_only \/ attached
    BY DEF MuxState
  <1>2. ~release_pending
    BY DEF MuxInv, PendingIsFresh
  <1>3. launch' = launch /\ (attached => attached')
    <2>1. CASE MuxNext
      BY <1>2, <2>1, KeepsAttached DEF TejenTakesRelease
    <2>2. CASE UNCHANGED muxVars
      BY <2>2 DEF muxVars
    <2> QED
      BY <2>1, <2>2
  <1> QED
    BY <1>1, <1>3 DEF MuxState

THEOREM TakenBackIsOurs == MuxSpec => TakenBackStays
  <1>1. MuxInv /\ [MuxNext]_muxVars
          => [taken_back /\ MuxState = "ours" => MuxState' # "partner"]_muxVars
    BY TakenBackStep
  <1> QED
    BY InitInv, StepInv, <1>1, PTL DEF MuxSpec, TakenBackStays
-----------------------------------------------------------------------------
(* The refinement.  The authority of the abstract mux is MuxState, its     *)
(* freshness the age of our last live command, and its one hand-back the   *)
(* release that is used up.                                                *)
Stopped == latched \/ cut

LEMMA Running ==
  ASSUME MuxInv
  PROVE  /\ MuxState \in {"latched", "cut"} <=> Stopped
         /\ ~Stopped => MuxState \in Streams
         /\ MuxState = "ours" <=> ~Stopped /\ (launch.ours_only \/ attached)
         /\ MuxState = "partner" <=> ~Stopped /\ ~launch.ours_only /\ ~attached
  BY DEF MuxState, Stopped, Streams

(* The steps of the abstract mux, in terms of this one's variables.        *)
LEMMA QuietStep ==
  ASSUME MuxState' = MuxState, radio' = radio, released' = released,
         age \in 0 .. Live + 1, age' \in 0 .. Live + 1, released \in BOOLEAN
  PROVE  A!AuthNext
  <1>1. (age <= Live)' \in BOOLEAN /\ released' \in BOOLEAN
    BY MuxAssumption
  <1>2. A!Quiet
    BY DEF A!Quiet
  <1> QED
    BY <1>1, <1>2 DEF A!AuthNext

LEMMA PassStep ==
  ASSUME MuxState \in Streams, MuxState' = MuxState, released' = released,
         released \in BOOLEAN, NEW c \in Cmds,
         radio' = [by |-> MuxState, cmd |-> c]
  PROVE  A!AuthNext
  <1>1. (age <= Live)' \in BOOLEAN /\ released' \in BOOLEAN
    BY MuxAssumption
  <1>2. A!Pass
    BY DEF A!Pass, A!Streams, A!Cmds, Streams, Cmds
  <1> QED
    BY <1>1, <1>2 DEF A!AuthNext

LEMMA TakeOverStep ==
  ASSUME MuxState = "partner", MuxState' = "ours", released' = released,
         released \in BOOLEAN, age' <= Live,
         radio' = radio \/ \E c \in Cmds : radio' = [by |-> "ours", cmd |-> c]
  PROVE  A!AuthNext
  <1>1. (age <= Live)' \in BOOLEAN /\ released' \in BOOLEAN
    BY MuxAssumption
  <1>2. A!TakeOver
    BY DEF A!TakeOver, A!Cmds, Cmds
  <1> QED
    BY <1>1, <1>2 DEF A!AuthNext

LEMMA StoppedStep ==
  ASSUME Stopped, MuxInv, MuxState' = MuxState, radio' = Disarm,
         released' \in BOOLEAN, released => released'
  PROVE  A!AuthNext
  <1>1. (age <= Live)' \in BOOLEAN
    BY MuxAssumption
  <1>2. A!Stopped
    BY Running DEF A!Stopped, A!Disarm, Disarm
  <1> QED
    BY <1>1, <1>2 DEF A!AuthNext

LEMMA LatchStep ==
  ASSUME MuxState # "latched", MuxState' = "latched", radio' = Disarm,
         released' = released, released \in BOOLEAN
  PROVE  A!AuthNext
  <1>1. (age <= Live)' \in BOOLEAN /\ released' \in BOOLEAN
    BY MuxAssumption
  <1>2. A!Latch
    BY DEF A!Latch, A!Disarm, Disarm
  <1> QED
    BY <1>1, <1>2 DEF A!AuthNext

LEMMA CutStep ==
  ASSUME MuxState = "partner", MuxState' = "cut", radio' = Disarm,
         released' = released, released \in BOOLEAN
  PROVE  A!AuthNext
  <1>1. (age <= Live)' \in BOOLEAN /\ released' \in BOOLEAN
    BY MuxAssumption
  <1>2. A!Cut
    BY DEF A!Cut, A!Disarm, Disarm
  <1> QED
    BY <1>1, <1>2 DEF A!AuthNext

LEMMA HandBackStep ==
  ASSUME MuxState \in Streams, MuxState' = "partner", ~released, released' = TRUE,
         NEW c \in {"idle", "fly"}, radio' = [by |-> "partner", cmd |-> c]
  PROVE  A!AuthNext
  <1>1. (age <= Live)' \in BOOLEAN /\ released' \in BOOLEAN
    BY MuxAssumption
  <1>2. A!HandBack
    BY DEF A!HandBack, A!Streams, Streams
  <1> QED
    BY <1>1, <1>2 DEF A!AuthNext

(* The policy is fed and no flag but its own moves: nothing happens, or    *)
(* our tracker, live, takes the drone.                                     *)
LEMMA FeedStep ==
  ASSUME MuxInv, NEW w \in BOOLEAN, NEW t \in BOOLEAN, NEW a \in 0 .. Live + 1,
         Feed(w, t, a), UNCHANGED <<launch, latched, cut, released>>,
         radio' = radio \/ (~Stopped /\ attached' /\
           \E c \in Cmds : radio' = [by |-> "ours", cmd |-> c])
  PROVE  A!AuthNext
  <1>1. /\ age \in 0 .. Live + 1 /\ age' \in 0 .. Live + 1
        /\ released \in BOOLEAN
        /\ attached => attached'
        /\ attached' /\ ~attached => age' <= Live
    BY FeedInv DEF MuxInv, MuxTypeOK
  <1>2. CASE Stopped
    <2>1. MuxState' = MuxState
      BY <1>2 DEF MuxState, Stopped
    <2> QED
      BY <1>1, <1>2, <2>1, QuietStep
  <1>3. CASE ~Stopped /\ ~launch.ours_only /\ ~attached /\ attached'
    <2>1. MuxState = "partner" /\ MuxState' = "ours"
      BY <1>3 DEF MuxState, Stopped
    <2> QED
      BY <1>1, <1>3, <2>1, TakeOverStep
  <1>4. CASE ~Stopped /\ (launch.ours_only \/ attached)
    <2>1. MuxState = "ours" /\ MuxState' = "ours"
      BY <1>1, <1>4 DEF MuxState, Stopped
    <2> QED
      BY <1>1, <1>4, <2>1, QuietStep, PassStep DEF Streams
  <1>5. CASE ~Stopped /\ ~launch.ours_only /\ ~attached /\ ~attached'
    <2>1. MuxState' = MuxState
      BY <1>5 DEF MuxState, Stopped
    <2> QED
      BY <1>1, <1>5, <2>1, QuietStep
  <1> QED
    BY <1>2, <1>3, <1>4, <1>5

LEMMA RefinementInit == MuxInit => A!AuthInit
  <1> SUFFICES ASSUME MuxInit PROVE A!AuthInit
    OBVIOUS
  <1>1. MuxState \in Streams
    BY DEF MuxInit, MuxState, Streams
  <1>2. (age <= Live) = FALSE
    BY MuxAssumption DEF MuxInit
  <1> QED
    BY <1>1, <1>2 DEF MuxInit, A!AuthInit, A!Streams, Streams, A!Disarm, Disarm

(* A step that leaves the radio, the authority's flags and the hand-back   *)
(* alone is quiet.                                                         *)
LEMMA IdleStep ==
  ASSUME MuxInv, age' \in 0 .. Live + 1,
         UNCHANGED <<launch, attached, latched, cut, released, radio>>
  PROVE  A!AuthNext
  <1>1. MuxState' = MuxState
    BY DEF MuxState
  <1> QED
    BY <1>1, QuietStep DEF MuxInv, MuxTypeOK

LEMMA RefinementStep ==
  MuxInv /\ [MuxNext]_muxVars => [A!AuthNext]_(A!authVars)
  <1> SUFFICES ASSUME MuxInv, [MuxNext]_muxVars PROVE [A!AuthNext]_(A!authVars)
    OBVIOUS
  <1>0. /\ age \in 0 .. Live + 1 /\ released \in BOOLEAN
        /\ welded \in BOOLEAN /\ policy_taken \in BOOLEAN
    BY DEF MuxInv, MuxTypeOK
  <1>1. CASE AbortCb
    <2>1. MuxState # "latched" /\ MuxState' = "latched"
      BY <1>1 DEF AbortCb, MuxState
    <2> QED
      BY <1>0, <1>1, <2>1, LatchStep DEF AbortCb, releaseVars
  <1>2. CASE CutCb
    <2>1. MuxState = "partner" /\ MuxState' = "cut"
      BY <1>2 DEF CutCb, MuxState
    <2> QED
      BY <1>0, <1>2, <2>1, CutStep DEF CutCb
  <1>3. ASSUME NEW b \in BOOLEAN, AttachedCb(b) PROVE A!AuthNext
    <2>1. (welded \/ b) \in BOOLEAN
      BY <1>0
    <2>2. /\ Feed(welded \/ b, policy_taken, age)
          /\ UNCHANGED <<launch, latched, cut, released, radio>>
      BY <1>3 DEF AttachedCb, stopVars, releaseVars
    <2> QED
      BY <1>0, <2>1, <2>2, FeedStep
  <1>4. CASE HandoffCb
    <2>1. /\ Feed(TRUE, policy_taken, age)
          /\ UNCHANGED <<launch, latched, cut, released, radio>>
      BY <1>4 DEF HandoffCb, stopVars, releaseVars
    <2> QED
      BY <1>0, <2>1, FeedStep
  <1>5. CASE TakeBackCb
    <2>1. /\ Feed(welded, TRUE, age)
          /\ UNCHANGED <<launch, latched, cut, released, radio>>
      BY <1>5 DEF TakeBackCb, stopVars
    <2> QED
      BY <1>0, <2>1, FeedStep
  <1>6. CASE ReleaseCb \/ PlannerStatusCb \/ ThrustChanges
    BY <1>0, <1>6, IdleStep
    DEF ReleaseCb, PlannerStatusCb, ThrustChanges, policyVars, stopVars,
        releaseVars
  <1>7. CASE Tick
    <2>1. age' \in 0 .. Live + 1
      BY <1>0, <1>7, MuxAssumption DEF Tick
    <2> QED
      BY <1>7, <2>1, IdleStep DEF Tick, stopVars, releaseVars
  <1>8. ASSUME NEW c \in Cmds, TejenTakesRelease(c) PROVE A!AuthNext
    <2>1. /\ c = "fly" /\ ~cut /\ ~released /\ ~launch.ours_only
          /\ released' = TRUE /\ attached' = FALSE
          /\ radio' = Sent("partner", Held(c))
          /\ UNCHANGED <<launch, latched, cut>>
      BY <1>8 DEF TejenTakesRelease, MuxInv, PendingIsFresh, stopVars
    <2>2. Held(c) \in {"idle", "fly"}
      BY <2>1, SentType DEF Streams
    <2>3. CASE latched
      <3>1. MuxState' = MuxState /\ radio' = Disarm
        BY <2>1, <2>3 DEF MuxState, Sent
      <3> QED
        BY <2>1, <2>3, <3>1, StoppedStep DEF Stopped
    <2>4. CASE ~latched
      <3>1. /\ MuxState \in Streams /\ MuxState' = "partner"
            /\ radio' = [by |-> "partner", cmd |-> Held(c)]
        BY <2>1, <2>4 DEF MuxState, Sent, Streams
      <3> QED
        BY <2>1, <2>2, <3>1, HandBackStep
    <2> QED
      BY <2>3, <2>4
  <1>9. ASSUME NEW c \in Cmds, TejenForward(c) PROVE A!AuthNext
    <2>1. /\ ~attached /\ ~launch.ours_only
          /\ radio' = Sent("partner", Held(c))
          /\ UNCHANGED <<launch, latched, cut, attached, released>>
      BY <1>9 DEF TejenForward, stopVars, releaseVars
    <2>2. Held(c) \in Cmds
      BY SentType DEF Streams
    <2>3. MuxState' = MuxState
      BY <2>1 DEF MuxState
    <2>4. CASE Stopped
      BY <1>0, <2>1, <2>3, <2>4, StoppedStep DEF Sent, Stopped
    <2>5. CASE ~Stopped
      <3>1. MuxState = "partner" /\ radio' = [by |-> "partner", cmd |-> Held(c)]
        BY <2>1, <2>5 DEF MuxState, Stopped, Sent
      <3> QED
        BY <1>0, <2>1, <2>2, <2>3, <3>1, PassStep DEF Streams
    <2> QED
      BY <2>4, <2>5
  <1>10. ASSUME NEW c \in Cmds, DissCb(c) PROVE A!AuthNext
    <2>1. UNCHANGED <<launch, latched, cut, released>>
      BY <1>10 DEF DissCb, stopVars, releaseVars
    <2>2. CASE DissForward(c)
      <3>1. /\ launch.ours_only /\ attached' = attached
            /\ radio' = Sent("ours", c)
        BY <2>2 DEF DissForward
      <3>2. MuxState' = MuxState
        BY <2>1, <3>1 DEF MuxState
      <3>3. CASE Stopped
        BY <1>0, <2>1, <3>1, <3>2, <3>3, StoppedStep DEF Sent, Stopped
      <3>4. CASE ~Stopped
        <4>1. MuxState = "ours" /\ radio' = [by |-> "ours", cmd |-> c]
          BY <3>1, <3>4 DEF MuxState, Stopped, Sent
        <4> QED
          BY <1>0, <2>1, <3>2, <4>1, PassStep DEF Streams
      <3> QED
        BY <3>3, <3>4
    <2>3. CASE DissFeed(c)
      <3>1. /\ Feed(welded, policy_taken, IF c = "fly" THEN 0 ELSE age)
            /\ radio' = IF attached' THEN Sent("ours", c) ELSE radio
        BY <2>3 DEF DissFeed
      <3>2. (IF c = "fly" THEN 0 ELSE age) \in 0 .. Live + 1
        BY <1>0, MuxAssumption
      <3>3. \/ radio' = radio
            \/ ~Stopped /\ attached' /\ radio' = [by |-> "ours", cmd |-> c]
        BY <3>1 DEF Sent, Stopped, MuxInv, StoppedIsOff
      <3> QED
        BY <1>0, <2>1, <3>1, <3>2, <3>3, FeedStep
    <2> QED
      BY <1>10, <2>2, <2>3 DEF DissCb
  <1>11. CASE UNCHANGED muxVars
    <2>1. UNCHANGED <<launch, attached, latched, cut, released, radio, age>>
      BY <1>11 DEF muxVars, policyVars, stopVars, releaseVars
    <2> QED
      BY <1>0, <2>1, IdleStep
  <1> QED
    BY <1>1, <1>2, <1>3, <1>4, <1>5, <1>6, <1>7, <1>8, <1>9, <1>10, <1>11
    DEF MuxNext, TejenCb

(* The mux implements MuxAuthority, whatever launch it is given and        *)
(* whatever its streams, the planner and the faults send it.               *)
THEOREM Refinement == MuxSpec => MuxIsAuthority
  BY InitInv, StepInv, RefinementInit, RefinementStep, PTL
  DEF MuxSpec, MuxIsAuthority, A!AuthSpec

(* Every move of the abstract authority is one that the users of           *)
(* /drone_i/mux_state live with.                                           *)
LEMMA AuthorityMoves ==
  ASSUME A!AuthNext PROVE MuxState' = MuxState \/ MayMove(MuxState, MuxState')
  BY DEF A!AuthNext, A!Pass, A!Quiet, A!TakeOver, A!HandBack, A!Cut, A!Latch,
     A!Stopped, A!Streams, A!Authorities, MayMove

(* What CoilSystem assumes of the mux is true of it: its published state   *)
(* moves only as MayMove lets it.                                          *)
THEOREM MovesAsAssumed ==
  MuxSpec => [][MayMove(MuxState, MuxState')]_MuxState
  <1>1. MuxInv /\ [MuxNext]_muxVars => [MayMove(MuxState, MuxState')]_MuxState
    BY RefinementStep, AuthorityMoves DEF A!authVars
  <1> QED
    BY InitInv, StepInv, <1>1, PTL DEF MuxSpec

-----------------------------------------------------------------------------
(* The arm switch.                                                         *)

(* The inductive invariant.  A low switch of one tick is one the FC has    *)
(* seen, so the next edge finds it disarmed and is answered a tick later;  *)
(* from then on its arming state only falls.  A frame still on the way     *)
(* over an edge was sent in the low, by an FC that had seen it; one sent   *)
(* after the answer speaks for it.                                         *)
Waits == phase \in {"pre_low", "retry_low"}
HighIsHigh == switch <=> phase \notin {"off", "pre_low", "retry_low"}
RetryLeft == phase = "retry_low" => tries < MaxTries
LowIsSeen == Waits /\ since >= 1 => ~fc_switch /\ ~fc
ArmsByEdge == fc => answer = "armed"
AtEdge ==
  switch /\ since = 0 =>
    /\ phase = "high" /\ ~fc_switch /\ ~fc
    /\ answer = "none" /\ mode_edge # "settled"
AfterEdge == switch /\ since >= 1 => fc_switch /\ answer # "none"
SentDisarmed == switch /\ air = "disarmed" /\ since > air_age => ~fc
ReadDisarmed ==
  switch /\ mode = "disarmed" /\ mode_edge = "settled" => ~fc
OldInLow == Waits /\ air = "armed" => air_age >= since
OldAtEdge == switch /\ since = 0 => air # "armed"
SentArmed == switch /\ since >= 1 /\ air = "armed" => answer = "armed"
ReadArmed ==
  switch /\ mode = "armed" /\ mode_edge # "before" => answer = "armed"

EdgeInv == HighIsHigh /\ RetryLeft /\ LowIsSeen /\ ArmsByEdge /\ AtEdge /\ AfterEdge
FrameInv ==
  /\ SentDisarmed /\ ReadDisarmed
  /\ OldInLow /\ OldAtEdge /\ SentArmed /\ ReadArmed
SwitchInv == SwitchTypeOK /\ EdgeInv /\ FrameInv

-----------------------------------------------------------------------------
LEMMA SwitchConstants ==
  /\ PreLow \in Nat /\ RetryLow \in Nat /\ MaxTries \in Nat
  /\ PreLow >= 1 /\ RetryLow >= 1 /\ MaxTries >= 1
  /\ Confirm \in Nat /\ ConfirmMax \in Nat /\ EdgeSettle \in Nat
  /\ ModeFresh \in Nat /\ Silence \in Nat /\ Delay \in Nat
  BY SwitchAssumption

LEMMA CappedType ==
  ASSUME NEW cap \in Nat, NEW n \in 0 .. cap
  PROVE  /\ Capped(n, cap) \in 0 .. cap
         /\ Capped(n, cap) >= n
         /\ n >= 1 => Capped(n, cap) >= 1
         /\ Capped(n, cap) = n + 1 \/ (Capped(n, cap) = n /\ n = cap)
  BY DEF Capped

LEMMA SwitchInitInv == SwitchInit => SwitchInv
  <1> SUFFICES ASSUME SwitchInit PROVE SwitchInv
    OBVIOUS
  <1>1. SwitchTypeOK
    <2>1. /\ 0 \in 0 .. Silence + 1 /\ 0 \in 0 .. ConfirmMax
          /\ 0 \in 0 .. MaxTries /\ 0 \in 0 .. Delay
          /\ ModeFresh + 1 \in 0 .. ModeFresh + 1
      BY SwitchConstants
    <2>2. /\ "off" \in Phases /\ "disarmed" \in States /\ "none" \in Frames
      BY DEF Phases, States, Frames
    <2> QED
      BY <2>1, <2>2 DEF SwitchInit, SwitchTypeOK
  <1>2. EdgeInv
    <2>1. ~switch /\ phase = "off" /\ ~fc
      BY DEF SwitchInit
    <2> QED
      BY <2>1 DEF EdgeInv, HighIsHigh, RetryLeft, LowIsSeen, Waits,
         ArmsByEdge, AtEdge, AfterEdge
  <1>3. FrameInv
    BY DEF SwitchInit, FrameInv, SentDisarmed, ReadDisarmed, OldInLow, Waits,
       OldAtEdge, SentArmed, ReadArmed
  <1> QED
    BY <1>1, <1>2, <1>3 DEF SwitchInv

-----------------------------------------------------------------------------
(* The radio's timer.  It either stays in an attempt, with the switch as   *)
(* it is; goes low; or makes an edge after a low the FC has seen.          *)
Stays ==
  /\ (switch' <=> switch) /\ since' = since /\ tries' = tries
  /\ (phase' = phase \/ (switch /\ since >= 1))
  /\ phase' = "retry_low" => phase = "retry_low"
GoesOff ==
  phase' = "off" /\ ~switch' /\ tries' = 0 /\ since' = since
StartsLow ==
  /\ phase' \in {"pre_low", "retry_low"}
  /\ ~switch' /\ since' = 0
  /\ phase' = "retry_low" => tries < MaxTries
  /\ tries' = tries
  /\ switch => ~fc
MakesEdge ==
  /\ Waits /\ phase' = "high" /\ switch' /\ since' = 0
  /\ tries' \in 0 .. MaxTries
  /\ since >= 1 /\ since > Delay

LEMMA TimerMoves ==
  ASSUME SwitchInv, Timer
  PROVE  /\ Stays \/ GoesOff \/ StartsLow \/ MakesEdge
         /\ phase' \in Phases /\ state' \in States /\ want' \in BOOLEAN
         /\ HighIsHigh'
         /\ switch /\ ~switch' => ~want' \/ ~fc
         /\ phase' = "armed" /\ phase # "armed" => answer = "armed"
  <1> USE DEF SwitchInv, SwitchTypeOK, EdgeInv
  <1>1. want' \in BOOLEAN
    BY DEF Timer, Silenced
  <1>2. CASE UpdateOff
    BY <1>1, <1>2 DEF UpdateOff, Goes, GoesOff, HighIsHigh, Phases, States
  <1>3. CASE UpdateStarts
    BY <1>1, <1>3 DEF UpdateStarts, Starts, StartsLow, HighIsHigh, Phases, States
  <1>4. CASE UpdatePreLow
    <2>1. CASE since < PreLow
      <3>1. /\ phase = "pre_low" /\ phase' = "pre_low" /\ ~switch /\ ~switch'
            /\ tries' = tries /\ since' = since /\ state' = "pending"
        BY <1>4, <2>1 DEF UpdatePreLow, Goes, HighIsHigh
      <3> QED
        BY <1>1, <3>1 DEF Stays, HighIsHigh, Phases, States
    <2>2. CASE ~(since < PreLow)
      BY <1>1, <1>4, <2>2, SwitchAssumption
      DEF UpdatePreLow, Starts, MakesEdge, Waits, HighIsHigh, Phases, States
    <2> QED
      BY <2>1, <2>2
  <1>5. CASE UpdateRetryLow
    <2>1. CASE since < RetryLow
      <3>1. /\ phase = "retry_low" /\ phase' = "retry_low" /\ ~switch /\ ~switch'
            /\ tries' = tries /\ since' = since /\ state' = "pending"
        BY <1>5, <2>1 DEF UpdateRetryLow, Goes, HighIsHigh
      <3> QED
        BY <1>1, <3>1 DEF Stays, HighIsHigh, Phases, States
    <2>2. CASE ~(since < RetryLow)
      BY <1>1, <1>5, <2>2, SwitchAssumption
      DEF UpdateRetryLow, Starts, MakesEdge, Waits, HighIsHigh, RetryLeft,
          Phases, States
    <2> QED
      BY <2>1, <2>2
  <1>6. CASE UpdateHigh
    <2>1. switch /\ phase \in {"high", "unconfirmed"} /\ want'
      BY <1>6 DEF UpdateHigh, HighIsHigh
    <2>2. CASE EdgeSays("armed") /\ Goes("armed", tries, TRUE, "armed")
      <3>1. since >= 1 /\ answer = "armed"
        BY <2>1, <2>2 DEF EdgeSays, AtEdge, FrameInv, ReadArmed
      <3> QED
        BY <1>1, <2>1, <2>2, <3>1 DEF Goes, Stays, HighIsHigh, Phases, States
    <2>3. CASE Refused /\ TriesLeft /\ Starts("retry_low", tries, FALSE)
      <3>1. ~fc
        BY <2>1, <2>3 DEF Refused, EdgeSays, FrameInv, ReadDisarmed
      <3> QED
        BY <1>1, <2>1, <2>3, <3>1
        DEF Starts, StartsLow, TriesLeft, HighIsHigh, Phases, States
    <2>4. CASE Refused /\ Goes("failed", tries, TRUE, "failed")
      <3>1. since >= 1
        BY <2>4, SwitchAssumption DEF Refused
      <3> QED
        BY <1>1, <2>1, <2>4, <3>1 DEF Goes, Stays, HighIsHigh, Phases, States
    <2>5. CASE since >= ConfirmMax
                 /\ Goes("unconfirmed", tries, TRUE, "unconfirmed")
      <3>1. since >= 1
        BY <2>5, SwitchAssumption
      <3> QED
        BY <1>1, <2>1, <2>5, <3>1 DEF Goes, Stays, HighIsHigh, Phases, States
    <2>6. CASE Goes(phase, tries, TRUE, "pending")
      BY <1>1, <2>1, <2>6 DEF Goes, Stays, HighIsHigh, Phases, States
    <2> QED
      BY <1>6, <2>2, <2>3, <2>4, <2>5, <2>6 DEF UpdateHigh
  <1>7. CASE UpdateArmed
    <2>1. /\ phase = "armed" /\ phase' = "armed" /\ switch /\ switch'
          /\ tries' = tries /\ since' = since /\ state' \in {"failed", "armed"}
      BY <1>7 DEF UpdateArmed, Goes, HighIsHigh
    <2> QED
      BY <1>1, <2>1 DEF Stays, HighIsHigh, Phases, States
  <1>8. CASE UpdateFailed
    <2>1. switch /\ since >= 1
      BY <1>8 DEF UpdateFailed, HighIsHigh, AtEdge
    <2>2. EdgeSays("armed") => answer = "armed"
      BY <2>1 DEF EdgeSays, FrameInv, ReadArmed
    <2>3. /\ phase = "failed" /\ phase' \in {"armed", "failed"}
          /\ phase' = "armed" => EdgeSays("armed")
          /\ switch' /\ tries' = tries /\ since' = since
          /\ state' \in {"failed", "armed"}
      BY <1>8 DEF UpdateFailed, Goes
    <2> QED
      BY <1>1, <2>1, <2>2, <2>3 DEF Stays, HighIsHigh, Phases, States
  <1> QED
    BY <1>2, <1>3, <1>4, <1>5, <1>6, <1>7, <1>8 DEF Timer

LEMMA TimerType ==
  ASSUME SwitchInv, Timer
  PROVE  SwitchTypeOK'
  <1>1. /\ phase' \in Phases /\ state' \in States /\ want' \in BOOLEAN
        /\ Stays \/ GoesOff \/ StartsLow \/ MakesEdge
    BY TimerMoves
  <1>2. since' \in 0 .. ConfirmMax /\ tries' \in 0 .. MaxTries
    BY <1>1, SwitchConstants DEF Stays, GoesOff, StartsLow, MakesEdge, SwitchInv,
       SwitchTypeOK
  <1>3. /\ UNCHANGED <<silent, mode, mode_age, fc, fc_switch, air, air_age>>
        /\ due' = FALSE
        /\ answer' \in {"none", answer} /\ mode_edge' \in {"before", mode_edge}
    BY DEF Timer, fcVars, airVars
  <1>4. switch' \in BOOLEAN
    BY Zenon DEF Timer, UpdateOff, UpdateStarts, UpdatePreLow, UpdateRetryLow,
       UpdateHigh, UpdateArmed, UpdateFailed, Goes, Starts
  <1> QED
    BY <1>1, <1>2, <1>3, <1>4 DEF SwitchInv, SwitchTypeOK

LEMMA TimerInv ==
  ASSUME SwitchInv, Timer
  PROVE  SwitchInv'
  <1> USE DEF SwitchInv, SwitchTypeOK, EdgeInv, FrameInv
  <1>1. SwitchTypeOK' /\ HighIsHigh'
    BY TimerType, TimerMoves
  <1>2. UNCHANGED <<mode, fc, fc_switch, air, air_age>>
    BY DEF Timer, fcVars, airVars
  <1>3. /\ ~switch /\ switch' => answer' = "none" /\ mode_edge' = "before"
        /\ ~(~switch /\ switch') => answer' = answer /\ mode_edge' = mode_edge
    BY DEF Timer
  <1>4. CASE Stays
    <2>1. EdgeInv'
      BY <1>1, <1>2, <1>3, <1>4
      DEF Stays, HighIsHigh, RetryLeft, LowIsSeen, Waits, ArmsByEdge, AtEdge,
          AfterEdge
    <2>2. FrameInv'
      BY <1>1, <1>2, <1>3, <1>4
      DEF Stays, HighIsHigh, SentDisarmed, ReadDisarmed, OldInLow, OldAtEdge,
          SentArmed, ReadArmed, Waits
    <2> QED
      BY <1>1, <2>1, <2>2
  <1>5. CASE GoesOff
    BY <1>1, <1>2, <1>3, <1>5
    DEF GoesOff, RetryLeft, LowIsSeen, Waits, ArmsByEdge, AtEdge, AfterEdge,
        SentDisarmed, ReadDisarmed, OldInLow, OldAtEdge, SentArmed, ReadArmed
  <1>6. CASE StartsLow
    BY <1>1, <1>2, <1>3, <1>6, SwitchConstants
    DEF StartsLow, RetryLeft, LowIsSeen, Waits, ArmsByEdge, AtEdge, AfterEdge,
        SentDisarmed, ReadDisarmed, OldInLow, OldAtEdge, SentArmed, ReadArmed
  <1>7. CASE MakesEdge
    <2>1. ~switch /\ ~fc_switch /\ ~fc
      BY <1>7 DEF MakesEdge, Waits, HighIsHigh, LowIsSeen
    <2>2. EdgeInv'
      BY <1>1, <1>2, <1>3, <1>7, <2>1
      DEF MakesEdge, RetryLeft, LowIsSeen, Waits, ArmsByEdge, AtEdge, AfterEdge
    <2>3. air # "armed"
      BY <1>7, SwitchConstants DEF MakesEdge, OldInLow
    <2>4. FrameInv'
      BY <1>1, <1>2, <1>3, <1>7, <2>1, <2>3, SwitchConstants
      DEF MakesEdge, SentDisarmed, ReadDisarmed, OldInLow, OldAtEdge,
          SentArmed, ReadArmed, Waits
    <2> QED
      BY <1>1, <2>2, <2>4
  <1> QED
    BY <1>4, <1>5, <1>6, <1>7, TimerMoves

-----------------------------------------------------------------------------
LEMMA TickInv ==
  ASSUME SwitchInv, SwitchTick
  PROVE  SwitchInv'
  <1> USE DEF SwitchInv, SwitchTypeOK, EdgeInv, FrameInv
  <1>1. /\ since' = Capped(since, ConfirmMax)
        /\ silent' = Capped(silent, Silence + 1)
        /\ mode_age' = Capped(mode_age, ModeFresh + 1)
        /\ air' = (IF air_age < Delay THEN air ELSE "none")
        /\ air_age' = (IF air # "none" /\ air_age < Delay THEN air_age + 1 ELSE 0)
        /\ due' = TRUE /\ fc_switch' = switch
        /\ UNCHANGED <<want, phase, tries, mode, mode_edge, switch, state>>
    BY DEF SwitchTick, FcSees, outVars
  <1>2. /\ since' \in 0 .. ConfirmMax /\ silent' \in 0 .. Silence + 1
        /\ mode_age' \in 0 .. ModeFresh + 1 /\ air_age' \in 0 .. Delay
        /\ since' >= since
        /\ since' = since + 1 \/ (since' = since /\ since = ConfirmMax)
    BY <1>1, SwitchConstants DEF Capped
  <1>3. \/ ~switch /\ ~fc' /\ answer' = answer
        \/ switch /\ ~fc_switch /\ fc' /\ answer' = "armed"
        \/ switch /\ ~fc_switch /\ ~fc' /\ answer' = "refused"
        \/ switch /\ fc_switch /\ (fc' <=> fc) /\ answer' = answer
    BY DEF SwitchTick, FcSees
  <1>4. fc' \in BOOLEAN /\ fc_switch' \in BOOLEAN
    BY Zenon DEF SwitchTick, FcSees
  <1>5. SwitchTypeOK'
    <2>1. air' \in Frames /\ answer' \in {"none", "armed", "refused"}
      BY <1>1, <1>3 DEF Frames
    <2> QED
      BY <1>1, <1>2, <1>4, <2>1
  <1>6. since' >= 1
    BY <1>2, SwitchConstants, SwitchAssumption
  <1>7. EdgeInv'
    BY <1>1, <1>2, <1>3, <1>6
    DEF HighIsHigh, RetryLeft, LowIsSeen, Waits, ArmsByEdge, AtEdge, AfterEdge
  <1>8. SentDisarmed'
    <2> SUFFICES ASSUME switch, air' = "disarmed", since' > air_age'
                 PROVE  ~fc'
      BY <1>1 DEF SentDisarmed
    <2>1. air = "disarmed" /\ air_age < Delay /\ air_age' = air_age + 1
      BY <1>1
    <2>2. since > air_age
      BY <1>2, <2>1, SwitchConstants, SwitchAssumption
    <2>3. ~fc /\ fc_switch
      BY <2>1, <2>2 DEF SentDisarmed, AfterEdge
    <2> QED
      BY <1>3, <2>3
  <1>9. ReadDisarmed' /\ ReadArmed'
    BY <1>1, <1>2, <1>3 DEF ReadDisarmed, ReadArmed, AtEdge, AfterEdge
  <1>10. OldInLow'
    BY <1>1, <1>2 DEF OldInLow, Waits
  <1>11. OldAtEdge'
    BY <1>6 DEF OldAtEdge
  <1>12. SentArmed'
    <2> SUFFICES ASSUME switch, air' = "armed" PROVE answer' = "armed"
      BY <1>1 DEF SentArmed
    <2>1. air = "armed" /\ air_age < Delay
      BY <1>1
    <2>2. since >= 1
      BY <2>1, SwitchConstants DEF OldAtEdge
    <2> QED
      BY <1>3, <2>1, <2>2 DEF SentArmed, AfterEdge
  <1> QED
    BY <1>5, <1>7, <1>8, <1>9, <1>10, <1>11, <1>12

LEMMA SwitchStepInv == SwitchInv /\ [SwitchNext]_switchVars => SwitchInv'
  <1> SUFFICES ASSUME SwitchInv, [SwitchNext]_switchVars PROVE SwitchInv'
    OBVIOUS
  <1> USE DEF SwitchInv, SwitchTypeOK, EdgeInv, FrameInv
  <1>1. ASSUME NEW b \in BOOLEAN, Hear(b) PROVE SwitchInv'
    BY <1>1, SwitchConstants
    DEF Hear, attemptVars, modeVars, outVars, fcVars, airVars, HighIsHigh,
        RetryLeft, LowIsSeen, Waits, ArmsByEdge, AtEdge, AfterEdge,
        SentDisarmed, ReadDisarmed, OldInLow, OldAtEdge, SentArmed, ReadArmed
  <1>2. CASE FrameArrives
    <2>1. /\ air # "none" /\ mode' = air /\ mode_age' = 0 /\ mode_edge' = When
          /\ air' = "none" /\ air_age' = 0
          /\ UNCHANGED <<want, silent, phase, since, tries, switch, state, due,
                         fc, fc_switch, answer>>
      BY <1>2 DEF FrameArrives, cmdVars, attemptVars, outVars, fcVars
    <2>2. /\ mode_edge' = "settled" => since >= EdgeSettle /\ since # 0
          /\ mode_edge' \in {"before", "early", "settled"}
      BY <2>1, SwitchConstants, SwitchAssumption DEF When
    <2>3. SwitchTypeOK'
      BY <2>1, <2>2, SwitchConstants DEF Frames
    <2>4. EdgeInv'
      BY <2>1, <2>2 DEF HighIsHigh, RetryLeft, LowIsSeen, Waits, ArmsByEdge,
         AtEdge, AfterEdge
    <2>5. ReadDisarmed'
      <3>1. since >= EdgeSettle => since > air_age
        BY SwitchConstants, SwitchAssumption
      <3> QED
        BY <2>1, <2>2, <3>1 DEF ReadDisarmed, SentDisarmed
    <2>6. ReadArmed'
      BY <2>1, <2>2 DEF ReadArmed, SentArmed, OldAtEdge
    <2>7. SentDisarmed' /\ OldInLow' /\ OldAtEdge' /\ SentArmed'
      BY <2>1 DEF SentDisarmed, OldInLow, OldAtEdge, SentArmed
    <2> QED
      BY <2>3, <2>4, <2>5, <2>6, <2>7
  <1>3. CASE FrameSent
    <2>1. /\ air' = (IF fc THEN "armed" ELSE "disarmed") /\ air_age' = 0
          /\ UNCHANGED <<want, silent, phase, since, tries, mode, mode_age,
                         mode_edge, switch, state, due, fc, fc_switch, answer>>
      BY <1>3 DEF FrameSent, cmdVars, attemptVars, modeVars, outVars, fcVars
    <2>2. SwitchTypeOK'
      BY <2>1, SwitchConstants DEF Frames
    <2>3. EdgeInv' /\ ReadDisarmed' /\ ReadArmed'
      BY <2>1 DEF HighIsHigh, RetryLeft, LowIsSeen, Waits, ArmsByEdge,
         AtEdge, AfterEdge, ReadDisarmed, ReadArmed
    <2>4. SentDisarmed' /\ OldInLow' /\ OldAtEdge' /\ SentArmed'
      BY <2>1 DEF SentDisarmed, OldInLow, OldAtEdge, SentArmed, Waits,
         LowIsSeen, ArmsByEdge, AtEdge
    <2> QED
      BY <2>2, <2>3, <2>4
  <1>4. CASE FcDisarms
    BY <1>4
    DEF FcDisarms, cmdVars, attemptVars, modeVars, outVars, airVars, HighIsHigh,
        RetryLeft, LowIsSeen, Waits, ArmsByEdge, AtEdge, AfterEdge,
        SentDisarmed, ReadDisarmed, OldInLow, OldAtEdge, SentArmed, ReadArmed
  <1>5. CASE UNCHANGED switchVars
    BY <1>5
    DEF switchVars, cmdVars, attemptVars, modeVars, outVars, fcVars, airVars,
        HighIsHigh, RetryLeft, LowIsSeen, Waits, ArmsByEdge, AtEdge, AfterEdge,
        SentDisarmed, ReadDisarmed, OldInLow, OldAtEdge, SentArmed, ReadArmed
  <1> QED
    BY <1>1, <1>2, <1>3, <1>4, <1>5, TimerInv, TickInv DEF SwitchNext

-----------------------------------------------------------------------------
(* The radio's and the FC's state keep their types.                        *)
THEOREM SwitchTypeCorrect == SwitchSpec => []SwitchTypeOK
  <1>1. SwitchInv => SwitchTypeOK
    BY DEF SwitchInv
  <1> QED
    BY SwitchInitInv, SwitchStepInv, <1>1, PTL DEF SwitchSpec

(* The FC has answered every edge a tick after it.                         *)
THEOREM EdgesAreSeen == SwitchSpec => []EdgeIsSeen
  <1>1. SwitchInv => EdgeIsSeen
    BY DEF SwitchInv, EdgeInv, HighIsHigh, AfterEdge, EdgeIsSeen
  <1> QED
    BY SwitchInitInv, SwitchStepInv, <1>1, PTL DEF SwitchSpec

(* Only the radio's timer moves the switch or the attempt.                 *)
LEMMA OnlyTheTimer ==
  ASSUME [SwitchNext]_switchVars, ~Timer
  PROVE  switch' = switch /\ phase' = phase
  BY DEF SwitchNext, Hear, SwitchTick, FrameArrives, FrameSent, FcDisarms,
     switchVars, attemptVars, outVars

(* Whatever the FC's frames say and however late they are, the switch does *)
(* not fall under an armed FC while arming is wanted.                      *)
THEOREM ArmedIsNeverDropped == SwitchSpec => NeverDropsArmed
  <1>1. SwitchInv /\ [SwitchNext]_switchVars
          => [switch /\ ~switch' => ~want' \/ ~fc]_switchVars
    BY TimerMoves, OnlyTheTimer
  <1> QED
    BY SwitchInitInv, SwitchStepInv, <1>1, PTL DEF SwitchSpec, NeverDropsArmed

(* A confirmed arm is of its own attempt.                                  *)
THEOREM ConfirmedIsArmed == SwitchSpec => ArmedIsTrue
  <1>1. SwitchInv /\ [SwitchNext]_switchVars
          => [phase' = "armed" /\ phase # "armed" => answer = "armed"]_switchVars
    BY TimerMoves, OnlyTheTimer
  <1> QED
    BY SwitchInitInv, SwitchStepInv, <1>1, PTL DEF SwitchSpec, ArmedIsTrue
=============================================================================
