----------------------------- MODULE CoilProofs -----------------------------
(***************************************************************************)
(* What the coil keeps for every set of launches and any number of         *)
(* restarts of the gate in any phase of his: the types, and that neither   *)
(* his puck nor our proven weld is dropped, save as PuckHeld and WeldHolds *)
(* say of a gate of a welded start that has restarted.                     *)
(***************************************************************************)
EXTENDS CoilSystem, TLAPS

(* The inductive invariant, in two parts.  Before his rejoin no ON of ours *)
(* is about, and the coil reads ours only until the one release, unless    *)
(* the gate of a welded start has restarted.                               *)
His == {"pickup", "carry", "drop", "rejoin"}
NoSpanYet == his # "rejoin" => span = "none" /\ word # "ON"
OnSince == magnet_on => start_weld \/ his = "rejoin"
LeftTheRing ==
  /\ his # "before" \/ release_sent => stage \in {"pending", "folded"}
  /\ stage \in {"pending", "folded"} \/ source = "partner" => ~start_weld
OneRelease ==
  /\ start_weld \/ gate_pending => launch.start_ours
  /\ gate_pending => source = "ours"
OursByStart ==
  ~WeldedRestart =>
    /\ his \in His => ~gate_pending
    /\ his # "rejoin" /\ (source = "ours" \/ state_pub = "ours") => gate_pending
    /\ launch.start_ours /\ restoring => state_pub # "ours"
DropHeard == gate_dropped => his \in {"drop", "rejoin"}

PuckInv ==
  NoSpanYet /\ OnSince /\ LeftTheRing /\ OneRelease /\ OursByStart /\ DropHeard

(* From the contact on his coil is empty and our word is ON; once the gate *)
(* has heard it, the coil is ours, also in a restart's restore time, that  *)
(* of a welded start's gate excepted.                                      *)
Touched == proof \in {"prove", "attached"}
ProofIsOn == proof # "off" => magnet_on
EmptyAtContact == Touched => his = "rejoin" /\ ~puck /\ ~puck_now
HeardIsOurs ==
  Touched /\ beat /\ ~launch.dry /\ ~WeldedRestart =>
    source # "partner" /\ (restoring => source = "cut" \/ last = "ON")
AttachIsHeard == proof = "attached" => ~launch.dry /\ (beat \/ restoring)
WeldIsProven ==
  weld_said \/ stage = "folded" => proof = "attached" \/ mgr_cut \/ plan_dropped
DropIsPlanned == mgr_dropped => plan_dropped

DryIsOff == launch.dry => coil = "OFF" /\ ~restoring

WeldInv ==
  /\ ProofIsOn /\ EmptyAtContact /\ HeardIsOurs /\ AttachIsHeard
  /\ WeldIsProven /\ DropIsPlanned /\ DryIsOff

CoilInv == CoilTypeOK /\ PuckInv /\ WeldInv

-----------------------------------------------------------------------------
LEMMA LaunchTyped ==
  ASSUME launch \in Launches
  PROVE  /\ launch.start_ours \in BOOLEAN /\ launch.dry \in BOOLEAN
         /\ launch.cut \in BOOLEAN
  BY LaunchAssumption DEF LaunchFields

(* The types, one group of actions at a time.                              *)
LEMMA CoilInitType == CoilInit => CoilTypeOK
  <1> SUFFICES ASSUME CoilInit PROVE CoilTypeOK
    OBVIOUS
  <1>1. launch.start_ours \in BOOLEAN /\ launch.dry \in BOOLEAN
    BY LaunchTyped DEF CoilInit
  <1>2. GateTypeOK
    BY <1>1 DEF CoilInit, GateInit, GateTypeOK, Sources, Words, PhaseClasses
  <1>3. MgrTypeOK
    BY <1>1 DEF CoilInit, MgrInit, MgrTypeOK, ProofStates
  <1>4. 0 \in 0 .. MaxRestarts
    BY CoilAssumption
  <1> QED
    BY <1>1, <1>2, <1>3, <1>4
       DEF CoilInit, CoilTypeOK, Stages, Words, Authorities, Streams, HisPhases

(* What a step of each part leaves alone, variable by variable.            *)
MgrSame ==
  /\ magnet_on' = magnet_on /\ proof' = proof /\ start_weld' = start_weld
  /\ mgr_cut' = mgr_cut /\ mgr_dropped' = mgr_dropped
  /\ handover_blocked' = handover_blocked
GateSame ==
  /\ source' = source /\ gate_pending' = gate_pending /\ last' = last
  /\ phase' = phase /\ puck_now' = puck_now /\ puck_ever' = puck_ever
  /\ gate_dropped' = gate_dropped /\ restoring' = restoring
  /\ state_pub' = state_pub /\ coil' = coil
PlanSame ==
  /\ stage' = stage /\ span' = span /\ word' = word
  /\ plan_taken' = plan_taken /\ tilt_out' = tilt_out
  /\ plan_dropped' = plan_dropped
HisSame == his' = his /\ puck' = puck

LEMMA GateFrame ==
  ASSUME GateStep
  PROVE  /\ launch' = launch /\ MgrSame /\ PlanSame /\ HisSame
         /\ release_said' = release_said /\ weld_said' = weld_said
         /\ mux_state' = mux_state
  <1>1. UNCHANGED othersOfGate
    BY DEF GateStep, GateHearsHim, GateHearsUs, GateHearsPhase, GateHearsPuck,
       GateHearsRelease, GateHearsMux, GateHearsItself, GateEnds, GateDies
  <1>2. launch' = launch
    BY DEF GateStep, GateHearsHim, GateHearsUs, GateHearsPhase, GateHearsPuck,
       GateHearsRelease, GateHearsMux, GateHearsItself, GateEnds, GateDies,
       GatePartner, GateOurs, GatePhase, GatePuck, GateRelease, GateCut,
       GateRestore, GateEndRestore, GateRestart
  <1> QED
    BY <1>1, <1>2 DEF othersOfGate, mgrVars, planVars, hisVars, MgrSame,
       PlanSame, HisSame

LEMMA MgrFrame ==
  ASSUME MgrStep
  PROVE  /\ launch' = launch /\ GateSame /\ PlanSame /\ HisSame
         /\ release_sent' = release_sent /\ release_said' = release_said
         /\ mux_state' = mux_state /\ restarts' = restarts
  <1>1. UNCHANGED othersOfMgr
    BY DEF MgrStep, MgrHearsOn, MgrHearsOff, MgrContact, MgrProofFails,
       MgrProven, MgrHearsCut, MgrHearsDrop, MgrHearsBlock
  <1>2. launch' = launch
    BY DEF MgrStep, MgrHearsOn, MgrHearsOff, MgrContact, MgrProofFails,
       MgrProven, MgrHearsCut, MgrHearsDrop, MgrHearsBlock, MagnetOn,
       MagnetOff, Contact, ProofFails, Proven, MgrCut, MgrDropped, MgrBlocked
  <1> QED
    BY <1>1, <1>2 DEF othersOfMgr, gateVars, sourceVars, puckVars, planVars,
       hisVars, GateSame, PlanSame, HisSame

LEMMA PlanFrame ==
  ASSUME PlanStep
  PROVE  /\ launch' = launch /\ GateSame /\ MgrSame /\ HisSame
         /\ mux_state' = mux_state /\ beat' = beat /\ restarts' = restarts
  <1>1. UNCHANGED othersOfPlan
    BY DEF PlanStep, PlanDetach, PlanRelease, PlanAnnounce, PlanSpan,
       PlanTakeBack, PlanHearsWeld, PlanHearsTilt, PlanDrops
  <1> QED
    BY <1>1 DEF othersOfPlan, gateVars, sourceVars, puckVars, mgrVars,
       hisVars, boundVars, GateSame, MgrSame, HisSame

LEMMA OtherFrame ==
  ASSUME MuxMoves \/ HisStep \/ UNCHANGED coilVars
  PROVE  /\ launch' = launch /\ GateSame /\ MgrSame /\ PlanSame
         /\ release_sent' = release_sent /\ release_said' = release_said
         /\ weld_said' = weld_said /\ beat' = beat /\ restarts' = restarts
         /\ HisStep \/ HisSame
  <1> USE DEF gateVars, sourceVars, puckVars, mgrVars, planVars, msgVars,
          hisVars, boundVars, GateSame, MgrSame, PlanSame, HisSame
  <1>1. CASE MuxMoves
    BY <1>1 DEF MuxMoves
  <1>2. CASE HisStep
    <2>1. UNCHANGED othersOfHim
      BY <1>2 DEF HisStep, HisPhase, PuckOn, PuckFalls
    <2> QED
      BY <1>2, <2>1 DEF othersOfHim
  <1>3. CASE UNCHANGED coilVars
    BY <1>3 DEF coilVars
  <1> QED
    BY <1>1, <1>2, <1>3

LEMMA GateStepType ==
  ASSUME CoilTypeOK, GateStep
  PROVE  CoilTypeOK'
  <1> USE DEF GateTypeOK, Sources, Words, PhaseClasses
  <1>1. GateTypeOK /\ launch.start_ours \in BOOLEAN /\ launch.dry \in BOOLEAN
    BY LaunchTyped DEF CoilTypeOK
  <1>2. GateTypeOK'
    <2>1. ASSUME NEW w \in Words, GateHearsHim(w) PROVE GateTypeOK'
      BY <1>1, <2>1 DEF GateHearsHim, GatePartner, DryDrop, Forward, puckVars
    <2>2. CASE GateHearsUs
      BY <1>1, <2>2 DEF GateHearsUs, GateOurs, DryDrop, Forward, Announced,
         MagnetWord, puckVars
    <2>3. CASE GateHearsPhase
      BY <1>1, <2>3 DEF GateHearsPhase, GatePhase, PhaseClass, sourceVars
    <2>4. CASE GateHearsPuck
      BY <1>1, <2>4 DEF GateHearsPuck, GatePuck, sourceVars, CoilTypeOK
    <2>5. CASE GateHearsRelease
      BY <1>1, <2>5 DEF GateHearsRelease, GateRelease, Announced, puckVars
    <2>6. CASE GateHearsMux
      BY <1>1, <2>6 DEF GateHearsMux, GateCut, puckVars
    <2>7. CASE GateHearsItself
      BY <1>1, <2>7 DEF GateHearsItself, GateRestore, puckVars
    <2>8. CASE GateEnds
      BY <1>1, <2>8 DEF GateEnds, GateEndRestore, sourceVars, puckVars
    <2>9. CASE GateDies
      BY <1>1, <2>9 DEF GateDies, GateRestart
    <2> QED
      BY <2>1, <2>2, <2>3, <2>4, <2>5, <2>6, <2>7, <2>8, <2>9 DEF GateStep
  <1>3. release_sent' \in BOOLEAN /\ beat' \in BOOLEAN
        /\ restarts' \in 0 .. MaxRestarts
    <2>1. /\ release_sent \in BOOLEAN /\ beat \in BOOLEAN
          /\ restarts \in 0 .. MaxRestarts
      BY DEF CoilTypeOK
    <2>2. CASE GateDies
      <3>1. /\ restarts < MaxRestarts /\ restarts' = restarts + 1
            /\ beat' = FALSE /\ release_sent' = FALSE
        BY <2>2 DEF GateDies
      <3>2. MaxRestarts \in Nat
        BY CoilAssumption
      <3>3. restarts' \in 0 .. MaxRestarts
        BY <2>1, <3>1, <3>2
      <3> QED
        BY <3>1, <3>3
    <2>3. CASE ~GateDies
      <3>1. restarts' = restarts
        BY <2>3 DEF GateStep, GateHearsHim, GateHearsUs, GateHearsPhase,
           GateHearsPuck, GateHearsRelease, GateHearsMux, GateHearsItself,
           GateEnds, boundVars
      <3>2. release_sent' \in BOOLEAN /\ beat' \in BOOLEAN
        BY <2>1, <2>3 DEF GateStep, GateHearsHim, GateHearsUs, GateHearsPhase,
           GateHearsPuck, GateHearsRelease, GateHearsMux, GateHearsItself,
           GateEnds, boundVars
      <3> QED
        BY <2>1, <3>1, <3>2
    <2> QED
      BY <2>2, <2>3
  <1> QED
    BY <1>2, <1>3, GateFrame
       DEF CoilTypeOK, MgrTypeOK, MgrSame, PlanSame, HisSame

LEMMA MgrStepType ==
  ASSUME CoilTypeOK, MgrStep
  PROVE  CoilTypeOK'
  <1>1. MgrTypeOK /\ weld_said \in BOOLEAN /\ beat \in BOOLEAN
    BY DEF CoilTypeOK
  <1>2. MgrTypeOK' /\ weld_said' \in BOOLEAN /\ beat' \in BOOLEAN
    BY <1>1 DEF MgrTypeOK, ProofStates, MgrStep, MgrHearsOn, MagnetOn,
       MgrHearsOff, MagnetOff, MgrContact, Contact, MgrProofFails, ProofFails,
       MgrProven, Proven, MgrHearsCut, MgrCut, MgrHearsDrop, MgrDropped, LetGo,
       MgrHearsBlock, MgrBlocked
  <1> QED
    BY <1>2, MgrFrame DEF CoilTypeOK, GateTypeOK, GateSame, PlanSame, HisSame

LEMMA PlanStepType ==
  ASSUME CoilTypeOK, PlanStep
  PROVE  CoilTypeOK'
  <1> DEFINE
    PlanTyped ==
      /\ stage \in Stages
      /\ span \in Words \cup {"none"} /\ word \in Words \cup {"none"}
      /\ plan_taken \in BOOLEAN /\ tilt_out \in BOOLEAN
      /\ plan_dropped \in BOOLEAN
      /\ release_sent \in BOOLEAN /\ release_said \in BOOLEAN
      /\ weld_said \in BOOLEAN
  <1>1. PlanTyped
    BY DEF CoilTypeOK
  <1>2. PlanTyped'
    <2> USE <1>1 DEF Stages, Words, planVars, msgVars, OffOnceOurs
    <2>1. CASE PlanDetach \/ PlanRelease \/ PlanAnnounce
      BY <2>1 DEF PlanDetach, PlanRelease, PlanAnnounce
    <2>2. CASE PlanSpan
      BY <2>2 DEF PlanSpan
    <2>3. CASE PlanTakeBack
      BY <2>3 DEF PlanTakeBack
    <2>4. CASE PlanHearsWeld
      BY <2>4 DEF PlanHearsWeld
    <2>5. CASE PlanHearsTilt \/ PlanDrops
      BY <2>5 DEF PlanHearsTilt, PlanDrops
    <2> QED
      BY <2>1, <2>2, <2>3, <2>4, <2>5 DEF PlanStep
  <1> QED
    BY <1>2, PlanFrame DEF CoilTypeOK, GateTypeOK, MgrTypeOK, GateSame,
       MgrSame, HisSame

LEMMA OtherStepType ==
  ASSUME CoilTypeOK, MuxMoves \/ HisStep \/ UNCHANGED coilVars
  PROVE  CoilTypeOK'
  <1>1. his' \in HisPhases /\ puck' \in BOOLEAN
    <2>1. his \in HisPhases /\ puck \in BOOLEAN
      BY DEF CoilTypeOK
    <2>2. CASE HisPhase
      BY <2>1, <2>2 DEF HisPhase, HisNext, HisPhases
    <2>3. CASE PuckOn \/ PuckFalls
      BY <2>1, <2>3 DEF PuckOn, PuckFalls
    <2> QED
      BY <2>1, <2>2, <2>3, OtherFrame DEF HisStep, HisSame
  <1>2. mux_state' \in Authorities
    BY DEF MuxMoves, HisStep, HisPhase, PuckOn, PuckFalls, othersOfHim,
       coilVars, CoilTypeOK
  <1> QED
    BY <1>1, <1>2, OtherFrame
       DEF CoilTypeOK, GateTypeOK, MgrTypeOK, GateSame, MgrSame, PlanSame

LEMMA CoilStepType == CoilTypeOK /\ [CoilNext]_coilVars => CoilTypeOK'
  BY GateStepType, MgrStepType, PlanStepType, OtherStepType DEF CoilNext

(* Every variable of the coil's modules keeps its type: the gate's, the    *)
(* manager's, the planner's part and the partner's mission.                *)
THEOREM CoilTypeCorrect == CoilSpec => []CoilTypeOK
  BY CoilInitType, CoilStepType, PTL DEF CoilSpec

-----------------------------------------------------------------------------
LEMMA CoilInitInv == CoilInit => PuckInv /\ WeldInv
  <1> SUFFICES ASSUME CoilInit PROVE PuckInv /\ WeldInv
    OBVIOUS
  <1>1. launch.start_ours \in BOOLEAN /\ launch.dry \in BOOLEAN
    BY LaunchTyped DEF CoilInit
  <1> QED
    BY <1>1 DEF CoilInit, GateInit, MgrInit, PuckInv, NoSpanYet, OnSince,
       LeftTheRing, OneRelease, His, OursByStart, DropHeard, WeldInv, ProofIsOn,
       Touched, EmptyAtContact, HeardIsOurs, AttachIsHeard, WeldIsProven,
       DropIsPlanned, DryIsOff

(* A restart is not forgotten, and one of a welded start is seen at once.  *)
LEMMA RestartStays ==
  ASSUME CoilTypeOK, GateStep
  PROVE  /\ WeldedRestart => WeldedRestart'
         /\ GateDies => (launch.start_ours => WeldedRestart')
  <1>1. launch' = launch /\ restarts \in Nat
    BY GateFrame, CoilAssumption DEF CoilTypeOK
  <1>2. CASE GateDies
    BY <1>1, <1>2 DEF GateDies, WeldedRestart
  <1>3. CASE ~GateDies
    <2>1. restarts' = restarts
      BY <1>3 DEF GateStep, GateHearsHim, GateHearsUs, GateHearsPhase,
         GateHearsPuck, GateHearsRelease, GateHearsMux, GateHearsItself,
         GateEnds, boundVars
    <2> QED
      BY <1>1, <1>3, <2>1 DEF WeldedRestart
  <1> QED
    BY <1>2, <1>3

LEMMA GateStepPuck ==
  ASSUME CoilInv, GateStep
  PROVE  PuckInv'
  <1> USE DEF PuckInv, NoSpanYet, OnSince, LeftTheRing, OneRelease, His,
          OursByStart, DropHeard, MgrSame, PlanSame, HisSame
  <1>1. CoilTypeOK /\ PuckInv /\ WeldInv
    BY DEF CoilInv
  <1>2. /\ launch' = launch /\ MgrSame /\ PlanSame /\ HisSame
    BY GateFrame
  <1>3. launch.start_ours \in BOOLEAN /\ launch.dry \in BOOLEAN
    BY LaunchTyped, <1>1 DEF CoilTypeOK
  <1>r. /\ WeldedRestart => WeldedRestart'
        /\ GateDies => (launch.start_ours => WeldedRestart')
    BY RestartStays, <1>1
  <1>4. CASE \E w \in Words : GateHearsHim(w)
    BY <1>1, <1>2, <1>3, <1>r, <1>4
       DEF GateHearsHim, GatePartner, DryDrop, puckVars
  <1>5. CASE GateHearsUs
    BY <1>1, <1>2, <1>3, <1>r, <1>5
       DEF GateHearsUs, GateOurs, OursPasses, Announced,
       DryDrop, puckVars, MagnetWord
  <1>6. CASE GateHearsPhase
    BY <1>1, <1>2, <1>3, <1>r, <1>6 DEF GateHearsPhase, GatePhase, PhaseClass,
       sourceVars
  <1>7. CASE GateHearsPuck
    BY <1>1, <1>2, <1>3, <1>r, <1>7 DEF GateHearsPuck, GatePuck, sourceVars
  <1>8. CASE GateHearsRelease
    BY <1>1, <1>2, <1>3, <1>r, <1>8
       DEF GateHearsRelease, GateRelease, Announced,
       puckVars
  <1>9. CASE GateHearsMux
    BY <1>1, <1>2, <1>3, <1>r, <1>9 DEF GateHearsMux, GateCut, puckVars
  <1>10. CASE GateHearsItself
    BY <1>1, <1>2, <1>3, <1>r, <1>10 DEF GateHearsItself, GateRestore, puckVars
  <1>11. CASE GateEnds
    BY <1>1, <1>2, <1>3, <1>r, <1>11
       DEF GateEnds, GateEndRestore, sourceVars, puckVars
  <1>12. CASE GateDies
    BY <1>1, <1>2, <1>3, <1>r, <1>12 DEF GateDies, GateRestart
  <1> QED
    BY <1>4, <1>5, <1>6, <1>7, <1>8, <1>9, <1>10, <1>11, <1>12 DEF GateStep

LEMMA GateStepWeld ==
  ASSUME CoilInv, GateStep
  PROVE  WeldInv'
  <1> USE DEF WeldInv, ProofIsOn, Touched, EmptyAtContact, HeardIsOurs,
          AttachIsHeard, WeldIsProven, DropIsPlanned, DryIsOff, MgrSame,
          PlanSame, HisSame
  <1>1. CoilTypeOK /\ PuckInv /\ WeldInv
    BY DEF CoilInv
  <1>2. /\ launch' = launch /\ MgrSame /\ PlanSame /\ HisSame
        /\ weld_said' = weld_said
    BY GateFrame
  <1>3. launch.start_ours \in BOOLEAN /\ launch.dry \in BOOLEAN
    BY LaunchTyped, <1>1 DEF CoilTypeOK
  <1>r. /\ WeldedRestart => WeldedRestart'
        /\ GateDies => (launch.start_ours => WeldedRestart')
    BY RestartStays, <1>1
  <1>4. CASE \E w \in Words : GateHearsHim(w)
    BY <1>1, <1>2, <1>3, <1>r, <1>4
       DEF GateHearsHim, GatePartner, DryDrop, Forward,
       puckVars, boundVars
  <1>5. CASE GateHearsUs
    BY <1>1, <1>2, <1>3, <1>r, <1>5
       DEF GateHearsUs, GateOurs, OursPasses, Forward,
       DryDrop, puckVars, MagnetWord, CoilTypeOK, GateTypeOK, Sources
  <1>6. CASE GateHearsPhase
    BY <1>1, <1>2, <1>3, <1>r, <1>6
       DEF GateHearsPhase, GatePhase, sourceVars, boundVars
  <1>7. CASE GateHearsPuck
    BY <1>1, <1>2, <1>3, <1>r, <1>7
       DEF GateHearsPuck, GatePuck, sourceVars, boundVars
  <1>8. CASE GateHearsRelease
    BY <1>1, <1>2, <1>3, <1>r, <1>8 DEF GateHearsRelease, GateRelease, puckVars,
       boundVars, PuckInv, OneRelease, OursByStart, His
  <1>9. CASE GateHearsMux
    BY <1>1, <1>2, <1>3, <1>r, <1>9
       DEF GateHearsMux, GateCut, puckVars, boundVars
  <1>10. CASE GateHearsItself
    BY <1>1, <1>2, <1>3, <1>r, <1>10 DEF GateHearsItself, GateRestore, puckVars,
       boundVars
  <1>11. CASE GateEnds
    BY <1>1, <1>2, <1>3, <1>r, <1>11 DEF GateEnds, GateEndRestore, sourceVars,
       puckVars, boundVars
  <1>12. CASE GateDies
    BY <1>1, <1>2, <1>3, <1>r, <1>12 DEF GateDies, GateRestart
  <1> QED
    BY <1>4, <1>5, <1>6, <1>7, <1>8, <1>9, <1>10, <1>11, <1>12 DEF GateStep

LEMMA MgrStepInv ==
  ASSUME CoilInv, MgrStep
  PROVE  PuckInv' /\ WeldInv'
  <1>1. CoilTypeOK /\ PuckInv /\ WeldInv
    BY DEF CoilInv
  <1>2. /\ launch' = launch /\ GateSame /\ PlanSame /\ HisSame
        /\ release_sent' = release_sent /\ (WeldedRestart' <=> WeldedRestart)
    BY MgrFrame DEF WeldedRestart
  <1>3. PuckInv'
    BY <1>1, <1>2 DEF PuckInv, NoSpanYet, OnSince, LeftTheRing, OneRelease,
       His, OursByStart, DropHeard, GateSame, PlanSame, HisSame, MgrStep,
       MgrHearsOn, MagnetOn, MgrHearsOff, MagnetOff, MgrContact, Contact,
       MgrProofFails, ProofFails, MgrProven, Proven, MgrHearsCut, MgrCut,
       MgrHearsDrop, MgrDropped, LetGo, MgrHearsBlock, MgrBlocked
  <1>4. WeldInv'
    <2> USE <1>1, <1>2 DEF WeldInv, ProofIsOn, Touched, EmptyAtContact,
            HeardIsOurs, AttachIsHeard, WeldIsProven, DropIsPlanned, DryIsOff,
            GateSame, PlanSame, HisSame
    <2>1. CASE MgrHearsOn
      BY <2>1 DEF MgrHearsOn, MagnetOn
    <2>2. CASE MgrHearsOff
      BY <2>2 DEF MgrHearsOff, MagnetOff
    <2>3. CASE MgrContact
      BY <2>3 DEF MgrContact, Contact
    <2>4. CASE MgrProofFails
      BY <2>4 DEF MgrProofFails, ProofFails
    <2>5. CASE MgrProven
      BY <2>5 DEF MgrProven, Proven, NoHandover
    <2>6. CASE MgrHearsCut
      BY <2>6 DEF MgrHearsCut, MgrCut, LetGo
    <2>7. CASE MgrHearsDrop
      BY <2>7 DEF MgrHearsDrop, MgrDropped, LetGo
    <2>8. CASE MgrHearsBlock
      BY <2>8 DEF MgrHearsBlock, MgrBlocked
    <2> QED
      BY <2>1, <2>2, <2>3, <2>4, <2>5, <2>6, <2>7, <2>8 DEF MgrStep
  <1> QED
    BY <1>3, <1>4

LEMMA PlanStepInv ==
  ASSUME CoilInv, PlanStep
  PROVE  PuckInv' /\ WeldInv'
  <1>1. CoilTypeOK /\ PuckInv /\ WeldInv
    BY DEF CoilInv
  <1>2. /\ launch' = launch /\ GateSame /\ MgrSame /\ HisSame /\ beat' = beat
        /\ WeldedRestart' <=> WeldedRestart
    BY PlanFrame DEF WeldedRestart
  <1>3. /\ NoSpanYet' /\ LeftTheRing'
        /\ weld_said' \/ stage' = "folded" => weld_said \/ stage = "folded"
        /\ plan_dropped => plan_dropped'
    <2> USE <1>1, <1>2 DEF PuckInv, NoSpanYet, LeftTheRing, planVars, msgVars,
            OffOnceOurs, GateSame, MgrSame, HisSame
    <2>1. CASE PlanDetach \/ PlanRelease
      BY <2>1 DEF PlanDetach, PlanRelease
    <2>2. CASE PlanAnnounce
      BY <2>2 DEF PlanAnnounce
    <2>3. CASE PlanSpan
      BY <2>3 DEF PlanSpan
    <2>4. CASE PlanTakeBack
      BY <2>4 DEF PlanTakeBack
    <2>5. CASE PlanHearsWeld
      BY <2>5 DEF PlanHearsWeld
    <2>6. CASE PlanHearsTilt \/ PlanDrops
      BY <2>6 DEF PlanHearsTilt, PlanDrops
    <2> QED
      BY <2>1, <2>2, <2>3, <2>4, <2>5, <2>6 DEF PlanStep
  <1>4. PuckInv'
    BY <1>1, <1>2, <1>3 DEF PuckInv, OnSince, OneRelease, His, OursByStart,
       DropHeard, GateSame, MgrSame, HisSame
  <1>5. WeldInv'
    BY <1>1, <1>2, <1>3 DEF WeldInv, ProofIsOn, Touched, EmptyAtContact,
       HeardIsOurs, AttachIsHeard, WeldIsProven, DropIsPlanned, DryIsOff,
       GateSame, MgrSame, HisSame
  <1> QED
    BY <1>4, <1>5

LEMMA OtherStepInv ==
  ASSUME CoilInv, MuxMoves \/ HisStep \/ UNCHANGED coilVars
  PROVE  PuckInv' /\ WeldInv'
  <1>1. CoilTypeOK /\ PuckInv /\ WeldInv
    BY DEF CoilInv
  <1>2. /\ launch' = launch /\ GateSame /\ MgrSame /\ PlanSame
        /\ release_sent' = release_sent /\ weld_said' = weld_said
        /\ beat' = beat /\ (WeldedRestart' <=> WeldedRestart)
        /\ HisStep \/ HisSame
    BY OtherFrame DEF WeldedRestart
  <1> USE <1>1, <1>2 DEF PuckInv, NoSpanYet, OnSince, LeftTheRing, OneRelease,
          His, OursByStart, DropHeard, WeldInv, ProofIsOn, Touched,
          EmptyAtContact, HeardIsOurs, AttachIsHeard, WeldIsProven,
          DropIsPlanned, DryIsOff, GateSame, MgrSame, PlanSame, HisSame
  <1>3. CASE HisSame
    BY <1>3
  <1>4. CASE HisPhase
    BY <1>4 DEF HisPhase, HisNext, CoilTypeOK, HisPhases
  <1>5. CASE PuckOn
    BY <1>5 DEF PuckOn
  <1>6. CASE PuckFalls
    BY <1>6 DEF PuckFalls
  <1> QED
    BY <1>3, <1>4, <1>5, <1>6 DEF HisStep

LEMMA CoilStepInv ==
  CoilInv /\ [CoilNext]_coilVars => CoilInv'
  <1> SUFFICES ASSUME CoilInv, [CoilNext]_coilVars PROVE CoilInv'
    OBVIOUS
  <1>1. CoilTypeOK'
    BY CoilStepType DEF CoilInv
  <1>2. PuckInv' /\ WeldInv'
    BY GateStepPuck, GateStepWeld, MgrStepInv, PlanStepInv, OtherStepInv
       DEF CoilNext
  <1> QED
    BY <1>1, <1>2 DEF CoilInv

-----------------------------------------------------------------------------
(* The coil goes OFF only in a step of the gate.                           *)
LEMMA CoilMovesByGate ==
  ASSUME [CoilNext]_coilVars, coil' # coil
  PROVE  GateStep
  BY MgrFrame, PlanFrame, OtherFrame DEF CoilNext, GateSame

LEMMA PuckStep ==
  ASSUME CoilInv, [CoilNext]_coilVars, puck, his = "carry",
         coil = "ON", coil' = "OFF"
  PROVE  \/ source' = "cut" \/ phase \in OffPhases \/ ~puck_ever \/ restoring
         \/ WeldedRestart /\ source = "ours"
  <1> SUFFICES ASSUME ~restoring, puck_ever, phase \notin OffPhases,
                      ~(WeldedRestart /\ source = "ours")
               PROVE  source' = "cut"
    OBVIOUS
  <1>1. CoilTypeOK /\ PuckInv /\ WeldInv
    BY DEF CoilInv
  <1>2. GateStep
    BY CoilMovesByGate
  <1>3. source # "ours" /\ MagnetWord = "OFF" /\ ~gate_dropped /\ ~launch.dry
    BY <1>1 DEF PuckInv, OursByStart, OneRelease, His, OnSince, LeftTheRing,
       DropHeard, WeldInv, DryIsOff, MagnetWord
  <1>4. CASE \E w \in Words : GateHearsHim(w)
    BY <1>3, <1>4
       DEF GateHearsHim, GatePartner, DryDrop, OffHeld, Forward, Words
  <1>5. CASE GateHearsUs
    BY <1>3, <1>5 DEF GateHearsUs, GateOurs, DryDrop, OursPasses
  <1>6. CASE GateHearsPhase \/ GateHearsPuck
    BY <1>6 DEF GateHearsPhase, GatePhase, GateHearsPuck, GatePuck
  <1>7. CASE GateHearsRelease \/ GateHearsItself
    BY <1>7 DEF GateHearsRelease, GateRelease, GateHearsItself, GateRestore
  <1>8. CASE GateHearsMux
    BY <1>8 DEF GateHearsMux, GateCut
  <1>9. CASE GateEnds
    BY <1>9 DEF GateEnds, GateEndRestore
  <1>10. CASE GateDies
    BY <1>3, <1>10 DEF GateDies, GateRestart
  <1> QED
    BY <1>2, <1>4, <1>5, <1>6, <1>7, <1>8, <1>9, <1>10 DEF GateStep

LEMMA WeldStep ==
  ASSUME CoilInv, [CoilNext]_coilVars, proof = "attached" \/ stage = "folded",
         coil = "ON", coil' = "OFF"
  PROVE  \/ source' = "cut" \/ mgr_cut \/ plan_dropped
         \/ WeldedRestart /\ (source = "partner" \/ restoring)
  <1> SUFFICES ASSUME ~mgr_cut, ~plan_dropped,
                      WeldedRestart => source # "partner" /\ ~restoring
               PROVE  source' = "cut"
    OBVIOUS
  <1>1. CoilTypeOK /\ PuckInv /\ WeldInv
    BY DEF CoilInv
  <1>2. GateStep
    BY CoilMovesByGate
  <1>3. /\ proof = "attached" /\ MagnetWord = "ON" /\ ~launch.dry
        /\ beat => /\ source # "partner"
                   /\ restoring => source = "cut" \/ last = "ON"
        /\ beat \/ restoring
    BY <1>1 DEF WeldInv, WeldIsProven, ProofIsOn, Touched, AttachIsHeard,
       HeardIsOurs, MagnetWord
  <1>4. CASE \E w \in Words : GateHearsHim(w)
    BY <1>3, <1>4 DEF GateHearsHim, GatePartner, DryDrop, Forward
  <1>5. CASE GateHearsUs
    BY <1>3, <1>5 DEF GateHearsUs, GateOurs, DryDrop, Forward
  <1>6. CASE GateHearsPhase \/ GateHearsPuck
    BY <1>6 DEF GateHearsPhase, GatePhase, GateHearsPuck, GatePuck
  <1>7. CASE GateHearsRelease \/ GateHearsItself
    BY <1>7 DEF GateHearsRelease, GateRelease, GateHearsItself, GateRestore
  <1>8. CASE GateHearsMux
    BY <1>8 DEF GateHearsMux, GateCut
  <1>9. CASE GateEnds
    BY <1>3, <1>9 DEF GateEnds, GateEndRestore, sourceVars
  <1>10. CASE GateDies
    BY <1>3, <1>10 DEF GateDies, GateRestart
  <1> QED
    BY <1>2, <1>4, <1>5, <1>6, <1>7, <1>8, <1>9, <1>10 DEF GateStep

LEMMA CoilInvHolds == CoilSpec => []CoilInv
  <1>1. CoilInit => CoilInv
    BY CoilInitType, CoilInitInv DEF CoilInv
  <1>2. CoilInv /\ [CoilNext]_coilVars => CoilInv'
    BY CoilStepInv
  <1> QED
    BY <1>1, <1>2, PTL DEF CoilSpec

(* While his puck is carried the coil stays ON, whoever sends what in      *)
(* which order, except for the mux's cut, an OFF in a phase that lets the  *)
(* puck go, the restore time of a gate that just restarted, and a welded   *)
(* start's gate that a restart has made ours.                              *)
THEOREM PuckIsHeld == CoilSpec => PuckHeld
  <1>1. CoilSpec => []CoilInv
    BY CoilInvHolds
  <1>2. CoilInv /\ [CoilNext]_coilVars =>
          [puck /\ his = "carry" /\ coil = "ON" /\ coil' = "OFF" =>
             \/ source' = "cut" \/ phase \in OffPhases \/ ~puck_ever
             \/ restoring
             \/ WeldedRestart /\ source = "ours"]_coilVars
    BY PuckStep
  <1> QED
    BY <1>1, <1>2, PTL DEF CoilSpec, PuckHeld

(* A proven attach, and a drone folded in on it, keeps its coil ON through *)
(* every step but a cut and a drop, a restart of the gate included, save   *)
(* that of a welded start's gate which a repeated release gives to him.    *)
THEOREM WeldIsHeld == CoilSpec => WeldHolds
  <1>1. CoilSpec => []CoilInv
    BY CoilInvHolds
  <1>2. CoilInv /\ [CoilNext]_coilVars =>
          [(proof = "attached" \/ stage = "folded") /\ coil = "ON"
             /\ coil' = "OFF" =>
             \/ source' = "cut" \/ mgr_cut \/ plan_dropped
             \/ WeldedRestart /\ (source = "partner" \/ restoring)]_coilVars
    BY WeldStep
  <1> QED
    BY <1>1, <1>2, PTL DEF CoilSpec, WeldHolds
=============================================================================
