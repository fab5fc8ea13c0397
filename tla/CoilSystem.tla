----------------------------- MODULE CoilSystem -----------------------------
(***************************************************************************)
(* The coil of one drone in a partner_contact launch on the rig, between   *)
(* the partner's puck and our ring: the gate that writes it, our magnet    *)
(* manager that proves the attach, the part of our load planner that       *)
(* releases the drone, begins the magnet span, takes the drone back and    *)
(* folds it in, and the partner's mission.  The mux is what MuxAuthority   *)
(* promises of it: its state moves as HandoverLaunch!MayMove lets it.      *)
(*                                                                         *)
(* A topic that repeats its word (the magnet command, the manager's latch  *)
(* output, his phase, his puck, the mux state) is heard as the sender's    *)
(* present state; what is sent once, or what a later event stops, is a     *)
(* message that waits.                                                     *)
(***************************************************************************)
EXTENDS MagnetGate, MagnetManager, Naturals

CONSTANTS
  MaxRestarts,     \* bound: restarts of the gate in a behaviour
  RestartPhases,   \* bound: his phases in which a launch's gate may restart
  TransitOff       \* his mission may send an OFF (LANDING) in its transit

HisPhases == {"before", "pickup", "carry", "drop", "rejoin"}

ASSUME CoilAssumption ==
  /\ MaxRestarts \in Nat
  /\ RestartPhases \in [Launches -> SUBSET HisPhases]
  /\ TransitOff \in BOOLEAN

VARIABLES
  stage,        \* our planner: where the drone stands with the ring
  span,         \* our ring magnet span, _span_t and _span_word
  word,         \* the last word on /magnet/command
  plan_taken, tilt_out, plan_dropped,
  release_sent, \* a /partner/release is on the way to the gate
  release_said, \* _release_state's 'sent': one has been sent
  weld_said,    \* /magnet/object_attached True is on the way to the planner
  mux_state,    \* the latched /drone_3/mux_state
  his,          \* the partner's mission: his phase
  puck,         \* his puck hangs on the coil
  beat,         \* the gate heard the manager since its start and the contact
  restarts

planVars == <<stage, span, word, plan_taken, tilt_out, plan_dropped>>
msgVars == <<release_sent, release_said, weld_said>>
hisVars == <<his, puck>>
boundVars == <<beat, restarts>>
coilVars == <<launch, gateVars, mgrVars, planVars, msgVars, mux_state,
              hisVars, boundVars>>

Stages == {"ring", "out", "pending", "folded"}
PhaseClass(p) == IF p \in {"pickup", "drop"} THEN p ELSE "other"

CoilTypeOK ==
  /\ launch \in Launches
  /\ GateTypeOK /\ MgrTypeOK
  /\ stage \in Stages
  /\ span \in Words \cup {"none"}
  /\ word \in Words \cup {"none"}
  /\ plan_taken \in BOOLEAN /\ tilt_out \in BOOLEAN /\ plan_dropped \in BOOLEAN
  /\ release_sent \in BOOLEAN /\ release_said \in BOOLEAN
  /\ weld_said \in BOOLEAN
  /\ mux_state \in Authorities
  /\ his \in HisPhases
  /\ puck \in BOOLEAN
  /\ beat \in BOOLEAN
  /\ restarts \in 0 .. MaxRestarts

CoilInit ==
  /\ launch \in Launches
  /\ GateInit /\ MgrInit
  /\ stage = IF launch.start_ours THEN "ring" ELSE "pending"
  /\ span = "none" /\ word = "none"
  /\ plan_taken = FALSE /\ tilt_out = FALSE /\ plan_dropped = FALSE
  /\ release_sent = FALSE /\ release_said = FALSE /\ weld_said = FALSE
  /\ mux_state = IF launch.start_ours THEN "ours" ELSE "partner"
  /\ his = "before" /\ puck = FALSE
  /\ beat = FALSE /\ restarts = 0

-----------------------------------------------------------------------------
(* The mux: to the partner once released, to us after an attach or a       *)
(* take-back, cut and latched by events from elsewhere.                    *)
MuxMoves ==
  /\ \E s \in Authorities :
       /\ MayMove(mux_state, s)
       /\ s = "partner" => launch.start_ours /\ stage = "pending"
                             /\ his = "before" /\ ~plan_taken
       /\ s = "ours" => plan_taken \/ proof = "attached"
       /\ s = "cut" => launch.cut
       /\ mux_state' = s
  /\ UNCHANGED <<launch, gateVars, mgrVars, planVars, msgVars, hisVars,
                 boundVars>>

-----------------------------------------------------------------------------
(* The gate.  His mission may send either word at any time.                *)
othersOfGate == <<mgrVars, planVars, release_said, weld_said, mux_state,
                  hisVars>>

GateHearsHim(w) ==
  /\ w = "OFF" /\ his = "carry" => TransitOff
  /\ GatePartner(w)
  /\ UNCHANGED <<othersOfGate, release_sent, boundVars>>

GateHearsUs ==
  /\ GateOurs(MagnetWord)
  /\ beat' = TRUE
  /\ UNCHANGED <<othersOfGate, release_sent, restarts>>

GateHearsPhase ==
  GatePhase(PhaseClass(his))
    /\ UNCHANGED <<othersOfGate, release_sent, boundVars>>

GateHearsPuck ==
  GatePuck(puck) /\ UNCHANGED <<othersOfGate, release_sent, boundVars>>

GateHearsRelease ==
  /\ release_sent /\ release_sent' = FALSE
  /\ GateRelease
  /\ UNCHANGED <<othersOfGate, boundVars>>

GateHearsMux ==
  /\ launch.cut /\ mux_state = "cut"
  /\ GateCut
  /\ UNCHANGED <<othersOfGate, release_sent, boundVars>>

GateHearsItself ==
  GateRestore /\ UNCHANGED <<othersOfGate, release_sent, boundVars>>

(* The restore time, 1 s, is longer than the period of the manager's word. *)
GateEnds ==
  /\ beat
  /\ GateEndRestore
  /\ UNCHANGED <<othersOfGate, release_sent, boundVars>>

GateDies ==
  /\ his \in RestartPhases[launch] /\ restarts < MaxRestarts
  /\ restarts' = restarts + 1
  /\ GateRestart
  /\ beat' = FALSE /\ release_sent' = FALSE
  /\ UNCHANGED othersOfGate

GateStep ==
  \/ \E w \in Words : GateHearsHim(w)
  \/ GateHearsUs \/ GateHearsPhase \/ GateHearsPuck \/ GateHearsRelease
  \/ GateHearsMux \/ GateHearsItself \/ GateEnds \/ GateDies

-----------------------------------------------------------------------------
(* The manager.                                                            *)
othersOfMgr == <<gateVars, planVars, release_sent, release_said, mux_state,
                 hisVars, restarts>>

MgrHearsOn ==
  /\ word = "ON"
  /\ MagnetOn
  /\ UNCHANGED <<othersOfMgr, weld_said, beat>>

MgrHearsOff ==
  /\ word = "OFF"
  /\ MagnetOff
  /\ UNCHANGED <<othersOfMgr, weld_said, beat>>

(* He descends on the ring with nothing on his coil; the reports of his    *)
(* puck, ten a second, have been heard by then.                            *)
MgrContact ==
  /\ his = "rejoin" /\ stage = "pending" /\ mux_state = "partner"
  /\ ~puck /\ ~puck_now
  /\ Contact
  /\ beat' = FALSE
  /\ UNCHANGED <<othersOfMgr, weld_said>>

MgrProofFails == ProofFails /\ UNCHANGED <<othersOfMgr, weld_said, beat>>

(* The drone lifts the ring only by its coil.  A proof takes longer than   *)
(* the period of the manager's word.                                       *)
MgrProven ==
  /\ beat
  /\ coil = "ON" \/ launch.dry
  /\ Proven
  /\ weld_said' = (weld_said \/ ~NoHandover)
  /\ UNCHANGED <<othersOfMgr, beat>>

MgrHearsCut ==
  /\ launch.cut /\ mux_state = "cut"
  /\ MgrCut
  /\ UNCHANGED <<othersOfMgr, weld_said, beat>>

MgrHearsDrop ==
  /\ plan_dropped
  /\ MgrDropped
  /\ UNCHANGED <<othersOfMgr, weld_said, beat>>

(* The planner saw our tracker latch while the partner flies the drone.    *)
MgrHearsBlock ==
  /\ launch.cut /\ mux_state = "partner" /\ ~tilt_out
  /\ MgrBlocked
  /\ UNCHANGED <<othersOfMgr, weld_said, beat>>

MgrStep ==
  \/ MgrHearsOn \/ MgrHearsOff \/ MgrContact \/ MgrProofFails \/ MgrProven
  \/ MgrHearsCut \/ MgrHearsDrop \/ MgrHearsBlock

-----------------------------------------------------------------------------
(* Our planner.                                                            *)
othersOfPlan == <<launch, gateVars, mgrVars, mux_state, hisVars, boundVars>>

(* The welded start leaves the ring: the manager lets it go on an OFF.     *)
PlanDetach ==
  /\ stage = "ring" /\ ~plan_dropped
  /\ stage' = "out" /\ word' = "OFF"
  /\ UNCHANGED <<othersOfPlan, span, plan_taken, tilt_out, plan_dropped,
                 msgVars>>

(* It has stepped out and was still there for two seconds: it is released  *)
(* to his mission.  The manager has heard the detach's OFF by then.        *)
PlanRelease ==
  /\ stage = "out" /\ ~start_weld /\ ~tilt_out /\ ~plan_dropped
  /\ stage' = "pending"
  /\ UNCHANGED <<othersOfPlan, span, word, plan_taken, tilt_out, plan_dropped,
                 msgVars>>

(* Mutant: announced once.                                                 *)
PlanAnnounceOnce ==
  /\ launch.start_ours /\ stage \in {"pending", "folded"}
  /\ ~tilt_out /\ ~plan_taken /\ ~release_said
  /\ release_sent' = TRUE /\ release_said' = TRUE
  /\ UNCHANGED <<othersOfPlan, planVars, weld_said>>

(* Announced once a second, to the end of the flight or a take-back.       *)
PlanAnnounce ==
  /\ launch.start_ours /\ stage \in {"pending", "folded"}
  /\ ~tilt_out /\ ~plan_taken
  /\ release_sent' = TRUE /\ release_said' = TRUE
  /\ UNCHANGED <<othersOfPlan, planVars, weld_said>>

(* Our span, from his rejoin on and with his puck reading released: ON;    *)
(* OFF while he climbs back from a descent, ON again for the next one.     *)
PlanSpan ==
  /\ stage = "pending" /\ ~plan_taken /\ ~tilt_out
  /\ his = "rejoin"
  /\ \/ /\ span = "none" /\ ~puck /\ ~plan_dropped
        /\ span' = "ON"
     \/ /\ span = "ON" /\ span' = "OFF"
     \/ /\ span = "OFF" /\ span' = "ON"
  /\ word' = span'
  /\ UNCHANGED <<othersOfPlan, stage, plan_taken, tilt_out, plan_dropped,
                 msgVars>>

(* The ring magnet OFF only once our span has begun: the one coil held his *)
(* puck before it.                                                         *)
OffOnceOurs == IF span # "none" THEN "OFF" ELSE word

(* His give-up, our LAND or our drop: the drone comes to our tracker.      *)
PlanTakeBack ==
  /\ stage = "pending" /\ ~plan_taken
  /\ ~tilt_out /\ mux_state # "cut"
  /\ plan_taken' = TRUE
  /\ word' = OffOnceOurs
  /\ UNCHANGED <<othersOfPlan, stage, span, tilt_out, plan_dropped, msgVars>>

(* The manager says attached: the drone is folded in, unless it is out.    *)
PlanHearsWeld ==
  /\ weld_said /\ weld_said' = FALSE
  /\ IF stage = "pending" /\ ~plan_taken /\ ~tilt_out
       THEN stage' = "folded" /\ word' = word
       ELSE /\ stage' = stage
            /\ word' = IF stage = "pending" THEN OffOnceOurs ELSE word
  /\ UNCHANGED <<othersOfPlan, span, plan_taken, tilt_out, plan_dropped,
                 release_sent, release_said>>

(* A tilt fault of a drone off the load that the partner flies: out of     *)
(* this flight, its ring magnet OFF.                                       *)
PlanHearsTilt ==
  /\ launch.cut /\ mux_state \in {"partner", "cut"}
  /\ stage \in {"out", "pending"} /\ ~tilt_out
  /\ tilt_out' = TRUE /\ word' = "OFF"
  /\ UNCHANGED <<othersOfPlan, stage, span, plan_taken, plan_dropped, msgVars>>

(* The ring is dropped: every magnet OFF.                                  *)
PlanDrops ==
  /\ ~plan_dropped
  /\ plan_dropped' = TRUE /\ word' = "OFF"
  /\ UNCHANGED <<othersOfPlan, stage, span, plan_taken, tilt_out, msgVars>>

PlanStep ==
  \/ PlanDetach \/ PlanRelease \/ PlanAnnounce \/ PlanSpan \/ PlanTakeBack
  \/ PlanHearsWeld \/ PlanHearsTilt \/ PlanDrops

-----------------------------------------------------------------------------
(* The partner's mission: it starts once the drone is his, picks its puck  *)
(* up with the coil ON, carries and drops it, and comes back to the ring.  *)
(* The release starts it, and the gate has heard that by the pickup.       *)
othersOfHim == <<launch, gateVars, mgrVars, planVars, msgVars, mux_state,
                 boundVars>>

HisNext == [before |-> "pickup", pickup |-> "carry", carry |-> "drop",
            drop |-> "rejoin"]

HisPhase ==
  /\ his # "rejoin"
  /\ his = "before" =>
       mux_state = "partner" /\ stage = "pending" /\ ~gate_pending
  /\ his = "pickup" => puck
  /\ his' = HisNext[his]
  /\ UNCHANGED <<othersOfHim, puck>>

PuckOn ==
  /\ his = "pickup" /\ coil = "ON" /\ ~puck
  /\ puck' = TRUE
  /\ UNCHANGED <<othersOfHim, his>>

PuckFalls ==
  /\ puck /\ coil = "OFF"
  /\ puck' = FALSE
  /\ UNCHANGED <<othersOfHim, his>>

HisStep == HisPhase \/ PuckOn \/ PuckFalls

-----------------------------------------------------------------------------
CoilNext == MuxMoves \/ GateStep \/ MgrStep \/ PlanStep \/ HisStep

CoilSpec == CoilInit /\ [][CoilNext]_coilVars

(* The gate and the planner take their messages and their timers fire.     *)
(* Nothing is promised of the operator, the partner's mission, the faults  *)
(* or the proof.                                                           *)
CoilFairness ==
  /\ WF_coilVars(GateHearsUs)
  /\ WF_coilVars(GateHearsRelease)
  /\ WF_coilVars(GateHearsMux)
  /\ WF_coilVars(GateEnds)
  /\ WF_coilVars(PlanAnnounce)

-----------------------------------------------------------------------------
(* A welded launch's gate starts over as ours, with a release to accept,   *)
(* whatever has happened since.                                            *)
WeldedRestart == launch.start_ours /\ restarts > 0

(* His puck is not dropped in his transit: once the gate has heard of it,  *)
(* only the mux's cut takes the coil from ON to OFF in a phase other than  *)
(* his pickup and his drop, unless the gate is just restarted, or is ours  *)
(* by a restart (gate_restart).                                            *)
PuckHeld ==
  [][puck /\ his = "carry" /\ coil = "ON" /\ coil' = "OFF" =>
       \/ source' = "cut" \/ phase \in OffPhases \/ ~puck_ever \/ restoring
       \/ WeldedRestart /\ source = "ours"
    ]_coilVars

(* The same without the excuse of a restart, which the gate's restore time *)
(* is there for.                                                           *)
PuckOutlivesRestart ==
  [][puck /\ his = "carry" /\ coil = "ON" /\ coil' = "OFF" =>
       source' = "cut" \/ phase \in OffPhases \/ ~puck_ever
    ]_coilVars

(* A proven attach holds: from the proof on, and while the planner carries *)
(* the drone in the ring, only a cut or a drop turns the coil off; not his *)
(* mission, not a word of ours that crossed the proof, not a restart; save *)
(* that a welded launch's restarted gate takes a repeated release for the  *)
(* first one: the coil is his again, or was until the gate restored it.    *)
WeldHolds ==
  [][(proof = "attached" \/ stage = "folded") /\ coil = "ON" /\ coil' = "OFF"
       => \/ source' = "cut" \/ mgr_cut \/ plan_dropped
          \/ WeldedRestart /\ (source = "partner" \/ restoring)
    ]_coilVars

(* A cut that stays (the mux has not latched over it) ends with the coil   *)
(* OFF for good, also when the gate dies and restores around it.           *)
CutDropsCoil == <>[](mux_state = "cut") => <>[](coil = "OFF")

(* The release of a welded start gives his mission the coil, unless our    *)
(* span, a take-back or a tilt fault comes first: what a gate forgot when  *)
(* it died, a release heard or on its way, the repeated one makes good.    *)
(* Not so when a previous gate's latched "ours" reaches a restarted one    *)
(* only after its release: it overrules it, and the next ones are ignored. *)
RestoredOverRelease ==
  restoring /\ state_pub = "ours" /\ source = "ours" /\ ~gate_pending
ReleaseGivesCoil ==
  []~RestoredOverRelease =>
    (stage = "pending" /\ launch.start_ours) ~>
      (source # "ours" \/ span # "none" \/ plan_taken \/ tilt_out)
=============================================================================
