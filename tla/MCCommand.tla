------------------------------ MODULE MCCommand ------------------------------
(***************************************************************************)
(* Five parts that share no state, checked one at a time: a behaviour is   *)
(* one of the mux, of the radio with its arm switch, of the flight rules,  *)
(* of the planner's ring or of the approach planner, and the other four    *)
(* stay as they start.                                                     *)
(***************************************************************************)
EXTENDS HandoverMux, ArmSwitch, FlightRules, RingMembers, JoinPlanner

VARIABLE unit   \* the part this behaviour is about

commandVars ==
  <<unit, muxVars, switchVars, rulesVars, ringVars, joinVars>>

Unwired ==
  [ours_only |-> FALSE, contact |-> FALSE, start_ours |-> FALSE,
   handoff |-> FALSE, release |-> FALSE, take_back |-> FALSE, cut |-> FALSE,
   hold |-> FALSE, abort_latch |-> TRUE, dry |-> FALSE]

(* graph_attach's launches: a rejoin carrier's mux (no approach stream), a *)
(* partner's approach with our hand-off, the release of a reattach, a free *)
(* newcomer he flies to contact, and one that starts on the ring; the      *)
(* mux's own default of abort_latch is the one without any of them.        *)
MuxLaunches ==
  {[Unwired EXCEPT !.ours_only = TRUE],
   [Unwired EXCEPT !.abort_latch = FALSE],
   [Unwired EXCEPT !.handoff = TRUE, !.release = TRUE, !.cut = TRUE],
   [Unwired EXCEPT !.contact = TRUE, !.take_back = TRUE, !.cut = TRUE,
                   !.hold = TRUE],
   [Unwired EXCEPT !.contact = TRUE, !.start_ours = TRUE, !.take_back = TRUE,
                   !.cut = TRUE, !.hold = TRUE, !.release = TRUE]}

Square == <<0, 90, 180, 270>>
Paired == <<30, 90, 150, 270>>
FourQuads ==
  [carriers |-> 1 .. 4, plate |-> Square, soft |-> FALSE, late |-> FALSE,
   tip |-> {}, drop_on_loss |-> TRUE, drop_gap |-> 0, min_survivors |-> 3]

(* The rig's chain of a soft detach and a loss, down to an opposite pair;  *)
(* its re-attach of the fourth quad; the twin's late resize; and the       *)
(* planner's own defaults.                                                 *)
FlownRings ==
  {[FourQuads EXCEPT !.soft = TRUE, !.tip = {2, 3}, !.drop_gap = 200,
                     !.min_survivors = 2],
   [FourQuads EXCEPT !.carriers = 1 .. 3, !.drop_gap = 200,
                     !.min_survivors = 2],
   [FourQuads EXCEPT !.plate = Paired, !.late = TRUE],
   [FourQuads EXCEPT !.plate = Paired, !.drop_on_loss = FALSE]}

(* graph_attach's join planner, and the node's other mission with its own  *)
(* default of auto_descend.                                                *)
JoinMissions ==
  {[pickup |-> FALSE, gated |-> TRUE, auto_descend |-> TRUE],
   [pickup |-> TRUE, gated |-> FALSE, auto_descend |-> FALSE]}

(* The types of the five parts together.                                   *)
CommandTypeOK ==
  MuxTypeOK /\ SwitchTypeOK /\ RulesTypeOK /\ RingTypeOK /\ JoinTypeOK

Init ==
  /\ unit \in {"mux", "switch", "rules", "ring", "join"}
  /\ MuxInit /\ SwitchInit /\ RulesInit /\ RingInit /\ JoinInit
  /\ unit # "mux" => launch = CHOOSE l \in Launches : TRUE
  /\ unit # "ring" => rig = CHOOSE r \in RingLaunches : TRUE
  /\ unit # "join" => mission = CHOOSE m \in Missions : TRUE

MuxOnly == UNCHANGED <<unit, switchVars, rulesVars, ringVars, joinVars>>
SwitchOnly == UNCHANGED <<unit, muxVars, rulesVars, ringVars, joinVars>>
RulesOnly == UNCHANGED <<unit, muxVars, switchVars, ringVars, joinVars>>
RingOnly == UNCHANGED <<unit, muxVars, switchVars, rulesVars, joinVars>>
JoinOnly == UNCHANGED <<unit, muxVars, switchVars, rulesVars, ringVars>>

Next ==
  \/ unit = "mux" /\ MuxNext /\ MuxOnly
  \/ unit = "switch" /\ SwitchNext /\ SwitchOnly
  \/ unit = "rules" /\ RulesNext /\ RulesOnly
  \/ unit = "ring" /\ RingNext /\ RingOnly
  \/ unit = "join" /\ JoinNext /\ JoinOnly

(* The fairness of the part the behaviour is about: MuxFairness,           *)
(* SwitchFairness, RingFairness, JoinFairness.                             *)
Fairness ==
  /\ WF_commandVars(unit = "mux" /\ TejenCb("fly") /\ MuxOnly)
  /\ WF_commandVars(unit = "mux" /\ DissCb("fly") /\ MuxOnly)
  /\ WF_commandVars(unit = "switch" /\ Timer /\ SwitchOnly)
  /\ WF_commandVars(unit = "switch" /\ SwitchTick /\ SwitchOnly)
  /\ WF_commandVars(unit = "ring" /\ ClearTicks /\ RingOnly)
  /\ WF_commandVars(unit = "join" /\ Ticked /\ JoinOnly)
  /\ WF_commandVars(unit = "join" /\ Sinks /\ JoinOnly)

Spec == Init /\ [][Next]_commandVars /\ Fairness
=============================================================================
