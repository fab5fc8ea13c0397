---------------------------- MODULE MagnetManager ----------------------------
(***************************************************************************)
(* magnet_attachment_manager in its contact mode (partner_contact): the    *)
(* arbiter in front of the ring magnet, and the proof that a contact is an *)
(* attach.                                                                 *)
(*                                                                         *)
(*     off --ON--> watch --contact--> prove --proven--> attached           *)
(*                   ^-------- failed ---'                                 *)
(*                                                                         *)
(* The proof's geometry (radius, dwell, drift, lift) is a choice of the    *)
(* environment; what follows from its events is here.                      *)
(***************************************************************************)
EXTENDS HandoverLaunch

VARIABLES
  magnet_on,     \* what the manager tells the gate, at 2 Hz
  proof,         \* the proof's state
  start_weld,    \* the weld the drone started with still holds
  mgr_cut, mgr_dropped, handover_blocked

mgrVars == <<magnet_on, proof, start_weld, mgr_cut, mgr_dropped,
             handover_blocked>>

ProofStates == {"off", "watch", "prove", "attached"}

MgrTypeOK ==
  /\ magnet_on \in BOOLEAN
  /\ proof \in ProofStates
  /\ start_weld \in BOOLEAN
  /\ mgr_cut \in BOOLEAN /\ mgr_dropped \in BOOLEAN
  /\ handover_blocked \in BOOLEAN

MgrInit ==
  /\ magnet_on = launch.start_ours
  /\ proof = "off"
  /\ start_weld = launch.start_ours
  /\ mgr_cut = FALSE /\ mgr_dropped = FALSE /\ handover_blocked = FALSE

(* What the latch topic carries to the gate.                               *)
MagnetWord == IF magnet_on THEN "ON" ELSE "OFF"

-----------------------------------------------------------------------------
(* An ON is refused after a cut or a drop.  While the start weld holds     *)
(* there is nothing to prove.                                              *)
MagnetOn ==
  /\ ~mgr_cut /\ ~mgr_dropped
  /\ magnet_on' = TRUE
  /\ proof' = IF proof = "off" /\ ~start_weld THEN "watch" ELSE proof
  /\ UNCHANGED <<launch, start_weld, mgr_cut, mgr_dropped, handover_blocked>>

(* An OFF is refused once the attach is confirmed; otherwise it voids the  *)
(* proof and lets the weld go.                                             *)
(* Mutant: an OFF is never refused.                                        *)
MagnetOffAlways ==
  /\ magnet_on' = FALSE /\ proof' = "off" /\ start_weld' = FALSE
  /\ UNCHANGED <<launch, mgr_cut, mgr_dropped, handover_blocked>>
MagnetOff ==
  /\ proof # "attached"
  /\ magnet_on' = FALSE /\ proof' = "off" /\ start_weld' = FALSE
  /\ UNCHANGED <<launch, mgr_cut, mgr_dropped, handover_blocked>>

(* The tip has dwelt on the plate.                                         *)
Contact ==
  /\ proof = "watch"
  /\ proof' = "prove"
  /\ UNCHANGED <<launch, magnet_on, start_weld, mgr_cut, mgr_dropped,
                 handover_blocked>>

(* Drift, a time-out, or his planner left the contact phases.              *)
ProofFails ==
  /\ proof = "prove"
  /\ proof' = "watch"
  /\ UNCHANGED <<launch, magnet_on, start_weld, mgr_cut, mgr_dropped,
                 handover_blocked>>

(* A proof is no attach when no hand-over can follow it, or in a dry hold. *)
NoHandover == handover_blocked \/ mgr_cut \/ mgr_dropped \/ launch.dry

Proven ==
  /\ proof = "prove"
  /\ proof' = IF NoHandover THEN "watch" ELSE "attached"
  /\ UNCHANGED <<launch, magnet_on, start_weld, mgr_cut, mgr_dropped,
                 handover_blocked>>

(* The cut and the drop override a confirmed attach.                       *)
LetGo == magnet_on' = FALSE /\ proof' = "off" /\ start_weld' = FALSE

MgrCut ==
  /\ ~mgr_cut
  /\ mgr_cut' = TRUE
  /\ LetGo
  /\ UNCHANGED <<launch, mgr_dropped, handover_blocked>>

MgrDropped ==
  /\ ~mgr_dropped
  /\ mgr_dropped' = TRUE
  /\ LetGo
  /\ UNCHANGED <<launch, mgr_cut, handover_blocked>>

MgrBlocked ==
  /\ ~handover_blocked
  /\ handover_blocked' = TRUE
  /\ UNCHANGED <<launch, magnet_on, proof, start_weld, mgr_cut, mgr_dropped>>
=============================================================================
