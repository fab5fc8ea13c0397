----------------------------- MODULE MagnetGate -----------------------------
(***************************************************************************)
(* magnet_gate: the one writer of the drone's coil.  Two controllers want  *)
(* it, the partner's mission (his puck) and our magnet manager (the ring), *)
(* and the gate passes the words of one of them.  One action per message   *)
(* heard; a message that changes nothing is no step.  A word that reaches  *)
(* the radio's latch is there until the next one, across a restart too.    *)
(***************************************************************************)
EXTENDS HandoverLaunch

VARIABLES
  source,          \* whose words reach the coil, or "cut"
  gate_pending,    \* _release_pending: the welded start is still to be let go
  last,            \* the last word forwarded, "none" since the start
  phase,           \* the class of the last mission phase heard
  puck_now, puck_ever, gate_dropped,
  restoring,       \* just started: the state moves, nothing is published
  state_pub,       \* the latched /drone_3/magnet_gate
  coil             \* the radio's latch: what the coil is set to

puckVars == <<phase, puck_now, puck_ever, gate_dropped>>
sourceVars == <<source, gate_pending, last>>
gateVars == <<sourceVars, puckVars, restoring, state_pub, coil>>

Words == {"ON", "OFF"}
Sources == {"partner", "ours", "cut"}

(* The mission phases fall in three classes: at the pickup, at the drop    *)
(* site, anywhere else.                                                    *)
PhaseClasses == {"pickup", "drop", "other"}
OffPhases == {"pickup", "drop"}

GateTypeOK ==
  /\ source \in Sources
  /\ gate_pending \in BOOLEAN
  /\ last \in Words \cup {"none"}
  /\ phase \in PhaseClasses
  /\ puck_now \in BOOLEAN /\ puck_ever \in BOOLEAN /\ gate_dropped \in BOOLEAN
  /\ restoring \in BOOLEAN
  /\ state_pub \in Sources \cup {"none"}
  /\ coil \in Words

GateInit ==
  /\ source = IF launch.start_ours THEN "ours" ELSE "partner"
  /\ gate_pending = launch.start_ours
  /\ last = "none" /\ phase = "other"
  /\ puck_now = FALSE /\ puck_ever = FALSE /\ gate_dropped = FALSE
  /\ restoring = ~launch.dry
  /\ state_pub = "none"
  /\ coil = "OFF"

-----------------------------------------------------------------------------
(* _on: a change of source is announced, unless the gate is restoring.     *)
Announced == IF restoring \/ source' = source THEN state_pub ELSE source'

(* _forward: word w is the last one, and reaches the coil.                 *)
Forward(w) == last' = w /\ coil' = IF restoring THEN coil ELSE w

(* A dry hold only records what it drops.                                  *)
DryDrop ==
  /\ launch.dry /\ last' = "OFF"
  /\ UNCHANGED <<source, state_pub, coil>>

(* From his puck's pickup to his drop an OFF of his passes only in the     *)
(* phases that let the puck go.                                            *)
(* Mutant: the phase does not matter.                                      *)
OffNeverHeld(w) == FALSE
OffHeld(w) ==
  w = "OFF" /\ puck_ever /\ ~gate_dropped /\ phase \notin OffPhases

GatePartner(w) ==
  /\ \/ DryDrop
     \/ /\ ~launch.dry /\ source = "partner" /\ ~OffHeld(w)
        /\ Forward(w)
        /\ UNCHANGED <<source, state_pub>>
  /\ UNCHANGED <<launch, gate_pending, puckVars, restoring>>

(* The first ON takes the coil, once his puck reads released; an OFF       *)
(* before it is ignored.                                                   *)
OursPasses(w) ==
  source = "ours" \/ (source = "partner" /\ w = "ON" /\ ~puck_now)
GateOurs(w) ==
  /\ \/ DryDrop
     \/ /\ ~launch.dry /\ ~OursPasses(w)
        /\ UNCHANGED <<source, last, state_pub, coil>>
     \/ /\ ~launch.dry /\ OursPasses(w)
        /\ source' = "ours" /\ state_pub' = Announced
        /\ Forward(w)
  /\ UNCHANGED <<launch, gate_pending, puckVars, restoring>>

GatePhase(p) ==
  /\ phase # p
  /\ phase' = p
  /\ gate_dropped' = (gate_dropped \/ p = "drop")
  /\ UNCHANGED <<launch, sourceVars, puck_now, puck_ever, restoring,
                 state_pub, coil>>

GatePuck(b) ==
  /\ puck_now # b
  /\ puck_now' = b
  /\ puck_ever' = (puck_ever \/ b)
  /\ UNCHANGED <<launch, sourceVars, phase, gate_dropped, restoring,
                 state_pub, coil>>

(* The welded start is let go to his mission, once.                        *)
GateRelease ==
  /\ IF gate_pending /\ source # "cut"
       THEN gate_pending' = FALSE /\ source' = "partner"
       ELSE UNCHANGED <<gate_pending, source>>
  /\ state_pub' = Announced
  /\ UNCHANGED <<launch, last, puckVars, restoring, coil>>

(* The mux has cut the drone: OFF at once, restoring or not, and for good. *)
(* Mutant: a gate that is restoring publishes it with the rest, later.     *)
GateCutLater ==
  /\ source # "cut"
  /\ source' = "cut" /\ gate_pending' = FALSE /\ last' = "OFF"
  /\ state_pub' = "cut"
  /\ coil' = IF restoring THEN coil ELSE "OFF"
  /\ UNCHANGED <<launch, puckVars, restoring>>
GateCut ==
  /\ source # "cut"
  /\ source' = "cut" /\ gate_pending' = FALSE /\ last' = "OFF"
  /\ state_pub' = "cut" /\ coil' = "OFF"
  /\ UNCHANGED <<launch, puckVars, restoring>>

(* A previous instance's latched "ours", if a sample of it is still held.  *)
(* Mutant: whatever it says, or does not say yet.                          *)
GateRestoreAny ==
  /\ restoring /\ source = "partner"
  /\ source' = state_pub /\ gate_pending' = FALSE
  /\ UNCHANGED <<launch, last, puckVars, restoring, state_pub, coil>>
GateRestore ==
  /\ restoring /\ state_pub = "ours"
  /\ source = "partner"
  /\ source' = "ours" /\ gate_pending' = FALSE
  /\ UNCHANGED <<launch, last, puckVars, restoring, state_pub, coil>>

(* The restore time is over: the state is announced, and the last word of  *)
(* that time reaches the coil.                                             *)
GateEndRestore ==
  /\ restoring /\ restoring' = FALSE
  /\ state_pub' = source
  /\ coil' = IF source # "cut" /\ last # "none" THEN last ELSE coil
  /\ UNCHANGED <<launch, sourceVars, puckVars>>

(* The process dies and is started again: all but the radio's latch and    *)
(* the topic's last sample is new.  A dry hold sends its OFF at once.      *)
GateRestart ==
  /\ source' = IF launch.start_ours THEN "ours" ELSE "partner"
  /\ gate_pending' = launch.start_ours
  /\ last' = "none" /\ phase' = "other"
  /\ puck_now' = FALSE /\ puck_ever' = FALSE /\ gate_dropped' = FALSE
  /\ restoring' = ~launch.dry
  /\ coil' = IF launch.dry THEN "OFF" ELSE coil
  /\ UNCHANGED <<launch, state_pub>>
=============================================================================
