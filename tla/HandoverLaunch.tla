--------------------------- MODULE HandoverLaunch ---------------------------
(***************************************************************************)
(* Which topics and options a launch file gives a newcomer's mux, coil     *)
(* gate and magnet manager.  A launch is chosen at the start and stays.    *)
(***************************************************************************)

LaunchFields ==
  [ours_only : BOOLEAN,    \* approach_stream false: no second controller
   contact : BOOLEAN,      \* partner_contact: his mission flies the attach
   start_ours : BOOLEAN,   \* the drone starts welded, as a carrier
   handoff : BOOLEAN,      \* handoff_topic wired to the mux
   release : BOOLEAN,      \* release_topic wired to the mux
   take_back : BOOLEAN,    \* take_back_topic wired to the mux
   cut : BOOLEAN,          \* the tilt cut's topics wired
   hold : BOOLEAN,         \* partner_hold_until_planner
   abort_latch : BOOLEAN,  \* the parameter the mux's abort callback reads
   dry : BOOLEAN]          \* dry_hold: the coil stays OFF

CONSTANT Launches   \* the launches of a run

ASSUME LaunchAssumption == Launches \subseteq LaunchFields

VARIABLE launch

(* What /drone_i/mux_state reads, and how it may move.  The users of that  *)
(* topic (CoilSystem) assume no more than these moves, and the mux makes   *)
(* no other (RadioProofs!MovesAsAssumed).                                  *)
Streams == {"partner", "ours"}
Authorities == Streams \cup {"latched", "cut"}
MayMove(from, to) ==
  \/ from = "partner" /\ to \in {"ours", "cut"}
  \/ from = "ours" /\ to = "partner"
  \/ from # "latched" /\ to = "latched"
=============================================================================
