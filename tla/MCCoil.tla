------------------------------- MODULE MCCoil -------------------------------
(***************************************************************************)
(* CoilSystem in graph_attach's partner_contact launches: a free newcomer, *)
(* one that starts on the ring, with and without the tilt cut, and a       *)
(* rehearsal with a dry coil.                                              *)
(***************************************************************************)
EXTENDS CoilSystem

Free ==
  [ours_only |-> FALSE, contact |-> TRUE, start_ours |-> FALSE,
   handoff |-> FALSE, release |-> FALSE, take_back |-> TRUE, cut |-> TRUE,
   hold |-> TRUE, abort_latch |-> TRUE, dry |-> FALSE]
Welded == [Free EXCEPT !.start_ours = TRUE, !.release = TRUE]
WeldedUncut == [Welded EXCEPT !.cut = FALSE]
Rehearsal == [Free EXCEPT !.dry = TRUE]

AllLaunches == {Free, Welded, WeldedUncut, Rehearsal}
WeldedOnly == {Welded}

(* The gate restarts in any phase of his, in a free launch and in a welded *)
(* one without the tilt cut.                                               *)
TwoRestart ==
  [l \in AllLaunches |-> IF l \in {Free, WeldedUncut} THEN HisPhases ELSE {}]
AllRestart == [l \in WeldedOnly |-> HisPhases]

FairCoilSpec == CoilSpec /\ CoilFairness
=============================================================================
