----------------------------- MODULE LoadPlanner -----------------------------
(***************************************************************************)
(* The load planner (planner_node.py, with dissipative_node.py's overrides *)
(* in its planner phase): when it believes the fleet flies, the LAND and   *)
(* drop handshakes that end with /fleet/landed, and the flags it tells the *)
(* manager and the trackers about: a newcomer's on_load, a drone's         *)
(* departed.  What it computes for the trackers to follow is not here.     *)
(***************************************************************************)
EXTENDS FleetChannels

VARIABLE pl

(* Its process runs; takeoff_seen; phase 'planner'; _land_to_ground;       *)
(* _dropped; the descent is over (_landed); the newcomers' last heard      *)
(* arming states; the drones let go and those told so in this flight.      *)
PlannerStates ==
  [up: BOOLEAN, seen: BOOLEAN, lifting: BOOLEAN, land: BOOLEAN,
   drop: BOOLEAN, over: BOOLEAN, newcomer_armed: [Drones -> Flags],
   detached: SUBSET Drones, departed_sent: SUBSET Drones]

PlannerTypeOK == pl \in PlannerStates

PlannerInit ==
  pl = [up |-> TRUE, seen |-> FALSE, lifting |-> FALSE, land |-> FALSE,
        drop |-> FALSE, over |-> FALSE,
        newcomer_armed |-> [d \in Drones |-> "none"],
        detached |-> {}, departed_sent |-> {}]


PlannerQuiet == UNCHANGED <<up, services, radio, land_mgr, step_sent, muxTopics>>

(* The process ends in flight: nothing is planned or announced any more.   *)
PlannerCrash == pl.up /\ pl' = [pl EXCEPT !.up = FALSE] /\ UNCHANGED chanVars

(* /fleet/step above 0: the fleet flies.                                   *)
HearStep ==
  /\ pl.up /\ step_sent /\ ~pl.seen
  /\ pl' = [pl EXCEPT !.seen = TRUE]
  /\ UNCHANGED chanVars

(* The creep hands over, which takes TAKEOFF on a floor start.             *)
EnterPlannerPhase ==
  /\ pl.up /\ pl.seen /\ ~pl.lifting
  /\ pl' = [pl EXCEPT !.lifting = TRUE]
  /\ UNCHANGED chanVars

(* _announce_on_load: every newcomer not welded yet is off the ring.       *)
AnnounceOnLoad ==
  /\ pl.up /\ pl.lifting /\ ~pl.drop
  /\ \E d \in Newcomers : on_load_pub[d] = "none"
  /\ on_load_pub' = [d \in Drones |-> IF d \in Newcomers /\ on_load_pub[d] = "none"
                                      THEN "F" ELSE on_load_pub[d]]
  /\ UNCHANGED <<pl, land_pl, landed, dropped, departed_mgr, trackerTopics>>
  /\ PlannerQuiet

(* A newcomer's arming state, heard from its tracker.                      *)
HearNewcomerArming(d) ==
  /\ pl.up /\ pl.newcomer_armed[d] # feedback[d].pl
  /\ pl' = [pl EXCEPT !.newcomer_armed[d] = feedback[d].pl]
  /\ UNCHANGED chanVars

(* The magnet manager reports a weld: the newcomer joins the ring, unless  *)
(* its tracker's disarm was heard, it left before, or LAND is in progress. *)
FoldIn(d) ==
  /\ pl.up /\ pl.lifting /\ ~pl.drop /\ ~pl.land
  /\ on_load_pub[d] = "F" /\ d \notin pl.detached
  /\ pl.newcomer_armed[d] # "F"
  /\ on_load_pub' = [on_load_pub EXCEPT ![d] = "T"]
  /\ UNCHANGED <<pl, land_pl, landed, dropped, departed_mgr, trackerTopics>>
  /\ PlannerQuiet

(* /fleet/detach: the load is redistributed and d let go.                  *)
Detach(d) ==
  /\ pl.up /\ pl.lifting /\ ~pl.drop /\ ~pl.land
  /\ d \notin pl.detached /\ on_load_pub[d] # "F"
  /\ pl' = [pl EXCEPT !.detached = @ \union {d}]
  /\ on_load_pub' = IF on_load_pub[d] = "T" THEN [on_load_pub EXCEPT ![d] = "F"]
                                            ELSE on_load_pub
  /\ UNCHANGED <<land_pl, landed, dropped, departed_mgr, trackerTopics>>
  /\ PlannerQuiet

(* A drone let go starts its own descent: the manager and its tracker are  *)
(* told, once in a flight.                                                 *)
TellDeparted(d) ==
  /\ pl.up /\ d \in pl.detached \ pl.departed_sent
  /\ pl' = [pl EXCEPT !.departed_sent = @ \union {d}]
  /\ departed_mgr' = departed_mgr \union {d}
  /\ departed_trk' = IF d \in up THEN departed_trk \union {d} ELSE departed_trk
  /\ UNCHANGED <<land_pl, landed, dropped, on_load_pub, feedback, abort,
                 takeoff, down_sent>>
  /\ PlannerQuiet

-----------------------------------------------------------------------------
(* LAND.  Ignored before the fleet flies; in the creep it ends the creep;  *)
(* a repeat after the descent announces it again.                          *)
FleetCommandLand ==
  /\ pl.up /\ land_pl > 0
  /\ land_pl' = land_pl - 1
  /\ \/ /\ ~pl.seen
        /\ UNCHANGED <<pl, landed>>
     \/ /\ pl.seen /\ ~pl.land /\ ~pl.drop
        /\ pl' = [pl EXCEPT !.lifting = TRUE, !.land = TRUE, !.over = FALSE]
        /\ UNCHANGED landed
     \/ /\ pl.seen /\ (pl.land \/ pl.drop)
        /\ landed' = (landed \/ pl.over)
        /\ UNCHANGED pl
  /\ UNCHANGED <<dropped, on_load_pub, departed_mgr, trackerTopics>>
  /\ PlannerQuiet

(* A LAND that reaches no planner is lost.                                 *)
LandUnheard ==
  /\ ~pl.up /\ land_pl > 0
  /\ land_pl' = 0
  /\ UNCHANGED <<pl, landed, dropped, on_load_pub, departed_mgr, trackerTopics>>
  /\ PlannerQuiet

(* The descent has ended (touchdown, and the drones let go are down, or    *)
(* waited for long enough), and from then on every tick says so again.  It *)
(* outlasts the delivery of the LAND itself.                               *)
LandTick ==
  /\ pl.up /\ pl.land /\ ~pl.drop /\ land_mgr = 0
  /\ pl' = [pl EXCEPT !.over = TRUE]
  /\ landed' = TRUE
  /\ UNCHANGED <<land_pl, dropped, on_load_pub, departed_mgr, trackerTopics>>
  /\ PlannerQuiet

(* /fleet/drop: the ring is let go and every drone lands by itself.        *)
(* Mutant: the manager is not told.                                        *)
TellDroppedNot == UNCHANGED dropped
TellDropped == dropped' = TRUE
DropAndLand ==
  /\ pl.up /\ pl.lifting /\ pl.seen /\ ~pl.drop
  /\ pl' = [pl EXCEPT !.drop = TRUE, !.detached = Drones]
  /\ TellDropped
  /\ UNCHANGED <<land_pl, landed, on_load_pub, departed_mgr, trackerTopics>>
  /\ PlannerQuiet

(* The drop's tick: all down, or timed out; announced only once.  The      *)
(* descent outlasts the delivery of /fleet/payload_dropped.                *)
DropTick ==
  /\ pl.up /\ pl.drop /\ ~pl.over /\ ~dropped
  /\ pl' = [pl EXCEPT !.over = TRUE]
  /\ landed' = TRUE
  /\ UNCHANGED <<land_pl, dropped, on_load_pub, departed_mgr, trackerTopics>>
  /\ PlannerQuiet

PlannerTick == LandTick \/ DropTick \/ AnnounceOnLoad \/ EnterPlannerPhase
PlannerHears ==
  \/ HearStep \/ FleetCommandLand \/ LandUnheard
  \/ \E d \in Drones : HearNewcomerArming(d)
=============================================================================
