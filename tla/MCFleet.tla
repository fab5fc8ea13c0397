------------------------------- MODULE MCFleet -------------------------------
(***************************************************************************)
(* FleetSystem from a fleet in the air on: the one ARM sequence and the    *)
(* TAKEOFF are over, everybody has heard everything, and the planner knows *)
(* from /fleet/step that the fleet flies.  The runs about what happens in  *)
(* flight start here.                                                      *)
(***************************************************************************)
EXTENDS FleetProperties

InFlight ==
  [FreshTracker EXCEPT !.armed = TRUE, !.takeoff = TRUE, !.flown = TRUE,
                       !.was_armed = TRUE]

InitInFlight ==
  /\ up = Drones
  /\ svc = [d \in Drones |-> << >>]
  /\ reply = [k \in ArmIds |-> [d \in Drones |-> "none"]]
  /\ alone_reply = {}
  /\ feedback = [d \in Drones |->
       [mgr |-> << >>, pl |-> IF d \in Newcomers THEN "T" ELSE "none"]]
  /\ abort = [d \in Drones |-> 0]
  /\ takeoff = [d \in Drones |-> 0]
  /\ radio = [d \in Drones |-> "armed"]
  /\ land_mgr = 0 /\ land_pl = 0
  /\ step_sent = TRUE /\ landed = FALSE /\ dropped = FALSE
  /\ on_load_pub = [d \in Drones |-> "none"]
  /\ departed_mgr = {} /\ departed_trk = {} /\ down_sent = {}
  /\ tilt_sent = {} /\ mux_abort = {} /\ mux_cut = {}
  /\ fc = [d \in Drones |-> "armed"]
  /\ mux \in [Drones -> {"none", "partner", "ours"}]
  /\ \A d \in Drones : mux[d] = "none" <=> d \notin Newcomers
  /\ trk = [d \in Drones |-> InFlight]
  /\ mgr = [flying |-> TRUE, fleet_armed |-> TRUE, landing |-> FALSE,
            shutdown |-> FALSE, fault_land |-> FALSE, last_estop |-> NoReason,
            drone_armed |-> Drones, mux_state |-> mux,
            on_load |-> [d \in Drones |-> "none"],
            excused |-> {}, off_ring |-> {}, down_alone |-> {}]
  /\ arm = [k \in ArmIds |->
              [pc |-> IF k = 1 THEN "done" ELSE "idle", next |-> 0,
               stopped |-> FALSE]]
  /\ disarming = 0
  /\ pl = [up |-> TRUE, seen |-> TRUE, lifting |-> FALSE, land |-> FALSE,
           drop |-> FALSE, over |-> FALSE,
           newcomer_armed |-> [d \in Drones |-> IF d \in Newcomers THEN "T" ELSE "none"],
           detached |-> {}, departed_sent |-> {}]
  /\ presses = 0 /\ faults = 0

SpecInFlight == InitInFlight /\ [][Next]_vars
FairSpecInFlight == SpecInFlight /\ Fairness
=============================================================================
