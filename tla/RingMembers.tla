---------------------------- MODULE RingMembers ----------------------------
(***************************************************************************)
(* Which drones the load planner plans with (dissipative_node.py in its    *)
(* planner phase, resizing the OCP in place): an announced detach at once  *)
(* or after an unload, a drone whose magnet lets go and is found missing,  *)
(* a newcomer's weld, LAND, and the drop of the ring.                      *)
(*                                                                         *)
(* A control tick is one step: it is the composition of the unload's, the  *)
(* late resize's and the detector's part of it, each a function of the     *)
(* planner's state.  What the cables carry is not here.                    *)
(***************************************************************************)
EXTENDS Integers, Sequences, FiniteSets

CONSTANTS
  Quads,          \* the drones, newcomers included
  RingLaunches,   \* the launches, see RingLaunch
  Blend,          \* detach_unload_s, in ticks
  Wait,           \* detach_unload_wait_s, in ticks
  LateBy,         \* resize_delay_s of a launch that has one, in ticks
  MaxPresses,     \* bound: DETACH, effective ones
  MaxUpsets       \* bound: magnets that let go by themselves, and ticks
                  \* with a stale pose or a jump of the ring's

(* The carriers and everyone's plate (degrees); detach_unload_s > 0;       *)
(* resize_delay_s > 0; whose magnet has a marker; drop_on_loss with drop_gap_deg (0 *)
(* = off); min_survivors.                                                  *)
RingLaunch ==
  [carriers : SUBSET Quads, plate : [Quads -> 0 .. 359], soft : BOOLEAN,
   late : BOOLEAN, tip : SUBSET Quads, drop_on_loss : BOOLEAN,
   drop_gap : 0 .. 360, min_survivors : Nat]

ASSUME RingAssumption ==
  /\ Quads \subseteq Nat \ {0} /\ IsFiniteSet(Quads)
  /\ RingLaunches \subseteq RingLaunch
  /\ {Blend, Wait, LateBy} \subseteq Nat \ {0}
  /\ {MaxPresses, MaxUpsets} \subseteq Nat

VARIABLES
  rig,       \* the launch
  ring,      \* the planner's side of the ring
  held,      \* the drones a magnet holds on it
  lost,      \* those whose magnet let go by itself
  blinks     \* stale or jumping ticks so far

ringVars == <<rig, ring, held, lost, blinks>>

NoQuad == 0
OrNone == Quads \cup {NoQuad}

(* The creep, the lift and the hover of the planner phase; _land_to_ground *)
(* and _load_down in it; _dropped; slot2drone; detached; _unload: whom, to *)
(* which survivors, for how long; _resize_due; _detect_refused;            *)
(* _detect_count, to the 2 it is compared with; who has a _detect_ok, a    *)
(* _tip_v0; the DETACHes that had an effect.  slot2drone is the set of its *)
(* drones: its order is that of their ids, a newcomer's being the highest. *)
RingStates ==
  [phase : {"creep", "lift", "hover"}, land : BOOLEAN, down : BOOLEAN,
   dropped : BOOLEAN, slots : SUBSET Quads, detached : SUBSET Quads,
   leaver : OrNone, plan : SUBSET Quads, spent : 0 .. Blend + Wait,
   due : Seq([d : Quads, left : 1 .. LateBy]), refused : SUBSET Quads,
   count : [Quads -> 0 .. 2], ok : SUBSET Quads, tips : SUBSET Quads,
   presses : 0 .. MaxPresses]

Due(s) == {s.due[i].d : i \in DOMAIN s.due}

RingTypeOK ==
  /\ rig \in RingLaunches /\ ring \in RingStates
  /\ held \subseteq Quads /\ lost \subseteq Quads
  /\ blinks \in 0 .. MaxUpsets

(* TAKEOFF: the carriers are on the ring, any newcomer beside it.          *)
RingInit ==
  /\ rig \in RingLaunches
  /\ ring = [phase |-> "creep", land |-> FALSE, down |-> FALSE,
             dropped |-> FALSE, slots |-> rig.carriers,
             detached |-> {}, leaver |-> NoQuad, plan |-> {}, spent |-> 0,
             due |-> << >>, refused |-> {}, count |-> [d \in Quads |-> 0],
             ok |-> {}, tips |-> {}, presses |-> 0]
  /\ held = rig.carriers
  /\ lost = {}
  /\ blinks = 0

-----------------------------------------------------------------------------
(* _largest_gap_deg and _survivor_gap_deg: the widest arc of the ring with *)
(* no plate of S in it.                                                    *)
Arc(a, b) == (rig.plate[b] - rig.plate[a]) % 360
Widest(S) ==
  CHOOSE g \in {Arc(a, b) : a, b \in S} :
    /\ \E a, b \in S : a # b /\ Arc(a, b) = g /\ \A c \in S \ {a} : Arc(a, c) >= g
    /\ \A a \in S : \E c \in S \ {a} : Arc(a, c) <= g
LargestGap(S) == IF Cardinality(S) < 3 THEN 360 ELSE Widest(S)
SurvivorGap(S) == IF Cardinality(S) < 2 THEN 360 ELSE Widest(S)

(* _gap_flies: drop_gap_deg admits it, and the lift is done.               *)
GapFlies(s, S) ==
  rig.drop_gap > 0 /\ s.phase = "hover" /\ SurvivorGap(S) <= rig.drop_gap

Survivors(s, d) == s.slots \ (s.detached \cup {d})
TooFew(S) == Cardinality(S) < 2 \/ Cardinality(S) < rig.min_survivors

(* _detach_plan refuses nobody but these.                                  *)
MayLeave(s, d) ==
  /\ d \in s.slots
  /\ ~TooFew(Survivors(s, d))
  /\ Cardinality(Survivors(s, d)) = 2 => GapFlies(s, Survivors(s, d))

(* _drop_due: losing d means dropping the ring.                            *)
DropDue(s, d) ==
  \/ s.land
  \/ TooFew(Survivors(s, d))
  \/ LargestGap(Survivors(s, d)) >= 180 /\ ~GapFlies(s, Survivors(s, d))

(* _cancel_unload, with its magnet still on.                               *)
(* Mutant: the unload is not forgotten.                                    *)
CancelKeeps(s) == [s EXCEPT !.spent = 0]
CancelUnload(s) == [s EXCEPT !.leaver = NoQuad, !.plan = {}, !.spent = 0]

(* _resize_and_release: the OCP of the survivors, and d's magnet off.      *)
ResizeAndRelease(s, d, survivors) ==
  [s EXCEPT !.slots = survivors, !.detached = @ \cup {d}, !.tips = @ \ {d}]

DetachOcp(s, d) ==
  IF MayLeave(s, d) THEN ResizeAndRelease(s, d, Survivors(s, d)) ELSE s

DropAndLand(s) ==
  [CancelUnload(s) EXCEPT !.dropped = TRUE, !.detached = Quads]

(* _act_on_loss: drop, or resize; a resize that is refused drops too when  *)
(* drop_gap_deg is on, and otherwise is not tried again.                   *)
ActOnLoss(s, d) ==
  CASE rig.drop_on_loss /\ DropDue(s, d) -> DropAndLand(s)
    [] ~(rig.drop_on_loss /\ DropDue(s, d)) /\ MayLeave(s, d) -> DetachOcp(s, d)
    [] rig.drop_on_loss /\ ~DropDue(s, d) /\ ~MayLeave(s, d)
         /\ rig.drop_gap > 0 -> DropAndLand(s)
    [] OTHER -> [s EXCEPT !.refused = @ \cup {d}]

(* _on_unannounced: at once, or LateBy ticks later.                        *)
OnUnannounced(s, d) ==
  CASE ~rig.late -> ActOnLoss(s, d)
    [] rig.late /\ d \in Due(s) -> s
    [] OTHER -> [s EXCEPT !.due = Append(@, [d |-> d, left |-> LateBy])]

-----------------------------------------------------------------------------
(* _unload_tick: after the blend, release as soon as the leaver is light   *)
(* and the ring level (gates), or give up after Wait.                      *)
UnloadTick(s, gates) ==
  CASE s.leaver = NoQuad -> s
    [] s.leaver # NoQuad /\ s.spent >= Blend /\ gates ->
         ResizeAndRelease(CancelUnload(s), s.leaver, s.plan)
    [] s.leaver # NoQuad /\ s.spent + 1 >= Blend + Wait /\ ~gates ->
         CancelUnload(s)
    [] OTHER -> [s EXCEPT !.spent = @ + 1]

(* _resize_due_tick: each detected loss whose delay has run, in order.     *)
DueStep(s, e) ==
  CASE e.d \in s.detached -> s
    [] e.d \notin s.detached /\ e.left = 1 -> ActOnLoss(s, e.d)
    [] OTHER -> [s EXCEPT !.due = Append(@, [e EXCEPT !.left = @ - 1])]
ResizeDueTick(s) ==
  LET after[i \in 0 .. Len(s.due)] ==
        IF i = 0 THEN [s EXCEPT !.due = << >>]
                 ELSE DueStep(after[i-1], s.due[i])
  IN  after[Len(s.due)]

(* _detect_tick.  seen are the drones with a fresh pose (none with a stale *)
(* ring), long those whose cable measures too long.                        *)
Landing(s) == s.land /\ (~rig.drop_on_loss \/ s.down)
Watched(s) == s.slots \ (s.detached \cup s.refused \cup Due(s))
Found(s, long, d) == d \in long \cap s.ok /\ s.count[d] >= 1

(* Nobody after the one that is acted on is looked at, and every count     *)
(* starts again.                                                           *)
Measured(s, ds) ==
  [s EXCEPT !.ok = @ \cup ds, !.count = [d \in Quads |-> 0]]
Count(s, seen, long) ==
  [s EXCEPT !.ok = @ \cup (seen \ long),
            !.count = [d \in Quads |->
                         CASE d \in seen \cap long -> IF @[d] = 0 THEN 1 ELSE 2
                           [] d \in Watched(s) \ (seen \cap long) -> 0
                           [] OTHER -> @[d]]]

(* Mutant: it goes on while a drone is unloading.                          *)
DetectsUnloading(s) == s.phase # "creep" /\ ~Landing(s)
DetectsNow(s) == s.phase # "creep" /\ ~Landing(s) /\ s.leaver = NoQuad

(* A drop opens every magnet, a release its own.                           *)
Becomes(s) ==
  /\ ring' = s
  /\ held' = IF ring'.dropped THEN {} ELSE held \ ring'.detached

(* The first drone found missing, in slot order, is acted on; all too long *)
(* at once are the ring's pose, and start every count again.               *)
Detect(s, seen, long) ==
  \/ /\ Cardinality(seen) >= 2 /\ seen \subseteq long
     /\ Becomes(Measured(s, {}))
  \/ /\ ~(Cardinality(seen) >= 2 /\ seen \subseteq long)
     /\ \/ \E d \in seen :
             LET before == {x \in seen : x < d} IN
             /\ Found(s, long, d)
             /\ \A x \in before : ~Found(s, long, x)
             /\ \E t \in {Measured(s, before \ long)} :
                  Becomes(OnUnannounced(t, d))
        \/ /\ \A d \in seen : ~Found(s, long, d)
           /\ Becomes(Count(s, seen, long))

PlanTick(gates, fresh, long) ==
  /\ ~ring.dropped
  /\ \E u \in {UnloadTick(ring, gates)} : \E s \in {ResizeDueTick(u)} :
       \/ DetectsNow(s) /\ Detect(s, Watched(s) \cap fresh, long)
       \/ ~DetectsNow(s) /\ Becomes(s)
  /\ UNCHANGED <<rig, lost>>

(* The gates are looked at in an unload only.                              *)
GatesNow == IF ring.leaver = NoQuad THEN {FALSE} ELSE BOOLEAN

(* Every pose fresh, every cable measured as it is.                        *)
ClearTick(gates) == PlanTick(gates, Quads, lost) /\ UNCHANGED blinks

(* Stale poses, or the ring's pose jumped and every cable reads too long.  *)
Blink(gates) ==
  /\ Cardinality(lost) + blinks < MaxUpsets /\ blinks' = blinks + 1
  /\ \/ PlanTick(gates, {}, lost)
     \/ \E d \in ring.slots : PlanTick(gates, Quads \ {d}, lost)
     \/ PlanTick(gates, Quads, Quads)

-----------------------------------------------------------------------------
(* The creep ends; the lift ends.                                          *)
Lifted ==
  /\ ~ring.dropped /\ ~ring.land
  /\ \/ ring.phase = "creep" /\ ring' = [ring EXCEPT !.phase = "lift"]
     \/ ring.phase = "lift" /\ ring' = [ring EXCEPT !.phase = "hover"]
  /\ UNCHANGED <<rig, held, lost, blinks>>

(* /fleet/detach, at once or with an unload before it.                     *)
FleetDetach(d) ==
  /\ ring.presses < MaxPresses
  /\ ring.phase # "creep" /\ ~ring.dropped /\ ~ring.land
  /\ d \notin ring.detached /\ ring.leaver = NoQuad
  /\ MayLeave(ring, d)
  /\ LET s == [ring EXCEPT !.presses = @ + 1] IN
     Becomes(IF rig.soft
               THEN [s EXCEPT !.leaver = d, !.plan = Survivors(s, d),
                              !.spent = 0]
               ELSE DetachOcp(s, d))
  /\ UNCHANGED <<rig, lost, blinks>>

(* LAND cancels an unload, and in the creep ends the creep; DISARM, ESTOP  *)
(* and ABORT cancel it and are no more of this node's business.            *)
Land ==
  /\ ~ring.dropped /\ ~ring.land
  /\ Becomes([CancelUnload(ring) EXCEPT
                !.land = TRUE,
                !.phase = IF @ = "creep" THEN "lift" ELSE @])
  /\ UNCHANGED <<rig, lost, blinks>>
Stop ==
  /\ ring.leaver # NoQuad
  /\ Becomes(CancelUnload(ring))
  /\ UNCHANGED <<rig, lost, blinks>>
LoadDown ==
  /\ ring.land /\ ~ring.down /\ ~ring.dropped
  /\ Becomes([ring EXCEPT !.down = TRUE])
  /\ UNCHANGED <<rig, lost, blinks>>

(* /fleet/drop, from the manager.                                          *)
DropRequest ==
  /\ rig.drop_on_loss /\ ring.phase # "creep" /\ ~ring.dropped
  /\ Becomes(DropAndLand(ring))
  /\ UNCHANGED <<rig, lost, blinks>>

(* A newcomer's weld: one more slot, and what the detector knew of it is   *)
(* forgotten.                                                              *)
AttachOcp(d) ==
  /\ ring.phase # "creep" /\ ~ring.land /\ ~ring.dropped
  /\ d \notin rig.carriers /\ d \notin ring.slots \cup ring.detached
  /\ ring' = [ring EXCEPT !.slots = @ \cup {d},
                          !.count[d] = 0, !.ok = @ \ {d},
                          !.refused = @ \ {d}, !.tips = @ \ {d}]
  /\ held' = held \cup {d}
  /\ UNCHANGED <<rig, lost, blinks>>

(* _tip_check: a marker is learnt in the hover; later it is far off its    *)
(* plate while another one is not.                                         *)
TipLearn(d) ==
  /\ d \in rig.tip \ ring.tips /\ ring.phase = "hover" /\ d \in Watched(ring)
  /\ ~ring.land /\ ring.leaver = NoQuad /\ d \in held
  /\ Becomes([ring EXCEPT !.tips = @ \cup {d}])
  /\ UNCHANGED <<rig, lost, blinks>>
TipCheck(d) ==
  /\ ring.phase # "creep" /\ d \in Watched(ring) \cap ring.tips
  /\ ~ring.land /\ ring.leaver = NoQuad /\ d \in lost
  /\ \E x \in (ring.slots \cap ring.tips) \ (ring.detached \cup {d}) :
       x \notin lost
  /\ Becomes(OnUnannounced(ring, d))
  /\ UNCHANGED <<rig, lost, blinks>>

(* Environment: a magnet lets go.                                          *)
LetsGo(d) ==
  /\ Cardinality(lost) + blinks < MaxUpsets
  /\ d \in held /\ held' = held \ {d} /\ lost' = lost \cup {d}
  /\ UNCHANGED <<rig, ring, blinks>>

RingNext ==
  \/ \E gates \in GatesNow : ClearTick(gates) \/ Blink(gates)
  \/ Lifted \/ Land \/ Stop \/ LoadDown \/ DropRequest
  \/ \E d \in Quads :
       FleetDetach(d) \/ AttachOcp(d) \/ TipLearn(d) \/ TipCheck(d) \/ LetsGo(d)

ClearTicks == \E gates \in GatesNow : ClearTick(gates)
RingFairness == WF_ringVars(ClearTicks)
RingSpec == RingInit /\ [][RingNext]_ringVars /\ RingFairness

-----------------------------------------------------------------------------
(* The OCP never plans with a drone it has let go, nor without one that a  *)
(* magnet holds, whatever is unloading, lost, welded or due meanwhile.     *)
RingIsCurrent ==
  ~ring.dropped =>
    ring.slots \cap ring.detached = {} /\ held \subseteq ring.slots

(* Drones that the detector has measured on the ring, whose magnet then    *)
(* let go, do not stay in the model for good: each is let go, the ring is  *)
(* dropped, or the loss is refused; unless the fleet lands, or every cable *)
(* watched is too long, which the detector takes for a jump of the ring.   *)
Unanswered ==
  (lost \cap ring.slots \cap ring.ok) \ (ring.detached \cup ring.refused)
LossIsActedOn ==
  Unanswered # {} ~>
    Unanswered = {} \/ Landing(ring) \/ Watched(ring) \subseteq lost
=============================================================================
