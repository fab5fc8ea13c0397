----------------------------- MODULE RingProofs -----------------------------
(***************************************************************************)
(* That the planner never plans with a drone it has let go, nor without    *)
(* one a magnet holds, for every ring, plate, gap and timing, and with a   *)
(* resize at once or late. The loop over the resizes that are due is taken *)
(* by least counterexample.                                                *)
(***************************************************************************)
EXTENDS RingMembers, FiniteSetTheorems, WellFoundedInduction, TLAPS

(* A soft detach is of a launch without resize_delay_s and newcomers: the  *)
(* plan of an unload is of the fleet at its DETACH.                        *)
FreshPlans ==
  \A l \in RingLaunches : l.soft => ~l.late /\ l.carriers = Quads

(* The inductive invariant, of a state of the planner alone (a tick passes *)
(* through several): an unload's plan is the present slots without the     *)
(* leaver.  Then what a step takes from the slots it also takes down.      *)
DueStates == {s \in RingStates : s.due = << >> \/ rig.late}
Parted(s) ==
  IF s.dropped THEN s.detached = Quads ELSE s.slots \cap s.detached = {}
PlanIsPresent(s) ==
  s.leaver # NoQuad => rig.soft /\ s.plan = s.slots \ {s.leaver}
Kept(s) == s \in DueStates /\ Parted(s) /\ PlanIsPresent(s)

(* What happens to the members from s to t.                                *)
LetGo(s, t) ==
  ~t.dropped =>
    ~s.dropped /\ s.detached \subseteq t.detached
    /\ s.slots \subseteq t.slots \cup t.detached

RingInv ==
  /\ rig \in RingLaunches /\ Kept(ring)
  /\ held \subseteq Quads /\ lost \subseteq Quads /\ blinks \in 0 .. MaxUpsets
  /\ ~ring.dropped => held \subseteq ring.slots

-----------------------------------------------------------------------------
LEMMA RingConstants ==
  /\ Quads \subseteq Nat \ {0} /\ NoQuad \notin Quads /\ NoQuad \in OrNone
  /\ Quads \subseteq OrNone
  /\ Blend \in Nat \ {0} /\ Wait \in Nat \ {0} /\ LateBy \in Nat \ {0}
  /\ MaxPresses \in Nat /\ MaxUpsets \in Nat
  BY RingAssumption DEF NoQuad, OrNone

LEMMA LetGoStays == ASSUME NEW s PROVE LetGo(s, s)
  BY DEF LetGo

LEMMA LetGoOn ==
  ASSUME NEW s, NEW t, NEW u, LetGo(s, t), LetGo(t, u)
  PROVE  LetGo(s, u)
  BY DEF LetGo

LEMMA CancelKept ==
  ASSUME NEW s, Kept(s)
  PROVE  Kept(CancelUnload(s)) /\ LetGo(s, CancelUnload(s))
  <1>1. 0 \in 0 .. Blend + Wait
    BY RingConstants
  <1>2. CancelUnload(s) \in DueStates
    BY <1>1, RingConstants
    DEF Kept, DueStates, RingStates, CancelUnload
  <1> QED
    BY <1>2 DEF Kept, DueStates, RingStates, Parted, PlanIsPresent, LetGo,
       CancelUnload

LEMMA ReleaseKept ==
  ASSUME NEW s, Kept(s), s.leaver = NoQuad, NEW d \in Quads
  PROVE  LET t == ResizeAndRelease(s, d, s.slots \ {d}) IN
         Kept(t) /\ LetGo(s, t)
  <1> DEFINE t == ResizeAndRelease(s, d, s.slots \ {d})
  <1>1. t \in DueStates /\ t.leaver = NoQuad
    BY DEF Kept, DueStates, RingStates, ResizeAndRelease
  <1>2. /\ t.slots = s.slots \ {d} /\ t.detached = s.detached \cup {d}
        /\ t.dropped = s.dropped
    BY DEF Kept, DueStates, RingStates, ResizeAndRelease
  <1>3. s.detached \subseteq Quads
    BY DEF Kept, DueStates, RingStates
  <1> HIDE DEF t
  <1>4. Kept(t)
    BY <1>1, <1>2, <1>3 DEF Kept, Parted, PlanIsPresent
  <1>5. LetGo(s, t)
    BY <1>2 DEF LetGo
  <1> QED
    BY <1>4, <1>5 DEF t

LEMMA DropKept ==
  ASSUME NEW s, Kept(s)
  PROVE  Kept(DropAndLand(s)) /\ LetGo(s, DropAndLand(s))
  <1>1. Kept(CancelUnload(s))
    BY CancelKept
  <1> QED
    BY <1>1 DEF Kept, DueStates, RingStates, Parted, PlanIsPresent,
       LetGo, DropAndLand

LEMMA DetachKept ==
  ASSUME NEW s, Kept(s), ~s.dropped, s.leaver = NoQuad, NEW d \in Quads
  PROVE  Kept(DetachOcp(s, d)) /\ LetGo(s, DetachOcp(s, d))
  <1>1. Survivors(s, d) = s.slots \ {d}
    BY DEF Survivors, Kept, DueStates, RingStates, Parted
  <1> QED
    BY <1>1, ReleaseKept, LetGoStays DEF DetachOcp

LEMMA RefusedKept ==
  ASSUME NEW s, Kept(s), NEW d \in Quads
  PROVE  LET t == [s EXCEPT !.refused = @ \cup {d}] IN Kept(t) /\ LetGo(s, t)
  BY DEF Kept, DueStates, RingStates, Parted, PlanIsPresent, LetGo

LEMMA LossKept ==
  ASSUME NEW s, Kept(s), ~s.dropped, s.leaver = NoQuad, NEW d \in Quads
  PROVE  Kept(ActOnLoss(s, d)) /\ LetGo(s, ActOnLoss(s, d))
  <1>1. ActOnLoss(s, d) \in {DropAndLand(s), DetachOcp(s, d),
                             [s EXCEPT !.refused = @ \cup {d}]}
    BY DEF ActOnLoss
  <1> QED
    BY <1>1, DropKept, DetachKept, RefusedKept

LEMMA UnloadKept ==
  ASSUME NEW s, Kept(s), NEW gates \in BOOLEAN
  PROVE  Kept(UnloadTick(s, gates)) /\ LetGo(s, UnloadTick(s, gates))
  <1>1. CASE s.leaver = NoQuad
    BY <1>1, LetGoStays DEF UnloadTick
  <1>2. CASE s.leaver # NoQuad /\ s.spent >= Blend /\ gates
    <2> DEFINE c == CancelUnload(s)
               t == ResizeAndRelease(c, s.leaver, s.plan)
    <2>1. UnloadTick(s, gates) = t
      BY <1>2 DEF UnloadTick
    <2>2. s.leaver \in Quads /\ s.plan = s.slots \ {s.leaver}
      BY <1>2 DEF Kept, DueStates, RingStates, OrNone, PlanIsPresent
    <2>3. Kept(c) /\ LetGo(s, c) /\ c.leaver = NoQuad /\ c.slots = s.slots
      BY CancelKept DEF CancelUnload, Kept, DueStates, RingStates
    <2>4. Kept(t) /\ LetGo(c, t)
      <3> HIDE DEF c
      <3> QED
        BY <2>2, <2>3, ReleaseKept
    <2> QED
      BY <2>1, <2>3, <2>4, LetGoOn
  <1>3. CASE s.leaver # NoQuad /\ s.spent + 1 >= Blend + Wait /\ ~gates
    BY <1>3, CancelKept DEF UnloadTick
  <1>4. CASE /\ s.leaver # NoQuad
             /\ ~(s.spent >= Blend /\ gates)
             /\ ~(s.spent + 1 >= Blend + Wait /\ ~gates)
    <2>1. UnloadTick(s, gates) = [s EXCEPT !.spent = @ + 1]
      BY <1>4 DEF UnloadTick
    <2>2. s.spent + 1 \in 0 .. Blend + Wait
      BY <1>4, RingConstants DEF Kept, DueStates, RingStates
    <2> QED
      BY <2>1, <2>2 DEF Kept, DueStates, RingStates, Parted,
         PlanIsPresent, LetGo
  <1> QED
    BY <1>1, <1>2, <1>3, <1>4

LEMMA MeasuredKept ==
  ASSUME NEW s, Kept(s), NEW ds \in SUBSET Quads
  PROVE  LET t == Measured(s, ds) IN
         Kept(t) /\ LetGo(s, t) /\ t.dropped = s.dropped /\ t.leaver = s.leaver
  <1> DEFINE n == [d \in Quads |-> 0]
  <1>1. n \in [Quads -> 0 .. 2]
    OBVIOUS
  <1>2. Measured(s, ds) = [s EXCEPT !.ok = @ \cup ds, !.count = n]
    BY DEF Measured
  <1> HIDE DEF n
  <1> QED
    BY <1>1, <1>2 DEF Kept, DueStates, RingStates, Parted, PlanIsPresent,
       LetGo

LEMMA CountKept ==
  ASSUME NEW s, Kept(s), NEW seen \in SUBSET Quads, NEW long
  PROVE  Kept(Count(s, seen, long)) /\ LetGo(s, Count(s, seen, long))
  <1> DEFINE n == [d \in Quads |->
                     CASE d \in seen \cap long -> IF s.count[d] = 0 THEN 1 ELSE 2
                       [] d \in Watched(s) \ (seen \cap long) -> 0
                       [] OTHER -> s.count[d]]
  <1>1. s \in RingStates /\ s.count \in [Quads -> 0 .. 2]
    BY DEF Kept, DueStates, RingStates
  <1>2. n \in [Quads -> 0 .. 2]
    <2>1. ASSUME NEW d \in Quads
          PROVE  (CASE d \in seen \cap long -> IF s.count[d] = 0 THEN 1 ELSE 2
                    [] d \in Watched(s) \ (seen \cap long) -> 0
                    [] OTHER -> s.count[d]) \in 0 .. 2
      BY <1>1
    <2> QED
      BY <2>1
  <1>3. Count(s, seen, long)
          = [s EXCEPT !.ok = @ \cup (seen \ long), !.count = n]
    BY <1>1 DEF Count, RingStates
  <1> HIDE DEF n
  <1> QED
    BY <1>2, <1>3 DEF Kept, DueStates, RingStates, Parted, PlanIsPresent,
       LetGo

LEMMA BecomesKept ==
  ASSUME RingInv, NEW s, Kept(s), LetGo(ring, s), Becomes(s),
         UNCHANGED <<rig, lost>>, blinks' \in 0 .. MaxUpsets
  PROVE  RingInv'
  <1>1. Kept(ring)'
    BY DEF Becomes, Kept, DueStates, Parted, PlanIsPresent
  <1>2. held' \subseteq Quads /\ (~ring'.dropped => held' \subseteq ring'.slots)
    BY DEF Becomes, LetGo, RingInv
  <1> QED
    BY <1>1, <1>2 DEF RingInv

LEMMA WaitsKept ==
  ASSUME NEW s, Kept(s), rig.late, NEW e \in [d : Quads, left : 1 .. LateBy]
  PROVE  LET t == [s EXCEPT !.due = Append(@, e)] IN Kept(t) /\ LetGo(s, t)
  <1> DEFINE q == Append(s.due, e)
  <1>1. q \in Seq([d : Quads, left : 1 .. LateBy])
    BY DEF Kept, DueStates, RingStates
  <1>2. [s EXCEPT !.due = Append(@, e)] = [s EXCEPT !.due = q]
    BY DEF Kept, DueStates, RingStates
  <1> HIDE DEF q
  <1> QED
    BY <1>1, <1>2 DEF Kept, DueStates, RingStates, Parted, PlanIsPresent, LetGo

LEMMA UnannouncedKept ==
  ASSUME FreshPlans, rig \in RingLaunches, NEW s, Kept(s), ~s.dropped,
         s.leaver = NoQuad, NEW d \in Quads
  PROVE  Kept(OnUnannounced(s, d)) /\ LetGo(s, OnUnannounced(s, d))
  <1>1. CASE ~rig.late
    BY <1>1, LossKept DEF OnUnannounced
  <1>2. CASE rig.late /\ d \in Due(s)
    BY <1>2, LetGoStays DEF OnUnannounced
  <1>3. CASE rig.late /\ d \notin Due(s)
    <2> DEFINE e == [d |-> d, left |-> LateBy]
    <2>1. OnUnannounced(s, d) = [s EXCEPT !.due = Append(@, e)]
      BY <1>3 DEF OnUnannounced
    <2>2. e \in [d : Quads, left : 1 .. LateBy]
      BY RingConstants
    <2> HIDE DEF e
    <2> QED
      BY <1>3, <2>1, <2>2, WaitsKept
  <1> QED
    BY <1>1, <1>2, <1>3

-----------------------------------------------------------------------------
(* The loop of _resize_due_tick: f[i] is the state after i of its losses.  *)
DueRun(s, k, f) ==
  f = [i \in 0 .. k |-> IF i = 0 THEN [s EXCEPT !.due = << >>]
                                 ELSE DueStep(f[i-1], s.due[i])]

(* A set of naturals has a least one: the way the induction goes.          *)
LEMMA LeastNat ==
  ASSUME NEW S \in SUBSET Nat, S # {}
  PROVE  \E m \in S : \A k \in S : m <= k
  <1>1. IsWellFoundedOn(OpToRel(<, Nat), Nat)
    BY NatLessThanWellFounded
  <1>2. PICK m \in S : \A k \in S : ~(<<k, m>> \in OpToRel(<, Nat))
    BY <1>1, WFMin
  <1>3. \A k \in S : ~(k < m)
    BY <1>2 DEF OpToRel
  <1> QED
    BY <1>3

LEMMA DueRunOne ==
  ASSUME NEW s, NEW m \in Nat \ {0}, NEW f, DueRun(s, m - 1, f)
  PROVE  \E g : DueRun(s, m, g)
  <1> DEFINE next(h, i) == IF i = 0 THEN [s EXCEPT !.due = << >>]
                                    ELSE DueStep(h[i-1], s.due[i])
             g == [i \in 0 .. m |-> IF i = m THEN DueStep(f[m-1], s.due[m]) ELSE f[i]]
  <1>1. \A i \in 0 .. m - 1 : f[i] = next(f, i)
    BY DEF DueRun
  <1>2. ASSUME NEW i \in 0 .. m PROVE g[i] = next(g, i)
    <2>1. CASE i = m
      <3>1. g[i] = DueStep(f[m-1], s.due[m]) /\ g[m-1] = f[m-1]
        BY <2>1
      <3> QED
        BY <2>1, <3>1
    <2>2. CASE i # m /\ i # 0
      <3>1. /\ i \in 0 .. m - 1 /\ i - 1 \in 0 .. m
            /\ g[i] = f[i] /\ g[i-1] = f[i-1]
        BY <2>2
      <3> HIDE DEF g
      <3> QED
        BY <1>1, <2>2, <3>1
    <2>3. CASE i = 0
      <3>1. i \in 0 .. m - 1 /\ g[i] = f[i]
        BY <2>3
      <3> HIDE DEF g
      <3> QED
        BY <1>1, <2>3, <3>1
    <2> QED
      BY <2>1, <2>2, <2>3
  <1>3. g = [i \in 0 .. m |-> g[i]]
    OBVIOUS
  <1> HIDE DEF g
  <1>4. DueRun(s, m, g)
    BY <1>2, <1>3, Zenon DEF DueRun
  <1> QED
    BY <1>4

LEMMA DueRunExists ==
  ASSUME NEW s, NEW n \in Nat
  PROVE  \E f : DueRun(s, n, f)
  <1> DEFINE bad == {k \in Nat : ~\E f : DueRun(s, k, f)}
  <1>1. ASSUME bad # {} PROVE FALSE
    <2>1. PICK m \in bad : \A k \in bad : m <= k
      <3>1. bad \in SUBSET Nat
        OBVIOUS
      <3> HIDE DEF bad
      <3> QED
        BY <1>1, <3>1, LeastNat
    <2>2. CASE m = 0
      <3>1. DueRun(s, 0, [i \in 0 .. 0 |-> [s EXCEPT !.due = << >>]])
        BY DEF DueRun
      <3> QED
        BY <2>1, <2>2, <3>1
    <2>3. CASE m # 0
      <3>1. m - 1 \in Nat /\ m \in Nat \ {0} /\ m - 1 \notin bad
        BY <2>1, <2>3
      <3>2. PICK f : DueRun(s, m - 1, f)
        BY <3>1
      <3> QED
        BY <2>1, <3>1, <3>2, DueRunOne
    <2> QED
      BY <2>2, <2>3
  <1> QED
    BY <1>1

LEMMA DueTickRuns ==
  ASSUME NEW s, Len(s.due) \in Nat
  PROVE  \E f : DueRun(s, Len(s.due), f) /\ ResizeDueTick(s) = f[Len(s.due)]
  <1> DEFINE a == CHOOSE f : DueRun(s, Len(s.due), f)
  <1>1. DueRun(s, Len(s.due), a)
    BY DueRunExists
  <1>2. ResizeDueTick(s) = a[Len(s.due)]
    BY Zenon DEF ResizeDueTick, DueRun
  <1> HIDE DEF a
  <1> QED
    BY <1>1, <1>2

(* A loss that is acted on, or waits another tick.                         *)
LEMMA DueStepKept ==
  ASSUME FreshPlans, rig \in RingLaunches, rig.late, NEW s, Kept(s),
         NEW e \in [d : Quads, left : 1 .. LateBy]
  PROVE  Kept(DueStep(s, e)) /\ LetGo(s, DueStep(s, e))
  <1>1. CASE e.d \in s.detached
    BY <1>1, LetGoStays DEF DueStep
  <1>2. CASE e.d \notin s.detached /\ e.left = 1
    <2>1. ~s.dropped /\ s.leaver = NoQuad
      BY <1>2 DEF FreshPlans, Kept, Parted, PlanIsPresent
    <2> QED
      BY <1>2, <2>1, LossKept DEF DueStep
  <1>3. CASE e.d \notin s.detached /\ e.left # 1
    <2> DEFINE w == [e EXCEPT !.left = @ - 1]
    <2>1. DueStep(s, e) = [s EXCEPT !.due = Append(@, w)]
      BY <1>3 DEF DueStep
    <2>2. w \in [d : Quads, left : 1 .. LateBy]
      BY <1>3, RingConstants
    <2> HIDE DEF w
    <2> QED
      BY <2>1, <2>2, WaitsKept
  <1> QED
    BY <1>1, <1>2, <1>3

LEMMA DueTickKept ==
  ASSUME FreshPlans, rig \in RingLaunches, NEW s, Kept(s)
  PROVE  Kept(ResizeDueTick(s)) /\ LetGo(s, ResizeDueTick(s))
  <1> DEFINE n == Len(s.due)
             r == [s EXCEPT !.due = << >>]
             Good(t) == Kept(t) /\ LetGo(s, t)
  <1>1. n \in Nat /\ s.due \in Seq([d : Quads, left : 1 .. LateBy])
    BY DEF Kept, DueStates, RingStates
  <1>2. PICK f : DueRun(s, n, f) /\ ResizeDueTick(s) = f[n]
    BY <1>1, DueTickRuns
  <1>3. f[0] = r /\ \A i \in 1 .. n : f[i] = DueStep(f[i-1], s.due[i])
    <2>1. \A i \in 0 .. n : f[i] = IF i = 0 THEN r ELSE DueStep(f[i-1], s.due[i])
      BY <1>2 DEF DueRun
    <2> HIDE DEF n, r
    <2>2. 0 \in 0 .. n /\ \A i \in 1 .. n : i \in 0 .. n /\ i # 0
      BY <1>1
    <2> QED
      BY <2>1, <2>2
  <1>4. Good(r)
    <2>1. << >> \in Seq([d : Quads, left : 1 .. LateBy])
      OBVIOUS
    <2>2. r \in DueStates
      BY <2>1 DEF Kept, DueStates, RingStates
    <2> QED
      BY <2>2 DEF Kept, DueStates, RingStates, Parted, PlanIsPresent, LetGo
  <1>5. ASSUME NEW i \in 1 .. n, Good(f[i-1]) PROVE Good(f[i])
    <2>1. s.due[i] \in [d : Quads, left : 1 .. LateBy] /\ s.due # << >>
      <3> DEFINE T == [d : Quads, left : 1 .. LateBy]
      <3>1. s.due \in Seq(T) /\ i \in 1 .. Len(s.due)
        BY <1>1
      <3> HIDE DEF T
      <3>2. s.due[i] \in T /\ s.due # << >>
        BY <3>1
      <3> QED
        BY <3>2 DEF T
    <2>2. rig.late
      BY <2>1 DEF Kept, DueStates
    <2> HIDE DEF n
    <2> QED
      BY <1>3, <1>5, <2>1, <2>2, DueStepKept, LetGoOn
  <1> HIDE DEF n, r, Good
  <1> DEFINE bad == {i \in Nat : i <= n /\ ~Good(f[i])}
  <1>6. ASSUME bad # {} PROVE FALSE
    <2>1. PICK m \in bad : \A k \in bad : m <= k
      <3>1. bad \in SUBSET Nat
        OBVIOUS
      <3> HIDE DEF bad
      <3> QED
        BY <1>6, <3>1, LeastNat
    <2>2. m # 0
      BY <1>3, <1>4, <2>1
    <2>3. m - 1 \in Nat /\ m - 1 \notin bad /\ m \in 1 .. n
      BY <1>1, <2>1, <2>2
    <2>4. Good(f[m - 1])
      BY <1>1, <2>1, <2>3
    <2> QED
      BY <1>5, <2>1, <2>3, <2>4
  <1>7. Good(f[n])
    BY <1>1, <1>6
  <1> QED
    BY <1>2, <1>7 DEF Good

-----------------------------------------------------------------------------
LEMMA DetectKept ==
  ASSUME FreshPlans, RingInv,
         NEW s, Kept(s), LetGo(ring, s), s.leaver = NoQuad,
         NEW seen \in SUBSET Quads, s.dropped => seen = {},
         NEW long, Detect(s, seen, long),
         UNCHANGED <<rig, lost>>, blinks' \in 0 .. MaxUpsets
  PROVE  RingInv'
  <1>1. rig \in RingLaunches
    BY DEF RingInv
  <1>2. CASE Becomes(Measured(s, {}))
    BY <1>2, MeasuredKept, LetGoOn, BecomesKept
  <1>3. ASSUME NEW d \in seen, NEW before \in SUBSET Quads,
               Becomes(OnUnannounced(Measured(s, before), d))
        PROVE  RingInv'
    <2> DEFINE t == Measured(s, before)
               u == OnUnannounced(t, d)
    <2>1. Kept(t) /\ LetGo(s, t) /\ ~t.dropped /\ t.leaver = NoQuad
      BY MeasuredKept
    <2>2. Kept(u) /\ LetGo(t, u)
      <3> HIDE DEF t
      <3> QED
        BY <1>1, <2>1, UnannouncedKept
    <2>3. LetGo(ring, u) /\ Becomes(u)
      <3> HIDE DEF t, u
      <3>1. LetGo(ring, t)
        BY <2>1, LetGoOn
      <3>2. LetGo(ring, u)
        BY <2>2, <3>1, LetGoOn
      <3> QED
        BY <1>3, <3>2 DEF u, t
    <2> HIDE DEF u
    <2> QED
      BY <2>2, <2>3, BecomesKept
  <1>4. CASE Becomes(Count(s, seen, long))
    <2>1. Kept(Count(s, seen, long)) /\ LetGo(ring, Count(s, seen, long))
      BY CountKept, LetGoOn
    <2> QED
      BY <1>4, <2>1, BecomesKept
  <1> QED
    BY <1>2, <1>3, <1>4 DEF Detect

LEMMA TickKept ==
  ASSUME FreshPlans, RingInv, NEW gates \in BOOLEAN, NEW fresh, NEW long,
         PlanTick(gates, fresh, long), blinks' \in 0 .. MaxUpsets
  PROVE  RingInv'
  <1> DEFINE u == UnloadTick(ring, gates)
             s == ResizeDueTick(u)
  <1>1. /\ Kept(ring) /\ rig \in RingLaunches
        /\ UNCHANGED <<rig, lost>>
    BY DEF RingInv, PlanTick
  <1>2. Kept(u) /\ LetGo(ring, u)
    BY <1>1, UnloadKept
  <1>3. Kept(s) /\ LetGo(u, s)
    <2> HIDE DEF u
    <2> QED
      BY <1>1, <1>2, DueTickKept
  <1>4. \/ DetectsNow(s) /\ Detect(s, Watched(s) \cap fresh, long)
        \/ Becomes(s)
    BY DEF PlanTick
  <1>5. LetGo(ring, s)
    <2> HIDE DEF u, s
    <2> QED
      BY <1>2, <1>3, LetGoOn
  <1> HIDE DEF u, s
  <1>6. CASE Becomes(s)
    BY <1>1, <1>3, <1>5, <1>6, BecomesKept
  <1>7. CASE DetectsNow(s) /\ Detect(s, Watched(s) \cap fresh, long)
    <2>1. s.leaver = NoQuad
      BY <1>7 DEF DetectsNow
    <2>2. Watched(s) \cap fresh \in SUBSET Quads
      BY <1>3 DEF Watched, Kept, DueStates, RingStates
    <2>3. s.dropped => Watched(s) \cap fresh = {}
      BY <1>3 DEF Watched, Kept, DueStates, RingStates, Parted
    <2> QED
      BY <1>1, <1>3, <1>5, <1>7, <2>1, <2>2, <2>3, DetectKept
  <1> QED
    BY <1>4, <1>6, <1>7

-----------------------------------------------------------------------------
LEMMA RingInitInv == RingInit => RingInv
  <1> SUFFICES ASSUME RingInit PROVE RingInv
    OBVIOUS
  <1>1. rig.carriers \subseteq Quads /\ rig \in RingLaunches
    BY RingAssumption DEF RingInit, RingLaunch
  <1>2. << >> \in Seq([d : Quads, left : 1 .. LateBy])
    OBVIOUS
  <1>3. [d \in Quads |-> 0] \in [Quads -> 0 .. 2]
    OBVIOUS
  <1>4. 0 \in 0 .. Blend + Wait /\ 0 \in 0 .. MaxPresses /\ 0 \in 0 .. MaxUpsets
    BY RingConstants
  <1>5. ring \in DueStates
    BY <1>1, <1>2, <1>3, <1>4, RingConstants
    DEF RingInit, DueStates, RingStates
  <1> QED
    BY <1>1, <1>4, <1>5
    DEF RingInit, RingInv, Kept, Parted, PlanIsPresent

LEMMA RingStepInv ==
  ASSUME FreshPlans, RingInv, [RingNext]_ringVars
  PROVE  RingInv'
  <1>1. /\ Kept(ring) /\ rig \in RingLaunches /\ rig \in RingLaunch
        /\ ring \in RingStates /\ blinks \in 0 .. MaxUpsets
        /\ held \subseteq Quads /\ lost \subseteq Quads
    BY RingAssumption DEF RingInv, Kept, DueStates
  <1>2. ASSUME NEW gates \in GatesNow, ClearTick(gates) PROVE RingInv'
    BY <1>1, <1>2, TickKept DEF ClearTick, GatesNow
  <1>3. ASSUME NEW gates \in GatesNow, Blink(gates) PROVE RingInv'
    <2>1. gates \in BOOLEAN
      BY DEF GatesNow
    <2>2. blinks' \in 0 .. MaxUpsets
      <3>1. IsFiniteSet(lost)
        BY <1>1, FS_Subset, RingAssumption
      <3>2. Cardinality(lost) \in Nat
        BY <3>1, FS_CardinalityType
      <3>3. Cardinality(lost) + blinks < MaxUpsets /\ blinks' = blinks + 1
        BY <1>3 DEF Blink
      <3> QED
        BY <1>1, <3>2, <3>3, RingConstants
    <2> QED
      BY <1>3, <2>1, <2>2, TickKept DEF Blink
  <1>4. CASE Lifted
    <2>1. /\ \/ ring' = [ring EXCEPT !.phase = "lift"]
             \/ ring' = [ring EXCEPT !.phase = "hover"]
          /\ UNCHANGED <<rig, held, lost, blinks>>
      BY <1>4 DEF Lifted
    <2> QED
      BY <1>1, <2>1 DEF RingInv, Kept, DueStates, RingStates, Parted,
         PlanIsPresent
  <1>5. CASE Land
    <2> DEFINE c == CancelUnload(ring)
               t == [c EXCEPT !.land = TRUE,
                              !.phase = IF @ = "creep" THEN "lift" ELSE @]
    <2>1. Kept(c) /\ LetGo(ring, c)
      BY <1>1, CancelKept
    <2>2. Becomes(t) /\ UNCHANGED <<rig, lost, blinks>>
      BY <1>5 DEF Land
    <2> HIDE DEF c
    <2>3. Kept(t) /\ LetGo(ring, t)
      BY <2>1 DEF Kept, DueStates, RingStates, Parted, PlanIsPresent, LetGo
    <2> HIDE DEF t
    <2> QED
      BY <1>1, <2>2, <2>3, BecomesKept
  <1>6. CASE Stop
    BY <1>1, <1>6, CancelKept, BecomesKept DEF Stop
  <1>7. CASE LoadDown
    <2> DEFINE t == [ring EXCEPT !.down = TRUE]
    <2>1. Becomes(t) /\ UNCHANGED <<rig, lost, blinks>>
      BY <1>7 DEF LoadDown
    <2>2. Kept(t) /\ LetGo(ring, t)
      BY <1>1 DEF Kept, DueStates, RingStates, Parted, PlanIsPresent, LetGo
    <2> HIDE DEF t
    <2> QED
      BY <1>1, <2>1, <2>2, BecomesKept
  <1>8. CASE DropRequest
    BY <1>1, <1>8, DropKept, BecomesKept DEF DropRequest
  <1>9. ASSUME NEW d \in Quads, FleetDetach(d) PROVE RingInv'
    <2> DEFINE s == [ring EXCEPT !.presses = @ + 1]
               t == [s EXCEPT !.leaver = d, !.plan = Survivors(s, d), !.spent = 0]
    <2>1. /\ ~ring.dropped /\ ring.leaver = NoQuad
          /\ ring.presses < MaxPresses
          /\ UNCHANGED <<rig, lost, blinks>>
          /\ Becomes(IF rig.soft THEN t ELSE DetachOcp(s, d))
      BY <1>9 DEF FleetDetach
    <2>2. /\ Kept(s) /\ LetGo(ring, s) /\ ~s.dropped /\ s.leaver = NoQuad
          /\ s \in RingStates
      <3>1. ring.presses + 1 \in 0 .. MaxPresses
        BY <1>1, <2>1, RingConstants DEF RingStates
      <3> QED
        BY <1>1, <2>1, <3>1 DEF Kept, DueStates, RingStates, Parted,
           PlanIsPresent, LetGo
    <2> HIDE DEF s
    <2>3. CASE ~rig.soft
      <3>1. Kept(DetachOcp(s, d)) /\ LetGo(s, DetachOcp(s, d))
        BY <2>2, DetachKept
      <3>2. LetGo(ring, DetachOcp(s, d))
        BY <2>2, <3>1, LetGoOn
      <3> QED
        BY <1>1, <2>1, <2>3, <3>1, <3>2, BecomesKept
    <2>4. CASE rig.soft
      <3>1. Survivors(s, d) = s.slots \ {d}
        BY <2>2 DEF Survivors, Kept, Parted, RingStates
      <3>2. 0 \in 0 .. Blend + Wait
        BY RingConstants
      <3>3. Kept(t) /\ LetGo(s, t)
        BY <2>2, <2>4, <3>1, <3>2, RingConstants
        DEF Kept, DueStates, RingStates, Parted, PlanIsPresent, LetGo
      <3> HIDE DEF t
      <3>4. LetGo(ring, t)
        BY <2>2, <3>3, LetGoOn
      <3> QED
        BY <1>1, <2>1, <2>4, <3>3, <3>4, BecomesKept
    <2> QED
      BY <2>3, <2>4
  <1>10. ASSUME NEW d \in Quads, AttachOcp(d) PROVE RingInv'
    <2> DEFINE n == [ring.count EXCEPT ![d] = 0]
    <2>1. /\ ring' = [ring EXCEPT !.slots = @ \cup {d}, !.count = n,
                                  !.ok = @ \ {d}, !.refused = @ \ {d},
                                  !.tips = @ \ {d}]
          /\ held' = held \cup {d} /\ UNCHANGED <<rig, lost, blinks>>
          /\ d \notin rig.carriers /\ d \notin ring.detached
      BY <1>10 DEF AttachOcp
    <2>2. n \in [Quads -> 0 .. 2]
      BY <1>1 DEF RingStates
    <2>3. ring.leaver = NoQuad
      BY <1>1, <2>1 DEF FreshPlans, Kept, PlanIsPresent
    <2> HIDE DEF n
    <2>4. Kept(ring)'
      <3>1. ring' \in DueStates
        BY <1>1, <2>1, <2>2 DEF Kept, DueStates, RingStates
      <3>2. Parted(ring)' /\ PlanIsPresent(ring)'
        BY <1>1, <1>10, <2>1, <2>3 DEF AttachOcp, Kept, RingStates, Parted,
           PlanIsPresent
      <3> QED
        BY <2>1, <3>1, <3>2 DEF Kept, DueStates
    <2>5. ~ring'.dropped => held' \subseteq ring'.slots
      BY <1>1, <2>1 DEF RingInv, RingStates
    <2> QED
      BY <1>1, <2>1, <2>4, <2>5 DEF RingInv
  <1>11. ASSUME NEW d \in Quads, TipLearn(d) PROVE RingInv'
    <2> DEFINE t == [ring EXCEPT !.tips = @ \cup {d}]
    <2>1. Becomes(t) /\ UNCHANGED <<rig, lost, blinks>>
      BY <1>11 DEF TipLearn
    <2>2. Kept(t) /\ LetGo(ring, t)
      BY <1>1 DEF Kept, DueStates, RingStates, Parted, PlanIsPresent, LetGo
    <2> HIDE DEF t
    <2> QED
      BY <1>1, <2>1, <2>2, BecomesKept
  <1>12. ASSUME NEW d \in Quads, TipCheck(d) PROVE RingInv'
    <2>1. /\ Becomes(OnUnannounced(ring, d)) /\ UNCHANGED <<rig, lost, blinks>>
          /\ ring.leaver = NoQuad
      BY <1>12 DEF TipCheck
    <2>2. CASE ~ring.dropped
      BY <1>1, <2>1, <2>2, UnannouncedKept, BecomesKept
    <2>3. CASE ring.dropped
      BY <1>1, <1>12, <2>3 DEF TipCheck, Watched, Kept, Parted
    <2> QED
      BY <2>2, <2>3
  <1>13. ASSUME NEW d \in Quads, LetsGo(d) PROVE RingInv'
    BY <1>1, <1>13 DEF LetsGo, RingInv, Kept, DueStates, Parted, PlanIsPresent
  <1>14. CASE UNCHANGED ringVars
    BY <1>14 DEF ringVars, RingInv, Kept, DueStates, Parted, PlanIsPresent
  <1> QED
    BY <1>2, <1>3, <1>4, <1>5, <1>6, <1>7, <1>8, <1>9, <1>10, <1>11, <1>12,
       <1>13, <1>14 DEF RingNext

(* The planner's state keeps its type.                                     *)
THEOREM RingTypeCorrect == FreshPlans => (RingSpec => []RingTypeOK)
  <1> SUFFICES ASSUME FreshPlans PROVE RingSpec => []RingTypeOK
    OBVIOUS
  <1>1. RingInv => RingTypeOK
    BY DEF RingInv, RingTypeOK, Kept, DueStates
  <1> QED
    BY RingInitInv, RingStepInv, <1>1, PTL DEF RingSpec

(* The OCP never plans with a drone it has let go, nor without one that a  *)
(* magnet holds.                                                           *)
THEOREM PlansWithTheRing == FreshPlans => (RingSpec => []RingIsCurrent)
  <1> SUFFICES ASSUME FreshPlans PROVE RingSpec => []RingIsCurrent
    OBVIOUS
  <1>1. RingInv => RingIsCurrent
    BY DEF RingInv, RingIsCurrent, Kept, Parted
  <1> QED
    BY RingInitInv, RingStepInv, <1>1, PTL DEF RingSpec
=============================================================================
