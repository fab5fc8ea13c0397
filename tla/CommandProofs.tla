---------------------------- MODULE CommandProofs ----------------------------
(***************************************************************************)
(* When, and only when, the flight rules fire, for every debounce, count,  *)
(* hold and hold-off and on every sequence of poses and gaps, and where    *)
(* the envelope does otherwise than its documents say; and that a          *)
(* behaviour of MCCommand is one of each of its five parts, which keep     *)
(* their types and their invariants.                                       *)
(***************************************************************************)
EXTENDS MCCommand, RadioProofs, RingProofs, JoinProofs

-----------------------------------------------------------------------------
(* Runs in a row, over the ticks 1 .. n.  P are those that count, Bad the  *)
(* bad ones.                                                               *)
HasRun(k, P, Bad, n) ==
  \E i, j \in 1 .. n :
    P \cap i .. j \subseteq Bad /\ Cardinality(P \cap i .. j) >= k

(* v of the last that count, in a row, are bad: those from s on, and no    *)
(* longer run ends here.                                                   *)
Trails(v, P, Bad, n) ==
  \E s \in 1 .. n + 1 :
    /\ P \cap s .. n \subseteq Bad /\ Cardinality(P \cap s .. n) = v
    /\ s > 1 => s - 1 \in P \ Bad

(* The last tick ends a run of k.                                          *)
EndsRun(k, P, Bad, n) ==
  \E i \in 1 .. n : P \cap i .. n \subseteq Bad /\ Cardinality(P \cap i .. n) >= k

FlownTicks == {i \in Ticks : log[i].flying}
Tilted == {i \in Ticks : LastPose(i) \in PastTilt}
Seen == {i \in Ticks : Posed(i)}
Out == {i \in Ticks : log[i].pose = "out" /\ log[i].flying}

(* The newest pose is the last of the log.                                 *)
IsLast(m, i) == Posed(m) /\ \A k \in m+1 .. i : ~Posed(k)
LastKnown ==
  /\ \A i \in Ticks : (\E j \in 1 .. i : Posed(j)) => \E m \in 1 .. i : IsLast(m, i)
  /\ newest = LastPose(Len(log))

EnvelopeInv ==
  /\ EnvelopeOfTicks
  /\ ~env_latched =>
       violations < FaultDebounce /\ Trails(violations, FlownTicks, Tilted, Len(log))
LimitInv ==
  /\ LimitAsDefined
  /\ Trails(limit_count, Seen, Out, Len(log))

(* The tilt cut counts from the first pose that a cut could count from.    *)
Glitched(g) == log[g].pose = "glitch" /\ TakenOff(g)
HeldOff(t0) == \E g \in 1 .. t0 : Glitched(g) /\ ~(t0 >= g + Holdoff)
CountsFrom(t0) ==
  /\ TakenOff(t0) /\ Posed(t0) /\ ~HeldOff(t0)
  /\ \A i \in t0 .. Len(log) : log[i].pose \in {"tilted", "none"}
LastGlitch ==
  /\ \A g \in Ticks : Glitched(g) => g + Holdoff <= holdoff_until
  /\ holdoff_until = 0 \/ \E g \in Ticks : Glitched(g) /\ holdoff_until = g + Holdoff
FirstTilted ==
  /\ above # 0 => above \in Ticks /\ CountsFrom(above)
  /\ \A t0 \in Ticks : CountsFrom(t0) => above # 0 /\ above <= t0
SinceTakeOff == tilt_flying <=> TakenOff(Len(log))
TiltInv ==
  /\ TiltAsDefined /\ SinceTakeOff
  /\ ~tilt_fault => LastGlitch /\ FirstTilted

RulesInv ==
  /\ RulesTypeOK
  /\ Len(log) <= MaxTicks /\ limit_count <= Len(log) /\ above <= Len(log)
  /\ holdoff_until <= Len(log) + Holdoff
  /\ LastKnown /\ EnvelopeInv /\ LimitInv /\ TiltInv

-----------------------------------------------------------------------------
(* Ticks are finitely many.                                                *)
LEMMA TickSets ==
  ASSUME NEW P, NEW i \in Int, NEW j \in Int
  PROVE  IsFiniteSet(P \cap i .. j) /\ Cardinality(P \cap i .. j) \in Nat
<1>1. IsFiniteSet(i .. j)
  BY FS_Interval
<1>2. IsFiniteSet(P \cap i .. j)
  BY <1>1, FS_Subset
<1> QED
  BY <1>2, FS_CardinalityType

(* One more tick: it does not count, it is bad, or it ends the run.        *)
OneMore(P, Bad, P2, Bad2, n) ==
  /\ n \in Nat /\ P \subseteq 1 .. n /\ P2 \subseteq 1 .. n + 1
  /\ P2 \cap 1 .. n = P /\ Bad2 \cap 1 .. n = Bad \cap 1 .. n

LEMMA OldRuns ==
  ASSUME NEW P, NEW Bad, NEW P2, NEW Bad2, NEW n, OneMore(P, Bad, P2, Bad2, n)
  PROVE  \A i \in 1 .. n + 1, j \in 1 .. n :
           /\ P2 \cap i .. j = P \cap i .. j
           /\ P2 \cap i .. j \subseteq Bad2 <=> P \cap i .. j \subseteq Bad
<1> SUFFICES ASSUME NEW i \in 1 .. n + 1, NEW j \in 1 .. n
             PROVE  /\ P2 \cap i .. j = P \cap i .. j
                    /\ P2 \cap i .. j \subseteq Bad2 <=> P \cap i .. j \subseteq Bad
  OBVIOUS
<1>1. P2 \cap i .. j = P \cap i .. j
  BY DEF OneMore
<1> QED
  BY <1>1 DEF OneMore

LEMMA RunsStay ==
  ASSUME NEW P, NEW Bad, NEW P2, NEW Bad2, NEW n, OneMore(P, Bad, P2, Bad2, n),
         NEW k \in Nat \ {0}
  PROVE  /\ HasRun(k, P, Bad, n) => HasRun(k, P2, Bad2, n + 1)
         /\ HasRun(k, P2, Bad2, n + 1) =>
              HasRun(k, P, Bad, n) \/ EndsRun(k, P2, Bad2, n + 1)
<1>a. n \in Nat
  BY DEF OneMore
<1>o. \A i \in 1 .. n + 1, j \in 1 .. n :
        /\ P2 \cap i .. j = P \cap i .. j
        /\ P2 \cap i .. j \subseteq Bad2 <=> P \cap i .. j \subseteq Bad
  BY OldRuns
<1>1. ASSUME HasRun(k, P, Bad, n) PROVE HasRun(k, P2, Bad2, n + 1)
  <2>1. PICK i, j \in 1 .. n :
          P \cap i .. j \subseteq Bad /\ Cardinality(P \cap i .. j) >= k
    BY <1>1 DEF HasRun
  <2>2. i \in 1 .. n + 1 /\ j \in 1 .. n + 1
    BY <1>a
  <2>3. P2 \cap i .. j \subseteq Bad2 /\ Cardinality(P2 \cap i .. j) >= k
    BY <1>o, <2>1, <2>2
  <2> QED
    BY <2>2, <2>3 DEF HasRun
<1>2. ASSUME HasRun(k, P2, Bad2, n + 1)
      PROVE  HasRun(k, P, Bad, n) \/ EndsRun(k, P2, Bad2, n + 1)
  <2>1. PICK i, j \in 1 .. n + 1 :
          P2 \cap i .. j \subseteq Bad2 /\ Cardinality(P2 \cap i .. j) >= k
    BY <1>2 DEF HasRun
  <2>2. CASE j = n + 1
    BY <2>1, <2>2 DEF EndsRun
  <2>3. CASE j # n + 1 /\ i # n + 1
    <3>1. i \in 1 .. n /\ j \in 1 .. n /\ i \in 1 .. n + 1
      BY <1>a, <2>3
    <3>2. P \cap i .. j \subseteq Bad /\ Cardinality(P \cap i .. j) >= k
      BY <1>o, <2>1, <3>1
    <3> QED
      BY <3>1, <3>2 DEF HasRun
  <2>4. CASE j # n + 1 /\ i = n + 1
    <3>1. P2 \cap i .. j = {}
      BY <1>a, <2>4
    <3>2. Cardinality(P2 \cap i .. j) = 0
      BY <3>1, FS_EmptySet
    <3> QED
      BY <2>1, <3>2
  <2> QED
    BY <2>2, <2>3, <2>4
<1> QED
  BY <1>1, <1>2

(* A tick that does not count changes nothing.                             *)
LEMMA RunUncounted ==
  ASSUME NEW P, NEW Bad, NEW P2, NEW Bad2, NEW n, OneMore(P, Bad, P2, Bad2, n),
         NEW k \in Nat \ {0}, NEW v, Trails(v, P, Bad, n), n + 1 \notin P2
  PROVE  /\ Trails(v, P2, Bad2, n + 1)
         /\ HasRun(k, P2, Bad2, n + 1) <=> HasRun(k, P, Bad, n)
<1>a. n \in Nat
  BY DEF OneMore
<1>p. P2 = P
  <2>1. \A x \in P2 : x \in 1 .. n
    BY <1>a DEF OneMore
  <2> QED
    BY <2>1 DEF OneMore
<1>b. \A i \in 1 .. n + 1 : P2 \cap i .. n + 1 = P \cap i .. n
  BY <1>a DEF OneMore
<1>1. PICK s \in 1 .. n + 1 :
        /\ P \cap s .. n \subseteq Bad /\ Cardinality(P \cap s .. n) = v
        /\ s > 1 => s - 1 \in P \ Bad
  BY DEF Trails
<1>2. Trails(v, P2, Bad2, n + 1)
  <2>1. s \in 1 .. n + 1 + 1
    BY <1>a
  <2>2. P2 \cap s .. n + 1 \subseteq Bad2 /\ Cardinality(P2 \cap s .. n + 1) = v
    BY <1>1, <1>b DEF OneMore
  <2>3. s > 1 => s - 1 \in P2 \ Bad2
    BY <1>1, <1>a DEF OneMore
  <2> QED
    BY <2>1, <2>2, <2>3 DEF Trails
<1>3. ASSUME NEW i \in 1 .. n + 1, P2 \cap i .. n + 1 \subseteq Bad2,
             Cardinality(P2 \cap i .. n + 1) >= k
      PROVE  HasRun(k, P, Bad, n)
  <2>1. CASE i = n + 1
    <3>1. P2 \cap i .. n + 1 = {}
      BY <1>a, <2>1
    <3> QED
      BY <1>3, <3>1, FS_EmptySet
  <2>2. CASE i # n + 1
    <3>1. i \in 1 .. n /\ n \in 1 .. n
      BY <1>a, <2>2
    <3>2. P \cap i .. n \subseteq Bad /\ Cardinality(P \cap i .. n) >= k
      BY <1>3, <1>b DEF OneMore
    <3> QED
      BY <3>1, <3>2 DEF HasRun
  <2> QED
    BY <2>1, <2>2
<1>4. EndsRun(k, P2, Bad2, n + 1) => HasRun(k, P, Bad, n)
  BY <1>3 DEF EndsRun
<1>r. /\ HasRun(k, P, Bad, n) => HasRun(k, P2, Bad2, n + 1)
      /\ HasRun(k, P2, Bad2, n + 1) =>
           HasRun(k, P, Bad, n) \/ EndsRun(k, P2, Bad2, n + 1)
  BY RunsStay
<1> QED
  BY <1>2, <1>4, <1>r

(* A bad tick lengthens the run.                                           *)
LEMMA RunGrows ==
  ASSUME NEW P, NEW Bad, NEW P2, NEW Bad2, NEW n, OneMore(P, Bad, P2, Bad2, n),
         NEW k \in Nat \ {0}, NEW v \in Nat, Trails(v, P, Bad, n),
         n + 1 \in P2, n + 1 \in Bad2
  PROVE  /\ Trails(v + 1, P2, Bad2, n + 1)
         /\ HasRun(k, P2, Bad2, n + 1) <=> HasRun(k, P, Bad, n) \/ v + 1 >= k
<1>a. n \in Nat
  BY DEF OneMore
<1>1. PICK s \in 1 .. n + 1 :
        /\ P \cap s .. n \subseteq Bad /\ Cardinality(P \cap s .. n) = v
        /\ s > 1 => s - 1 \in P \ Bad
  BY DEF Trails
<1>b. P2 \cap s .. n + 1 = (P \cap s .. n) \union {n + 1} /\ n + 1 \notin P \cap s .. n
  BY <1>a DEF OneMore
<1>c. Cardinality(P2 \cap s .. n + 1) = v + 1
  <2>1. IsFiniteSet(P \cap s .. n)
    <3>1. s \in Int /\ n \in Int
      BY <1>a
    <3> QED
      BY <3>1, TickSets
  <2>2. Cardinality((P \cap s .. n) \union {n + 1}) = Cardinality(P \cap s .. n) + 1
    BY <1>b, <2>1, FS_AddElement
  <2> QED
    BY <1>b, <1>1, <2>2
<1>d. P2 \cap s .. n + 1 \subseteq Bad2
  BY <1>b, <1>1 DEF OneMore
<1>2. Trails(v + 1, P2, Bad2, n + 1)
  <2>1. s \in 1 .. n + 1 + 1
    BY <1>a
  <2>2. s > 1 => s - 1 \in P2 \ Bad2
    BY <1>1, <1>a DEF OneMore
  <2> QED
    BY <1>c, <1>d, <2>1, <2>2 DEF Trails
<1>3. ASSUME v + 1 >= k PROVE HasRun(k, P2, Bad2, n + 1)
  <2>1. s \in 1 .. n + 1 /\ n + 1 \in 1 .. n + 1
    BY <1>a
  <2> QED
    BY <1>c, <1>d, <1>3, <2>1 DEF HasRun
<1>4. ASSUME NEW i \in 1 .. n + 1, P2 \cap i .. n + 1 \subseteq Bad2,
             Cardinality(P2 \cap i .. n + 1) >= k
      PROVE  v + 1 >= k
  <2>1. i >= s
    <3>1. ASSUME i < s PROVE FALSE
      <4>1. s - 1 \in P \ Bad /\ s - 1 \in 1 .. n /\ s - 1 \in i .. n + 1
        BY <1>a, <1>1, <3>1 DEF OneMore
      <4> QED
        BY <1>4, <4>1 DEF OneMore
    <3> QED
      BY <1>a, <3>1
  <2>2. P2 \cap i .. n + 1 \subseteq P2 \cap s .. n + 1
    BY <1>a, <2>1
  <2>3. Cardinality(P2 \cap i .. n + 1) <= Cardinality(P2 \cap s .. n + 1)
    <3>1. IsFiniteSet(P2 \cap s .. n + 1)
      BY <1>a, TickSets
    <3> QED
      BY <2>2, <3>1, FS_Subset
  <2>4. Cardinality(P2 \cap i .. n + 1) \in Nat
    BY <1>a, TickSets
  <2> QED
    BY <1>4, <1>c, <2>3, <2>4
<1>5. EndsRun(k, P2, Bad2, n + 1) => v + 1 >= k
  BY <1>4 DEF EndsRun
<1>r. /\ HasRun(k, P, Bad, n) => HasRun(k, P2, Bad2, n + 1)
      /\ HasRun(k, P2, Bad2, n + 1) =>
           HasRun(k, P, Bad, n) \/ EndsRun(k, P2, Bad2, n + 1)
  BY RunsStay
<1> QED
  BY <1>2, <1>3, <1>5, <1>r

(* A good one ends it.                                                     *)
LEMMA RunEnds ==
  ASSUME NEW P, NEW Bad, NEW P2, NEW Bad2, NEW n, OneMore(P, Bad, P2, Bad2, n),
         NEW k \in Nat \ {0}, n + 1 \in P2, n + 1 \notin Bad2
  PROVE  /\ Trails(0, P2, Bad2, n + 1)
         /\ HasRun(k, P2, Bad2, n + 1) <=> HasRun(k, P, Bad, n)
<1>a. n \in Nat
  BY DEF OneMore
<1>1. Trails(0, P2, Bad2, n + 1)
  <2> DEFINE s == n + 1 + 1
  <2>1. P2 \cap s .. n + 1 = {} /\ s \in 1 .. n + 1 + 1 /\ s - 1 = n + 1
    BY <1>a
  <2>2. s - 1 \in P2 \ Bad2
    BY <2>1
  <2>3. Cardinality(P2 \cap s .. n + 1) = 0
    BY <2>1, FS_EmptySet
  <2> HIDE DEF s
  <2> QED
    BY <2>1, <2>2, <2>3 DEF Trails
<1>2. ASSUME NEW i \in 1 .. n + 1 PROVE ~(P2 \cap i .. n + 1 \subseteq Bad2)
  BY <1>a
<1>3. ~EndsRun(k, P2, Bad2, n + 1)
  BY <1>2 DEF EndsRun
<1>r. /\ HasRun(k, P, Bad, n) => HasRun(k, P2, Bad2, n + 1)
      /\ HasRun(k, P2, Bad2, n + 1) =>
           HasRun(k, P, Bad, n) \/ EndsRun(k, P2, Bad2, n + 1)
  BY RunsStay
<1> QED
  BY <1>1, <1>3, <1>r

(* The run that is counted is one.                                         *)
LEMMA TrailIsRun ==
  ASSUME NEW P, NEW Bad, NEW n \in Nat, NEW k \in Nat \ {0}, NEW v \in Nat,
         v >= k, Trails(v, P, Bad, n)
  PROVE  HasRun(k, P, Bad, n)
<1>1. PICK s \in 1 .. n + 1 :
        P \cap s .. n \subseteq Bad /\ Cardinality(P \cap s .. n) = v
  BY DEF Trails
<1>2. s # n + 1
  <2>1. ASSUME s = n + 1 PROVE P \cap s .. n = {}
    BY <2>1
  <2> QED
    BY <1>1, <2>1, FS_EmptySet
<1>3. s \in 1 .. n /\ n \in 1 .. n
  BY <1>2
<1> QED
  BY <1>1, <1>3 DEF HasRun

-----------------------------------------------------------------------------
(* One tick more of the log.                                               *)
LEMMA LogGrows ==
  ASSUME RulesTypeOK, NEW e \in Samples, log' = Append(log, e)
  PROVE  /\ Len(log) \in Nat /\ Len(log') = Len(log) + 1
         /\ Ticks = 1 .. Len(log) /\ Ticks' = 1 .. Len(log) + 1
         /\ \A i \in 1 .. Len(log) : log'[i] = log[i]
         /\ log'[Len(log) + 1] = e
         /\ log' \in Seq(Samples)
BY DEF RulesTypeOK, Ticks

(* The last pose is the one nothing was heard after.                       *)
LEMMA LastIs ==
  \A i \in Nat : \A m \in 1 .. i : IsLast(m, i) => LastPose(i) = log[m].pose
<1> SUFFICES ASSUME NEW i \in Nat, NEW m \in 1 .. i, IsLast(m, i)
             PROVE  LastPose(i) = log[m].pose
  OBVIOUS
<1> DEFINE L == CHOOSE j \in 1 .. i : Posed(j) /\ \A k \in j+1 .. i : ~Posed(k)
<1>1. LastPose(i) = log[L].pose
  BY DEF LastPose, IsLast
<1>2. L \in 1 .. i /\ Posed(L) /\ \A k \in L+1 .. i : ~Posed(k)
  BY DEF IsLast
<1> HIDE DEF L
<1>3. ~(L < m)
  BY <1>2 DEF IsLast
<1>4. ~(m < L)
  BY <1>2 DEF IsLast
<1>5. L = m
  BY <1>2, <1>3, <1>4
<1> QED
  BY <1>1, <1>5

LEMMA LastIsNext ==
  (\A i \in Nat : \A m \in 1 .. i : IsLast(m, i) => LastPose(i) = log[m].pose)'
BY LastIs, PTL

(* What is past does not change.                                           *)
LEMMA PastStays ==
  ASSUME LastKnown, Len(log) \in Nat, Ticks = 1 .. Len(log),
         \A i \in 1 .. Len(log) : log'[i] = log[i]
  PROVE  \A i \in 1 .. Len(log) :
           /\ Posed(i)' <=> Posed(i)
           /\ TakenOff(i)' <=> TakenOff(i)
           /\ Glitched(i)' <=> Glitched(i)
           /\ LastPose(i)' = LastPose(i)
<1>g. /\ Len(log) \in Nat /\ Ticks = 1 .. Len(log)
      /\ \A i \in 1 .. Len(log) : log'[i] = log[i]
  OBVIOUS
<1> SUFFICES ASSUME NEW i \in 1 .. Len(log)
             PROVE  /\ Posed(i)' <=> Posed(i)
                    /\ TakenOff(i)' <=> TakenOff(i)
                    /\ Glitched(i)' <=> Glitched(i)
                    /\ LastPose(i)' = LastPose(i)
  OBVIOUS
<1>1. \A j \in 1 .. i : log'[j] = log[j] /\ (Posed(j)' <=> Posed(j))
  BY <1>g DEF Posed
<1>2. TakenOff(i)' <=> TakenOff(i)
  BY <1>1 DEF TakenOff
<1>3. Glitched(i)' <=> Glitched(i)
  BY <1>g, <1>2 DEF Glitched
<1>4. LastPose(i)' = LastPose(i)
  <2>1. CASE \E j \in 1 .. i : Posed(j)
    <3>1. PICK m \in 1 .. i : IsLast(m, i)
      BY <1>g, <2>1 DEF LastKnown
    <3>2. IsLast(m, i)'
      BY <1>g, <1>1, <3>1 DEF IsLast
    <3>3. i \in Nat
      BY <1>g
    <3>4. LastPose(i) = log[m].pose
      BY <3>1, <3>3, LastIs
    <3>5. LastPose(i)' = log'[m].pose
      BY <3>2, <3>3, LastIsNext
    <3> QED
      BY <1>1, <3>4, <3>5
  <2>2. CASE ~\E j \in 1 .. i : Posed(j)
    BY <1>1, <2>2 DEF LastPose
  <2> QED
    BY <2>1, <2>2
<1> QED
  BY <1>g, <1>1, <1>2, <1>3, <1>4

(* A tick: it writes e, and the newest pose is e's if e has one.           *)
TickOf(e) ==
  /\ e \in Samples /\ log' = Append(log, e)
  /\ newest' = IF e.pose = "none" THEN newest ELSE e.pose

LEMMA NewestKept ==
  ASSUME RulesTypeOK, LastKnown, NEW e, TickOf(e), NEW n \in Nat, n = Len(log)
  PROVE  LastKnown' /\ LastPose(n + 1)' = newest'
<1>g. /\ n = Len(log) /\ n \in Nat /\ Len(log') = n + 1 /\ Ticks = 1 .. n /\ Ticks' = 1 .. n + 1
      /\ \A i \in 1 .. n : log'[i] = log[i]
      /\ log'[n + 1] = e
  BY LogGrows DEF TickOf
<1>s. \A i \in 1 .. n : (Posed(i)' <=> Posed(i)) /\ LastPose(i)' = LastPose(i)
  BY <1>g, PastStays
<1>l. newest = LastPose(n)
  BY DEF LastKnown
<1>t. newest' = IF e.pose = "none" THEN newest ELSE e.pose
  BY DEF TickOf
<1>p. Posed(n + 1)' <=> e.pose # "none"
  BY <1>g DEF Posed
<1>1. \A i \in 1 .. n, m \in 1 .. n : m <= i => (IsLast(m, i)' <=> IsLast(m, i))
  BY <1>g, <1>s DEF IsLast
<1>2. ASSUME NEW i \in 1 .. n, \E j \in 1 .. i : Posed(j)'
      PROVE  \E m \in 1 .. i : IsLast(m, i)'
  <2>1. \E j \in 1 .. i : Posed(j)
    BY <1>g, <1>s, <1>2
  <2>2. PICK m \in 1 .. i : IsLast(m, i)
    BY <1>g, <2>1 DEF LastKnown
  <2> QED
    BY <1>1, <1>g, <2>2
<1>3. CASE e.pose # "none"
  <2>1. IsLast(n + 1, n + 1)'
    BY <1>g, <1>p, <1>3 DEF IsLast
  <2>2. n + 1 \in Nat /\ n + 1 \in 1 .. n + 1
    BY <1>g
  <2>3. LastPose(n + 1)' = e.pose
    BY <1>g, <2>1, <2>2, LastIsNext
  <2>4. \A i \in 1 .. n + 1 : (\E j \in 1 .. i : Posed(j)') => \E m \in 1 .. i : IsLast(m, i)'
    <3> SUFFICES ASSUME NEW i \in 1 .. n + 1, \E j \in 1 .. i : Posed(j)'
                 PROVE  \E m \in 1 .. i : IsLast(m, i)'
      OBVIOUS
    <3>1. CASE i = n + 1
      BY <2>1, <2>2, <3>1
    <3>2. CASE i # n + 1
      BY <1>2, <1>g, <3>2
    <3> QED
      BY <3>1, <3>2
  <2> QED
    BY <1>g, <1>t, <1>3, <2>3, <2>4 DEF LastKnown
<1>4. CASE e.pose = "none" /\ \E j \in 1 .. n : Posed(j)
  <2>1. n \in 1 .. n
    BY <1>g, <1>4
  <2>2. PICK m \in 1 .. n : IsLast(m, n)
    BY <1>g, <1>4, <2>1 DEF LastKnown
  <2>3. IsLast(m, n + 1)'
    <3>1. Posed(m)'
      BY <1>s, <2>2 DEF IsLast
    <3>2. \A k \in m + 1 .. n + 1 : ~Posed(k)'
      <4> SUFFICES ASSUME NEW k \in m + 1 .. n + 1
                   PROVE  ~Posed(k)'
        OBVIOUS
      <4>1. CASE k = n + 1
        BY <1>p, <1>4, <4>1
      <4>2. CASE k # n + 1
        <5>1. k \in m + 1 .. n /\ k \in 1 .. n
          BY <1>g, <4>2
        <5> QED
          BY <1>s, <2>2, <5>1 DEF IsLast
      <4> QED
        BY <4>1, <4>2
    <3> QED
      BY <3>1, <3>2 DEF IsLast
  <2>4. n \in Nat /\ n + 1 \in Nat /\ m \in 1 .. n + 1
    BY <1>g
  <2>5. LastPose(n) = log[m].pose
    BY <2>2, <2>4, LastIs
  <2>6. LastPose(n + 1)' = log'[m].pose
    BY <2>3, <2>4, LastIsNext
  <2>7. LastPose(n + 1)' = newest'
    BY <1>g, <1>l, <1>t, <1>4, <2>5, <2>6
  <2>8. \A i \in 1 .. n + 1 : (\E j \in 1 .. i : Posed(j)') => \E k \in 1 .. i : IsLast(k, i)'
    <3> SUFFICES ASSUME NEW i \in 1 .. n + 1, \E j \in 1 .. i : Posed(j)'
                 PROVE  \E k \in 1 .. i : IsLast(k, i)'
      OBVIOUS
    <3>1. CASE i = n + 1
      BY <2>3, <2>4, <3>1
    <3>2. CASE i # n + 1
      BY <1>2, <1>g, <3>2
    <3> QED
      BY <3>1, <3>2
  <2> QED
    BY <1>g, <2>7, <2>8 DEF LastKnown
<1>5. CASE e.pose = "none" /\ ~\E j \in 1 .. n : Posed(j)
  <2>1. ~\E j \in 1 .. n + 1 : Posed(j)'
    <3> SUFFICES ASSUME NEW j \in 1 .. n + 1 PROVE ~Posed(j)'
      OBVIOUS
    <3>1. CASE j = n + 1
      BY <1>p, <1>5, <3>1
    <3>2. CASE j # n + 1
      <4>1. j \in 1 .. n
        BY <1>g, <3>2
      <4> QED
        BY <1>s, <1>5, <4>1
    <3> QED
      BY <3>1, <3>2
  <2>2. LastPose(n + 1)' = "level" /\ LastPose(n) = "level"
    BY <1>5, <2>1 DEF LastPose
  <2>3. \A i \in 1 .. n + 1 : ~\E j \in 1 .. i : Posed(j)'
    BY <1>g, <2>1
  <2> QED
    BY <1>g, <1>l, <1>t, <1>5, <2>2, <2>3 DEF LastKnown
<1> QED
  BY <1>3, <1>4, <1>5

(* The runs of the envelope and of the limit have one tick more.           *)
LEMMA RunsTick ==
  ASSUME RulesTypeOK, LastKnown, NEW e, TickOf(e), NEW n \in Nat, n = Len(log)
  PROVE  /\ OneMore(FlownTicks, Tilted, FlownTicks', Tilted', n)
         /\ n + 1 \in FlownTicks' <=> e.flying
         /\ n + 1 \in Tilted' <=> newest' \in PastTilt
         /\ OneMore(Seen, Out, Seen', Out', n)
         /\ n + 1 \in Seen' <=> e.pose # "none"
         /\ n + 1 \in Out' <=> e.pose = "out" /\ e.flying
<1>g. /\ n \in Nat /\ Len(log) = n /\ Ticks = 1 .. n /\ Ticks' = 1 .. n + 1
      /\ \A i \in 1 .. n : log'[i] = log[i]
      /\ log'[n + 1] = e
  BY LogGrows DEF TickOf
<1>s. \A i \in 1 .. n : (Posed(i)' <=> Posed(i)) /\ LastPose(i)' = LastPose(i)
  BY <1>g, PastStays
<1>l. LastPose(n + 1)' = newest'
  BY NewestKept
<1>0. n + 1 \in 1 .. n + 1 /\ \A i \in 1 .. n : i \in 1 .. n + 1
  BY <1>g
<1>1. OneMore(FlownTicks, Tilted, FlownTicks', Tilted', n)
  BY <1>g, <1>s, <1>0 DEF OneMore, FlownTicks, Tilted
<1>2. OneMore(Seen, Out, Seen', Out', n)
  BY <1>g, <1>s, <1>0 DEF OneMore, Seen, Out
<1>3. /\ n + 1 \in FlownTicks' <=> e.flying
      /\ n + 1 \in Tilted' <=> newest' \in PastTilt
  BY <1>g, <1>0, <1>l DEF FlownTicks, Tilted
<1>4. /\ n + 1 \in Seen' <=> e.pose # "none"
      /\ n + 1 \in Out' <=> e.pose = "out" /\ e.flying
  BY <1>g, <1>0 DEF Seen, Out, Posed
<1> QED
  BY <1>1, <1>2, <1>3, <1>4

-----------------------------------------------------------------------------
(* The envelope, at a tick.                                                *)
LEMMA EnvelopeTick ==
  ASSUME RulesInv, NEW e, TickOf(e), Check(newest', e.flying)
  PROVE  EnvelopeInv' /\ violations' \in 0 .. FaultDebounce /\ env_latched' \in BOOLEAN
<1>1. PICK n \in Nat : n = Len(log)
  BY LogGrows DEF RulesInv, TickOf
<1>g. Len(log') = n + 1 /\ Ticks = 1 .. n /\ Ticks' = 1 .. n + 1
  BY <1>1, LogGrows DEF RulesInv, TickOf
<1>m. /\ OneMore(FlownTicks, Tilted, FlownTicks', Tilted', n)
      /\ n + 1 \in FlownTicks' <=> e.flying
      /\ n + 1 \in Tilted' <=> newest' \in PastTilt
  BY <1>1, RunsTick DEF RulesInv
<1>d. FaultDebounce \in Nat \ {0}
  BY RulesAssumption
<1>t. violations \in 0 .. FaultDebounce /\ env_latched \in BOOLEAN
  BY DEF RulesInv, RulesTypeOK
<1>e. env_latched <=> HasRun(FaultDebounce, FlownTicks, Tilted, n)
  BY <1>g DEF RulesInv, EnvelopeInv, EnvelopeOfTicks, RunOf, HasRun, FlownTicks, Tilted
<1>v. ~env_latched =>
        violations < FaultDebounce /\ Trails(violations, FlownTicks, Tilted, n)
  BY <1>1 DEF RulesInv, EnvelopeInv
<1>c. /\ violations' = CASE ~e.flying \/ env_latched -> violations
                         [] e.flying /\ ~env_latched /\ newest' \in PastTilt ->
                              violations + 1
                         [] OTHER -> 0
      /\ env_latched' = (env_latched \/ violations' >= FaultDebounce)
  BY DEF Check
<1> SUFFICES /\ env_latched' <=> HasRun(FaultDebounce, FlownTicks', Tilted', n + 1)
             /\ ~env_latched' =>
                  violations' < FaultDebounce /\ Trails(violations', FlownTicks', Tilted', n + 1)
             /\ violations' \in 0 .. FaultDebounce /\ env_latched' \in BOOLEAN
  BY <1>g DEF EnvelopeInv, EnvelopeOfTicks, RunOf, HasRun, FlownTicks, Tilted
<1>2. CASE env_latched
  <2>1. violations' = violations /\ env_latched' = TRUE
    BY <1>c, <1>2
  <2>2. HasRun(FaultDebounce, FlownTicks, Tilted, n) =>
          HasRun(FaultDebounce, FlownTicks', Tilted', n + 1)
    BY <1>m, <1>d, RunsStay
  <2> QED
    BY <2>1, <2>2, <1>e, <1>t, <1>2
<1>3. CASE ~env_latched /\ ~e.flying
  <2>1. violations' = violations /\ env_latched' = FALSE
    BY <1>c, <1>d, <1>t, <1>v, <1>3
  <2>2. Trails(violations, FlownTicks, Tilted, n) /\ n + 1 \notin FlownTicks'
    BY <1>v, <1>m, <1>3
  <2>3. /\ Trails(violations, FlownTicks', Tilted', n + 1)
        /\ HasRun(FaultDebounce, FlownTicks', Tilted', n + 1) <=>
             HasRun(FaultDebounce, FlownTicks, Tilted, n)
    BY <2>2, <1>m, <1>d, RunUncounted
  <2> QED
    BY <2>1, <2>3, <1>e, <1>v, <1>t, <1>3
<1>4. CASE ~env_latched /\ e.flying /\ newest' \in PastTilt
  <2>1. violations' = violations + 1 /\ (env_latched' <=> violations + 1 >= FaultDebounce)
    BY <1>c, <1>4
  <2>0. env_latched' \in BOOLEAN
    BY <1>c
  <2>2. /\ Trails(violations, FlownTicks, Tilted, n) /\ n + 1 \in FlownTicks' /\ n + 1 \in Tilted'
        /\ violations \in Nat
    BY <1>v, <1>m, <1>t, <1>4
  <2>3. /\ Trails(violations + 1, FlownTicks', Tilted', n + 1)
        /\ HasRun(FaultDebounce, FlownTicks', Tilted', n + 1) <=>
             HasRun(FaultDebounce, FlownTicks, Tilted, n) \/ violations + 1 >= FaultDebounce
    BY <2>2, <1>m, <1>d, RunGrows
  <2>4. violations' \in 0 .. FaultDebounce
    BY <2>1, <1>v, <1>t, <1>d, <1>4
  <2>5. ~env_latched' => violations' < FaultDebounce
    BY <2>1, <2>4, <1>d
  <2> QED
    BY <2>0, <2>1, <2>3, <2>4, <2>5, <1>e, <1>4
<1>5. CASE ~env_latched /\ e.flying /\ newest' \notin PastTilt
  <2>1. violations' = 0 /\ env_latched' = FALSE
    <3>1. ~(~e.flying \/ env_latched)
      BY <1>5
    <3>2. ~(e.flying /\ ~env_latched /\ newest' \in PastTilt)
      BY <1>5
    <3>3. violations' = 0
      BY <1>c, <3>1, <3>2
    <3>4. ~(0 >= FaultDebounce)
      BY <1>d
    <3> QED
      BY <1>c, <1>5, <3>3, <3>4
  <2>2. n + 1 \in FlownTicks' /\ n + 1 \notin Tilted'
    BY <1>m, <1>5
  <2>3. /\ Trails(0, FlownTicks', Tilted', n + 1)
        /\ HasRun(FaultDebounce, FlownTicks', Tilted', n + 1) <=>
             HasRun(FaultDebounce, FlownTicks, Tilted, n)
    BY <2>2, <1>m, <1>d, RunEnds
  <2>4. 0 < FaultDebounce /\ 0 \in 0 .. FaultDebounce
    BY <1>d
  <2> QED
    BY <2>1, <2>3, <2>4, <1>e, <1>5
<1> QED
  BY <1>2, <1>3, <1>4, <1>5

(* The position limit, at a tick with a pose and at one without.           *)
LEMMA LimitTick ==
  ASSUME RulesInv, NEW e, TickOf(e),
         IF e.pose = "none" THEN UNCHANGED limitVars ELSE LimitCheck(e.pose, e.flying)
  PROVE  LimitInv' /\ limit_count' \in 0 .. Len(log') /\ limit_land' \in BOOLEAN
<1>1. PICK n \in Nat : n = Len(log)
  BY LogGrows DEF RulesInv, TickOf
<1>g. Len(log') = n + 1 /\ Ticks = 1 .. n /\ Ticks' = 1 .. n + 1
  BY <1>1, LogGrows DEF RulesInv, TickOf
<1>m. /\ OneMore(Seen, Out, Seen', Out', n)
      /\ n + 1 \in Seen' <=> e.pose # "none"
      /\ n + 1 \in Out' <=> e.pose = "out" /\ e.flying
  BY <1>1, RunsTick DEF RulesInv
<1>d. LimitSamples \in Nat \ {0}
  BY RulesAssumption
<1>t. limit_count \in Nat /\ limit_count <= n /\ limit_land \in BOOLEAN
  BY <1>1 DEF RulesInv, RulesTypeOK
<1>e. limit_land <=> HasRun(LimitSamples, Seen, Out, n)
  BY <1>g DEF RulesInv, LimitInv, LimitAsDefined, RunOf, HasRun, Seen, Out
<1>v. Trails(limit_count, Seen, Out, n)
  BY <1>1 DEF RulesInv, LimitInv
<1> SUFFICES /\ limit_land' <=> HasRun(LimitSamples, Seen', Out', n + 1)
             /\ Trails(limit_count', Seen', Out', n + 1)
             /\ limit_count' \in 0 .. n + 1 /\ limit_land' \in BOOLEAN
  BY <1>g DEF LimitInv, LimitAsDefined, RunOf, HasRun, Seen, Out
<1>2. CASE e.pose = "none"
  <2>1. limit_count' = limit_count /\ limit_land' = limit_land
    BY <1>2 DEF limitVars
  <2>2. n + 1 \notin Seen'
    BY <1>m, <1>2
  <2>3. /\ Trails(limit_count, Seen', Out', n + 1)
        /\ HasRun(LimitSamples, Seen', Out', n + 1) <=> HasRun(LimitSamples, Seen, Out, n)
    BY <2>2, <1>m, <1>v, <1>d, RunUncounted
  <2> QED
    BY <2>1, <2>3, <1>e, <1>t
<1>3. CASE e.pose = "out" /\ e.flying
  <2>1. /\ limit_count' = limit_count + 1
        /\ limit_land' = (limit_land \/ limit_count + 1 = LimitSamples)
    BY <1>3 DEF LimitCheck
  <2>2. n + 1 \in Seen' /\ n + 1 \in Out'
    BY <1>m, <1>3
  <2>3. /\ Trails(limit_count + 1, Seen', Out', n + 1)
        /\ HasRun(LimitSamples, Seen', Out', n + 1) <=>
             HasRun(LimitSamples, Seen, Out, n) \/ limit_count + 1 >= LimitSamples
    BY <2>2, <1>m, <1>v, <1>t, <1>d, RunGrows
  <2>4. limit_count >= LimitSamples => HasRun(LimitSamples, Seen, Out, n)
    BY <1>v, <1>t, <1>d, TrailIsRun
  <2>5. limit_count + 1 >= LimitSamples =>
          limit_count >= LimitSamples \/ limit_count + 1 = LimitSamples
    BY <1>t, <1>d
  <2>6. limit_count + 1 = LimitSamples => limit_count + 1 >= LimitSamples
    BY <1>t, <1>d
  <2>7. limit_land' <=> HasRun(LimitSamples, Seen', Out', n + 1)
    BY <2>1, <2>3, <2>4, <2>5, <2>6, <1>e
  <2> QED
    BY <2>1, <2>3, <2>7, <1>t
<1>4. CASE e.pose # "none" /\ ~(e.pose = "out" /\ e.flying)
  <2>1. limit_count' = 0 /\ limit_land' = limit_land
    BY <1>4, <1>d, <1>t DEF LimitCheck
  <2>2. n + 1 \in Seen' /\ n + 1 \notin Out'
    BY <1>m, <1>4
  <2>3. /\ Trails(0, Seen', Out', n + 1)
        /\ HasRun(LimitSamples, Seen', Out', n + 1) <=> HasRun(LimitSamples, Seen, Out, n)
    BY <2>2, <1>m, <1>d, RunEnds
  <2> QED
    BY <2>1, <2>3, <1>e, <1>t
<1> QED
  BY <1>2, <1>3, <1>4

-----------------------------------------------------------------------------
(* A cut: the poses from t0 to t1 cut.                                     *)
Cuts(t0, t1) ==
  /\ t0 <= t1 /\ t1 - t0 >= CutHold
  /\ TakenOff(t0) /\ Posed(t0) /\ Posed(t1) /\ ~HeldOff(t0)
  /\ \A i \in t0 .. t1 : log[i].pose \in {"tilted", "none"}

(* What a tick adds: cuts that end in it, poses a cut can count from.      *)
LEMMA CutsTick ==
  ASSUME RulesTypeOK, LastKnown, NEW e, TickOf(e), NEW n \in Nat, n = Len(log)
  PROVE  /\ TakenOff(n + 1)' <=> TakenOff(n) \/ (e.pose # "none" /\ e.flying)
         /\ \A g \in 1 .. n : Glitched(g)' <=> Glitched(g)
         /\ Glitched(n + 1)' <=> e.pose = "glitch" /\ TakenOff(n + 1)'
         /\ \A t0 \in 1 .. n + 1 : CountsFrom(t0)' => TakenOff(n + 1)'
         /\ \A t0 \in 1 .. n :
              CountsFrom(t0)' <=> CountsFrom(t0) /\ e.pose \in {"tilted", "none"}
         /\ CountsFrom(n + 1)' <=>
              /\ TakenOff(n + 1)' /\ e.pose = "tilted"
              /\ ~\E g \in 1 .. n : Glitched(g) /\ ~(n + 1 >= g + Holdoff)
         /\ (\E t0, t1 \in 1 .. n + 1 : Cuts(t0, t1)') <=>
              \/ \E t0, t1 \in 1 .. n : Cuts(t0, t1)
              \/ /\ e.pose = "tilted"
                 /\ \E t0 \in 1 .. n + 1 : CountsFrom(t0)' /\ (n + 1) - t0 >= CutHold
<1>g. /\ Len(log') = n + 1 /\ Len(log) = n /\ Ticks = 1 .. n
      /\ \A i \in 1 .. n : log'[i] = log[i]
      /\ log'[n + 1] = e
  BY LogGrows DEF TickOf
<1>s. /\ \A i \in 1 .. n : Posed(i)' <=> Posed(i)
      /\ \A i \in 1 .. n : TakenOff(i)' <=> TakenOff(i)
      /\ \A i \in 1 .. n : Glitched(i)' <=> Glitched(i)
  BY <1>g, PastStays
<1>p. Posed(n + 1)' <=> e.pose # "none"
  BY <1>g DEF Posed
<1>0. /\ n + 1 \in 1 .. n + 1 /\ \A i \in 1 .. n : i \in 1 .. n + 1
      /\ \A i \in 1 .. n + 1 : i = n + 1 \/ i \in 1 .. n
  OBVIOUS
<1>h. \A t0 \in 1 .. n : HeldOff(t0)' <=> HeldOff(t0)
  <2> SUFFICES ASSUME NEW t0 \in 1 .. n PROVE HeldOff(t0)' <=> HeldOff(t0)
    OBVIOUS
  <2>1. \A g \in 1 .. t0 : Glitched(g)' <=> Glitched(g)
    BY <1>s
  <2> QED
    BY <2>1 DEF HeldOff
<1>1. TakenOff(n + 1)' <=> TakenOff(n) \/ (e.pose # "none" /\ e.flying)
  BY <1>g, <1>s, <1>p, <1>0 DEF TakenOff
<1>2. Glitched(n + 1)' <=> e.pose = "glitch" /\ TakenOff(n + 1)'
  BY <1>g DEF Glitched
<1>3. \A t0 \in 1 .. n + 1 : TakenOff(t0)' => TakenOff(n + 1)'
  BY DEF TakenOff
<1>4. \A t0 \in 1 .. n + 1 : CountsFrom(t0)' => TakenOff(n + 1)'
  BY <1>3 DEF CountsFrom
<1>5. \A t0 \in 1 .. n :
        CountsFrom(t0)' <=> CountsFrom(t0) /\ e.pose \in {"tilted", "none"}
  <2> SUFFICES ASSUME NEW t0 \in 1 .. n
               PROVE  CountsFrom(t0)' <=> CountsFrom(t0) /\ e.pose \in {"tilted", "none"}
    OBVIOUS
  <2>1. (\A i \in t0 .. n + 1 : log'[i].pose \in {"tilted", "none"}) <=>
          (\A i \in t0 .. n : log[i].pose \in {"tilted", "none"})
          /\ e.pose \in {"tilted", "none"}
    <3>1. \A i \in t0 .. n + 1 : i = n + 1 \/ i \in t0 .. n
      OBVIOUS
    <3>2. \A i \in t0 .. n : i \in t0 .. n + 1 /\ i \in 1 .. n
      OBVIOUS
    <3>3. n + 1 \in t0 .. n + 1
      OBVIOUS
    <3> QED
      BY <1>g, <3>1, <3>2, <3>3
  <2>2. HeldOff(t0)' <=> HeldOff(t0)
    BY <1>h
  <2> QED
    BY <1>g, <1>s, <2>1, <2>2 DEF CountsFrom
<1>6. CountsFrom(n + 1)' <=>
        /\ TakenOff(n + 1)' /\ e.pose = "tilted"
        /\ ~\E g \in 1 .. n : Glitched(g) /\ ~(n + 1 >= g + Holdoff)
  <2>1. (\A i \in n + 1 .. n + 1 : log'[i].pose \in {"tilted", "none"}) <=>
          e.pose \in {"tilted", "none"}
    BY <1>g
  <2>2. ASSUME e.pose = "tilted"
        PROVE  HeldOff(n + 1)' <=> \E g \in 1 .. n : Glitched(g) /\ ~(n + 1 >= g + Holdoff)
    <3>1. ~Glitched(n + 1)'
      BY <1>2, <2>2
    <3> QED
      BY <1>s, <1>0, <3>1 DEF HeldOff
  <2>3. CountsFrom(n + 1)' <=>
          TakenOff(n + 1)' /\ Posed(n + 1)' /\ ~HeldOff(n + 1)'
          /\ e.pose \in {"tilted", "none"}
    BY <1>g, <2>1 DEF CountsFrom
  <2> QED
    BY <1>p, <2>2, <2>3
<1>7. \A t0, t1 \in 1 .. n : t0 <= t1 => (Cuts(t0, t1)' <=> Cuts(t0, t1))
  <2> SUFFICES ASSUME NEW t0 \in 1 .. n, NEW t1 \in 1 .. n, t0 <= t1
               PROVE  Cuts(t0, t1)' <=> Cuts(t0, t1)
    OBVIOUS
  <2>1. (\A i \in t0 .. t1 : log'[i].pose \in {"tilted", "none"}) <=>
          \A i \in t0 .. t1 : log[i].pose \in {"tilted", "none"}
    BY <1>g
  <2>2. HeldOff(t0)' <=> HeldOff(t0)
    BY <1>h
  <2> QED
    BY <1>s, <2>1, <2>2 DEF Cuts
<1>8. \A t0 \in 1 .. n + 1 :
        Cuts(t0, n + 1)' <=>
          e.pose = "tilted" /\ CountsFrom(t0)' /\ (n + 1) - t0 >= CutHold
  <2> SUFFICES ASSUME NEW t0 \in 1 .. n + 1
               PROVE  Cuts(t0, n + 1)' <=>
                        e.pose = "tilted" /\ CountsFrom(t0)' /\ (n + 1) - t0 >= CutHold
    OBVIOUS
  <2>1. t0 <= n + 1 /\ n + 1 \in t0 .. n + 1
    OBVIOUS
  <2>2. CountsFrom(t0)' => e.pose \in {"tilted", "none"}
    BY <1>g, <2>1 DEF CountsFrom
  <2>3. Cuts(t0, n + 1)' <=> CountsFrom(t0)' /\ Posed(n + 1)' /\ (n + 1) - t0 >= CutHold
    BY <1>g, <2>1 DEF Cuts, CountsFrom
  <2> QED
    BY <1>p, <2>2, <2>3
<1>9. (\E t0, t1 \in 1 .. n + 1 : Cuts(t0, t1)') <=>
        \/ \E t0, t1 \in 1 .. n : Cuts(t0, t1)
        \/ /\ e.pose = "tilted"
           /\ \E t0 \in 1 .. n + 1 : CountsFrom(t0)' /\ (n + 1) - t0 >= CutHold
  <2>1. \A t0, t1 \in 1 .. n + 1 : Cuts(t0, t1)' => t0 <= t1
    BY DEF Cuts
  <2>2. \A t0, t1 \in 1 .. n : Cuts(t0, t1) => t0 <= t1
    BY DEF Cuts
  <2>3. \A t0, t1 \in 1 .. n + 1 : t0 <= t1 /\ t1 # n + 1 => t0 \in 1 .. n /\ t1 \in 1 .. n
    OBVIOUS
  <2> QED
    BY <1>7, <1>8, <1>0, <2>1, <2>2, <2>3
<1> QED
  BY <1>1, <1>2, <1>4, <1>5, <1>6, <1>9, <1>s

(* The tilt cut, at a tick.                                                *)
LEMMA TiltTick ==
  ASSUME RulesInv, NEW e, TickOf(e),
         IF e.pose = "none" THEN UNCHANGED tiltVars
           ELSE tilt_flying' = (tilt_flying \/ e.flying) /\ Step(e.pose, Len(log) + 1)
  PROVE  /\ TiltInv'
         /\ tilt_flying' \in BOOLEAN /\ tilt_fault' \in BOOLEAN
         /\ above' \in 0 .. Len(log') /\ holdoff_until' \in 0 .. Len(log') + Holdoff
<1>1. PICK n \in Nat : n = Len(log)
  BY LogGrows DEF RulesInv, TickOf
<1>g. Len(log) = n /\ Len(log') = n + 1 /\ Ticks = 1 .. n /\ Ticks' = 1 .. n + 1
  BY <1>1, LogGrows DEF RulesInv, TickOf
<1>m. /\ TakenOff(n + 1)' <=> TakenOff(n) \/ (e.pose # "none" /\ e.flying)
      /\ \A g \in 1 .. n : Glitched(g)' <=> Glitched(g)
      /\ Glitched(n + 1)' <=> e.pose = "glitch" /\ TakenOff(n + 1)'
      /\ \A t0 \in 1 .. n + 1 : CountsFrom(t0)' => TakenOff(n + 1)'
      /\ \A t0 \in 1 .. n :
           CountsFrom(t0)' <=> CountsFrom(t0) /\ e.pose \in {"tilted", "none"}
      /\ CountsFrom(n + 1)' <=>
           /\ TakenOff(n + 1)' /\ e.pose = "tilted"
           /\ ~\E g \in 1 .. n : Glitched(g) /\ ~(n + 1 >= g + Holdoff)
      /\ (\E t0, t1 \in 1 .. n + 1 : Cuts(t0, t1)') <=>
           \/ \E t0, t1 \in 1 .. n : Cuts(t0, t1)
           \/ /\ e.pose = "tilted"
              /\ \E t0 \in 1 .. n + 1 : CountsFrom(t0)' /\ (n + 1) - t0 >= CutHold
  BY <1>1, CutsTick DEF RulesInv
<1>h. Holdoff \in Nat /\ CutHold \in Nat
  BY RulesAssumption
<1>t. /\ tilt_flying \in BOOLEAN /\ tilt_fault \in BOOLEAN
      /\ above \in 0 .. n /\ holdoff_until \in 0 .. n + Holdoff
  BY <1>g, <1>h, RulesAssumption DEF RulesInv, RulesTypeOK
<1>b. /\ \A i \in 1 .. n + 1 : i = n + 1 \/ i \in 1 .. n
      /\ \A i \in 1 .. n : i \in 1 .. n + 1 /\ i \in Int
      /\ n + 1 \in 1 .. n + 1
  OBVIOUS
<1>e. /\ tilt_fault <=> \E t0, t1 \in 1 .. n : Cuts(t0, t1)
      /\ tilt_flying <=> TakenOff(n)
  BY <1>g DEF RulesInv, TiltInv, SinceTakeOff, TiltAsDefined, Cuts, HeldOff, Glitched
<1>i. ~tilt_fault =>
        /\ \A g \in 1 .. n : Glitched(g) => g + Holdoff <= holdoff_until
        /\ holdoff_until = 0 \/
             \E g \in 1 .. n : Glitched(g) /\ holdoff_until = g + Holdoff
        /\ above # 0 => above \in 1 .. n /\ CountsFrom(above)
        /\ \A t0 \in 1 .. n : CountsFrom(t0) => above # 0 /\ above <= t0
  BY <1>g DEF RulesInv, TiltInv, LastGlitch, FirstTilted
<1> DEFINE
      Fault == tilt_fault' <=> \E t0, t1 \in 1 .. n + 1 : Cuts(t0, t1)'
      Flies == tilt_flying' <=> TakenOff(n + 1)'
      Bounds == \A g \in 1 .. n + 1 : Glitched(g)' => g + Holdoff <= holdoff_until'
      Sharp == holdoff_until' = 0 \/
                 \E g \in 1 .. n + 1 : Glitched(g)' /\ holdoff_until' = g + Holdoff
      Above == /\ above' # 0 => above' \in 1 .. n + 1
               /\ \A a \in 1 .. n + 1 : a = above' => CountsFrom(a)'
      First == \A t0 \in 1 .. n + 1 : CountsFrom(t0)' => above' # 0 /\ above' <= t0
      Types == /\ tilt_flying' \in BOOLEAN /\ tilt_fault' \in BOOLEAN
               /\ above' \in 0 .. n + 1 /\ holdoff_until' \in 0 .. n + 1 + Holdoff
<1> SUFFICES Fault /\ Flies /\ (~tilt_fault' => Bounds /\ Sharp /\ Above /\ First) /\ Types
  <2>1. Above => (above' # 0 => above' \in 1 .. n + 1 /\ CountsFrom(above)')
    BY DEF CountsFrom, HeldOff, Glitched, TakenOff, Posed
  <2>2. Fault => TiltAsDefined'
    BY <1>g DEF TiltAsDefined, Cuts, HeldOff, Glitched
  <2>3. Flies => SinceTakeOff'
    BY <1>g DEF SinceTakeOff, TakenOff, Posed
  <2>4. Bounds /\ Sharp => LastGlitch'
    BY <1>g DEF LastGlitch
  <2>5. Above /\ First => FirstTilted'
    BY <1>g, <2>1 DEF FirstTilted
  <2> HIDE DEF Fault, Flies, Bounds, Sharp, Above, First
  <2> QED
    BY <1>g, <2>2, <2>3, <2>4, <2>5 DEF TiltInv
<1>2. CASE e.pose = "none"
  <2>1. /\ tilt_flying' = tilt_flying /\ tilt_fault' = tilt_fault
        /\ above' = above /\ holdoff_until' = holdoff_until
    BY <1>2 DEF tiltVars
  <2>2. ~CountsFrom(n + 1)' /\ ~Glitched(n + 1)'
    BY <1>m, <1>2
  <2>3. \A t0 \in 1 .. n : CountsFrom(t0)' <=> CountsFrom(t0)
    BY <1>m, <1>2
  <2>4. Fault /\ Flies
    BY <1>m, <1>e, <1>2, <2>1
  <2>5. Types
    BY <2>1, <1>t, <1>h
  <2>6. ASSUME ~tilt_fault' PROVE Bounds /\ Sharp /\ Above /\ First
    <3>1. ~tilt_fault
      BY <2>1, <2>6
    <3>2. Bounds /\ Sharp
      BY <1>i, <1>b, <1>m, <2>1, <2>2, <3>1
    <3>3. Above /\ First
      BY <1>i, <1>b, <2>1, <2>2, <2>3, <3>1
    <3> QED
      BY <3>2, <3>3
  <2> QED
    BY <2>4, <2>5, <2>6
<1>3. ASSUME e.pose # "none" PROVE Flies /\ tilt_flying' \in BOOLEAN /\ e.pose \in Poses
  BY <1>3, <1>m, <1>e, <1>t DEF TickOf, Samples
<1>4. CASE e.pose # "none" /\ ~tilt_flying'
  <2>1. tilt_fault' = tilt_fault /\ above' = above /\ holdoff_until' = holdoff_until
    BY <1>4 DEF Step, TiltIdle
  <2>2. /\ ~TakenOff(n + 1)' /\ ~TakenOff(n) /\ ~Glitched(n + 1)'
        /\ \A t0 \in 1 .. n + 1 : ~CountsFrom(t0)'
    BY <1>3, <1>4, <1>m
  <2>3. Fault
    BY <1>m, <1>e, <2>1, <2>2
  <2>4. Types
    BY <2>1, <1>t, <1>h, <1>3, <1>4
  <2>5. ASSUME ~tilt_fault' PROVE Bounds /\ Sharp /\ Above /\ First
    <3>1. ~tilt_fault
      BY <2>1, <2>5
    <3>2. Bounds /\ Sharp
      BY <1>i, <1>b, <1>m, <2>1, <2>2, <3>1
    <3>3. above = 0
      <4>1. \A a \in 1 .. n : CountsFrom(a) => TakenOff(n)
        BY <1>g DEF CountsFrom, TakenOff
      <4> QED
        BY <1>i, <2>2, <3>1, <4>1
    <3>4. Above /\ First
      BY <3>3, <2>1, <2>2
    <3> QED
      BY <3>2, <3>4
  <2> QED
    BY <1>3, <1>4, <2>3, <2>4, <2>5
<1>5. CASE e.pose # "none" /\ tilt_flying' /\ tilt_fault
  <2>1. tilt_fault' = tilt_fault /\ above' = above /\ holdoff_until' = holdoff_until
    BY <1>5 DEF Step, TiltIdle
  <2>2. Fault
    BY <1>m, <1>e, <1>5, <2>1
  <2>3. Types
    BY <2>1, <1>t, <1>h, <1>3, <1>5
  <2> QED
    BY <1>3, <1>5, <2>1, <2>2, <2>3
<1>6. CASE e.pose = "glitch" /\ tilt_flying' /\ ~tilt_fault
  <2>1. above' = 0 /\ holdoff_until' = n + 1 + Holdoff /\ tilt_fault' = tilt_fault
    BY <1>1, <1>6 DEF Step, TiltGlitch
  <2>2. Glitched(n + 1)' /\ \A t0 \in 1 .. n + 1 : ~CountsFrom(t0)'
    BY <1>3, <1>6, <1>m, <1>b
  <2>3. Fault
    BY <1>m, <1>e, <1>6, <2>1
  <2>4. Types
    BY <2>1, <1>t, <1>h, <1>3, <1>6
  <2>5. Bounds
    BY <1>h, <2>1
  <2>6. Sharp
    BY <1>b, <2>1, <2>2
  <2>7. Above /\ First
    BY <2>1, <2>2
  <2> QED
    BY <1>3, <1>6, <2>3, <2>4, <2>5, <2>6, <2>7
<1>7. CASE /\ e.pose # "none" /\ e.pose # "glitch" /\ tilt_flying' /\ ~tilt_fault
           /\ n + 1 < holdoff_until
  <2>1. tilt_fault' = tilt_fault /\ above' = above /\ holdoff_until' = holdoff_until
    BY <1>1, <1>7 DEF Step, TiltIdle
  <2>2. PICK h \in 1 .. n : Glitched(h) /\ holdoff_until = h + Holdoff
    BY <1>i, <1>t, <1>7
  <2>3. ~Glitched(n + 1)' /\ ~CountsFrom(n + 1)'
    BY <1>m, <1>h, <1>7, <2>2
  <2>4. \A t0 \in 1 .. n : ~CountsFrom(t0)
    <3> SUFFICES ASSUME NEW t0 \in 1 .. n, CountsFrom(t0) PROVE FALSE
      OBVIOUS
    <3>1. CASE h <= t0
      <4>1. h \in 1 .. t0 /\ ~(t0 >= h + Holdoff)
        BY <1>h, <1>7, <2>2, <3>1
      <4> QED
        BY <2>2, <4>1 DEF CountsFrom, HeldOff
    <3>2. CASE ~(h <= t0)
      <4>1. h \in t0 .. n
        BY <3>2
      <4> QED
        BY <1>g, <2>2, <4>1 DEF CountsFrom, Glitched
    <3> QED
      BY <3>1, <3>2
  <2>5. \A t0 \in 1 .. n + 1 : ~CountsFrom(t0)'
    BY <1>m, <1>b, <2>3, <2>4
  <2>6. above = 0
    BY <1>i, <1>7, <2>4
  <2>7. Fault
    BY <1>m, <1>e, <2>1, <2>5
  <2>8. Types
    BY <2>1, <1>t, <1>h, <1>3, <1>7
  <2>9. Bounds /\ Sharp
    BY <1>i, <1>b, <1>m, <1>7, <2>1, <2>3
  <2>10. Above /\ First
    BY <2>1, <2>5, <2>6
  <2> QED
    BY <1>3, <1>7, <2>7, <2>8, <2>9, <2>10
<1>8. CASE /\ e.pose # "none" /\ e.pose # "glitch" /\ tilt_flying' /\ ~tilt_fault
           /\ ~(n + 1 < holdoff_until)
  <2>1. TiltCounts(e.pose, n + 1)
    BY <1>1, <1>8 DEF Step
  <2>f. tilt_fault' = (e.pose = "tilted" /\ (n + 1) - above' >= CutHold)
    BY <2>1, Zenon DEF TiltCounts
  <2>2. holdoff_until' = holdoff_until /\ ~Glitched(n + 1)'
    BY <1>m, <1>8, <2>1 DEF TiltCounts
  <2>3. Bounds /\ Sharp
    BY <1>i, <1>b, <1>m, <1>8, <2>2
  <2>4. holdoff_until' \in 0 .. n + 1 + Holdoff
    BY <1>t, <1>h, <2>2
  <2>5. ~\E g \in 1 .. n : Glitched(g) /\ ~(n + 1 >= g + Holdoff)
    BY <1>i, <1>t, <1>h, <1>8
  <2>6. CASE e.pose # "tilted"
    <3>1. above' = 0 /\ tilt_fault' = FALSE
      BY <2>1, <2>6 DEF TiltCounts
    <3>2. \A t0 \in 1 .. n + 1 : ~CountsFrom(t0)'
      BY <1>m, <1>b, <1>8, <2>6
    <3>3. Fault
      BY <1>m, <1>e, <1>8, <2>6, <3>1
    <3>4. Types
      <4>1. 0 \in 0 .. n + 1
        OBVIOUS
      <4> QED
        BY <1>3, <2>4, <2>6, <1>8, <3>1, <4>1
    <3>5. Above /\ First
      BY <3>1, <3>2
    <3> QED
      BY <1>3, <1>8, <2>3, <3>3, <3>4, <3>5
  <2>7. CASE e.pose = "tilted" /\ above = 0
    <3>1. above' = n + 1 /\ (tilt_fault' <=> (n + 1) - (n + 1) >= CutHold)
          /\ tilt_fault' \in BOOLEAN
      <4>1. above' = n + 1
        BY <2>1, <2>7 DEF TiltCounts
      <4>2. /\ tilt_fault' \in BOOLEAN
            /\ tilt_fault' <=> (e.pose = "tilted" /\ (n + 1) - above' >= CutHold)
        BY <2>f
      <4> QED
        BY <2>7, <4>1, <4>2
    <3>2. CountsFrom(n + 1)'
      BY <1>3, <1>m, <1>8, <2>5, <2>7
    <3>3. \A t0 \in 1 .. n + 1 : CountsFrom(t0)' => t0 = n + 1
      BY <1>i, <1>m, <1>b, <1>8, <2>7
    <3>4. Fault
      BY <1>m, <1>b, <1>e, <1>8, <2>7, <3>1, <3>2, <3>3
    <3>5. Types
      BY <1>3, <1>8, <2>4, <3>1
    <3>6. Above
      BY <1>b, <3>1, <3>2
    <3>7. First
      BY <1>b, <3>1, <3>3
    <3> QED
      BY <1>3, <1>8, <2>3, <3>4, <3>5, <3>6, <3>7
  <2>8. CASE e.pose = "tilted" /\ above # 0
    <3>0. above \in 1 .. n /\ above \in 1 .. n + 1
      BY <1>t, <2>8
    <3>1. above' = above /\ (tilt_fault' <=> (n + 1) - above >= CutHold)
          /\ tilt_fault' \in BOOLEAN
      <4>1. above' = above
        BY <2>1, <2>8 DEF TiltCounts
      <4>2. /\ tilt_fault' \in BOOLEAN
            /\ tilt_fault' <=> (e.pose = "tilted" /\ (n + 1) - above' >= CutHold)
        BY <2>f
      <4> QED
        BY <2>8, <4>1, <4>2
    <3>2. PICK a \in 1 .. n : a = above /\ CountsFrom(a)
      BY <1>i, <1>8, <2>8
    <3>3. CountsFrom(a)'
      BY <1>m, <2>8, <3>2
    <3>4. \A t0 \in 1 .. n + 1 : CountsFrom(t0)' => a <= t0
      BY <1>i, <1>m, <1>b, <1>8, <3>2
    <3>5. (\E t0 \in 1 .. n + 1 : CountsFrom(t0)' /\ (n + 1) - t0 >= CutHold) <=>
            (n + 1) - a >= CutHold
      BY <1>b, <1>h, <3>3, <3>4
    <3>6. Fault
      BY <1>m, <1>e, <1>8, <2>8, <3>1, <3>2, <3>5
    <3>7. Types
      BY <1>3, <1>8, <2>4, <3>0, <3>1
    <3>8. Above /\ First
      BY <1>b, <2>8, <3>0, <3>1, <3>2, <3>3, <3>4
    <3> QED
      BY <1>3, <1>8, <2>3, <3>6, <3>7, <3>8
  <2> QED
    BY <2>6, <2>7, <2>8
<1> QED
  BY <1>2, <1>3, <1>4, <1>5, <1>6, <1>7, <1>8

-----------------------------------------------------------------------------
LEMMA RulesInitInv == RulesInit => RulesInv
<1> SUFFICES ASSUME RulesInit PROVE RulesInv
  OBVIOUS
<1>0. log = << >>
  BY DEF RulesInit
<1>1. Len(log) = 0
  BY <1>0
<1>t. Ticks = {}
  BY <1>0 DEF Ticks
<1>c. Cardinality({}) = 0
  BY FS_EmptySet
<1>2. RulesTypeOK
  <2>1. 0 \in 0 .. FaultDebounce /\ 0 \in 0 .. MaxTicks /\ 0 \in 0 .. MaxTicks + Holdoff
    BY RulesAssumption
  <2>2. log \in Seq(Samples)
    BY <1>0
  <2> QED
    BY <2>1, <2>2 DEF RulesInit, RulesTypeOK, Poses
<1>3. Trails(0, FlownTicks, Tilted, Len(log)) /\ Trails(0, Seen, Out, Len(log))
  <2> SUFFICES ASSUME NEW P, NEW Bad PROVE Trails(0, P, Bad, Len(log))
    OBVIOUS
  <2>1. P \cap 1 .. 0 = {} /\ 1 \in 1 .. 0 + 1
    OBVIOUS
  <2> QED
    BY <1>1, <1>c, <2>1 DEF Trails
<1>4. LastKnown
  BY <1>1, <1>t DEF RulesInit, LastKnown, LastPose
<1>5. EnvelopeInv /\ LimitInv
  BY <1>1, <1>t, <1>3, RulesAssumption
     DEF RulesInit, EnvelopeInv, LimitInv, EnvelopeOfTicks, LimitAsDefined, RunOf
<1>6. TiltInv
  BY <1>1, <1>t DEF RulesInit, TiltInv, TiltAsDefined, SinceTakeOff, TakenOff, LastGlitch, FirstTilted
<1> QED
  BY <1>1, <1>2, <1>4, <1>5, <1>6, RulesAssumption DEF RulesInit, RulesInv

(* A tick, whatever it brings.                                             *)
LEMMA RulesTick ==
  ASSUME RulesInv, Len(log) < MaxTicks, NEW e, TickOf(e), Check(newest', e.flying),
         IF e.pose = "none" THEN UNCHANGED <<tiltVars, limitVars>>
           ELSE /\ tilt_flying' = (tilt_flying \/ e.flying)
                /\ Step(e.pose, Len(log) + 1) /\ LimitCheck(e.pose, e.flying)
  PROVE  RulesInv'
<1>1. PICK n \in Nat : n = Len(log)
  BY LogGrows DEF RulesInv, TickOf
<1>g. Len(log') = n + 1 /\ log' \in Seq(Samples)
  BY <1>1, LogGrows DEF RulesInv, TickOf
<1>2. EnvelopeInv' /\ violations' \in 0 .. FaultDebounce /\ env_latched' \in BOOLEAN
  BY EnvelopeTick
<1>3. LimitInv' /\ limit_count' \in 0 .. Len(log') /\ limit_land' \in BOOLEAN
  BY LimitTick
<1>4. /\ TiltInv'
      /\ tilt_flying' \in BOOLEAN /\ tilt_fault' \in BOOLEAN
      /\ above' \in 0 .. Len(log') /\ holdoff_until' \in 0 .. Len(log') + Holdoff
  BY TiltTick
<1>5. LastKnown'
  BY <1>1, NewestKept DEF RulesInv
<1>6. newest' \in Poses
  BY DEF RulesInv, RulesTypeOK, TickOf, Samples
<1>7. MaxTicks \in Nat /\ Holdoff \in Nat /\ n + 1 <= MaxTicks
  BY <1>1, RulesAssumption
<1>8. RulesTypeOK'
  BY <1>g, <1>2, <1>3, <1>4, <1>6, <1>7 DEF RulesTypeOK
<1> QED
  BY <1>g, <1>2, <1>3, <1>4, <1>5, <1>7, <1>8 DEF RulesInv

LEMMA RulesNextInv == RulesInv /\ [RulesNext]_rulesVars => RulesInv'
<1> SUFFICES ASSUME RulesInv, [RulesNext]_rulesVars PROVE RulesInv'
  OBVIOUS
<1>1. ASSUME Len(log) < MaxTicks, NEW flying \in BOOLEAN, NoPose(flying)
      PROVE  RulesInv'
  <2> DEFINE e == [pose |-> "none", flying |-> flying]
  <2>1. e \in Samples /\ e.pose = "none" /\ e.flying = flying
    BY DEF Samples
  <2>2. log' = Append(log, e) /\ newest' = newest /\ UNCHANGED <<tiltVars, limitVars>>
    BY <1>1 DEF NoPose
  <2>3. Check(newest', flying)
    BY <1>1 DEF NoPose, Check
  <2> HIDE DEF e
  <2> QED
    BY <1>1, <2>1, <2>2, <2>3, RulesTick DEF TickOf
<1>2. ASSUME Len(log) < MaxTicks, NEW flying \in BOOLEAN, NEW p \in Poses,
             Pose(p, flying)
      PROVE  RulesInv'
  <2> DEFINE e == [pose |-> p, flying |-> flying]
  <2>1. e \in Samples /\ e.pose = p /\ e.flying = flying /\ p # "none"
    BY DEF Samples, Poses
  <2>2. log' = Append(log, e) /\ newest' = p
    BY <1>2 DEF Pose
  <2>3. Check(newest', flying)
    BY <1>2 DEF Pose, Check
  <2>4. /\ tilt_flying' = (tilt_flying \/ flying)
        /\ Step(p, Len(log) + 1) /\ LimitCheck(p, flying)
    BY <1>2 DEF Pose
  <2> HIDE DEF e
  <2> QED
    BY <1>2, <2>1, <2>2, <2>3, <2>4, RulesTick DEF TickOf
<1>3. CASE UNCHANGED rulesVars
  <2>1. /\ log' = log /\ newest' = newest /\ violations' = violations
        /\ env_latched' = env_latched /\ tilt_flying' = tilt_flying
        /\ above' = above /\ holdoff_until' = holdoff_until /\ tilt_fault' = tilt_fault
        /\ limit_count' = limit_count /\ limit_land' = limit_land
    BY <1>3 DEF rulesVars, envVars, tiltVars, limitVars
  <2>2. RulesTypeOK'
    BY <2>1 DEF RulesInv, RulesTypeOK
  <2>n. PICK n \in Nat : n = Len(log)
    BY DEF RulesInv, RulesTypeOK
  <2>g. Len(log) = n /\ Len(log') = n /\ Ticks = 1 .. n /\ Ticks' = 1 .. n
    BY <2>1, <2>n DEF RulesInv, RulesTypeOK, Ticks
  <2>s. \A i \in 1 .. n : (Posed(i)' <=> Posed(i)) /\ LastPose(i)' = LastPose(i)
    BY <2>1, <2>g, PastStays DEF RulesInv
  <2>0. LastPose(n)' = LastPose(n)
    <3>1. CASE n = 0
      BY <3>1 DEF LastPose
    <3>2. CASE n # 0
      BY <2>s, <3>2
    <3> QED
      BY <3>1, <3>2
  <2>3. LastKnown'
    <3>1. newest' = LastPose(n)'
      BY <2>1, <2>g, <2>0 DEF RulesInv, LastKnown
    <3>2. \A i \in 1 .. n : (\E j \in 1 .. i : Posed(j)') => \E m \in 1 .. i : IsLast(m, i)'
      BY <2>1, <2>g DEF RulesInv, LastKnown, IsLast, Posed
    <3> QED
      BY <2>g, <3>1, <3>2 DEF LastKnown
  <2>4. EnvelopeInv'
    <3>1. FlownTicks' = FlownTicks /\ Tilted' = Tilted
      BY <2>1, <2>g, <2>s DEF FlownTicks, Tilted
    <3>2. env_latched <=> RunOf(FaultDebounce, FlownTicks, Tilted)
      BY DEF RulesInv, EnvelopeInv, EnvelopeOfTicks, FlownTicks, Tilted
    <3>3. env_latched' <=> RunOf(FaultDebounce, FlownTicks, Tilted)'
      BY <2>1, <2>g, <3>1, <3>2 DEF RunOf
    <3>4. EnvelopeOfTicks'
      BY <3>3 DEF EnvelopeOfTicks, FlownTicks, Tilted
    <3>5. (~env_latched =>
             violations < FaultDebounce /\ Trails(violations, FlownTicks, Tilted, Len(log)))'
      BY <2>1, <3>1 DEF RulesInv, EnvelopeInv, Trails
    <3> QED
      BY <3>4, <3>5 DEF EnvelopeInv
  <2>5. LimitInv'
    <3>1. Seen' = Seen /\ Out' = Out
      BY <2>1, <2>g, <2>s DEF Seen, Out
    <3>2. limit_land <=> RunOf(LimitSamples, Seen, Out)
      BY DEF RulesInv, LimitInv, LimitAsDefined, Seen, Out
    <3>3. limit_land' <=> RunOf(LimitSamples, Seen, Out)'
      BY <2>1, <2>g, <3>1, <3>2 DEF RunOf
    <3>4. LimitAsDefined'
      BY <3>3 DEF LimitAsDefined, Seen, Out
    <3>5. Trails(limit_count, Seen, Out, Len(log))'
      BY <2>1, <3>1 DEF RulesInv, LimitInv, Trails
    <3> QED
      BY <3>4, <3>5 DEF LimitInv
  <2>6. TiltInv'
    BY <2>1 DEF RulesInv, TiltInv, TiltAsDefined, SinceTakeOff, LastGlitch, FirstTilted,
       CountsFrom, HeldOff, Glitched, TakenOff, Posed, Ticks
  <2> QED
    BY <2>1, <2>2, <2>3, <2>4, <2>5, <2>6 DEF RulesInv
<1> QED
  BY <1>1, <1>2, <1>3 DEF RulesNext

(* With a pose on every tick, the newest pose is the tick's own.           *)
LEMMA GaplessNewest ==
  ASSUME RulesTypeOK, Gapless, NEW i \in Ticks
  PROVE  LastPose(i) = log[i].pose
<1>1. Len(log) \in Nat /\ Ticks = 1 .. Len(log)
  BY DEF RulesTypeOK, Ticks
<1>2. i \in Nat /\ i \in 1 .. i
  BY <1>1
<1>3. IsLast(i, i)
  BY <1>1, <1>2 DEF IsLast, Gapless
<1> QED
  BY <1>2, <1>3, LastIs

(* Each of the three rules fires when it is said to, and only then, on     *)
(* every flight (EnvelopeChecker, TiltCutRule, _limit_check): the tilt cut *)
(* and the limit as documented, the envelope tick by tick, which is as     *)
(* documented where no tick is without a pose.                             *)
THEOREM RulesAreAsDefined == RulesSpec => []RulesAsDefined
<1>1. ASSUME RulesInv, Gapless PROVE EnvelopeOfPoses
  <2>1. \A i \in Ticks : LastPose(i) = log[i].pose /\ Posed(i)
    BY <1>1, GaplessNewest DEF RulesInv, Gapless
  <2>2. /\ {i \in Ticks : Posed(i) /\ log[i].flying} = {i \in Ticks : log[i].flying}
        /\ {i \in Ticks : log[i].pose \in PastTilt} =
             {i \in Ticks : LastPose(i) \in PastTilt}
    BY <2>1
  <2> QED
    BY <1>1, <2>2 DEF RulesInv, EnvelopeInv, EnvelopeOfTicks, EnvelopeOfPoses
<1>2. RulesInv => RulesAsDefined
  BY <1>1 DEF RulesInv, EnvelopeInv, LimitInv, TiltInv, EnvelopeAsDefined, RulesAsDefined
<1> QED
  BY <1>2, RulesInitInv, RulesNextInv, PTL DEF RulesSpec

(* One bad pose in flight, that FaultDebounce control ticks look at before *)
(* the next one comes.                                                     *)
LoneBadFrame(i) ==
  /\ log[i].pose \in PastTilt
  /\ \A k \in i .. i + FaultDebounce - 1 :
       k \in Ticks /\ log[k].flying /\ (k > i => ~Posed(k))

(* One bad mocap frame drops the fleet out of the sky if no pose comes in  *)
(* the FaultDebounce control ticks that look at it: EnvelopeChecker.check  *)
(* counts the control loop's ticks on the newest pose, where its comment   *)
(* says that one bad frame should not.                                     *)
THEOREM OneFrameLatches ==
  RulesSpec => []((\E i \in Ticks : LoneBadFrame(i)) => env_latched)
<1>1. ASSUME RulesInv, NEW i \in Ticks, LoneBadFrame(i) PROVE env_latched
  <2>d. FaultDebounce \in Nat \ {0}
    BY RulesAssumption
  <2>t. Len(log) \in Nat /\ Ticks = 1 .. Len(log) /\ i \in Nat /\ i >= 1
    BY <1>1 DEF RulesInv, RulesTypeOK, Ticks
  <2> DEFINE j == i + FaultDebounce - 1
  <2>j. j \in Ticks /\ i <= j
    BY <2>d, <2>t, <1>1 DEF LoneBadFrame
  <2>1. ASSUME NEW k \in i .. j
        PROVE  k \in FlownTicks /\ k \in Tilted
    <3>1. k \in Ticks /\ log[k].flying
      BY <1>1 DEF LoneBadFrame
    <3>2. IsLast(i, k)
      <4>1. Posed(i)
        BY <1>1 DEF LoneBadFrame, Posed, PastTilt
      <4>2. \A l \in i + 1 .. k : ~Posed(l)
        <5> TAKE l \in i + 1 .. k
        <5>1. l \in i .. i + FaultDebounce - 1 /\ l > i
          BY <2>d, <2>t, <2>1
        <5> QED
          BY <1>1, <5>1 DEF LoneBadFrame
      <4> QED
        BY <4>1, <4>2 DEF IsLast
    <3>3. k \in Nat /\ i \in 1 .. k
      BY <2>t, <3>1
    <3>4. LastPose(k) = log[i].pose
      BY <3>2, <3>3, LastIs
    <3> QED
      BY <1>1, <3>1, <3>4 DEF LoneBadFrame, FlownTicks, Tilted
  <2>2. FlownTicks \cap i .. j = i .. j /\ i .. j \subseteq Tilted
    BY <2>1
  <2>3. Cardinality(i .. j) = FaultDebounce
    BY <2>d, <2>t, <2>j, FS_Interval
  <2>4. RunOf(FaultDebounce, FlownTicks, Tilted)
    <3>1. FlownTicks \cap i .. j \subseteq Tilted
      BY <2>2
    <3>2. Cardinality(FlownTicks \cap i .. j) = FaultDebounce
      BY <2>2, <2>3
    <3>3. Cardinality(FlownTicks \cap i .. j) >= FaultDebounce
      BY <2>d, <3>2
    <3> HIDE DEF j
    <3> QED
      BY <2>j, <3>1, <3>3 DEF RunOf
  <2> QED
    BY <1>1, <2>4 DEF RulesInv, EnvelopeInv, EnvelopeOfTicks, FlownTicks, Tilted
<1>2. RulesInv => ((\E i \in Ticks : LoneBadFrame(i)) => env_latched)
  BY <1>1
<1> QED
  BY <1>2, RulesInitInv, RulesNextInv, PTL DEF RulesSpec

-----------------------------------------------------------------------------
(* The five parts together: a step of one is a step or a stutter of each.  *)
CommandInv == MuxInv /\ SwitchInv /\ RulesInv /\ RingInv /\ JoinInv

(* The planner's launches that are run have no stale plan.                 *)
LEMMA FlownPlansAreFresh ==
  ASSUME Quads = 1 .. 4, RingLaunches = FlownRings
  PROVE  FreshPlans
BY DEF FreshPlans, FlownRings, FourQuads

LEMMA PartsInit == Init => CommandInv
BY InitInv, SwitchInitInv, RulesInitInv, RingInitInv, InvInit DEF Init, CommandInv

LEMMA PartsStep ==
  ASSUME [Next]_commandVars
  PROVE  /\ [MuxNext]_muxVars /\ [SwitchNext]_switchVars /\ [RulesNext]_rulesVars
         /\ [RingNext]_ringVars /\ [JoinNext]_joinVars
BY DEF Next, commandVars, MuxOnly, SwitchOnly, RulesOnly, RingOnly, JoinOnly

LEMMA PartsNextInv ==
  ASSUME FreshPlans, CommandInv, [Next]_commandVars
  PROVE  CommandInv'
<1>1. MuxInv' /\ SwitchInv' /\ RulesInv' /\ JoinInv'
  BY PartsStep, StepInv, SwitchStepInv, RulesNextInv, InvNext DEF CommandInv
<1>2. RingInv'
  BY PartsStep, RingStepInv DEF CommandInv
<1> QED
  BY <1>1, <1>2 DEF CommandInv

(* Every part keeps its types, whichever of them the behaviour is about.   *)
THEOREM CommandTypeCorrect == FreshPlans => (Spec => []CommandTypeOK)
<1> SUFFICES ASSUME FreshPlans PROVE Spec => []CommandTypeOK
  OBVIOUS
<1>1. CommandInv => CommandTypeOK
  BY DEF CommandInv, CommandTypeOK, MuxInv, SwitchInv, RulesInv, RingInv, JoinInv,
     RingTypeOK, Kept, DueStates
<1> QED
  BY <1>1, PartsInit, PartsNextInv, PTL DEF Spec
=============================================================================
