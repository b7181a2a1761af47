-------------------------- MODULE MainLoop_proofs --------------------------
(***************************************************************************)
(* Proofs about what main() decides before each launch: how large it is    *)
(* and which nonces it covers (LaunchTuning), and which jobs are in it     *)
(* (Backpressure).                                                         *)
(*                                                                         *)
(* LaunchTuning, for every number of slots, every limit of the plan and of *)
(* the tuning, every configuration and any kernel times.  Of a plan the    *)
(* coverage needs only that a launch tests at least one nonce of each job  *)
(* (WindowPositive).  CoverInv is then inductive: what the next launch     *)
(* would pass over of the watched job, and what was passed over before,    *)
(* are together at most the moves of its index.  That a launch over budget *)
(* makes no larger one needs how plans compare: every block size divides   *)
(* the larger ones, and no size lies between another and its double.       *)
(*                                                                         *)
(* Backpressure, for every finite set of slots, all weights and any cap.   *)
(* The penalty keeps a weight at 1 or more (WeightPositive); the weights   *)
(* of the slots before one add up to at most Cap each (WeightSum, by       *)
(* induction over the set that is summed), so one place is left.           *)
(***************************************************************************)
EXTENDS LaunchTuning, Backpressure, FiniteSetTheorems, WellFoundedInduction, TLAPS

-----------------------------------------------------------------------------
(* Induction and recursion on the natural numbers. *)

(* A set of naturals has a least element. *)
LEMMA LeastNumber ==
  ASSUME NEW T, T \subseteq Nat, T # {}
  PROVE  \E x \in T : \A y \in T : x <= y
<1> DEFINE R == OpToRel(<, Nat)
<1>1. IsWellFoundedOn(R, Nat)
  BY NatLessThanWellFounded, Zenon
<1> HIDE DEF R
<1>2. PICK x \in T : \A y \in T : <<y, x>> \notin R
  BY <1>1, WFMin
<1>3. \A y \in T : ~(y < x)
  BY <1>2 DEF R, OpToRel
<1> QED BY <1>3

(* Induction over a set of naturals. *)
LEMMA Induction ==
  ASSUME NEW T, 0 \in T, \A n \in Nat : n \in T => n + 1 \in T
  PROVE  Nat \subseteq T
<1> DEFINE U == Nat \ T
<1>1. SUFFICES ASSUME U # {} PROVE FALSE
  OBVIOUS
<1>2. PICK x \in U : \A y \in U : x <= y
  BY <1>1, LeastNumber
<1>3. x # 0 /\ x - 1 \in Nat /\ x - 1 \notin U
  BY <1>2
<1>4. (x - 1) + 1 \in T
  BY <1>3
<1> QED BY <1>2, <1>4

(* f starts with f0 and satisfies the recursion h up to n. *)
Solves(f, f0, h, n) == f[0] = f0 /\ \A i \in 1..n : f[i] = h[i][f[i - 1]]

(* f is the function that f0 and h define. *)
Recursion(f, f0, h) == f = [i \in Nat |-> IF i = 0 THEN f0 ELSE h[i][f[i - 1]]]

(* Two functions that satisfy one recursion agree. *)
LEMMA RecursionUnique ==
  ASSUME NEW h, NEW f0, NEW f, NEW g, NEW n \in Nat, Solves(f, f0, h, n), Solves(g, f0, h, n)
  PROVE  \A i \in 0..n : f[i] = g[i]
<1> DEFINE T == {i \in Nat : i <= n => f[i] = g[i]}
<1>1. 0 \in T BY DEF Solves
<1>2. \A i \in Nat : i \in T => i + 1 \in T
  <2> SUFFICES ASSUME NEW i \in Nat, i \in T, i + 1 <= n PROVE f[i + 1] = g[i + 1]
    OBVIOUS
  <2>1. i + 1 \in 1..n /\ (i + 1) - 1 = i OBVIOUS
  <2> QED BY <2>1 DEF Solves
<1> HIDE DEF T
<1>3. Nat \subseteq T BY <1>1, <1>2, Induction
<1> QED BY <1>3 DEF T

(* A recursion over the naturals has a solution. *)
LEMMA RecursionExists ==
  ASSUME NEW V, NEW f0 \in V, NEW h \in [Nat -> [V -> V]]
  PROVE  \E f \in [Nat -> V] : Recursion(f, f0, h)
<1> DEFINE Upto(g, n) == g \in [Nat -> V] /\ Solves(g, f0, h, n)
           T == {n \in Nat : \E g : Upto(g, n)}
           G == [n \in Nat |-> CHOOSE g : Upto(g, n)]
           F == [n \in Nat |-> G[n][n]]
<1>1. 0 \in T
  <2>1. Upto([i \in Nat |-> f0], 0) BY DEF Solves
  <2> QED BY <2>1
<1>2. ASSUME NEW n \in Nat, \E g : Upto(g, n) PROVE \E g : Upto(g, n + 1)
  <2>1. PICK g : Upto(g, n) BY <1>2
  <2> DEFINE k == [i \in Nat |-> IF i = n + 1 THEN h[i][g[n]] ELSE g[i]]
  <2>2. k \in [Nat -> V] /\ k[0] = f0 BY <2>1 DEF Solves
  <2>3. ASSUME NEW i \in 1..(n + 1) PROVE k[i] = h[i][k[i - 1]]
    <3>1. CASE i = n + 1
      <4>1. i - 1 = n /\ k[i] = h[i][g[n]] /\ k[n] = g[n] BY <3>1
      <4> QED BY <4>1
    <3>2. CASE i # n + 1
      <4>1. i \in 1..n /\ i - 1 # n + 1 /\ i - 1 \in Nat BY <3>2
      <4> QED BY <2>1, <4>1 DEF Solves
    <3> QED BY <3>1, <3>2
  <2>4. Upto(k, n + 1)
    <3> HIDE DEF k
    <3> QED BY <2>2, <2>3 DEF Solves
  <2> QED BY <2>4
<1>3. Nat \subseteq T
  <2> HIDE DEF Upto
  <2>1. \A n \in Nat : n \in T => n + 1 \in T BY <1>2
  <2> HIDE DEF T
  <2> QED BY <1>1, <2>1, Induction
<1> HIDE DEF T
<1>4. \A n \in Nat : Upto(G[n], n)
  <2> SUFFICES ASSUME NEW n \in Nat PROVE Upto(G[n], n) OBVIOUS
  <2>1. \E g : Upto(g, n) BY <1>3 DEF T
  <2> HIDE DEF Upto
  <2> QED BY <2>1
<1> HIDE DEF G
<1>5. F \in [Nat -> V] /\ F[0] = f0 BY <1>4 DEF Solves
<1>6. ASSUME NEW i \in Nat, i # 0 PROVE F[i] = h[i][F[i - 1]]
  <2>1. Upto(G[i], i) /\ Upto(G[i - 1], i - 1) /\ i - 1 \in Nat BY <1>4, <1>6
  <2>2. Solves(G[i], f0, h, i - 1) BY <2>1 DEF Solves
  <2>3. \A j \in 0..(i - 1) : G[i][j] = G[i - 1][j] BY <2>1, <2>2, RecursionUnique
  <2>4. G[i][i - 1] = G[i - 1][i - 1] BY <2>1, <2>3
  <2>5. G[i][i] = h[i][G[i][i - 1]] BY <2>1, <1>6 DEF Solves
  <2>6. F[i] = G[i][i] /\ F[i - 1] = G[i - 1][i - 1] BY <2>1
  <2> QED BY <2>4, <2>5, <2>6
<1> HIDE DEF F
<1>7. Recursion(F, f0, h)
  BY <1>5, <1>6 DEF Recursion
<1> QED BY <1>5, <1>7

-----------------------------------------------------------------------------
(* The launch plan. *)

(* Quotient and remainder. *)
LEMMA Quotient ==
  ASSUME NEW x \in Nat, NEW m \in Nat \ {0}
  PROVE  /\ x \div m \in Nat /\ x = m * (x \div m) + (x % m) /\ x % m \in 0..(m - 1)
         /\ x < m => x \div m = 0
         /\ x >= m => x \div m >= 1
<1> DEFINE q == x \div m
           r == x % m
<1>1. q \in Nat /\ x = m * q + r /\ r \in 0..(m - 1) BY SMT
<1> HIDE DEF q, r
<1>2. q >= 1 => m * q >= m BY <1>1, SMT
<1>3. q = 0 => m * q = 0 BY SMT
<1>4. x < m => q = 0 BY <1>1, <1>2, SMT
<1>5. x >= m => q >= 1 BY <1>1, <1>3, SMT
<1> QED BY <1>1, <1>4, <1>5 DEF q, r

(* A turn of the halving loop of computeLaunchPlan. *)
Turn(t, d) == IF t > d /\ t >= MinThreads THEN t \div 2 ELSE t

(* The loop, turn by turn. *)
LEMMA HalvedTurns ==
  ASSUME NEW d \in Nat \ {0}
  PROVE  \E P : Halved(d) = P[StartTpb] /\ P[0] = StartTpb /\ \A i \in Nat : P[i + 1] = Turn(P[i], d)
<1> DEFINE turn(t) == IF t > d /\ t >= MinThreads THEN t \div 2 ELSE t
           E(f) == f = [i \in Nat |-> IF i = 0 THEN StartTpb ELSE turn(f[i - 1])]
           P == CHOOSE f : E(f)
           h == [i \in Nat |-> [t \in Nat |-> turn(t)]]
<1>1. StartTpb \in Nat /\ MinThreads \in Nat \ {0} BY TuningAssumption
<1>2. Halved(d) = P[StartTpb] BY DEF Halved
<1>3. \A t \in Nat : turn(t) \in Nat OBVIOUS
<1>4. \E f : E(f)
  <2>1. h \in [Nat -> [Nat -> Nat]] BY <1>3
  <2>2. \A i \in Nat, t \in Nat : h[i][t] = turn(t) OBVIOUS
  <2> HIDE DEF h, turn
  <2>3. PICK f \in [Nat -> Nat] : Recursion(f, StartTpb, h) BY <1>1, <2>1, RecursionExists
  <2>4. \A i \in Nat : i # 0 => h[i][f[i - 1]] = turn(f[i - 1]) BY <2>2
  <2>5. E(f) BY <2>3, <2>4 DEF Recursion
  <2> QED BY <2>5
<1>5. P[0] = StartTpb /\ \A i \in Nat : P[i + 1] = turn(P[i])
  <2>1. E(P)
    <3> HIDE DEF E
    <3> QED BY <1>4
  <2> HIDE DEF P, turn
  <2>2. P[0] = StartTpb BY <2>1
  <2>3. ASSUME NEW i \in Nat PROVE P[i + 1] = turn(P[i])
    <3>1. i + 1 \in Nat /\ i + 1 # 0 /\ (i + 1) - 1 = i OBVIOUS
    <3> QED BY <2>1, <3>1
  <2> QED BY <2>2, <2>3
<1> HIDE DEF P
<1>6. \A i \in Nat : P[i + 1] = Turn(P[i], d) BY <1>5 DEF Turn
<1> QED BY <1>2, <1>5, <1>6

(* It leaves a number that is no more than d or has fallen below the clamp: *)
(* StartTpb turns are enough.                                               *)
LEMMA HalvedEnds ==
  ASSUME NEW d \in Nat \ {0}
  PROVE  Halved(d) \in Nat /\ (Halved(d) <= d \/ Halved(d) < MinThreads)
<1>1. StartTpb \in Nat /\ MinThreads \in Nat \ {0} BY TuningAssumption
<1>2. PICK P : Halved(d) = P[StartTpb] /\ P[0] = StartTpb /\ \A i \in Nat : P[i + 1] = Turn(P[i], d)
  BY HalvedTurns
<1> DEFINE T == {i \in Nat : P[i] \in Nat /\ (P[i] + i <= StartTpb \/ P[i] <= d \/ P[i] < MinThreads)}
<1>3. 0 \in T BY <1>1, <1>2
<1>4. ASSUME NEW i \in Nat, i \in T PROVE i + 1 \in T
  <2> DEFINE t == P[i]
  <2>1. t \in Nat /\ (t + i <= StartTpb \/ t <= d \/ t < MinThreads) BY <1>4
  <2>2. P[i + 1] = Turn(t, d) BY <1>2
  <2> HIDE DEF t
  <2>3. /\ Turn(t, d) \in Nat
        /\ Turn(t, d) + (i + 1) <= StartTpb \/ Turn(t, d) <= d \/ Turn(t, d) < MinThreads
    BY <1>1, <2>1 DEF Turn
  <2> QED BY <2>2, <2>3
<1> HIDE DEF T
<1>5. StartTpb \in T BY <1>1, <1>3, <1>4, Induction
<1> QED BY <1>1, <1>2, <1>5 DEF T

(* Every launch tests at least one nonce of each job. *)
LEMMA WindowPositive ==
  ASSUME NEW d \in Nat \ {0}, NEW n \in Nat \ {0}
  PROVE  Window(d, n) \in Nat \ {0}
<1> DEFINE tpb == clampThreadsPerBlock(Halved(d))
           blocks == (d + tpb - 1) \div tpb
<1>1. tpb \in Nat \ {0}
  BY HalvedEnds, TuningAssumption DEF clampThreadsPerBlock, MaxOf, MinOf
<1>2. computeLaunchPlan(d) = tpb * blocks BY DEF computeLaunchPlan
<1> HIDE DEF tpb
<1>3. d + tpb - 1 \in Nat /\ d + tpb - 1 >= tpb BY <1>1
<1>4. blocks \in Nat /\ blocks >= 1 BY <1>1, <1>3, Quotient
<1> HIDE DEF blocks
<1>5. tpb * blocks \in Nat \ {0} BY <1>1, <1>4
<1>6. computeLaunchPlan(d) * n \in Nat \ {0}
  <2> DEFINE w == tpb * blocks
  <2>1. w \in Nat \ {0} BY <1>5
  <2> HIDE DEF w
  <2>2. w * n \in Nat \ {0} BY <2>1
  <2> QED BY <1>2, <2>2 DEF w
<1> QED BY <1>6 DEF Window

-----------------------------------------------------------------------------
(* The invariant of the tuning and the coverage. *)

(* The limits of the two knobs: the cap, or what was configured. *)
ThreadsOK(t) == t \in 1..MaxThreads \/ \E c \in Configs : t \in 1..c.threads

BatchOK(n) == n \in 1..MaxBatch \/ \E c \in Configs : n \in 1..c.npt

(* The knobs, in use and saved, keep their limits. *)
KnobInv ==
  /\ threads \in Nat \ {0} /\ ThreadsOK(threads)
  /\ npt \in Nat \ {0} /\ BatchOK(npt)
  /\ saved \in Knobs \cup {NoProfile}
  /\ saved # NoProfile => ThreadsOK(saved.threads) /\ BatchOK(saved.npt)

(* Types of the rest. *)
SlotInv ==
  /\ active \subseteq Slots /\ watch \in Slots /\ begun \in BOOLEAN
  /\ last \in Times \cup {"none"} /\ restarts \in 0..MaxRestarts

(* The next launch's hole and the earlier ones are at most the moves, which *)
(* are at most the slots before the watched one.                            *)
CoverInv ==
  /\ frontier \in Int /\ skipped \in Nat /\ moved \in Nat
  /\ skipped <= moved /\ moved <= JobIndex(watch)
  /\ begun => JobIndex(watch) + skipped <= frontier + moved
  /\ ~begun => skipped = 0 /\ moved = 0

TuningInv == KnobInv /\ SlotInv /\ CoverInv

-----------------------------------------------------------------------------
(* The index of a job is a number, and one more slot before it moves it by one. *)
LEMMA IndexType == active \subseteq Slots => JobIndex(watch) \in 0..NumSlots
<1> SUFFICES ASSUME active \subseteq Slots PROVE JobIndex(watch) \in 0..NumSlots OBVIOUS
<1>1. NumSlots \in Nat BY TuningAssumption
<1>2. IsFiniteSet(Slots) /\ Cardinality(Slots) = NumSlots
  BY <1>1, FS_Interval DEF Slots
<1>3. {t \in active : t < watch} \subseteq Slots OBVIOUS
<1>4. /\ Cardinality({t \in active : t < watch}) \in Nat
      /\ Cardinality({t \in active : t < watch}) <= NumSlots
  BY <1>2, <1>3, FS_Subset, FS_CardinalityType
<1> QED BY <1>1, <1>4 DEF JobIndex

LEMMA IndexMoves ==
  ASSUME active \subseteq Slots, NEW s \in Slots, active' = active \cup {s}, watch' = watch, watch \in Slots
  PROVE  JobIndex(watch)' = IF s \notin active /\ s < watch THEN JobIndex(watch) + 1 ELSE JobIndex(watch)
<1> DEFINE B == {t \in active : t < watch}
<1>1. IsFiniteSet(B)
  <2>1. IsFiniteSet(Slots) BY TuningAssumption, FS_Interval DEF Slots
  <2> QED BY <2>1, FS_Subset
<1>2. CASE s \notin active /\ s < watch
  <2>1. {t \in active' : t < watch'} = B \cup {s} BY <1>2
  <2>2. s \notin B BY <1>2
  <2> HIDE DEF B
  <2>3. Cardinality(B \cup {s}) = Cardinality(B) + 1 BY <1>1, <2>2, FS_AddElement
  <2>4. JobIndex(watch)' = Cardinality(B) + 1 BY <2>1, <2>3 DEF JobIndex
  <2> QED BY <1>2, <2>4 DEF JobIndex, B
<1>3. CASE ~(s \notin active /\ s < watch)
  <2>1. {t \in active' : t < watch'} = B BY <1>3
  <2> QED BY <1>3, <2>1 DEF JobIndex
<1> QED BY <1>2, <1>3

-----------------------------------------------------------------------------
(* The tuning keeps the limits. *)
LEMMA TuneLimits ==
  ASSUME NEW time, NEW low \in BOOLEAN, NEW d \in Nat \ {0}, ThreadsOK(d)
  PROVE  TuneThreads(time, low, d) \in Nat \ {0} /\ ThreadsOK(TuneThreads(time, low, d))
<1> DEFINE up == MinOf(MaxThreads, 2 * d)
           down == MaxOf(MinThreads, d \div 2)
<1>1. MinThreads \in Nat \ {0} /\ MaxThreads \in Nat /\ MinThreads <= MaxThreads BY TuningAssumption
<1>2. up \in 1..MaxThreads BY <1>1 DEF MinOf
<1>3. d > MinThreads => down \in Nat \ {0} /\ down <= d BY <1>1 DEF MaxOf
<1>4. \/ TuneThreads(time, low, d) = up
      \/ d > MinThreads /\ TuneThreads(time, low, d) = down
      \/ TuneThreads(time, low, d) = d
  BY DEF TuneThreads
<1> HIDE DEF up, down
<1>5. up \in Nat \ {0} /\ ThreadsOK(up) BY <1>1, <1>2 DEF ThreadsOK
<1>6. ASSUME d > MinThreads PROVE ThreadsOK(down)
  <2>1. down \in Nat \ {0} /\ down <= d BY <1>3, <1>6
  <2>2. CASE d \in 1..MaxThreads BY <1>1, <2>1, <2>2 DEF ThreadsOK
  <2>3. CASE \E c \in Configs : d \in 1..c.threads
    <3>1. PICK c \in Configs : d \in 1..c.threads BY <2>3
    <3>2. c.threads \in Nat BY TuningAssumption DEF Knobs
    <3>3. down \in 1..c.threads BY <2>1, <3>1, <3>2
    <3> QED BY <3>3 DEF ThreadsOK
  <2> QED BY <2>2, <2>3 DEF ThreadsOK
<1> QED BY <1>3, <1>4, <1>5, <1>6

LEMMA BatchLimits ==
  ASSUME NEW time, NEW n \in Nat \ {0}, BatchOK(n)
  PROVE  autoTuneMicroBatch(time, n) \in Nat \ {0} /\ BatchOK(autoTuneMicroBatch(time, n))
<1> DEFINE up == MinOf(2 * n, MaxBatch)
           down == MaxOf(n \div 2, 1)
<1>1. MaxBatch \in Nat \ {0} BY TuningAssumption
<1>2. up \in 1..MaxBatch BY <1>1 DEF MinOf
<1>3. down \in Nat \ {0} /\ down <= n BY DEF MaxOf
<1>4. \/ autoTuneMicroBatch(time, n) = up
      \/ autoTuneMicroBatch(time, n) = down
      \/ autoTuneMicroBatch(time, n) = n
  BY DEF autoTuneMicroBatch
<1> HIDE DEF up, down
<1>5. up \in Nat \ {0} /\ BatchOK(up) BY <1>1, <1>2 DEF BatchOK
<1>6. BatchOK(down)
  <2>1. CASE n \in 1..MaxBatch BY <1>1, <1>3, <2>1 DEF BatchOK
  <2>2. CASE \E c \in Configs : n \in 1..c.npt
    <3>1. PICK c \in Configs : n \in 1..c.npt BY <2>2
    <3>2. c.npt \in Nat BY TuningAssumption DEF Knobs
    <3>3. down \in 1..c.npt BY <1>3, <3>1, <3>2
    <3> QED BY <3>3 DEF BatchOK
  <2> QED BY <2>1, <2>2 DEF BatchOK
<1> QED BY <1>3, <1>4, <1>5, <1>6

(* What is configured keeps them. *)
LEMMA ConfigLimits ==
  ASSUME NEW c \in Configs
  PROVE  c.threads \in Nat \ {0} /\ c.npt \in Nat \ {0} /\ ThreadsOK(c.threads) /\ BatchOK(c.npt)
<1>1. c.threads \in Nat \ {0} /\ c.npt \in Nat \ {0} BY TuningAssumption DEF Knobs
<1>2. c.threads \in 1..c.threads /\ c.npt \in 1..c.npt BY <1>1
<1> QED BY <1>1, <1>2 DEF ThreadsOK, BatchOK

LEMMA TuningInit == Init => TuningInv
<1> SUFFICES ASSUME Init PROVE TuningInv OBVIOUS
<1>1. KnobInv
  <2>1. PICK c \in Configs : threads = c.threads /\ npt = c.npt BY DEF Init
  <2> QED BY <2>1, ConfigLimits DEF Init, KnobInv
<1>2. SlotInv
  <2>1. begun \in BOOLEAN /\ last \in Times \cup {"none"} /\ watch \in Slots /\ active \subseteq Slots
    BY Zenon DEF Init
  <2>2. restarts \in 0..MaxRestarts BY TuningAssumption DEF Init
  <2> QED BY <2>1, <2>2 DEF SlotInv
<1>3. CoverInv
  <2>1. JobIndex(watch) \in Nat BY <1>2, IndexType, TuningAssumption DEF SlotInv
  <2> QED BY <2>1 DEF Init, CoverInv
<1> QED BY <1>1, <1>2, <1>3 DEF TuningInv

(* A slot gets a job. *)
LEMMA SetSlotStep ==
  ASSUME TuningInv, NEW s \in Slots, SetSlot(s)
  PROVE  TuningInv'
<1> USE DEF TuningInv
<1>1. KnobInv' BY DEF SetSlot, knobVars, KnobInv
<1>2. SlotInv' BY DEF SetSlot, SlotInv
<1>3. CoverInv'
  <2> DEFINE a == JobIndex(watch)
             b == JobIndex(watch)'
  <2>1. a \in Nat BY IndexType, TuningAssumption DEF SlotInv
  <2>2. b = IF s \notin active /\ s < watch THEN a + 1 ELSE a BY IndexMoves DEF SetSlot, SlotInv
  <2>3. b \in Nat BY <2>1, <2>2
  <2>4. CASE s = watch
    <3>1. begun' = FALSE /\ frontier' = 0 /\ skipped' = 0 /\ moved' = 0 BY <2>4 DEF SetSlot
    <3> HIDE DEF a, b
    <3>2. 0 <= b BY <2>3
    <3> QED BY <2>3, <3>1, <3>2 DEF CoverInv, b
  <2>5. CASE s # watch
    <3>1. /\ moved' = IF begun /\ s \notin active /\ s < watch THEN moved + 1 ELSE moved
          /\ UNCHANGED <<begun, frontier, skipped>>
      BY <2>5 DEF SetSlot
    <3>2. /\ frontier \in Int /\ skipped \in Nat /\ moved \in Nat /\ skipped <= moved /\ moved <= a
          /\ begun => a + skipped <= frontier + moved
          /\ ~begun => skipped = 0 /\ moved = 0
          /\ begun \in BOOLEAN
      BY DEF CoverInv, SlotInv
    <3> HIDE DEF a, b
    <3>3. CASE begun /\ s \notin active /\ s < watch
      <4>1. b = a + 1 /\ moved' = moved + 1 BY <2>2, <3>1, <3>3
      <4>2. moved' \in Nat /\ skipped <= moved' /\ moved' <= b /\ b + skipped <= frontier + moved'
        BY <2>1, <3>2, <3>3, <4>1
      <4> QED BY <3>1, <3>2, <3>3, <4>2 DEF CoverInv, b
    <3>4. CASE ~(begun /\ s \notin active /\ s < watch)
      <4>1. moved' = moved /\ (begun => b = a) /\ b >= a BY <2>1, <2>2, <3>1, <3>4
      <4>2. moved <= b BY <2>1, <2>3, <3>2, <4>1
      <4> QED BY <3>1, <3>2, <4>1, <4>2 DEF CoverInv, b
    <3> QED BY <3>3, <3>4
  <2> QED BY <2>4, <2>5
<1> QED BY <1>1, <1>2, <1>3

(* A launch: it leaves the frontier at or above the start of the job. *)
LEMMA IterateStep ==
  ASSUME TuningInv, NEW time \in Times, NEW low \in BOOLEAN, Iterate(time, low)
  PROVE  TuningInv'
<1> USE DEF TuningInv
<1>1. KnobInv'
  <2>1. threads' \in Nat \ {0} /\ ThreadsOK(threads')
    BY TuneLimits DEF Iterate, Launch, KnobInv
  <2>2. npt' \in Nat \ {0} /\ BatchOK(npt')
    BY BatchLimits DEF Iterate, Launch, KnobInv
  <2>3. CASE UNCHANGED saved BY <2>1, <2>2, <2>3 DEF KnobInv
  <2>4. CASE saved' = [threads |-> threads', npt |-> npt'] BY <2>1, <2>2, <2>4 DEF KnobInv, Knobs
  <2> QED BY <2>3, <2>4 DEF Iterate
<1>2. SlotInv'
  <2>1. begun' \in BOOLEAN BY DEF Iterate, Launch, Cover, history, SlotInv
  <2> QED BY <2>1 DEF Iterate, Launch, SlotInv
<1>3. CoverInv'
  <2> DEFINE a == JobIndex(watch)
             w == Window(threads, npt)
  <2>1. a \in Nat /\ JobIndex(watch)' = a
    BY IndexType, TuningAssumption DEF SlotInv, Iterate, Launch, JobIndex
  <2>2. w \in Nat \ {0} BY WindowPositive DEF KnobInv
  <2>3. /\ frontier \in Int /\ skipped \in Nat /\ moved \in Nat /\ skipped <= moved /\ moved <= a
        /\ begun => a + skipped <= frontier + moved
        /\ ~begun => skipped = 0 /\ moved = 0
    BY DEF CoverInv
  <2>4. CASE watch \in active
    <3> DEFINE known == IF begun THEN frontier ELSE a
    <3>1. /\ begun' = TRUE /\ moved' = moved
          /\ frontier' = MaxOf(known, a + w) - 1
          /\ skipped' = skipped + MaxOf(0, a - known)
      BY <2>4 DEF Iterate, Launch, Cover, StartNonce, Advance
    <3>2. known \in Int /\ a + skipped <= known + moved BY <2>1, <2>3
    <3> HIDE DEF a, w, known
    <3>3. frontier' \in Int /\ frontier' >= a BY <2>1, <2>2, <3>1, <3>2 DEF MaxOf
    <3>4. skipped' \in Nat /\ skipped' <= moved BY <2>1, <2>3, <3>1, <3>2 DEF MaxOf
    <3>5. a + skipped' <= frontier' + moved
      <4>1. a \in Nat /\ moved \in Nat BY <2>1, <2>3
      <4>2. \A x \in Nat, y \in Nat, u \in Int, v \in Nat : u >= x /\ y <= v => x + y <= u + v BY SMT
      <4> QED BY <3>3, <3>4, <4>1, <4>2, Zenon
    <3> QED BY <2>1, <2>3, <3>1, <3>3, <3>4, <3>5 DEF CoverInv
  <2>5. CASE watch \notin active
    <3>1. UNCHANGED history BY <2>5 DEF Iterate, Launch
    <3> QED BY <2>1, <2>3, <3>1 DEF CoverInv, history
  <2> QED BY <2>4, <2>5
<1> QED BY <1>1, <1>2, <1>3

(* A new process. *)
LEMMA RestartStep ==
  ASSUME TuningInv, NEW c \in Configs, NEW p \in {saved, NoProfile}, Restart(c, p)
  PROVE  TuningInv'
<1> USE DEF TuningInv
<1> DEFINE k == loadTuningProfile(c, p)
<1>1. /\ k.threads \in Nat \ {0} /\ ThreadsOK(k.threads)
      /\ k.npt \in Nat \ {0} /\ BatchOK(k.npt)
  <2>1. CASE p = NoProfile BY <2>1, ConfigLimits DEF loadTuningProfile
  <2>2. CASE p # NoProfile
    <3>1. k = saved /\ saved \in Knobs BY <2>2 DEF loadTuningProfile, KnobInv
    <3> QED BY <2>2, <3>1 DEF KnobInv, Knobs
  <2> QED BY <2>1, <2>2
<1>2. threads' = k.threads /\ npt' = k.npt /\ saved' = p BY DEF Restart, Begin
<1> HIDE DEF k
<1>3. KnobInv' BY <1>1, <1>2 DEF KnobInv
<1>4. SlotInv'
  <2>1. /\ begun' \in BOOLEAN /\ last' \in Times \cup {"none"}
        /\ watch' \in Slots /\ active' \subseteq Slots
    BY Zenon DEF Restart, Begin, SlotInv
  <2>2. restarts' \in 0..MaxRestarts BY TuningAssumption DEF Restart, SlotInv
  <2> QED BY <2>1, <2>2 DEF SlotInv
<1>5. CoverInv'
  <2>1. JobIndex(watch)' = 0
    <3>1. {t \in active' : t < watch'} = {} BY DEF Restart, Begin
    <3> QED BY <3>1, FS_EmptySet DEF JobIndex
  <2> QED BY <2>1 DEF Restart, Begin, CoverInv
<1> QED BY <1>3, <1>4, <1>5

(* The inductive invariant of the tuning. *)
THEOREM TuningInvariant == Spec => []TuningInv
<1>1. TuningInv /\ [Next]_vars => TuningInv'
  <2> SUFFICES ASSUME TuningInv, [Next]_vars PROVE TuningInv' OBVIOUS
  <2>1. CASE \E s \in Slots : SetSlot(s) BY <2>1, SetSlotStep
  <2>2. CASE \E time \in Times, low \in BOOLEAN : Iterate(time, low) BY <2>2, IterateStep
  <2>3. CASE \E c \in Configs, p \in {saved, NoProfile} : Restart(c, p) BY <2>3, RestartStep
  <2>4. CASE UNCHANGED vars
    <3>1. KnobInv' BY <2>4 DEF vars, knobVars, TuningInv, KnobInv
    <3>2. SlotInv' BY <2>4 DEF vars, history, TuningInv, SlotInv
    <3>3. CoverInv' BY <2>4 DEF vars, history, TuningInv, CoverInv, JobIndex
    <3> QED BY <3>1, <3>2, <3>3 DEF TuningInv
  <2> QED BY <2>1, <2>2, <2>3, <2>4 DEF Next
<1> QED BY <1>1, TuningInit, PTL DEF Spec

(* Types; the knobs stay positive and within the larger of their cap and    *)
(* what was configured, over saved profiles and restarts too.               *)
THEOREM TuningTypes == Spec => []TypeOK
<1>1. TuningInv => TypeOK
  <2> SUFFICES ASSUME TuningInv PROVE TypeOK OBVIOUS
  <2>1. ThreadsOK(threads) /\ BatchOK(npt) /\ saved \in Knobs \cup {NoProfile} BY DEF TuningInv, KnobInv
  <2>2. SlotInv BY DEF TuningInv
  <2>3. frontier \in Int /\ skipped \in Nat /\ moved \in 0..NumSlots
    BY <2>2, IndexType, TuningAssumption DEF TuningInv, CoverInv, SlotInv
  <2> QED BY <2>1, <2>2, <2>3 DEF TypeOK, ThreadsOK, BatchOK, SlotInv
<1> QED BY <1>1, TuningInvariant, PTL

(* However kernel times and occupancy change the launches, a job's nonces   *)
(* have at most one hole for each time an earlier slot's first job moved    *)
(* its start_nonce.                                                         *)
THEOREM TuningHoles == Spec => []HolesOnlyFromMoves
<1>1. TuningInv => HolesOnlyFromMoves BY DEF TuningInv, CoverInv, HolesOnlyFromMoves
<1> QED BY <1>1, TuningInvariant, PTL

-----------------------------------------------------------------------------
(* How plans compare.  D is a set of block sizes that are MinThreads times a *)
(* power of two: each is MinThreads or twice another.                        *)

Doublings(D) ==
  /\ D \subseteq Nat
  /\ \A t \in D : t >= MinThreads /\ (t = MinThreads \/ \E h \in D : t = 2 * h)

(* The block sizes of the code are of that kind: 256 is 4 times 64. *)
HalvesToMinThreads == \E D \in SUBSET (0..StartTpb) : StartTpb \in D /\ Doublings(D)

(* None lies between another and its double. *)
LEMMA NoneBetween ==
  ASSUME NEW D, Doublings(D), NEW h \in D, NEW x \in D
  PROVE  ~(h < x /\ x < 2 * h)
<1>0. MinThreads \in Nat \ {0} BY TuningAssumption
<1> DEFINE B == {g \in D : \E y \in D : g < y /\ y < 2 * g}
<1> SUFFICES ASSUME B # {} PROVE FALSE OBVIOUS
<1>1. B \subseteq Nat BY DEF Doublings
<1>2. PICK g \in B : \A f \in B : g <= f BY <1>1, LeastNumber
<1>3. PICK y \in D : g < y /\ y < 2 * g OBVIOUS
<1>4. g \in Nat /\ y \in Nat /\ g >= MinThreads BY <1>3 DEF Doublings
<1>5. y # MinThreads BY <1>0, <1>3, <1>4
<1>6. PICK z \in D : y = 2 * z BY <1>3, <1>5 DEF Doublings
<1>7. z \in Nat /\ z >= MinThreads BY <1>6 DEF Doublings
<1>8. g # MinThreads BY <1>0, <1>3, <1>4, <1>6, <1>7
<1>9. PICK f \in D : g = 2 * f BY <1>8 DEF Doublings
<1>10. f \in Nat BY <1>9 DEF Doublings
<1>11. f < z /\ z < 2 * f BY <1>3, <1>4, <1>6, <1>7, <1>9, <1>10
<1>12. f \in B BY <1>6, <1>9, <1>11
<1>13. f >= MinThreads BY <1>9 DEF Doublings
<1>14. f < g BY <1>0, <1>9, <1>10, <1>13
<1> QED BY <1>2, <1>4, <1>10, <1>12, <1>14

(* The smaller of two divides the larger. *)
LEMMA SmallerDivides ==
  ASSUME NEW D, Doublings(D), NEW x \in D, NEW y \in D, x <= y
  PROVE  \E m \in Nat : y = m * x
<1>0. MinThreads \in Nat \ {0} BY TuningAssumption
<1> DEFINE B == {b \in D : x <= b /\ ~\E m \in Nat : b = m * x}
<1> SUFFICES ASSUME B # {} PROVE FALSE OBVIOUS
<1>1. B \subseteq Nat /\ x \in Nat /\ x >= MinThreads BY DEF Doublings
<1>2. PICK b \in B : \A f \in B : b <= f BY <1>1, LeastNumber
<1>3. b \in Nat /\ b \in D /\ x <= b BY <1>1
<1>4. b # x
  <2>1. x = 1 * x BY <1>1
  <2> QED BY <2>1
<1>5. b # MinThreads BY <1>0, <1>1, <1>3, <1>4
<1>6. PICK h \in D : b = 2 * h BY <1>3, <1>5 DEF Doublings
<1>7. h \in Nat /\ h >= MinThreads BY DEF Doublings
<1>8. x <= h
  <2>1. ~(h < x /\ x < 2 * h) BY NoneBetween
  <2> QED BY <1>1, <1>3, <1>4, <1>6, <1>7, <2>1
<1>9. h < b BY <1>0, <1>6, <1>7
<1>10. h \notin B BY <1>2, <1>3, <1>7, <1>9
<1>11. PICK m \in Nat : h = m * x BY <1>8, <1>10
<1>12. b = (2 * m) * x /\ 2 * m \in Nat BY <1>1, <1>6, <1>11
<1> QED BY <1>2, <1>12

(* The block of a plan: the largest size of at most d, or the smallest. *)
Blocked(D, t, d) ==
  t \in D /\ (t <= d \/ t = MinThreads) /\ (t = StartTpb \/ 2 * t > d)

LEMMA PlanBlock ==
  ASSUME NEW D, Doublings(D), StartTpb \in D, D \subseteq 0..StartTpb, NEW d \in Nat \ {0}
  PROVE  Blocked(D, clampThreadsPerBlock(Halved(d)), d)
<1>1. /\ StartTpb \in Nat /\ MinThreads \in Nat \ {0} /\ MaxTpb \in Nat
      /\ MinThreads <= StartTpb /\ StartTpb <= MaxTpb
  BY TuningAssumption
<1>2. PICK P : Halved(d) = P[StartTpb] /\ P[0] = StartTpb /\ \A i \in Nat : P[i + 1] = Turn(P[i], d)
  BY HalvedTurns
<1> DEFINE OK(t) == \/ t \in D /\ (t = StartTpb \/ 2 * t > d)
                    \/ t \in Nat /\ t < MinThreads /\ MinThreads > d /\ MinThreads \in D
           T == {i \in Nat : OK(P[i])}
<1>3. 0 \in T BY <1>2
<1>4. ASSUME NEW t, OK(t) PROVE OK(Turn(t, d))
  <2>0. t \in Nat BY <1>4 DEF Doublings
  <2>1. CASE ~(t > d /\ t >= MinThreads) BY <1>4, <2>1 DEF Turn
  <2>2. CASE t > d /\ t >= MinThreads
    <3>1. t \in D /\ Turn(t, d) = t \div 2 BY <1>1, <1>4, <2>0, <2>2 DEF Turn
    <3>2. CASE t = MinThreads
      <4>1. t \div 2 \in Nat /\ t \div 2 < MinThreads BY <1>1, <2>0, <3>2
      <4> QED BY <2>2, <3>1, <3>2, <4>1
    <3>3. CASE t # MinThreads
      <4>1. PICK h \in D : t = 2 * h BY <3>1, <3>3 DEF Doublings
      <4>2. h \in Nat BY DEF Doublings
      <4>3. t \div 2 = h /\ 2 * h > d BY <2>2, <4>1, <4>2
      <4> QED BY <3>1, <4>3
    <3> QED BY <3>2, <3>3
  <2> QED BY <2>1, <2>2
<1>5. ASSUME NEW i \in Nat, i \in T PROVE i + 1 \in T
  <2>1. OK(P[i]) BY <1>5
  <2> HIDE DEF OK
  <2>2. OK(Turn(P[i], d)) BY <1>4, <2>1
  <2> QED BY <1>2, <2>2
<1>6. OK(Halved(d))
  <2> HIDE DEF OK
  <2>1. StartTpb \in T
    <3> HIDE DEF T
    <3> QED BY <1>1, <1>3, <1>5, Induction
  <2> QED BY <1>2, <2>1
<1>7. Halved(d) \in Nat /\ (Halved(d) <= d \/ Halved(d) < MinThreads) BY HalvedEnds
<1> DEFINE t == Halved(d)
<1>8. OK(t) /\ t \in Nat /\ (t <= d \/ t < MinThreads) BY <1>6, <1>7
<1> HIDE DEF t
<1>9. Blocked(D, clampThreadsPerBlock(t), d)
  <2>1. CASE t \in D /\ (t = StartTpb \/ 2 * t > d)
    <3>1. t >= MinThreads /\ t <= MaxTpb BY <1>1, <2>1 DEF Doublings
    <3>2. clampThreadsPerBlock(t) = t BY <1>1, <1>8, <3>1 DEF clampThreadsPerBlock, MaxOf, MinOf
    <3>3. t <= d BY <1>1, <1>8, <3>1
    <3> QED BY <2>1, <3>2, <3>3 DEF Blocked
  <2>2. CASE t < MinThreads /\ MinThreads > d /\ MinThreads \in D
    <3>1. clampThreadsPerBlock(t) = MinThreads
      BY <1>1, <1>8, <2>2 DEF clampThreadsPerBlock, MaxOf, MinOf
    <3>2. 2 * MinThreads > d BY <1>1, <2>2
    <3> QED BY <2>2, <3>1, <3>2 DEF Blocked
  <2> QED BY <1>8, <2>1, <2>2
<1> QED BY <1>9 DEF t

(* Rounding up to a multiple of t gives the smallest that is at least d. *)
LEMMA RoundedUp ==
  ASSUME NEW t \in Nat \ {0}, NEW d \in Nat \ {0}
  PROVE  LET q == (d + t - 1) \div t
         IN  q \in Nat /\ t * q >= d /\ \A m \in Nat : m * t >= d => t * q <= m * t
<1> DEFINE x == d + t - 1
           q == x \div t
           r == x % t
<1>1. x \in Nat OBVIOUS
<1>2. q \in Nat /\ x = t * q + r /\ r \in 0..(t - 1)
  <2> HIDE DEF x
  <2> QED BY <1>1, Quotient
<1> HIDE DEF q, r
<1> DEFINE c == t * q
<1>3. c \in Nat BY <1>2
<1>4. c >= d /\ c <= d + t - 1
  <2>1. d + t - 1 = c + r BY <1>2
  <2> HIDE DEF c
  <2> QED BY <1>2, <1>3, <2>1
<1>5. ASSUME NEW m \in Nat, m * t >= d PROVE c <= m * t
  <2>1. CASE m >= q
    <3>1. m * t >= q * t /\ q * t = c BY <1>2, <2>1
    <3> QED BY <1>3, <3>1
  <2>2. CASE m < q
    <3>1. m + 1 <= q BY <1>2, <2>2
    <3>2. (m + 1) * t <= q * t BY <1>2, <3>1
    <3>3. (m + 1) * t = m * t + t /\ q * t = c BY <1>2
    <3>4. m * t \in Nat OBVIOUS
    <3> DEFINE y == m * t
    <3>5. y \in Nat /\ y >= d /\ y + t <= c BY <1>5, <3>2, <3>3, <3>4
    <3> HIDE DEF y, c
    <3> QED BY <1>3, <1>4, <3>5
  <2> QED BY <1>2, <2>1, <2>2
<1> QED BY <1>2, <1>4, <1>5 DEF q, c

(* More threads never make a smaller plan, and twice the threads at most *)
(* double it.                                                            *)
LEMMA PlanGrows ==
  ASSUME HalvesToMinThreads, NEW d \in Nat \ {0}, NEW e \in Nat \ {0}, d <= e
  PROVE  /\ computeLaunchPlan(d) \in Nat /\ computeLaunchPlan(e) \in Nat
         /\ computeLaunchPlan(d) <= computeLaunchPlan(e)
<1>1. PICK D \in SUBSET (0..StartTpb) : StartTpb \in D /\ Doublings(D) BY DEF HalvesToMinThreads
<1>2. MinThreads \in Nat \ {0} /\ StartTpb \in Nat BY TuningAssumption
<1> DEFINE x == clampThreadsPerBlock(Halved(d))
           y == clampThreadsPerBlock(Halved(e))
           p == (d + x - 1) \div x
           q == (e + y - 1) \div y
<1>3. Blocked(D, x, d) /\ Blocked(D, y, e) BY <1>1, PlanBlock
<1>4. computeLaunchPlan(d) = x * p /\ computeLaunchPlan(e) = y * q BY DEF computeLaunchPlan
<1> HIDE DEF x, y
<1>5. x \in Nat \ {0} /\ y \in Nat \ {0} /\ x \in D /\ y \in D /\ x <= StartTpb
  BY <1>1, <1>2, <1>3 DEF Blocked, Doublings
<1>6. x <= y
  <2> SUFFICES ASSUME y < x PROVE FALSE BY <1>5
  <2>1. x # MinThreads BY <1>1, <1>2, <1>5 DEF Doublings
  <2>2. x <= e BY <1>3, <1>5, <2>1 DEF Blocked
  <2>3. 2 * y > e BY <1>2, <1>3, <1>5 DEF Blocked
  <2> QED BY <1>1, <1>5, <2>2, <2>3, NoneBetween
<1>7. PICK m \in Nat : y = m * x BY <1>1, <1>5, <1>6, SmallerDivides
<1>8. p \in Nat /\ \A k \in Nat : k * x >= d => x * p <= k * x BY <1>5, RoundedUp
<1>9. q \in Nat /\ y * q >= e BY <1>5, RoundedUp
<1> HIDE DEF p, q
<1>10. y * q = (m * q) * x /\ m * q \in Nat BY <1>5, <1>7, <1>9
<1>11. (m * q) * x >= d
  <2> DEFINE w == (m * q) * x
  <2>1. w \in Nat /\ w >= e BY <1>5, <1>9, <1>10
  <2> HIDE DEF w
  <2> QED BY <2>1 DEF w
<1>12. x * p <= (m * q) * x BY <1>8, <1>10, <1>11
<1>13. x * p \in Nat /\ y * q \in Nat BY <1>5, <1>8, <1>9
<1> QED BY <1>4, <1>10, <1>12, <1>13

LEMMA PlanDoubles ==
  ASSUME HalvesToMinThreads, NEW d \in Nat \ {0}
  PROVE  computeLaunchPlan(2 * d) <= 2 * computeLaunchPlan(d)
<1>1. PICK D \in SUBSET (0..StartTpb) : StartTpb \in D /\ Doublings(D) BY DEF HalvesToMinThreads
<1>2. MinThreads \in Nat \ {0} /\ StartTpb \in Nat BY TuningAssumption
<1> DEFINE e == 2 * d
<1>0. e \in Nat \ {0} /\ e = 2 * d OBVIOUS
<1> HIDE DEF e
<1> DEFINE x == clampThreadsPerBlock(Halved(d))
           y == clampThreadsPerBlock(Halved(e))
           p == (d + x - 1) \div x
           q == (e + y - 1) \div y
<1>3. Blocked(D, x, d) /\ Blocked(D, y, e) BY <1>0, <1>1, PlanBlock
<1>4. computeLaunchPlan(d) = x * p /\ computeLaunchPlan(e) = y * q BY DEF computeLaunchPlan
<1> HIDE DEF x, y
<1>5. /\ x \in Nat \ {0} /\ y \in Nat \ {0} /\ x \in D /\ y \in D /\ x <= StartTpb /\ y <= StartTpb
      /\ x >= MinThreads /\ y >= MinThreads
  BY <1>1, <1>2, <1>3 DEF Blocked, Doublings
<1>6. x <= y
  <2> SUFFICES ASSUME y < x PROVE FALSE BY <1>5
  <2>1. x # MinThreads BY <1>2, <1>5
  <2>2. x <= e BY <1>0, <1>3, <1>5, <2>1 DEF Blocked
  <2>3. 2 * y > e BY <1>2, <1>3, <1>5 DEF Blocked
  <2> QED BY <1>0, <1>1, <1>5, <2>2, <2>3, NoneBetween
<1>7. y = x \/ y = 2 * x
  <2> SUFFICES ASSUME x < y, y # 2 * x PROVE FALSE BY <1>5, <1>6
  <2>1. ~(x < y /\ y < 2 * x) BY <1>1, <1>5, NoneBetween
  <2>2. y > 2 * x BY <1>5, <2>1
  <2>3. y # MinThreads BY <1>2, <1>5
  <2>4. PICK h \in D : y = 2 * h BY <1>1, <1>5, <2>3 DEF Doublings
  <2>5. h \in Nat BY <1>1 DEF Doublings
  <2>6. y <= e BY <1>3, <2>3 DEF Blocked
  <2>7. 2 * x > d BY <1>2, <1>3, <1>5 DEF Blocked
  <2>8. x < h /\ h < 2 * x BY <1>0, <1>5, <2>2, <2>4, <2>5, <2>6, <2>7
  <2> QED BY <1>1, <1>5, <2>8, NoneBetween
<1>8. p \in Nat /\ x * p >= d BY <1>5, RoundedUp
<1>9. q \in Nat /\ \A k \in Nat : k * y >= e => y * q <= k * y BY <1>0, <1>5, RoundedUp
<1> HIDE DEF p, q
<1>10. \E k \in Nat : k * y = 2 * (x * p)
  <2>1. CASE y = x
    <3>1. (2 * p) * y = 2 * (x * p) /\ 2 * p \in Nat BY <1>5, <1>8, <2>1
    <3> QED BY <3>1
  <2>2. CASE y = 2 * x
    <3>1. p * y = 2 * (x * p) BY <1>5, <1>8, <2>2
    <3> QED BY <1>8, <3>1
  <2> QED BY <1>7, <2>1, <2>2
<1>11. PICK k \in Nat : k * y = 2 * (x * p) BY <1>10
<1>12. 2 * (x * p) >= e
  <2> DEFINE w == x * p
  <2>1. w \in Nat /\ w >= d BY <1>5, <1>8
  <2> HIDE DEF w
  <2>2. 2 * w >= e BY <1>0, <2>1
  <2> QED BY <2>2 DEF w
<1>13. y * q <= k * y BY <1>9, <1>11, <1>12
<1> QED BY <1>0, <1>4, <1>11, <1>13

(* A launch over budget does not make the next one larger. *)
LEMMA OverShrinks ==
  ASSUME HalvesToMinThreads, NEW d \in Nat \ {0}, NEW n \in Nat \ {0}, NEW low \in BOOLEAN
  PROVE  Window(TuneThreads("over", low, d), autoTuneMicroBatch("over", n)) <= Window(d, n)
<1> DEFINE e == TuneThreads("over", low, d)
           m == autoTuneMicroBatch("over", n)
           p == computeLaunchPlan(d)
           q == computeLaunchPlan(e)
<1>1. MinThreads \in Nat \ {0} /\ MaxThreads \in Nat /\ MinThreads <= MaxThreads BY TuningAssumption
<1>2. m = MaxOf(n \div 2, 1) BY DEF autoTuneMicroBatch
<1>3. e \in Nat \ {0} /\ e <= 2 * d
  <2> DEFINE up == MinOf(MaxThreads, 2 * d)
             down == MaxOf(MinThreads, d \div 2)
  <2>1. \/ e = up
        \/ d > MinThreads /\ e = down
        \/ e = d
    BY DEF TuneThreads
  <2>2. up \in Nat \ {0} /\ up <= 2 * d BY <1>1 DEF MinOf
  <2>3. d > MinThreads => down \in Nat \ {0} /\ down <= d BY <1>1 DEF MaxOf
  <2> HIDE DEF e, up, down
  <2> QED BY <2>1, <2>2, <2>3
<1>4. Window(d, n) \in Nat \ {0} BY WindowPositive
<1> HIDE DEF e
<1>5. p \in Nat /\ q \in Nat /\ q <= 2 * p
  <2>1. 2 * d \in Nat \ {0} /\ d <= 2 * d OBVIOUS
  <2>2. p \in Nat BY <2>1, PlanGrows
  <2>3. /\ q \in Nat /\ computeLaunchPlan(2 * d) \in Nat
        /\ q <= computeLaunchPlan(2 * d)
    BY <1>3, <2>1, PlanGrows
  <2>4. computeLaunchPlan(2 * d) <= 2 * p BY PlanDoubles
  <2> QED BY <2>2, <2>3, <2>4
<1>6. CASE m <= 1
  <2>1. Window(e, m) = 1 BY <1>6, <1>2 DEF Window, MaxOf
  <2> QED BY <1>4, <2>1 DEF e
<1>7. CASE m > 1
  <2>1. m \in Nat /\ 2 * m <= n /\ n > 1 BY <1>2, <1>7 DEF MaxOf
  <2>2. Window(e, m) = q * m /\ Window(d, n) = p * n BY <1>7, <2>1 DEF Window
  <2> HIDE DEF m, p, q
  <2>3. q * m <= (2 * p) * m BY <1>5, <2>1
  <2>4. (2 * p) * m = p * (2 * m) BY <1>5, <2>1
  <2>5. p * (2 * m) <= p * n BY <1>5, <2>1
  <2>6. q * m \in Nat /\ (2 * p) * m \in Nat /\ p * n \in Nat BY <1>5, <2>1
  <2>7. q * m <= p * n BY <2>3, <2>4, <2>5, <2>6
  <2> QED BY <2>2, <2>7 DEF e, m
<1>8. m \in Nat BY <1>2 DEF MaxOf
<1> QED BY <1>6, <1>7, <1>8

(* A launch over budget never makes the next one larger, although low occupancy *)
(* may double the threads in the same iteration of main()'s loop.  It needs     *)
(* that the first block size is MinThreads times a power of two, as 256 and 64  *)
(* of launch_plan.h are: from 7, twice 4 threads would make a plan of 6 one of  *)
(* 14.                                                                          *)
THEOREM TuningOverBudget ==
  ASSUME HalvesToMinThreads
  PROVE  Spec => OverBudgetNeverGrows
<1>1. TuningInv /\ [Next]_vars =>
        [last' = "over" => Window(threads', npt') <= Window(threads, npt)]_vars
  <2> SUFFICES ASSUME TuningInv, Next, last' = "over"
               PROVE  Window(threads', npt') <= Window(threads, npt)
    OBVIOUS
  <2>1. threads \in Nat \ {0} /\ npt \in Nat \ {0} BY DEF TuningInv, KnobInv
  <2>2. CASE \E s \in Slots : SetSlot(s)
    <3>1. threads' = threads /\ npt' = npt BY <2>2 DEF SetSlot, knobVars
    <3>2. Window(threads, npt) \in Nat BY <2>1, WindowPositive
    <3> QED BY <3>1, <3>2
  <2>3. CASE \E time \in Times, low \in BOOLEAN : Iterate(time, low)
    <3>1. PICK time \in Times, low \in BOOLEAN : Iterate(time, low) BY <2>3
    <3>2. time = "over" BY <3>1 DEF Iterate, Launch
    <3>3. threads' = TuneThreads("over", low, threads) /\ npt' = autoTuneMicroBatch("over", npt)
      BY <3>1, <3>2 DEF Iterate, Launch
    <3> QED BY <2>1, <3>3, OverShrinks
  <2>4. CASE \E c \in Configs, p \in {saved, NoProfile} : Restart(c, p)
    BY <2>4 DEF Restart, Begin
  <2> QED BY <2>2, <2>3, <2>4 DEF Next
<1> QED BY <1>1, TuningInvariant, PTL DEF Spec, OverBudgetNeverGrows

-----------------------------------------------------------------------------
(* The sum of the weights that come before a slot. *)

(* A weight, capped and less its penalty, is at least 1. *)
LEMMA WeightPositive ==
  ASSUME NEW s \in Sources, penalty \in [Sources -> 0..5]
  PROVE  EffectiveWeight(s) \in 1..Cap
<1>1. Weight[s] \in Nat \ {0} /\ Cap \in Nat \ {0} BY BackpressureAssumption
<1>2. penalty[s] \in 0..5 OBVIOUS
<1> QED BY <1>1, <1>2 DEF EffectiveWeight

(* The sum over a finite set of them is at most Cap for each. *)
LEMMA WeightSum ==
  ASSUME NEW A, IsFiniteSet(A), \A t \in A : EffectiveWeight(t) \in 1..Cap
  PROVE  MapThenSumSet(EffectiveWeight, A) \in 0..(Cardinality(A) * Cap)
<1> DEFINE D == SUBSET A
           pick(s) == CHOOSE x \in s : TRUE
           step(g) == [s \in D |-> IF s = {} THEN 0 ELSE EffectiveWeight(pick(s)) + g[s \ {pick(s)}]]
           E(f) == f = step(f)
           P == CHOOSE f : E(f)
           V == [D -> Int]
           f0 == [s \in D |-> 0]
           h == [i \in Nat |-> [g \in V |-> step(g)]]
<1>0. Cap \in Nat BY BackpressureAssumption
<1>1. MapThenSumSet(EffectiveWeight, A) = P[A]
  BY DEF MapThenSumSet, MapThenFoldSet
<1>2. ASSUME NEW s \in D, s # {}
      PROVE  /\ pick(s) \in s /\ s \ {pick(s)} \in D /\ EffectiveWeight(pick(s)) \in 1..Cap
             /\ Cardinality(s) \in Nat \ {0} /\ Cardinality(s \ {pick(s)}) = Cardinality(s) - 1
  <2>1. pick(s) \in s BY <1>2
  <2> HIDE DEF pick
  <2>2. IsFiniteSet(s) BY FS_Subset
  <2>3. Cardinality(s) \in Nat /\ Cardinality(s) # 0 BY <1>2, <2>2, FS_CardinalityType, FS_EmptySet
  <2>4. Cardinality(s \ {pick(s)}) = Cardinality(s) - 1 BY <2>1, <2>2, FS_RemoveElement
  <2> QED BY <2>1, <2>3, <2>4
<1>3. {} \in D /\ Cardinality({}) = 0 BY FS_EmptySet
<1>4. \E f : E(f)
  <2>1. f0 \in V OBVIOUS
  <2>2. ASSUME NEW g \in V PROVE step(g) \in V
    <3>1. ASSUME NEW s \in D
          PROVE  (IF s = {} THEN 0 ELSE EffectiveWeight(pick(s)) + g[s \ {pick(s)}]) \in Int
      <4>1. CASE s = {} BY <4>1
      <4>2. CASE s # {}
        <5>1. s \ {pick(s)} \in D /\ EffectiveWeight(pick(s)) \in 1..Cap BY <1>2, <4>2
        <5> HIDE DEF pick, D
        <5>2. g[s \ {pick(s)}] \in Int BY <5>1
        <5> QED BY <1>0, <4>2, <5>1, <5>2
      <4> QED BY <4>1, <4>2
    <3> HIDE DEF pick, D
    <3> QED BY <3>1
  <2>3. h \in [Nat -> [V -> V]]
    <3> HIDE DEF step, V
    <3> QED BY <2>2
  <2>4. PICK g \in [Nat -> V] : Recursion(g, f0, h)
    <3> HIDE DEF V, f0, h
    <3> QED BY <2>1, <2>3, RecursionExists
  <2>5. g[0] = f0 /\ \A i \in Nat : i # 0 => g[i] = step(g[i - 1])
    <3>1. \A i \in Nat, k \in V : h[i][k] = step(k)
      <4> HIDE DEF step, V
      <4> QED OBVIOUS
    <3> HIDE DEF V, f0, h, step
    <3>2. g = [i \in Nat |-> IF i = 0 THEN f0 ELSE h[i][g[i - 1]]] BY <2>4 DEF Recursion
    <3>3. \A i \in Nat : g[i] \in V OBVIOUS
    <3>4. g[0] = f0 BY <3>2
    <3>5. ASSUME NEW i \in Nat, i # 0 PROVE g[i] = step(g[i - 1])
      <4>1. i - 1 \in Nat BY <3>5
      <4>2. g[i] = h[i][g[i - 1]] BY <3>2, <3>5
      <4>3. g[i - 1] \in V BY <3>3, <4>1
      <4> QED BY <3>1, <4>2, <4>3
    <3> QED BY <3>4, <3>5
  <2> DEFINE I == [s \in D |-> g[Cardinality(s)][s]]
  <2>6. ASSUME NEW s \in D
        PROVE  I[s] = IF s = {} THEN 0 ELSE EffectiveWeight(pick(s)) + I[s \ {pick(s)}]
    <3>1. CASE s = {}
      <4>1. I[s] = g[0][s] BY <1>3, <3>1
      <4>2. f0[s] = 0 OBVIOUS
      <4> QED BY <2>5, <3>1, <4>1, <4>2
    <3>2. CASE s # {}
      <4> DEFINE c == Cardinality(s)
                 z == s \ {pick(s)}
      <4>1. z \in D /\ c \in Nat /\ c # 0 /\ Cardinality(z) = c - 1 BY <1>2, <3>2
      <4>2. I[s] = g[c][s] OBVIOUS
      <4>3. I[z] = g[c - 1][z] BY <4>1
      <4>4. g[c] = step(g[c - 1]) BY <2>5, <4>1
      <4>5. step(g[c - 1])[s] = EffectiveWeight(pick(s)) + g[c - 1][z]
        <5> HIDE DEF D, pick, c
        <5> QED BY <3>2
      <4> HIDE DEF I, step, pick, D, c
      <4> QED BY <3>2, <4>2, <4>3, <4>4, <4>5
    <3> QED BY <3>1, <3>2
  <2>7. E(I)
    <3>1. I = [s \in D |-> I[s]] OBVIOUS
    <3> HIDE DEF I, pick, D
    <3> QED BY <2>6, <3>1
  <2> HIDE DEF E, I
  <2> QED BY <2>7
<1>5. E(P)
  <2> HIDE DEF E
  <2> QED BY <1>4
<1>6. \A s \in D : P[s] = IF s = {} THEN 0 ELSE EffectiveWeight(pick(s)) + P[s \ {pick(s)}]
  <2>1. P = step(P) BY <1>5
  <2> HIDE DEF P, pick, D
  <2> QED BY <2>1
<1> HIDE DEF P
<1> DEFINE T == {n \in Nat : \A s \in D : Cardinality(s) = n => P[s] \in 0..(n * Cap)}
<1>7. 0 \in T
  <2> SUFFICES ASSUME NEW s \in D, Cardinality(s) = 0 PROVE P[s] \in 0..(0 * Cap) OBVIOUS
  <2>1. IsFiniteSet(s) BY FS_Subset
  <2>2. s = {} BY <2>1, FS_EmptySet
  <2>3. P[s] = 0 BY <1>6, <2>2
  <2> QED BY <1>0, <2>3
<1>8. ASSUME NEW n \in Nat, n \in T PROVE n + 1 \in T
  <2> SUFFICES ASSUME NEW s \in D, Cardinality(s) = n + 1 PROVE P[s] \in 0..((n + 1) * Cap) OBVIOUS
  <2>1. s # {} BY <1>3
  <2> DEFINE z == s \ {pick(s)}
             e == EffectiveWeight(pick(s))
             k == n * Cap
  <2>2. z \in D /\ e \in 1..Cap /\ Cardinality(z) = n
    <3>1. z \in D /\ e \in 1..Cap /\ Cardinality(z) = Cardinality(s) - 1 BY <1>2, <2>1
    <3> HIDE DEF z, e
    <3> QED BY <3>1
  <2>3. P[z] \in 0..k BY <1>8, <2>2
  <2>4. P[s] = e + P[z] BY <1>6, <2>1
  <2>5. (n + 1) * Cap = k + Cap /\ k \in Nat BY <1>0
  <2> HIDE DEF z, e, k, D
  <2> QED BY <1>0, <2>2, <2>3, <2>4, <2>5
<1>9. Nat \subseteq T
  <2> HIDE DEF T
  <2> QED BY <1>7, <1>8, Induction
<1>10. A \in D /\ Cardinality(A) \in Nat BY FS_CardinalityType
<1>11. P[A] \in 0..(Cardinality(A) * Cap)
  <2>1. Cardinality(A) \in T BY <1>9, <1>10
  <2> QED BY <1>10, <2>1
<1> QED BY <1>1, <1>11

(* The least of a set of slots is one of them. *)
LEMMA MinIn ==
  ASSUME NEW T, T \subseteq Nat, T # {}
  PROVE  Min(T) \in T /\ \A y \in T : Min(T) <= y
<1>1. \E x \in T : \A y \in T : x <= y BY LeastNumber
<1> QED BY <1>1 DEF Min

(* The slots before one hold at most one weight each less than all do. *)
LEMMA RoomLeft ==
  ASSUME penalty \in [Sources -> 0..5], filled \subseteq Sources, NEW s \in Sources
  PROVE  /\ RoomFor(s) \in Int /\ RoomFor(s) <= MaxIds
         /\ Cardinality(Sources) * Cap <= MaxIds => RoomFor(s) >= Cap
<1> DEFINE A == {t \in filled : t < s}
           B == Sources \ {s}
           c == Cardinality(A)
           n == Cardinality(Sources)
           m == MapThenSumSet(EffectiveWeight, A)
<1>0. IsFiniteSet(Sources) /\ Sources \subseteq Nat /\ Cap \in Nat \ {0} /\ MaxIds \in Nat
  BY BackpressureAssumption
<1>1. IsFiniteSet(B) /\ Cardinality(B) = n - 1 BY <1>0, FS_RemoveElement
<1>2. A \subseteq B
  <2> SUFFICES ASSUME NEW t \in A PROVE t \in Sources /\ t # s OBVIOUS
  <2>1. t \in Sources /\ t < s OBVIOUS
  <2>2. t \in Nat /\ s \in Nat BY <1>0, <2>1
  <2> QED BY <2>1, <2>2
<1>3. n \in Nat BY <1>0, FS_CardinalityType
<1>4. IsFiniteSet(A) /\ c \in Nat /\ c <= n - 1
  <2>1. IsFiniteSet(A) /\ Cardinality(A) <= Cardinality(B) BY <1>1, <1>2, FS_Subset
  <2>2. Cardinality(A) \in Nat BY <2>1, FS_CardinalityType
  <2> QED BY <1>1, <2>1, <2>2
<1>5. m \in 0..(c * Cap)
  <2>1. \A t \in A : EffectiveWeight(t) \in 1..Cap BY <1>2, WeightPositive
  <2> HIDE DEF A
  <2> QED BY <1>4, <2>1, WeightSum
<1>6. RoomFor(s) = MaxIds - m BY DEF RoomFor
<1> HIDE DEF A, c, n, m
<1>7. c * Cap \in Nat /\ (n - 1) * Cap = n * Cap - Cap /\ n * Cap \in Nat BY <1>0, <1>3, <1>4
<1>8. c * Cap <= (n - 1) * Cap
  <2>1. ((n - 1) - c) * Cap >= 0 BY <1>0, <1>3, <1>4
  <2>2. ((n - 1) - c) * Cap = (n - 1) * Cap - c * Cap BY <1>0, <1>3, <1>4
  <2>3. (n - 1) * Cap \in Int BY <1>0, <1>3
  <2> QED BY <1>7, <2>1, <2>2, <2>3
<1> DEFINE x == c * Cap
           y == n * Cap
<1>9. x \in Nat /\ y \in Nat /\ x <= y - Cap BY <1>7, <1>8
<1>10. m \in 0..x BY <1>5
<1> HIDE DEF x, y
<1>11. RoomFor(s) \in Int /\ RoomFor(s) <= MaxIds BY <1>0, <1>6, <1>9, <1>10
<1>12. y <= MaxIds => RoomFor(s) >= Cap BY <1>0, <1>6, <1>9, <1>10
<1> QED BY <1>11, <1>12 DEF y, n

(* What select returns of a slot. *)
LEMMA ReplicasIs ==
  ASSUME penalty \in [Sources -> 0..5], filled \subseteq Sources, NEW s \in Sources
  PROVE  /\ Replicas(s) \in 0..MaxIds
         /\ s \in filled /\ Cardinality(Sources) * Cap <= MaxIds => Replicas(s) >= 1
<1> DEFINE r == RoomFor(s)
           e == EffectiveWeight(s)
<1>0. Cap \in Nat \ {0} /\ MaxIds \in Nat BY BackpressureAssumption
<1>1. e \in 1..Cap BY WeightPositive
<1>2. r \in Int /\ r <= MaxIds /\ (Cardinality(Sources) * Cap <= MaxIds => r >= Cap) BY RoomLeft
<1>3. Replicas(s) = IF s \notin filled \/ r <= 0 THEN 0 ELSE Min({e, r}) BY DEF Replicas
<1> HIDE DEF r, e
<1>4. CASE s \notin filled \/ r <= 0
  <2>1. Replicas(s) = 0 BY <1>3, <1>4
  <2>2. ~(s \in filled /\ Cardinality(Sources) * Cap <= MaxIds) BY <1>0, <1>2, <1>4
  <2> QED BY <1>0, <2>1, <2>2
<1>5. CASE ~(s \notin filled \/ r <= 0)
  <2>1. {e, r} \subseteq Nat /\ {e, r} # {} BY <1>0, <1>1, <1>2, <1>5
  <2>2. Min({e, r}) \in {e, r} /\ \A y \in {e, r} : Min({e, r}) <= y BY <2>1, MinIn
  <2>3. Replicas(s) = Min({e, r}) BY <1>3, <1>5
  <2> DEFINE q == Min({e, r})
  <2>4. q \in {e, r} /\ q <= r BY <2>2
  <2> HIDE DEF q
  <2>5. q \in 1..MaxIds BY <1>0, <1>1, <1>2, <1>5, <2>4
  <2> QED BY <1>0, <2>3, <2>5 DEF q
<1> QED BY <1>4, <1>5

(* SchedTypeOK, and an evaluation has read no more accepts than there were. *)
SchedInv == SchedTypeOK /\ \A s \in Stratum : lastAcc[s] <= acc[s]

(* It holds at first. *)
LEMMA SchedInvInit == SchedInit => SchedInv
BY BackpressureAssumption DEF SchedInit, SchedInv, SchedTypeOK, Idle, Unread

(* The number of bounds exceeded. *)
LEMMA AboveType ==
  ASSUME NEW n, NEW T, IsFiniteSet(T)
  PROVE  Above(n, T) \in Nat
<1>1. IsFiniteSet({b \in T : n > b}) BY FS_Subset
<1> QED BY <1>1, FS_CardinalityType DEF Above

(* A penalty stays between 0 and 5. *)
LEMMA PenaltyType ==
  ASSUME NEW prev \in 0..5, NEW p \in Nat
  PROVE  NextPenalty(prev, p) \in 0..5
BY DEF NextPenalty

(* Points are never negative. *)
LEMMA PointsType ==
  ASSUME NEW s, NEW d
  PROVE  Points(s, d) \in Nat
<1>1. IsFiniteSet({0, 3}) /\ IsFiniteSet({0, 3, 7})
  <2>1. IsFiniteSet({0}) BY FS_Singleton
  <2>2. IsFiniteSet({0} \cup {3}) BY <2>1, FS_AddElement
  <2>3. IsFiniteSet(({0} \cup {3}) \cup {7}) BY <2>2, FS_AddElement
  <2>4. {0} \cup {3} = {0, 3} /\ ({0} \cup {3}) \cup {7} = {0, 3, 7} OBVIOUS
  <2> QED BY <2>2, <2>3, <2>4
<1>2. Above(cf[s], {0, 3, 7}) \in Nat /\ Above(qd[s], {0, 3}) \in Nat BY <1>1, AboveType
<1> QED BY <1>2 DEF Points

(* The evaluation goes on to a slot or ends. *)
LEMMA AfterType ==
  ASSUME NEW s
  PROVE  After(s) \in Sources \cup {Idle}
<1> DEFINE later == {t \in Sources : t > s}
<1>1. later \subseteq Nat BY BackpressureAssumption
<1>2. later # {} => Min(later) \in later BY <1>1, MinIn
<1>3. After(s) = IF later = {} THEN Idle ELSE Min(later) BY DEF After
<1>4. later \subseteq Sources OBVIOUS
<1> HIDE DEF later
<1> QED BY <1>2, <1>3, <1>4

(* Every step keeps SchedInv. *)
LEMMA SchedInvStep ==
  ASSUME SchedInv, [SchedNext]_schedVars
  PROVE  SchedInv'
<1>0. /\ Stratum \subseteq Sources /\ Sources \subseteq Nat
      /\ MaxAnswers \in Nat /\ MaxFailures \in Nat /\ MaxDisconnects \in Nat
  BY BackpressureAssumption
<1>t. /\ acc \in [Stratum -> 0..MaxAnswers] /\ rej \in [Stratum -> 0..MaxAnswers]
      /\ cf \in [Stratum -> 0..MaxFailures] /\ qd \in [Stratum -> 0..MaxDisconnects]
      /\ connected \in [Stratum -> BOOLEAN]
      /\ lastAcc \in [Stratum -> 0..MaxAnswers] /\ lastRej \in [Stratum -> 0..MaxAnswers]
      /\ penalty \in [Sources -> 0..5]
      /\ sid \in Sources \cup {Idle} /\ dacc \in -1..MaxAnswers
      /\ filled \subseteq Sources /\ selected \in [Sources -> 0..MaxIds]
      /\ \A s \in Stratum : lastAcc[s] <= acc[s]
  BY DEF SchedInv, SchedTypeOK
<1> USE DEF SchedInv, SchedTypeOK, evalVars, counters
<1>1. ASSUME NEW s \in Stratum, ConnectFails(s) PROVE SchedInv'
  BY <1>0, <1>t, <1>1 DEF ConnectFails
<1>2. ASSUME NEW s \in Stratum, ConnectSucceeds(s) PROVE SchedInv'
  BY <1>0, <1>t, <1>2 DEF ConnectSucceeds
<1>3. ASSUME NEW s \in Stratum, Disconnect(s) PROVE SchedInv'
  BY <1>0, <1>t, <1>3 DEF Disconnect
<1>4. ASSUME NEW s \in Stratum, Accepted(s) PROVE SchedInv'
  BY <1>0, <1>t, <1>4 DEF Accepted
<1>5. ASSUME NEW s \in Stratum, Rejected(s) PROVE SchedInv'
  BY <1>0, <1>t, <1>5 DEF Rejected
<1>6. ASSUME NEW s \in Sources, Notified(s) PROVE SchedInv'
  BY <1>t, <1>6 DEF Notified
<1>7. CASE EvaluateBegin
  <2>1. Min(Sources) \in Sources
    <3>1. Sources # {} BY <1>t, <1>7 DEF EvaluateBegin
    <3> QED BY <1>0, <3>1, MinIn
  <2> QED BY <1>t, <1>7, <2>1 DEF EvaluateBegin
<1>8. CASE ReadAccepted
  <2>1. sid \in Stratum BY <1>8 DEF ReadAccepted
  <2>2. acc[sid] \in 0..MaxAnswers /\ lastAcc[sid] \in 0..MaxAnswers /\ lastAcc[sid] <= acc[sid]
    BY <1>t, <2>1
  <2>3. dacc' \in -1..MaxAnswers BY <1>0, <1>8, <2>2 DEF ReadAccepted
  <2>4. /\ lastAcc' \in [Stratum -> 0..MaxAnswers]
        /\ \A s \in Stratum : lastAcc'[s] <= acc[s]
    BY <1>0, <1>t, <1>8, <2>2 DEF ReadAccepted
  <2> QED BY <1>t, <1>8, <2>3, <2>4 DEF ReadAccepted
<1>9. CASE Evaluate
  <2>1. sid \in Stratum /\ sid \in Sources BY <1>0, <1>9 DEF Evaluate
  <2> DEFINE p == Points(sid, rej[sid] - lastRej[sid])
  <2>2. p \in Nat BY PointsType
  <2>3. penalty' = [penalty EXCEPT ![sid] = NextPenalty(@, p)] BY <1>9 DEF Evaluate
  <2> HIDE DEF p
  <2>4. NextPenalty(penalty[sid], p) \in 0..5 BY <1>t, <2>1, <2>2, PenaltyType
  <2>5. penalty' \in [Sources -> 0..5] BY <1>t, <2>3, <2>4
  <2>6. lastRej' \in [Stratum -> 0..MaxAnswers]
    <3>1. rej[sid] \in 0..MaxAnswers BY <1>t, <2>1
    <3>2. lastRej' = [lastRej EXCEPT ![sid] = rej[sid]] BY <1>9 DEF Evaluate
    <3> QED BY <1>t, <3>1, <3>2
  <2>7. sid' \in Sources \cup {Idle} BY <1>9, AfterType DEF Evaluate
  <2>8. dacc' \in -1..MaxAnswers BY <1>0, <1>9 DEF Evaluate, Unread
  <2>9. /\ acc' = acc /\ rej' = rej /\ cf' = cf /\ qd' = qd /\ connected' = connected
        /\ lastAcc' = lastAcc /\ filled' = filled /\ selected' = selected
    BY <1>9 DEF Evaluate
  <2> QED BY <1>t, <2>5, <2>6, <2>7, <2>8, <2>9
<1>10. CASE EvaluateOther
  <2>1. sid \in Sources BY <1>10 DEF EvaluateOther
  <2>2. NextPenalty(penalty[sid], 0) \in 0..5
    <3>1. penalty[sid] \in 0..5 /\ 0 \in Nat BY <1>t, <2>1
    <3> QED BY <3>1, PenaltyType
  <2>3. penalty' = [penalty EXCEPT ![sid] = NextPenalty(@, 0)] BY <1>10 DEF EvaluateOther
  <2>4. penalty' \in [Sources -> 0..5] BY <1>t, <2>2, <2>3
  <2>5. sid' \in Sources \cup {Idle} BY <1>10, AfterType DEF EvaluateOther
  <2>6. /\ acc' = acc /\ rej' = rej /\ cf' = cf /\ qd' = qd /\ connected' = connected /\ dacc' = dacc
        /\ lastAcc' = lastAcc /\ lastRej' = lastRej /\ filled' = filled /\ selected' = selected
    BY <1>10 DEF EvaluateOther
  <2> QED BY <1>t, <2>4, <2>5, <2>6
<1>11. CASE select
  <2>1. \A s \in Sources : Replicas(s) \in 0..MaxIds BY <1>t, ReplicasIs
  <2>2. selected' = [s \in Sources |-> Replicas(s)] BY <1>11 DEF select
  <2>3. selected' \in [Sources -> 0..MaxIds] BY <2>1, <2>2
  <2> QED BY <1>t, <1>11, <2>3 DEF select
<1>12. CASE UNCHANGED schedVars BY <1>t, <1>12 DEF schedVars
<1> QED
  BY <1>1, <1>2, <1>3, <1>4, <1>5, <1>6, <1>7, <1>8, <1>9, <1>10, <1>11, <1>12
  DEF SchedNext, RunnerStep, MainStep

(* SchedInv holds always. *)
LEMMA SchedInvAlways == SchedSpec => []SchedInv
<1>1. SchedInv /\ [SchedNext]_schedVars => SchedInv' BY SchedInvStep
<1> QED BY <1>1, SchedInvInit, PTL DEF SchedSpec

(* Penalties stay between 0 and 5, counters within their bounds and what select *)
(* returns within max_ids, while the runner threads change counters between the *)
(* main thread's reads.                                                         *)
THEOREM SchedulerTypes == SchedSpec => []SchedTypeOK
<1>1. SchedInv => SchedTypeOK BY DEF SchedInv
<1> QED BY <1>1, SchedInvAlways, PTL

(* SchedulerState::select returns the job of every slot that has one, whatever the *)
(* penalties and wherever the slot is, if the capped weights of all fit max_ids.   *)
THEOREM SchedulerSelectsAll == SchedSpec => SelectsEverySource
<1>1. SchedInv /\ [SchedNext]_schedVars =>
        [select /\ Cardinality(Sources) * Cap <= MaxIds => \A s \in filled : selected'[s] >= 1]_schedVars
  <2> SUFFICES ASSUME SchedInv, select, Cardinality(Sources) * Cap <= MaxIds, NEW s \in filled
               PROVE  selected'[s] >= 1
    OBVIOUS
  <2>1. penalty \in [Sources -> 0..5] /\ filled \subseteq Sources BY DEF SchedInv, SchedTypeOK
  <2>2. s \in Sources BY <2>1
  <2>3. Replicas(s) >= 1 BY <2>1, <2>2, ReplicasIs
  <2>4. selected'[s] = Replicas(s) BY <2>2 DEF select
  <2> QED BY <2>3, <2>4
<1> QED BY <1>1, SchedInvAlways, PTL DEF SchedSpec, SelectsEverySource
=============================================================================
