-------------------------- MODULE HitRings_proofs --------------------------
(***************************************************************************)
(* Proofs about the two rings a hit passes through, the one of the device  *)
(* (DeviceRing) and the one of the host (HitRing).                         *)
(*                                                                         *)
(* DeviceRing, for every number of blocks, capacity, launch count and      *)
(* index width: the two wrapping indices count the backlog, and, if the    *)
(* capacity divides the modulus, what the host drains is what the places   *)
(* were reserved for.  RingInv is the argument.  While the ring was not    *)
(* overrun, the places between the two indices lie in different slots;     *)
(* every store that a block has still to perform is one of its place; and  *)
(* a field that does not yet hold its value has such a store.  When the    *)
(* grid has finished no store is left, so every place is filled.           *)
(*                                                                         *)
(* HitRing, for every capacity and every set of hits.  The inductive       *)
(* invariant is RingTypeOK /\ RingOK: the refinement needs both the place *)
(* of the write index and that live cells hold hits.                       *)
(***************************************************************************)
EXTENDS HitRing, DeviceRing, Integers, TLAPS

-----------------------------------------------------------------------------
(* The ring of the device. *)

(* The width of the indices is a multiple of the capacity, as for the       *)
(* default of 1024 places.                                                  *)
CapDividesModulus == Modulus % Cap = 0

(* What a field can hold. *)
Val == Hits \cup {Garbage}

(* A store that is still to perform: slot, field, value. *)
StoreT == Slots \X Fields \X Val

(* The shared buffer holds the counted hits that fit. *)
LocalExact ==
  \A b \in Blocks : Len(shits[b]) = IF scount[b] <= LocalCap THEN scount[b] ELSE LocalCap

(* A block that is done has stored all, and outside a launch all are done. *)
DoneStored ==
  /\ \A b \in Blocks : bpc[b] = "done" => todo[b] = <<>>
  /\ hpc # "kernel" => \A b \in Blocks : bpc[b] = "done"

(* What the arithmetic below takes for granted. *)
BaseInv == TypeOK /\ LocalExact /\ DoneStored

-----------------------------------------------------------------------------
(* Quotient and remainder. *)
LEMMA DivMod ==
  ASSUME NEW x \in Nat, NEW m \in Nat \ {0}
  PROVE  x % m \in 0..(m - 1) /\ x \div m \in Nat /\ x = m * (x \div m) + (x % m)
  BY SMT

(* They are the only ones. *)
LEMMA DivModUnique ==
  ASSUME NEW m \in Nat \ {0}, NEW q \in Int, NEW p \in Int,
         NEW r \in 0..(m - 1), NEW s \in 0..(m - 1), m * q + r = m * p + s
  PROVE  q = p /\ r = s
<1>1. m * (q - p) = s - r /\ m * (p - q) = r - s BY SMT
<1>2. ASSUME NEW d \in Int, d >= 1 PROVE m * d >= m
  <2>1. m * (d - 1) >= 0 BY <1>2, SMT
  <2>2. m * (d - 1) = m * d - m BY SMT
  <2> QED BY <2>1, <2>2, SMT
<1>3. q - p >= 1 => m * (q - p) >= m BY <1>2, SMT
<1>4. p - q >= 1 => m * (p - q) >= m BY <1>2, SMT
<1> QED BY <1>1, <1>3, <1>4, SMT

(* An index wraps at most once. *)
LEMMA WrapOnce ==
  ASSUME NEW m \in Nat \ {0}, NEW x \in 0..(2 * m - 1)
  PROVE  x % m = IF x < m THEN x ELSE x - m
  BY SMT

(* Indices a multiple of the modulus apart have the same slot. *)
LEMMA SameSlot ==
  ASSUME CapDividesModulus, NEW y \in Nat, NEW z \in Nat, NEW q \in Nat, y = Modulus * q + z
  PROVE  y % Cap = z % Cap
<1> DEFINE d == Modulus \div Cap
           e == z \div Cap
           t == z % Cap
           g == y \div Cap
           u == y % Cap
           w == d * q + e
<1>1. d \in Nat /\ Modulus = Cap * d
  <2>1. Modulus \in Nat /\ Cap \in Nat \ {0} /\ Modulus % Cap = 0 BY DeviceRingAssumption DEF CapDividesModulus
  <2>2. d \in Nat /\ Modulus = Cap * d + (Modulus % Cap) BY <2>1, DivMod
  <2> HIDE DEF d
  <2> QED BY <2>1, <2>2
<1>2. e \in Nat /\ t \in 0..(Cap - 1) /\ z = Cap * e + t BY DivMod, DeviceRingAssumption
<1>3. g \in Nat /\ u \in 0..(Cap - 1) /\ y = Cap * g + u BY DivMod, DeviceRingAssumption
<1> HIDE DEF d, e, t, g, u
<1>5. Modulus * q = Cap * (d * q) /\ d * q \in Nat BY <1>1, DeviceRingAssumption, SMT
<1>6. w \in Nat /\ Cap * (d * q) + Cap * e = Cap * w BY <1>2, <1>5, DeviceRingAssumption, SMT
<1> HIDE DEF w
<1>7. y = Cap * w + t BY <1>2, <1>5, <1>6, DeviceRingAssumption, SMT
<1>8. Cap * g + u = Cap * w + t BY <1>3, <1>7
<1>9. g \in Int /\ w \in Int /\ Cap \in Nat \ {0} BY <1>3, <1>6, DeviceRingAssumption
<1>10. \A m \in Nat \ {0} : \A i, j \in Int : \A r, v \in 0..(m - 1) : m * i + r = m * j + v => r = v
  BY DivModUnique
<1>11. u = t BY <1>2, <1>3, <1>8, <1>9, <1>10, Zenon
<1> QED BY <1>11 DEF u, t

(* Slots do not depend on whether the index has wrapped. *)
LEMMA WrapKeepsSlot ==
  ASSUME CapDividesModulus, NEW x \in Nat
  PROVE  (x % Modulus) % Cap = x % Cap
<1> DEFINE q == x \div Modulus
           r == x % Modulus
<1>1. q \in Nat /\ r \in Nat /\ x = Modulus * q + r BY DivMod, DeviceRingAssumption
<1> HIDE DEF q, r
<1>2. x % Cap = r % Cap BY <1>1, SameSlot
<1> QED BY <1>2 DEF r

(* Indices less than Cap apart lie in different slots. *)
LEMMA SlotsDiffer ==
  ASSUME NEW x \in Nat, NEW y \in Nat, x <= y, y - x < Cap, x % Cap = y % Cap
  PROVE  x = y
<1> DEFINE q == x \div Cap
           p == y \div Cap
           r == x % Cap
<1>1. q \in Nat /\ r \in 0..(Cap - 1) /\ x = Cap * q + r
  BY DivMod, DeviceRingAssumption
<1>2. p \in Nat /\ y = Cap * p + r
  BY DivMod, DeviceRingAssumption
<1> HIDE DEF p, q, r
<1>3. y - x = Cap * (p - q) BY <1>1, <1>2, DeviceRingAssumption, SMT
<1>4. p - q >= 1 => Cap * (p - q) >= Cap BY <1>1, <1>2, DeviceRingAssumption, SMT
<1>5. p - q <= 0 => Cap * (p - q) <= 0 BY <1>1, <1>2, DeviceRingAssumption, SMT
<1> QED BY <1>1, <1>2, <1>3, <1>4, <1>5, DeviceRingAssumption, SMT

-----------------------------------------------------------------------------
(* A place beyond the end of a sequence that grows. *)
LEMMA ConcatFacts ==
  ASSUME NEW S, NEW s \in Seq(S), NEW t \in Seq(S)
  PROVE  /\ s \o t \in Seq(S) /\ Len(s \o t) = Len(s) + Len(t)
         /\ Len(s) \in Nat /\ Len(t) \in Nat
         /\ \A k \in 1..Len(s) : (s \o t)[k] = s[k]
         /\ \A k \in 1..Len(t) : (s \o t)[Len(s) + k] = t[k]
  OBVIOUS

(* The values of hits and of slots. *)
LEMMA Constants ==
  /\ \A i \in Nat : i % Cap \in Slots /\ i % Modulus \in 0..(Modulus - 1)
  /\ \A i \in Nat : i % Ids \in Hits
  /\ {"work_id", "nonce"} = Fields
<1>1. \A i \in Nat : i % Cap \in 0..(Cap - 1) /\ i % Modulus \in 0..(Modulus - 1) /\ i % Ids \in 0..(Ids - 1)
  BY DivMod, DeviceRingAssumption
<1> QED BY <1>1 DEF Slots, Hits, Fields

(* The two stores of one hit. *)
LEMMA StoresType ==
  ASSUME NEW i \in Nat, NEW h \in Val
  PROVE  Stores(i, h) \in Seq(StoreT) /\ Len(Stores(i, h)) = 2
<1>1. <<i % Cap, "work_id", h>> \in StoreT /\ <<i % Cap, "nonce", h>> \in StoreT
  BY Constants DEF StoreT, Fields
<1> QED BY <1>1 DEF Stores

(* What a flush collects: as many as were counted. *)
LEMMA CollectedType ==
  ASSUME BaseInv, NEW b \in Blocks
  PROVE  Collected(b) \in Seq(Val) /\ Len(Collected(b)) = scount[b] /\ scount[b] \in Nat
<1>1. scount[b] \in Nat /\ shits[b] \in Seq(Hits) BY DeviceRingAssumption DEF BaseInv, TypeOK
<1>2. \A i \in 1..scount[b] : i <= LocalCap => shits[b][i] \in Hits
  BY <1>1, DeviceRingAssumption DEF BaseInv, LocalExact
<1>3. \A i \in 1..scount[b] : (IF i <= LocalCap THEN shits[b][i] ELSE Garbage) \in Val
  BY <1>2 DEF Val
<1>4. Collected(b) \in [1..scount[b] -> Val] BY <1>3 DEF Collected
<1> QED BY <1>1, <1>4

(* Its stores: two for each. *)
LEMMA StoresOfType ==
  ASSUME BaseInv, NEW b \in Blocks
  PROVE  StoresOf(b) \in Seq(StoreT) /\ Len(StoresOf(b)) = 2 * scount[b]
<1>1. scount[b] \in Nat /\ Collected(b) \in Seq(Val) /\ Len(Collected(b)) = scount[b] BY CollectedType
<1>2. wr \in Nat BY DeviceRingAssumption DEF BaseInv, TypeOK
<1>3. ASSUME NEW k \in 1..(2 * scount[b])
      PROVE  Stores((wr + ((k - 1) \div 2)) % Modulus, Collected(b)[((k - 1) \div 2) + 1])[((k - 1) % 2) + 1] \in StoreT
  <2> DEFINE i == (k - 1) \div 2
             x == (wr + i) % Modulus
  <2>1. i \in 0..(scount[b] - 1) /\ ((k - 1) % 2) + 1 \in 1..2 BY <1>1
  <2>2. x \in Nat BY <1>2, <2>1, Constants
  <2>3. Collected(b)[i + 1] \in Val BY <1>1, <2>1
  <2> HIDE DEF i, x
  <2>4. Stores(x, Collected(b)[i + 1]) \in Seq(StoreT) /\ Len(Stores(x, Collected(b)[i + 1])) = 2
    BY <2>2, <2>3, StoresType
  <2>5. Stores(x, Collected(b)[i + 1])[((k - 1) % 2) + 1] \in StoreT BY <2>1, <2>4
  <2> QED BY <2>5 DEF i, x
<1>4. StoresOf(b) \in [1..(2 * scount[b]) -> StoreT] BY <1>3 DEF StoresOf
<1> QED BY <1>1, <1>4

(* Types hold initially. *)
LEMMA BaseInit == Init => BaseInv
<1> SUFFICES ASSUME Init PROVE BaseInv OBVIOUS
<1>1. 0 \in 0..(Modulus - 1) /\ 0 \in Hits /\ 0 \in 0..MaxHits /\ 0 \in 0..Launches
  BY DeviceRingAssumption DEF Hits
<1>a. /\ \A b \in Blocks : todo[b] = <<>> /\ <<>> \in Seq(StoreT) /\ shits[b] = <<>> /\ scount[b] = 0
      /\ Len(<<>>) = 0
  BY DEF Init
<1>b. buf \in [Slots -> [Fields -> Hits \cup {Garbage}]] BY DEF Init
<1>c. todo \in [Blocks -> Seq(StoreT)] /\ shits \in [Blocks -> Seq(Hits)] /\ scount \in [Blocks -> 0..MaxHits]
  BY <1>1, <1>a DEF Init
<1>d. queue \in Seq(Val) BY DEF Init
<1>e. bpc \in [Blocks -> {"mine", "flush", "done"}] /\ overrun \in BOOLEAN BY DEF Init
<1>f. hpc = "idle" /\ kernel = "batch" /\ wr = 0 /\ rd = 0 /\ launches = 0 /\ next = 0 BY DEF Init
<1>2. TypeOK BY <1>1, <1>b, <1>c, <1>d, <1>e, <1>f DEF TypeOK, StoreT, Val
<1>3. LocalExact
  <2>1. 0 <= LocalCap BY DeviceRingAssumption
  <2> QED BY <1>a, <2>1 DEF LocalExact
<1>4. DoneStored BY DEF Init, DoneStored
<1> QED BY <1>2, <1>3, <1>4 DEF BaseInv

(* Every step keeps the types. *)
LEMMA BaseStep == BaseInv /\ [Next]_vars => BaseInv'
<1> SUFFICES ASSUME BaseInv, [Next]_vars PROVE BaseInv' OBVIOUS
<1> USE DEF BaseInv
<1>0. /\ wr \in Nat /\ next \in Hits /\ next \in Nat /\ (next + 1) % Ids \in Hits /\ next \in Val
      /\ queue \in Seq(Val) /\ rd \in Nat
  <2>1. next \in Hits /\ next \in Nat BY DeviceRingAssumption DEF TypeOK, Hits
  <2>2. (next + 1) % Ids \in Hits BY <2>1, Constants
  <2>3. wr \in Nat /\ rd \in Nat BY DeviceRingAssumption DEF TypeOK
  <2> QED BY <2>1, <2>2, <2>3 DEF TypeOK, Val
<1>1. ASSUME NEW k \in {"batch", "stub"}, Launch(k) PROVE BaseInv'
  <2>1. TypeOK' BY <1>1, DeviceRingAssumption DEF Launch, TypeOK
  <2>2. LocalExact' BY <1>1, DeviceRingAssumption DEF Launch, LocalExact
  <2>3. DoneStored' BY <1>1 DEF Launch, DoneStored
  <2> QED BY <2>1, <2>2, <2>3
<1>2. CASE Synchronize
  BY <1>2 DEF Synchronize, TypeOK, LocalExact, DoneStored
<1>3. CASE drainDeviceHits
  <2> DEFINE n == IF Available > MaxOut THEN MaxOut ELSE Available
  <2>1. n \in Nat BY <1>0, DeviceRingAssumption DEF Available, TypeOK
  <2>2. rd' = (rd + n) % Modulus /\ queue' = SubSeq(queue, n + 1, Len(queue)) BY <1>3 DEF drainDeviceHits
  <2> HIDE DEF n
  <2>3. rd' \in 0..(Modulus - 1) BY <1>0, <2>1, <2>2, Constants
  <2>4. queue' \in Seq(Val) BY <1>0, <2>1, <2>2
  <2>5. TypeOK' BY <1>3, <2>3, <2>4 DEF drainDeviceHits, TypeOK, Val
  <2>6. LocalExact' BY <1>3 DEF drainDeviceHits, LocalExact
  <2>7. DoneStored' BY <1>3 DEF drainDeviceHits, DoneStored
  <2> QED BY <2>5, <2>6, <2>7
<1>4. ASSUME NEW b \in Blocks, HitLocal(b) PROVE BaseInv'
  <2>1. Append(shits[b], next) \in Seq(Hits) /\ Len(Append(shits[b], next)) = Len(shits[b]) + 1
    BY <1>0 DEF TypeOK
  <2>2. scount[b] + 1 \in 0..MaxHits BY <1>4, DeviceRingAssumption DEF HitLocal, TypeOK
  <2>3. TypeOK' BY <1>0, <1>4, <2>1, <2>2 DEF HitLocal, TypeOK
  <2>4. LocalExact' BY <1>4, <2>1, <2>2, DeviceRingAssumption DEF HitLocal, TypeOK, LocalExact
  <2>5. DoneStored' BY <1>4 DEF HitLocal, DoneStored
  <2> QED BY <2>3, <2>4, <2>5
<1>r. ASSUME NEW b \in Blocks, NEW hs \in Seq(Val), NEW ss \in Seq(StoreT), Reserve(hs),
             todo' = [todo EXCEPT ![b] = @ \o ss], bpc[b] = "mine",
             UNCHANGED <<buf, rd, hpc, shits, launches, kernel>>,
             bpc' = bpc \/ bpc' = [bpc EXCEPT ![b] = "flush"],
             next' \in Hits, scount' \in [Blocks -> 0..MaxHits]
      PROVE TypeOK' /\ DoneStored'
  <2>1. wr' \in 0..(Modulus - 1)
    <3>1. Len(hs) \in Nat BY <1>r
    <3>2. wr + Len(hs) \in Nat BY <1>0, <3>1
    <3> QED BY <3>2, <1>r, Constants DEF Reserve
  <2>2. queue' \in Seq(Val) BY <1>0, <1>r DEF Reserve
  <2>3. overrun' \in BOOLEAN BY <1>r DEF Reserve, TypeOK
  <2>4. todo' \in [Blocks -> Seq(StoreT)]
    <3>1. todo[b] \o ss \in Seq(StoreT) BY <1>r DEF TypeOK, StoreT, Val
    <3> QED BY <3>1, <1>r DEF TypeOK, StoreT, Val
  <2>5. bpc' \in [Blocks -> {"mine", "flush", "done"}] BY <1>r DEF TypeOK
  <2>6. TypeOK' BY <1>r, <2>1, <2>2, <2>3, <2>4, <2>5 DEF TypeOK, StoreT, Val
  <2>7. DoneStored' BY <1>r DEF DoneStored, TypeOK
  <2> QED BY <2>6, <2>7
<1>5. ASSUME NEW b \in Blocks, HitGlobal(b) PROVE BaseInv'
  <2>1. <<next>> \in Seq(Val) /\ Stores(wr, next) \in Seq(StoreT) BY <1>0, StoresType
  <2>2. scount' \in [Blocks -> 0..MaxHits] BY <1>5, DeviceRingAssumption DEF HitGlobal, TypeOK
  <2>3. TypeOK' /\ DoneStored' BY <1>0, <1>5, <1>r, <2>1, <2>2 DEF HitGlobal
  <2>4. LocalExact' BY <1>5, DeviceRingAssumption DEF HitGlobal, LocalExact, TypeOK
  <2> QED BY <2>3, <2>4
<1>6. ASSUME NEW b \in Blocks, HitStub(b) PROVE BaseInv'
  <2>1. <<next>> \in Seq(Val) /\ Stores(wr, next) \in Seq(StoreT) BY <1>0, StoresType
  <2>2. TypeOK' /\ DoneStored' BY <1>0, <1>6, <1>r, <2>1 DEF HitStub, TypeOK
  <2>3. LocalExact' BY <1>6 DEF HitStub, LocalExact
  <2> QED BY <2>2, <2>3
<1>7. ASSUME NEW b \in Blocks, Flush(b) PROVE BaseInv'
  <2>1. Collected(b) \in Seq(Val) /\ StoresOf(b) \in Seq(StoreT) BY CollectedType, StoresOfType
  <2>2. TypeOK' /\ DoneStored' BY <1>0, <1>7, <1>r, <2>1 DEF Flush, TypeOK
  <2>3. LocalExact' BY <1>7 DEF Flush, LocalExact
  <2> QED BY <2>2, <2>3
<1>8. ASSUME NEW b \in Blocks, Store(b) PROVE BaseInv'
  <2> DEFINE t == Head(todo[b])
  <2>1. todo[b] \in Seq(StoreT) /\ todo[b] # <<>> BY <1>8 DEF Store, TypeOK, StoreT, Val
  <2>2. t \in StoreT /\ Tail(todo[b]) \in Seq(StoreT) BY <2>1
  <2>3. t[1] \in Slots /\ t[2] \in Fields /\ t[3] \in Val BY <2>2 DEF StoreT
  <2>4. buf' = [buf EXCEPT ![t[1]][t[2]] = t[3]] /\ todo' = [todo EXCEPT ![b] = Tail(todo[b])]
    BY <1>8 DEF Store
  <2> HIDE DEF t
  <2>5. buf' \in [Slots -> [Fields -> Val]] BY <2>3, <2>4 DEF TypeOK, Val
  <2>6. todo' \in [Blocks -> Seq(StoreT)] BY <2>2, <2>4 DEF TypeOK, StoreT, Val
  <2>7. TypeOK' BY <1>8, <2>5, <2>6 DEF Store, TypeOK, StoreT, Val
  <2>8. LocalExact' BY <1>8 DEF Store, LocalExact
  <2>9. DoneStored' BY <1>8, <2>1, <2>4 DEF Store, DoneStored, TypeOK
  <2> QED BY <2>7, <2>8, <2>9
<1>9. ASSUME NEW b \in Blocks, BlockDone(b) PROVE BaseInv'
  <2>1. TypeOK' BY <1>9 DEF BlockDone, TypeOK
  <2>2. LocalExact' BY <1>9 DEF BlockDone, LocalExact
  <2>3. DoneStored' BY <1>9 DEF BlockDone, DoneStored, TypeOK
  <2> QED BY <2>1, <2>2, <2>3
<1>10. CASE UNCHANGED vars BY <1>10 DEF vars, TypeOK, LocalExact, DoneStored
<1> QED
  BY <1>1, <1>2, <1>3, <1>4, <1>5, <1>6, <1>7, <1>8, <1>9, <1>10 DEF Next, Finished

(* BaseInv holds always. *)
LEMMA BaseAlways == Spec => []BaseInv
  BY BaseInit, BaseStep, PTL DEF Spec

(* The host, the ring and the blocks keep their types. *)
THEOREM DeviceRingTypes == Spec => []TypeOK
  BY BaseAlways, PTL DEF BaseInv

-----------------------------------------------------------------------------
(* The indices count the backlog, which fits the ring. *)
Backlog == ~overrun => Available = Len(queue) /\ Len(queue) <= Cap

(* The types that the arithmetic below needs. *)
LEMMA RingTypes ==
  ASSUME BaseInv
  PROVE  /\ wr \in 0..(Modulus - 1) /\ rd \in 0..(Modulus - 1) /\ wr \in Nat /\ rd \in Nat
         /\ queue \in Seq(Val) /\ Len(queue) \in Nat /\ Available \in Nat /\ overrun \in BOOLEAN
<1>1. wr \in 0..(Modulus - 1) /\ rd \in 0..(Modulus - 1) /\ queue \in Seq(Val) /\ overrun \in BOOLEAN
  BY DEF BaseInv, TypeOK, Val
<1> QED BY <1>1, DeviceRingAssumption DEF Available

(* The write index is the drain offset and the backlog. *)
LEMMA WriteIndex ==
  ASSUME BaseInv, Backlog, ~overrun
  PROVE  wr = (rd + Len(queue)) % Modulus
<1>1. Available = Len(queue) /\ Len(queue) <= Cap BY DEF Backlog
<1> DEFINE x == rd + Len(queue)
<1>2. x \in 0..(2 * Modulus - 1) BY <1>1, RingTypes, DeviceRingAssumption
<1>3. wr = IF x < Modulus THEN x ELSE x - Modulus
  BY <1>1, RingTypes, DeviceRingAssumption DEF Available
<1>4. x % Modulus = IF x < Modulus THEN x ELSE x - Modulus
  <2> HIDE DEF x
  <2> QED BY <1>2, WrapOnce, DeviceRingAssumption
<1> QED BY <1>3, <1>4

(* A reservation adds to the backlog what it asks for. *)
LEMMA BacklogReserve ==
  ASSUME BaseInv, Backlog, NEW hs \in Seq(Val), Reserve(hs), rd' = rd
  PROVE  Backlog'
<1> SUFFICES ASSUME ~overrun' PROVE Available' = Len(queue') /\ Len(queue') <= Cap BY DEF Backlog
<1> DEFINE n == Len(hs)
<1>1. n \in Nat OBVIOUS
<1>2. ~overrun /\ Available + n <= Cap
  <2>1. ~overrun /\ ~(Available + n > Cap) BY DEF Reserve
  <2>2. Available \in Nat BY RingTypes
  <2> QED BY <1>1, <2>1, <2>2, DeviceRingAssumption
<1>3. Available = Len(queue) BY <1>2 DEF Backlog
<1>4. Len(queue') = Len(queue) + n BY RingTypes, ConcatFacts DEF Reserve
<1>5. wr' = (wr + n) % Modulus BY DEF Reserve
<1> HIDE DEF n
<1>6. wr' = IF wr + n < Modulus THEN wr + n ELSE (wr + n) - Modulus
  <2> DEFINE x == wr + n
  <2>1. x \in 0..(2 * Modulus - 1) BY <1>1, <1>2, RingTypes, DeviceRingAssumption
  <2>2. x % Modulus = IF x < Modulus THEN x ELSE x - Modulus
    <3> HIDE DEF x
    <3> QED BY <2>1, WrapOnce, DeviceRingAssumption
  <2>3. wr' = x % Modulus BY <1>5
  <2> HIDE DEF x
  <2>4. wr' = IF x < Modulus THEN x ELSE x - Modulus BY <2>2, <2>3
  <2> QED BY <2>4 DEF x
<1>7. Available + n \in Nat /\ Available + n < Modulus /\ wr \in Nat /\ rd \in Nat /\ wr < Modulus /\ rd < Modulus
  BY <1>1, <1>2, RingTypes, DeviceRingAssumption
<1>8. Available' = Available + n
  BY <1>1, <1>6, <1>7, DeviceRingAssumption DEF Available
<1> QED BY <1>1, <1>2, <1>3, <1>4, <1>8, RingTypes, DeviceRingAssumption

(* What a drain takes. *)
Drained == IF Available > MaxOut THEN MaxOut ELSE Available

(* It is some of the backlog, from the front. *)
LEMMA DrainedFacts ==
  ASSUME BaseInv, Backlog, ~overrun, drainDeviceHits
  PROVE  /\ Drained \in Nat /\ Drained <= Len(queue) /\ Drained <= Cap
         /\ rd' = (rd + Drained) % Modulus
         /\ Len(queue') = Len(queue) - Drained
         /\ \A k \in 1..Len(queue') : queue'[k] = queue[k + Drained]
<1>1. Available = Len(queue) /\ Len(queue) <= Cap BY DEF Backlog
<1>2. Drained \in Nat /\ Drained <= Len(queue) BY <1>1, RingTypes, DeviceRingAssumption DEF Drained
<1>3. rd' = (rd + Drained) % Modulus /\ queue' = SubSeq(queue, Drained + 1, Len(queue))
  BY DEF drainDeviceHits, Drained
<1>4. Len(queue') = Len(queue) - Drained /\ \A k \in 1..Len(queue') : queue'[k] = queue[k + Drained]
  BY <1>2, <1>3, RingTypes
<1> QED BY <1>1, <1>2, <1>3, <1>4, RingTypes, DeviceRingAssumption

(* Every step keeps the count. *)
LEMMA BacklogStep == BaseInv /\ Backlog /\ [Next]_vars => Backlog'
<1> SUFFICES ASSUME BaseInv, Backlog, [Next]_vars PROVE Backlog' OBVIOUS
<1>0. ASSUME UNCHANGED <<wr, rd, queue, overrun>> PROVE Backlog' BY <1>0 DEF Backlog, Available
<1>1. CASE drainDeviceHits
  <2> SUFFICES ASSUME ~overrun' PROVE Available' = Len(queue') /\ Len(queue') <= Cap BY DEF Backlog
  <2>1. ~overrun /\ wr' = wr BY <1>1 DEF drainDeviceHits
  <2>2. Available = Len(queue) /\ Len(queue) <= Cap BY <2>1 DEF Backlog
  <2>3. /\ Drained \in Nat /\ Drained <= Len(queue) /\ rd' = (rd + Drained) % Modulus
        /\ Len(queue') = Len(queue) - Drained
    BY <1>1, <2>1, DrainedFacts
  <2> DEFINE x == rd + Drained
  <2>4. x \in 0..(2 * Modulus - 1) BY <2>2, <2>3, RingTypes, DeviceRingAssumption
  <2>5. x % Modulus = IF x < Modulus THEN x ELSE x - Modulus
    <3> HIDE DEF x
    <3> QED BY <2>4, WrapOnce, DeviceRingAssumption
  <2>6. rd' = IF rd + Drained < Modulus THEN rd + Drained ELSE (rd + Drained) - Modulus
    <3>1. rd' = x % Modulus BY <2>3
    <3> HIDE DEF x
    <3>2. rd' = IF x < Modulus THEN x ELSE x - Modulus BY <2>5, <3>1
    <3> QED BY <3>2 DEF x
  <2> HIDE DEF x
  <2>7. Drained <= Available /\ wr \in Nat /\ rd \in Nat /\ wr < Modulus /\ rd < Modulus
    BY <2>2, <2>3, RingTypes, DeviceRingAssumption
  <2>8. Available' = Available - Drained
    BY <2>1, <2>3, <2>6, <2>7, DeviceRingAssumption DEF Available
  <2> QED BY <2>2, <2>3, <2>8, RingTypes, DeviceRingAssumption
<1>2. ASSUME NEW b \in Blocks, HitGlobal(b) \/ HitStub(b) \/ Flush(b) PROVE Backlog'
  <2>1. rd' = rd /\ (Reserve(<<next>>) \/ Reserve(Collected(b)))
    BY <1>2 DEF HitGlobal, HitStub, Flush
  <2>2. <<next>> \in Seq(Val) BY DEF BaseInv, TypeOK, Val
  <2>3. Collected(b) \in Seq(Val) BY CollectedType
  <2>4. CASE Reserve(<<next>>) BY <2>1, <2>2, <2>4, BacklogReserve
  <2>5. CASE Reserve(Collected(b)) BY <2>1, <2>3, <2>5, BacklogReserve
  <2> QED BY <2>1, <2>4, <2>5
<1>3. ASSUME NEW k \in {"batch", "stub"}, Launch(k) PROVE Backlog' BY <1>0, <1>3 DEF Launch
<1>4. CASE Synchronize BY <1>0, <1>4 DEF Synchronize
<1>5. ASSUME NEW b \in Blocks, HitLocal(b) \/ Store(b) \/ BlockDone(b) PROVE Backlog'
  BY <1>0, <1>5 DEF HitLocal, Store, BlockDone
<1>6. CASE UNCHANGED vars BY <1>0, <1>6 DEF vars
<1> QED BY <1>1, <1>2, <1>3, <1>4, <1>5, <1>6 DEF Next, Finished

(* Backlog holds always. *)
LEMMA BacklogAlways == Spec => []Backlog
<1>1. Init => Backlog BY DeviceRingAssumption DEF Init, Backlog, Available
<1> QED BY <1>1, BaseAlways, BacklogStep, PTL DEF Spec

(* Across the wrap of both indices, what the host believes is available is  *)
(* what blocks reserved and it has not drained, unless the ring was overrun.*)
THEOREM DeviceRingBacklog == Spec => []BacklogExact
<1>1. Backlog => BacklogExact BY DEF Backlog, BacklogExact
<1> QED BY <1>1, BacklogAlways, PTL

-----------------------------------------------------------------------------
(* The slot of the k-th undrained place. *)
SlotOf(k) == ((rd + k - 1) % Modulus) % Cap

(* A store still to perform puts the value of some place into its slot. *)
Pending ==
  \A b \in Blocks : \A j \in 1..Len(todo[b]) : \E k \in 1..Len(queue) :
    todo[b][j][1] = SlotOf(k) /\ todo[b][j][3] = queue[k]

(* A field of a place holds its value, or a store of it is still to come. *)
Filled ==
  \A k \in 1..Len(queue) : \A f \in Fields :
    \/ buf[SlotOf(k)][f] = queue[k]
    \/ \E b \in Blocks : \E j \in 1..Len(todo[b]) : todo[b][j] = <<SlotOf(k), f, queue[k]>>

(* The contents of the ring. *)
RingInv == ~overrun => Pending /\ Filled

(* The slot of a place, without the wrap. *)
LEMMA SlotFact ==
  ASSUME CapDividesModulus, BaseInv, NEW k \in Nat \ {0}
  PROVE  SlotOf(k) = (rd + (k - 1)) % Cap /\ rd + (k - 1) \in Nat /\ SlotOf(k) \in Slots
<1> DEFINE x == rd + (k - 1)
<1>1. x \in Nat BY RingTypes
<1>2. SlotOf(k) = (x % Modulus) % Cap BY DEF SlotOf
<1> HIDE DEF x
<1>3. SlotOf(k) = x % Cap BY <1>1, <1>2, WrapKeepsSlot
<1>4. x % Cap \in Slots BY <1>1, Constants
<1> QED BY <1>1, <1>3, <1>4 DEF x

(* Undrained places lie in different slots. *)
LEMMA PlacesDiffer ==
  ASSUME CapDividesModulus, BaseInv, Backlog, ~overrun,
         NEW k \in 1..Len(queue), NEW l \in 1..Len(queue), SlotOf(k) = SlotOf(l)
  PROVE  k = l
<1> DEFINE x == rd + (k - 1)
           y == rd + (l - 1)
<1>0. Len(queue) \in Nat /\ Len(queue) <= Cap /\ rd \in Nat BY RingTypes DEF Backlog
<1>1. k \in Nat \ {0} /\ l \in Nat \ {0} BY <1>0
<1>2. x \in Nat /\ y \in Nat /\ x % Cap = y % Cap BY <1>1, SlotFact
<1>3. x - y < Cap /\ y - x < Cap BY <1>0, DeviceRingAssumption
<1>4. x = y
  <2> HIDE DEF x, y
  <2>1. CASE x <= y BY <2>1, <1>2, <1>3, SlotsDiffer
  <2>2. CASE y <= x BY <2>2, <1>2, <1>3, SlotsDiffer
  <2> QED BY <1>2, <2>1, <2>2
<1> QED BY <1>0, <1>1, <1>4

(* The i-th place that a reservation adds. *)
LEMMA NewSlot ==
  ASSUME CapDividesModulus, BaseInv, Backlog, ~overrun, NEW i \in Nat
  PROVE  /\ SlotOf(Len(queue) + i + 1) = (wr + i) % Cap
         /\ SlotOf(Len(queue) + i + 1) = ((wr + i) % Modulus) % Cap
<1> DEFINE L == Len(queue)
           x == rd + L
           k == L + i + 1
<1>0. L \in Nat /\ rd \in Nat /\ x \in Nat /\ wr \in Nat /\ k \in Nat \ {0} /\ k - 1 = L + i BY RingTypes
<1>1. wr = x % Modulus BY WriteIndex
<1>2. SlotOf(k) = (rd + (k - 1)) % Cap BY <1>0, SlotFact
<1>3. rd + (k - 1) = x + i BY <1>0
<1> HIDE DEF x, L, k
<1>4. SlotOf(k) = (x + i) % Cap BY <1>2, <1>3
<1> DEFINE q == x \div Modulus
<1>5. q \in Nat /\ x = Modulus * q + wr BY <1>0, <1>1, DivMod, DeviceRingAssumption
<1> HIDE DEF q
<1>7. (x + i) % Cap = (wr + i) % Cap
  <2> DEFINE y == x + i
             z == wr + i
  <2>1. y \in Nat /\ z \in Nat BY <1>0
  <2>2. y = Modulus * q + z
    <3>1. Modulus * q \in Nat BY <1>5, DeviceRingAssumption, SMT
    <3> QED BY <1>0, <1>5, <3>1
  <2> HIDE DEF y, z
  <2>3. y % Cap = z % Cap BY <1>5, <2>1, <2>2, SameSlot
  <2> QED BY <2>3 DEF y, z
<1>8. ((wr + i) % Modulus) % Cap = (wr + i) % Cap
  <2> DEFINE z == wr + i
  <2>1. z \in Nat BY <1>0
  <2> HIDE DEF z
  <2>2. (z % Modulus) % Cap = z % Cap BY <2>1, WrapKeepsSlot
  <2> QED BY <2>2 DEF z
<1>9. SlotOf(k) = (wr + i) % Cap /\ SlotOf(k) = ((wr + i) % Modulus) % Cap BY <1>4, <1>7, <1>8
<1> QED BY <1>9 DEF k, L

(* The stores ss are those of the hits hs in the places after the last. *)
Matches(ss, hs) ==
  /\ \A j \in 1..Len(ss) : \E i \in 1..Len(hs) : ss[j][1] = SlotOf(Len(queue) + i) /\ ss[j][3] = hs[i]
  /\ \A i \in 1..Len(hs) : \A f \in Fields : \E j \in 1..Len(ss) : ss[j] = <<SlotOf(Len(queue) + i), f, hs[i]>>

(* A hit written straight to the ring. *)
LEMMA MatchesOne ==
  ASSUME CapDividesModulus, BaseInv, Backlog, ~overrun
  PROVE  Matches(Stores(wr, next), <<next>>)
<1> DEFINE x == SlotOf(Len(queue) + 1)
<1>1. x = wr % Cap
  <2>1. SlotOf(Len(queue) + 0 + 1) = (wr + 0) % Cap BY NewSlot
  <2>2. wr + 0 = wr /\ Len(queue) + 0 + 1 = Len(queue) + 1 BY RingTypes
  <2> QED BY <2>1, <2>2
<1>2. Stores(wr, next) = <<<<x, "work_id", next>>, <<x, "nonce", next>>>> BY <1>1 DEF Stores
<1> HIDE DEF x
<1>3. \A j \in 1..2 : <<<<x, "work_id", next>>, <<x, "nonce", next>>>>[j][1] = x /\
                      <<<<x, "work_id", next>>, <<x, "nonce", next>>>>[j][3] = next
  OBVIOUS
<1>4. \A f \in Fields : \E j \in 1..2 : <<<<x, "work_id", next>>, <<x, "nonce", next>>>>[j] = <<x, f, next>>
  BY DEF Fields
<1>5. Len(Stores(wr, next)) = 2 /\ Len(<<next>>) = 1 /\ <<next>>[1] = next BY <1>2
<1>6. \A i \in 1..Len(<<next>>) : i = 1 BY <1>5
<1> QED BY <1>2, <1>3, <1>4, <1>5, <1>6 DEF Matches, x

(* The two stores that a flush makes of its i-th entry. *)
LEMMA StoresOfAt ==
  ASSUME CapDividesModulus, BaseInv, Backlog, ~overrun, NEW b \in Blocks, NEW i \in 1..scount[b]
  PROVE  /\ 2 * i - 1 \in 1..(2 * scount[b]) /\ 2 * i \in 1..(2 * scount[b])
         /\ StoresOf(b)[2 * i - 1] = <<SlotOf(Len(queue) + i), "work_id", Collected(b)[i]>>
         /\ StoresOf(b)[2 * i] = <<SlotOf(Len(queue) + i), "nonce", Collected(b)[i]>>
<1> DEFINE x == (wr + (i - 1)) % Modulus
           c == Collected(b)[i]
<1>0. scount[b] \in Nat /\ i \in Nat \ {0} BY CollectedType
<1>1. SlotOf(Len(queue) + i) = x % Cap
  <2>1. i - 1 \in Nat /\ Len(queue) + (i - 1) + 1 = Len(queue) + i BY <1>0, RingTypes
  <2> QED BY <2>1, NewSlot
<1>2. 2 * i - 1 \in 1..(2 * scount[b]) /\ 2 * i \in 1..(2 * scount[b]) BY <1>0
<1>3. /\ ((2 * i - 1) - 1) \div 2 = i - 1 /\ (((2 * i - 1) - 1) % 2) + 1 = 1
      /\ (2 * i - 1) \div 2 = i - 1 /\ ((2 * i - 1) % 2) + 1 = 2
      /\ (i - 1) + 1 = i
  BY <1>0
<1>4. StoresOf(b)[2 * i - 1] = Stores(x, c)[1] BY <1>2, <1>3 DEF StoresOf
<1>5. StoresOf(b)[2 * i] = Stores(x, c)[2] BY <1>2, <1>3 DEF StoresOf
<1> HIDE DEF x, c
<1>6. Stores(x, c)[1] = <<x % Cap, "work_id", c>> /\ Stores(x, c)[2] = <<x % Cap, "nonce", c>> BY DEF Stores
<1> QED BY <1>1, <1>2, <1>4, <1>5, <1>6 DEF c

(* A flush. *)
LEMMA MatchesAll ==
  ASSUME CapDividesModulus, BaseInv, Backlog, ~overrun, NEW b \in Blocks
  PROVE  Matches(StoresOf(b), Collected(b))
<1>0. /\ scount[b] \in Nat /\ Len(Collected(b)) = scount[b] /\ Len(StoresOf(b)) = 2 * scount[b]
  BY CollectedType, StoresOfType
<1>1. ASSUME NEW j \in 1..Len(StoresOf(b))
      PROVE  \E i \in 1..Len(Collected(b)) :
               StoresOf(b)[j][1] = SlotOf(Len(queue) + i) /\ StoresOf(b)[j][3] = Collected(b)[i]
  <2> DEFINE i == ((j - 1) \div 2) + 1
  <2>1. j \in 1..(2 * scount[b]) BY <1>0
  <2>2. i \in 1..scount[b] /\ (j = 2 * i - 1 \/ j = 2 * i) BY <1>0, <2>1
  <2> HIDE DEF i
  <2>3. StoresOf(b)[j] = <<SlotOf(Len(queue) + i), "work_id", Collected(b)[i]>>
        \/ StoresOf(b)[j] = <<SlotOf(Len(queue) + i), "nonce", Collected(b)[i]>>
    BY <2>2, StoresOfAt
  <2>4. StoresOf(b)[j][1] = SlotOf(Len(queue) + i) /\ StoresOf(b)[j][3] = Collected(b)[i] BY <2>3
  <2> QED BY <1>0, <2>2, <2>4
<1>2. ASSUME NEW i \in 1..Len(Collected(b)), NEW f \in Fields
      PROVE  \E j \in 1..Len(StoresOf(b)) : StoresOf(b)[j] = <<SlotOf(Len(queue) + i), f, Collected(b)[i]>>
  <2>1. i \in 1..scount[b] BY <1>0
  <2>2. CASE f = "work_id"
    <3>1. 2 * i - 1 \in 1..Len(StoresOf(b)) BY <1>0, <2>1, StoresOfAt
    <3>2. StoresOf(b)[2 * i - 1] = <<SlotOf(Len(queue) + i), f, Collected(b)[i]>> BY <2>1, <2>2, StoresOfAt
    <3> QED BY <3>1, <3>2
  <2>3. CASE f = "nonce"
    <3>1. 2 * i \in 1..Len(StoresOf(b)) BY <1>0, <2>1, StoresOfAt
    <3>2. StoresOf(b)[2 * i] = <<SlotOf(Len(queue) + i), f, Collected(b)[i]>> BY <2>1, <2>3, StoresOfAt
    <3> QED BY <3>1, <3>2
  <2> QED BY <2>2, <2>3 DEF Fields
<1> QED BY <1>1, <1>2 DEF Matches

(* A reservation with the stores of its hits. *)
LEMMA RingReserve ==
  ASSUME BaseInv, RingInv, NEW b \in Blocks, NEW hs \in Seq(Val), NEW ss \in Seq(StoreT),
         Reserve(hs), todo' = [todo EXCEPT ![b] = @ \o ss], rd' = rd, buf' = buf,
         ~overrun => Matches(ss, hs)
  PROVE  RingInv'
<1> SUFFICES ASSUME ~overrun' PROVE Pending' /\ Filled' BY DEF RingInv
<1>1. ~overrun BY DEF Reserve
<1>2. Pending /\ Filled /\ Matches(ss, hs) BY <1>1 DEF RingInv
<1> DEFINE L == Len(queue)
<1>3. /\ L \in Nat /\ Len(hs) \in Nat /\ Len(queue') = L + Len(hs)
      /\ \A k \in 1..L : queue'[k] = queue[k]
      /\ \A k \in 1..Len(hs) : queue'[L + k] = hs[k]
  BY RingTypes, ConcatFacts DEF Reserve
<1>l. L \in Nat /\ Len(hs) \in Nat /\ Len(queue') = L + Len(hs) /\ L = Len(queue) BY <1>3
<1> HIDE DEF L
<1>4. /\ todo[b] \in Seq(StoreT) /\ Len(todo[b]) \in Nat /\ Len(ss) \in Nat
      /\ Len(todo'[b]) = Len(todo[b]) + Len(ss)
      /\ \A j \in 1..Len(todo[b]) : todo'[b][j] = todo[b][j]
      /\ \A j \in 1..Len(ss) : todo'[b][Len(todo[b]) + j] = ss[j]
  <2>1. todo[b] \in Seq(StoreT) /\ todo'[b] = todo[b] \o ss BY DEF BaseInv, TypeOK, StoreT, Val
  <2> QED BY <2>1, ConcatFacts
<1>5. \A c \in Blocks \ {b} : todo'[c] = todo[c] BY DEF BaseInv, TypeOK
<1>6. \A k : SlotOf(k)' = SlotOf(k) BY DEF SlotOf
<1>7. Pending'
  <2> SUFFICES ASSUME NEW c \in Blocks, NEW j \in 1..Len(todo'[c])
               PROVE  \E k \in 1..Len(queue') : todo'[c][j][1] = SlotOf(k) /\ todo'[c][j][3] = queue'[k]
    BY <1>6, Zenon DEF Pending
  <2>1. ASSUME NEW t, \E k \in 1..L : t[1] = SlotOf(k) /\ t[3] = queue[k]
        PROVE  \E k \in 1..Len(queue') : t[1] = SlotOf(k) /\ t[3] = queue'[k]
    <3>1. PICK k \in 1..L : t[1] = SlotOf(k) /\ t[3] = queue[k] BY <2>1
    <3>2. k \in 1..Len(queue') BY <1>l
    <3>3. queue'[k] = queue[k] BY <1>3
    <3> QED BY <3>1, <3>2, <3>3
  <2>2. CASE c # b
    <3>1. todo'[c] = todo[c] BY <1>5, <2>2
    <3>2. \E k \in 1..L : todo[c][j][1] = SlotOf(k) /\ todo[c][j][3] = queue[k] BY <1>2, <1>l, <3>1 DEF Pending
    <3> QED BY <2>1, <3>1, <3>2
  <2>3. CASE c = b /\ j <= Len(todo[b])
    <3>1. j \in 1..Len(todo[b]) /\ todo'[b][j] = todo[b][j] BY <1>4, <2>3
    <3>2. \E k \in 1..L : todo[b][j][1] = SlotOf(k) /\ todo[b][j][3] = queue[k] BY <1>2, <1>l, <3>1 DEF Pending
    <3>3. \E k \in 1..L : todo'[c][j][1] = SlotOf(k) /\ todo'[c][j][3] = queue[k] BY <2>3, <3>1, <3>2
    <3> QED BY <2>1, <3>3
  <2>4. CASE c = b /\ j > Len(todo[b])
    <3> DEFINE m == j - Len(todo[b])
    <3>1. m \in 1..Len(ss) /\ j = Len(todo[b]) + m BY <1>4, <2>4
    <3> HIDE DEF m
    <3>2. todo'[b][j] = ss[m] BY <1>4, <3>1
    <3>3. PICK i \in 1..Len(hs) : ss[m][1] = SlotOf(L + i) /\ ss[m][3] = hs[i]
      BY <1>2, <1>l, <3>1 DEF Matches
    <3>4. L + i \in 1..Len(queue') BY <1>l
    <3>5. queue'[L + i] = hs[i] BY <1>3
    <3> QED BY <2>4, <3>2, <3>3, <3>4, <3>5
  <2> QED BY <1>4, <2>2, <2>3, <2>4
<1>8. Filled'
  <2> SUFFICES ASSUME NEW k \in 1..Len(queue'), NEW f \in Fields
               PROVE  \/ buf'[SlotOf(k)'][f] = queue'[k]
                      \/ \E c \in Blocks : \E j \in 1..Len(todo'[c]) : todo'[c][j] = <<SlotOf(k)', f, queue'[k]>>
    BY Zenon DEF Filled
  <2>0. SlotOf(k)' = SlotOf(k) BY <1>6
  <2> SUFFICES \/ buf'[SlotOf(k)][f] = queue'[k]
               \/ \E c \in Blocks : \E j \in 1..Len(todo'[c]) : todo'[c][j] = <<SlotOf(k), f, queue'[k]>>
    BY <2>0
  <2>1. CASE k <= L
    <3>0. k \in 1..L BY <1>l, <2>1
    <3>1. k \in 1..Len(queue) /\ queue'[k] = queue[k] BY <1>l, <1>3, <3>0
    <3>2. CASE buf[SlotOf(k)][f] = queue[k] BY <3>1, <3>2
    <3>3. CASE \E c \in Blocks : \E j \in 1..Len(todo[c]) : todo[c][j] = <<SlotOf(k), f, queue[k]>>
      <4>1. PICK c \in Blocks : \E j \in 1..Len(todo[c]) : todo[c][j] = <<SlotOf(k), f, queue[k]>> BY <3>3
      <4>2. PICK j \in 1..Len(todo[c]) : todo[c][j] = <<SlotOf(k), f, queue[k]>> BY <4>1
      <4>3. j \in 1..Len(todo'[c]) /\ todo'[c][j] = todo[c][j] BY <1>4, <1>5
      <4> QED BY <3>1, <4>2, <4>3
    <3> QED BY <1>2, <3>1, <3>2, <3>3 DEF Filled
  <2>2. CASE k > L
    <3> DEFINE i == k - L
    <3>1. i \in 1..Len(hs) /\ k = L + i BY <1>l, <2>2
    <3> HIDE DEF i
    <3>2. queue'[k] = hs[i] BY <1>3, <3>1
    <3>3. PICK j \in 1..Len(ss) : ss[j] = <<SlotOf(L + i), f, hs[i]>> BY <1>2, <1>l, <3>1 DEF Matches
    <3>4. Len(todo[b]) + j \in 1..Len(todo'[b]) /\ todo'[b][Len(todo[b]) + j] = ss[j] BY <1>4
    <3> QED BY <3>1, <3>2, <3>3, <3>4
  <2>3. k <= L \/ k > L
    <3>1. k \in Nat BY <1>l
    <3> QED BY <1>l, <3>1
  <2> QED BY <2>1, <2>2, <2>3
<1> QED BY <1>7, <1>8

(* A store: only its own place lies in its slot, so no other is disturbed. *)
LEMMA RingStore ==
  ASSUME CapDividesModulus, BaseInv, Backlog, RingInv, NEW b \in Blocks, Store(b)
  PROVE  RingInv'
<1> SUFFICES ASSUME ~overrun' PROVE Pending' /\ Filled' BY DEF RingInv
<1>1. ~overrun /\ queue' = queue /\ rd' = rd BY DEF Store
<1>2. Pending /\ Filled BY <1>1 DEF RingInv
<1> DEFINE t == Head(todo[b])
<1>3. todo[b] \in Seq(StoreT) /\ todo[b] # <<>> BY DEF Store, BaseInv, TypeOK, StoreT, Val
<1>4. /\ Len(todo[b]) \in Nat \ {0} /\ t = todo[b][1] /\ Len(Tail(todo[b])) = Len(todo[b]) - 1
      /\ \A j \in 1..Len(Tail(todo[b])) : Tail(todo[b])[j] = todo[b][j + 1]
  BY <1>3
<1>5. t \in StoreT BY <1>3
<1>6. t[1] \in Slots /\ t[2] \in Fields /\ t[3] \in Val BY <1>5 DEF StoreT
<1>7. buf' = [buf EXCEPT ![t[1]][t[2]] = t[3]] /\ todo' = [todo EXCEPT ![b] = Tail(todo[b])]
  BY DEF Store
<1>8. buf \in [Slots -> [Fields -> Val]] /\ todo \in [Blocks -> Seq(StoreT)]
  BY DEF BaseInv, TypeOK, StoreT, Val
<1> HIDE DEF t
<1>9. /\ todo'[b] = Tail(todo[b])
      /\ \A c \in Blocks \ {b} : todo'[c] = todo[c]
  BY <1>7, <1>8
<1>10. \A k : SlotOf(k)' = SlotOf(k) BY <1>1 DEF SlotOf
<1>11. PICK l \in 1..Len(queue) : t[1] = SlotOf(l) /\ t[3] = queue[l]
  <2>1. 1 \in 1..Len(todo[b]) BY <1>4
  <2> QED BY <1>2, <1>4, <2>1 DEF Pending
<1>12. Pending'
  <2> SUFFICES ASSUME NEW c \in Blocks, NEW j \in 1..Len(todo'[c])
               PROVE  \E k \in 1..Len(queue') : todo'[c][j][1] = SlotOf(k) /\ todo'[c][j][3] = queue'[k]
    BY <1>10, Zenon DEF Pending
  <2>1. CASE c # b BY <1>1, <1>2, <1>9, <2>1 DEF Pending
  <2>2. CASE c = b
    <3>1. j \in 1..Len(Tail(todo[b])) BY <1>9, <2>2
    <3>2. j + 1 \in 1..Len(todo[b]) BY <1>4, <3>1
    <3>3. todo'[c][j] = todo[b][j + 1] BY <1>4, <1>9, <2>2, <3>1
    <3>4. \E k \in 1..Len(queue) : todo[b][j + 1][1] = SlotOf(k) /\ todo[b][j + 1][3] = queue[k]
      BY <1>2, <3>2 DEF Pending
    <3> QED BY <1>1, <3>3, <3>4
  <2> QED BY <2>1, <2>2
<1>13. Filled'
  <2> SUFFICES ASSUME NEW k \in 1..Len(queue'), NEW f \in Fields
               PROVE  \/ buf'[SlotOf(k)'][f] = queue'[k]
                      \/ \E c \in Blocks : \E j \in 1..Len(todo'[c]) : todo'[c][j] = <<SlotOf(k)', f, queue'[k]>>
    BY Zenon DEF Filled
  <2>0. SlotOf(k)' = SlotOf(k) /\ k \in 1..Len(queue) /\ queue'[k] = queue[k] BY <1>1, <1>10
  <2>1. SlotOf(k) \in Slots
    <3>1. k \in Nat \ {0} BY <2>0, RingTypes
    <3> QED BY <3>1, SlotFact
  <2>2. CASE buf[SlotOf(k)][f] = queue[k]
    <3>1. CASE SlotOf(k) # t[1] \/ f # t[2]
      <4>1. buf'[SlotOf(k)][f] = buf[SlotOf(k)][f] BY <1>6, <1>7, <1>8, <2>1, <3>1
      <4> QED BY <2>0, <2>2, <4>1
    <3>2. CASE SlotOf(k) = t[1] /\ f = t[2]
      <4>1. k = l BY <1>1, <1>11, <2>0, <3>2, PlacesDiffer
      <4>2. buf'[SlotOf(k)][f] = t[3] BY <1>6, <1>7, <1>8, <2>1, <3>2
      <4> QED BY <1>11, <2>0, <4>1, <4>2
    <3> QED BY <3>1, <3>2
  <2>3. ASSUME NEW c \in Blocks, NEW j \in 1..Len(todo[c]), todo[c][j] = <<SlotOf(k), f, queue[k]>>
        PROVE  \/ buf'[SlotOf(k)][f] = queue[k]
               \/ \E cc \in Blocks : \E i \in 1..Len(todo'[cc]) : todo'[cc][i] = <<SlotOf(k), f, queue[k]>>
    <3>1. CASE c # b BY <1>9, <2>3, <3>1
    <3>2. CASE c = b /\ j = 1
      <4>1. t = <<SlotOf(k), f, queue[k]>> BY <1>4, <2>3, <3>2
      <4>2. t[1] = SlotOf(k) /\ t[2] = f /\ t[3] = queue[k] BY <4>1
      <4>3. buf'[SlotOf(k)][f] = queue[k] BY <1>7, <1>8, <2>1, <4>2
      <4> QED BY <4>3
    <3>3. CASE c = b /\ j # 1
      <4>1. j - 1 \in 1..Len(Tail(todo[b])) /\ (j - 1) + 1 = j BY <1>4, <3>3
      <4>2. todo'[b][j - 1] = <<SlotOf(k), f, queue[k]>> BY <1>4, <1>9, <2>3, <3>3, <4>1
      <4> QED BY <1>9, <4>1, <4>2
    <3> QED BY <3>1, <3>2, <3>3
  <2> QED BY <1>2, <2>0, <2>2, <2>3 DEF Filled
<1> QED BY <1>12, <1>13

(* Outside a launch nothing is left to store, so every place is filled. *)
LEMMA Settled ==
  ASSUME BaseInv, RingInv, ~overrun, hpc # "kernel"
  PROVE  \A k \in 1..Len(queue) : \A f \in Fields : buf[SlotOf(k)][f] = queue[k]
<1>1. \A b \in Blocks : todo[b] = <<>> BY DEF BaseInv, DoneStored
<1>2. \A b \in Blocks : ~ \E j \in 1..Len(todo[b]) : TRUE
  <2>0. Len(<<>>) = 0 OBVIOUS
  <2>1. \A b \in Blocks : Len(todo[b]) = 0 BY <1>1, <2>0, Zenon
  <2>2. 1..0 = {} OBVIOUS
  <2> QED BY <2>1, <2>2, Zenon
<1> QED BY <1>2 DEF RingInv, Filled

(* A drain moves the places along; none changes its slot. *)
LEMMA RingDrain ==
  ASSUME CapDividesModulus, BaseInv, BaseInv', Backlog, RingInv, drainDeviceHits
  PROVE  RingInv'
<1> SUFFICES ASSUME ~overrun' PROVE Pending' /\ Filled' BY DEF RingInv
<1>1. ~overrun /\ hpc = "drain" /\ buf' = buf /\ todo' = todo BY DEF drainDeviceHits
<1> DEFINE n == Drained
<1>2. /\ n \in Nat /\ n <= Len(queue) /\ rd' = (rd + n) % Modulus
      /\ Len(queue') = Len(queue) - n /\ \A k \in 1..Len(queue') : queue'[k] = queue[k + n]
  BY <1>1, DrainedFacts
<1>3. \A k \in 1..Len(queue) : \A f \in Fields : buf[SlotOf(k)][f] = queue[k] BY <1>1, Settled
<1>4. \A b \in Blocks : todo'[b] = <<>> BY <1>1 DEF BaseInv, DoneStored
<1>5. Pending'
  <2>1. \A b \in Blocks : ~ \E j \in 1..Len(todo'[b]) : TRUE BY <1>4
  <2> QED BY <2>1 DEF Pending
<1> HIDE DEF n
<1>6. ASSUME NEW k \in 1..Len(queue') PROVE SlotOf(k)' = SlotOf(k + n) /\ k + n \in 1..Len(queue)
  <2> DEFINE y == rd + n
             z == y + (k - 1)
  <2>0. /\ k \in Nat \ {0} /\ k + n \in Nat \ {0} /\ k + n \in 1..Len(queue) /\ rd \in Nat
        /\ rd + ((k + n) - 1) = z /\ y \in Nat /\ z \in Nat
    BY <1>2, RingTypes
  <2>1. SlotOf(k + n) = z % Cap BY <2>0, SlotFact
  <2>2. SlotOf(k)' = ((rd' + (k - 1)) % Modulus) % Cap BY DEF SlotOf
  <2>3. rd' \in Nat /\ rd' + (k - 1) \in Nat
    <3>1. rd' \in Nat BY DeviceRingAssumption DEF BaseInv, TypeOK
    <3>2. k \in Nat \ {0} BY <2>0
    <3>3. \A i \in Nat : \A j \in Nat \ {0} : i + (j - 1) \in Nat OBVIOUS
    <3> QED BY <3>1, <3>2, <3>3, Zenon
  <2>4. rd' = y % Modulus BY <1>2
  <2> DEFINE x == rd' + (k - 1)
             q == y \div Modulus
             d == Modulus \div Cap
  <2>5. SlotOf(k)' = x % Cap
    <3>1. x \in Nat /\ SlotOf(k)' = (x % Modulus) % Cap BY <2>2, <2>3
    <3> HIDE DEF x
    <3> QED BY <3>1, WrapKeepsSlot
  <2>6. q \in Nat /\ y = Modulus * q + rd' BY <2>0, <2>4, DivMod, DeviceRingAssumption
  <2>7. z = Modulus * q + x
    <3> HIDE DEF q, y
    <3>1. Modulus * q \in Nat BY <2>6, DeviceRingAssumption, SMT
    <3> QED BY <2>0, <2>3, <2>6, <3>1
  <2>8. z % Cap = x % Cap
    <3>1. x \in Nat /\ z \in Nat BY <2>0, <2>3
    <3> HIDE DEF x, z, q
    <3> QED BY <2>6, <2>7, <3>1, SameSlot
  <2> QED BY <2>0, <2>1, <2>5, <2>8
<1>7. Filled'
  <2> SUFFICES ASSUME NEW k \in 1..Len(queue'), NEW f \in Fields PROVE buf'[SlotOf(k)'][f] = queue'[k]
    BY Zenon DEF Filled
  <2> QED BY <1>1, <1>2, <1>3, <1>6
<1> QED BY <1>5, <1>7

(* The slot from which the drain copies its k-th record is that of the k-th *)
(* place, whether the copy wraps or not.                                    *)
LEMMA CopyExact ==
  ASSUME CapDividesModulus, BaseInv, Backlog, ~overrun, NEW n \in 0..Cap, NEW k \in 1..n
  PROVE  Copy(n)[k] = buf[SlotOf(k)]
<1> DEFINE start == rd % Cap
           first == IF n < Cap - start THEN n ELSE Cap - start
           Slot(i) == IF i <= first THEN start + i - 1 ELSE i - first - 1
<1>0. n \in Nat /\ n <= Cap /\ k \in Nat \ {0} /\ k <= n /\ rd \in Nat BY RingTypes, DeviceRingAssumption
<1>1. start \in 0..(Cap - 1) BY <1>0, DivMod, DeviceRingAssumption
<1>2. Copy(n)[k] = IF Slot(k) < Cap THEN buf[Slot(k)] ELSE [f \in Fields |-> Garbage]
  BY DEF Copy
<1>3. SlotOf(k) = (rd + (k - 1)) % Cap BY <1>0, SlotFact
<1>4. (rd + (k - 1)) % Cap = IF start + (k - 1) < Cap THEN start + (k - 1) ELSE (start + (k - 1)) - Cap
  <2> DEFINE q == rd \div Cap
             x == rd + (k - 1)
             p == x \div Cap
             r == x % Cap
             v == IF start + (k - 1) < Cap THEN start + (k - 1) ELSE (start + (k - 1)) - Cap
             w == IF start + (k - 1) < Cap THEN q ELSE q + 1
  <2>1. q \in Nat /\ rd = Cap * q + start BY <1>0, DivMod, DeviceRingAssumption
  <2>2. x \in Nat BY <1>0
  <2>3. p \in Nat /\ r \in 0..(Cap - 1) /\ x = Cap * p + r BY <2>2, DivMod, DeviceRingAssumption
  <2>4. x = (Cap * q + start) + (k - 1) BY <2>1
  <2> HIDE DEF start, q, p, r, x
  <2>5. v \in 0..(Cap - 1) /\ w \in Int BY <1>0, <1>1, <2>1, DeviceRingAssumption
  <2>6. Cap * (q + 1) = Cap * q + Cap /\ Cap * q \in Nat BY <2>1, DeviceRingAssumption, SMT
  <2>7. x = Cap * w + v BY <1>0, <1>1, <2>1, <2>4, <2>6, DeviceRingAssumption
  <2> HIDE DEF v, w
  <2>8. r = v
    <3>1. p \in Int /\ Cap \in Nat \ {0} /\ Cap * p + r = Cap * w + v BY <2>3, <2>7, DeviceRingAssumption
    <3> QED BY <2>3, <2>5, <3>1, DivModUnique
  <2> QED BY <2>8 DEF r, x, v
<1> HIDE DEF start
<1>5. Slot(k) = IF start + (k - 1) < Cap THEN start + (k - 1) ELSE (start + (k - 1)) - Cap
  BY <1>0, <1>1, DeviceRingAssumption
<1>6. Slot(k) < Cap BY <1>0, <1>1, <1>5, DeviceRingAssumption
<1> HIDE DEF Slot
<1> QED BY <1>2, <1>3, <1>4, <1>5, <1>6

(* What the drain returned is what the places were reserved for. *)
OutInv == ~overrun => out = want

(* Every step keeps the ring. *)
LEMMA RingStep ==
  ASSUME CapDividesModulus, BaseInv, BaseInv', Backlog, RingInv, OutInv, [Next]_vars
  PROVE  RingInv' /\ OutInv'
<1>0. ASSUME UNCHANGED <<rd, buf, todo, queue, overrun, out, want>> PROVE RingInv' /\ OutInv'
  <2>1. \A k : SlotOf(k)' = SlotOf(k) BY <1>0 DEF SlotOf
  <2>2. Pending => Pending' BY <1>0, <2>1 DEF Pending
  <2>3. Filled => Filled' BY <1>0, <2>1 DEF Filled
  <2> QED BY <1>0, <2>2, <2>3 DEF RingInv, OutInv
<1>1. CASE drainDeviceHits
  <2>1. RingInv' BY <1>1, RingDrain
  <2>2. OutInv'
    <3> SUFFICES ASSUME ~overrun' PROVE out' = want' BY DEF OutInv
    <3> DEFINE n == Drained
    <3>1. ~overrun /\ hpc = "drain" BY <1>1 DEF drainDeviceHits
    <3>2. n \in 0..Cap /\ n <= Len(queue) /\ n \in Nat BY <1>1, <3>1, DrainedFacts, DeviceRingAssumption
    <3>3. /\ out' = Copy(n)
          /\ want' = [k \in 1..n |-> [f \in Fields |-> IF k <= Len(queue) THEN queue[k] ELSE Garbage]]
      BY <1>1 DEF drainDeviceHits, Drained
    <3> HIDE DEF n
    <3>4. ASSUME NEW k \in 1..n
          PROVE  Copy(n)[k] = [f \in Fields |-> IF k <= Len(queue) THEN queue[k] ELSE Garbage]
      <4>1. k \in 1..Len(queue) /\ k <= Len(queue) /\ k \in Nat \ {0} BY <3>2, RingTypes
      <4>2. Copy(n)[k] = buf[SlotOf(k)] BY <3>1, <3>2, CopyExact
      <4>3. buf[SlotOf(k)] \in [Fields -> Val]
        BY <4>1, SlotFact DEF BaseInv, TypeOK, Val
      <4>4. \A f \in Fields : buf[SlotOf(k)][f] = queue[k] BY <3>1, <4>1, Settled
      <4>5. buf[SlotOf(k)] = [f \in Fields |-> queue[k]] BY <4>3, <4>4
      <4> QED BY <4>1, <4>2, <4>5
    <3>5. \A k \in 1..n : out'[k] = want'[k] BY <3>3, <3>4
    <3>6. /\ DOMAIN out' = 1..n /\ DOMAIN want' = 1..n
          /\ out' = [k \in 1..n |-> out'[k]] /\ want' = [k \in 1..n |-> want'[k]]
      BY <3>3 DEF Copy
    <3> QED BY <3>5, <3>6
  <2> QED BY <2>1, <2>2
<1>2. ASSUME NEW b \in Blocks, HitGlobal(b) \/ HitStub(b) PROVE RingInv' /\ OutInv'
  <2>1. <<next>> \in Seq(Val) /\ Stores(wr, next) \in Seq(StoreT)
    <3>1. next \in Val BY DEF BaseInv, TypeOK, Val
    <3> QED BY <3>1, RingTypes, StoresType
  <2>2. /\ Reserve(<<next>>) /\ todo' = [todo EXCEPT ![b] = @ \o Stores(wr, next)]
        /\ rd' = rd /\ buf' = buf /\ out' = out /\ want' = want
    BY <1>2 DEF HitGlobal, HitStub
  <2>3. ~overrun => Matches(Stores(wr, next), <<next>>) BY MatchesOne
  <2>4. RingInv' BY <2>1, <2>2, <2>3, RingReserve
  <2> QED BY <2>2, <2>4 DEF OutInv, Reserve
<1>3. ASSUME NEW b \in Blocks, Flush(b) PROVE RingInv' /\ OutInv'
  <2>1. Collected(b) \in Seq(Val) /\ StoresOf(b) \in Seq(StoreT) BY CollectedType, StoresOfType
  <2>2. /\ Reserve(Collected(b)) /\ todo' = [todo EXCEPT ![b] = @ \o StoresOf(b)]
        /\ rd' = rd /\ buf' = buf /\ out' = out /\ want' = want
    BY <1>3 DEF Flush
  <2>3. ~overrun => Matches(StoresOf(b), Collected(b)) BY MatchesAll
  <2>4. RingInv' BY <2>1, <2>2, <2>3, RingReserve
  <2> QED BY <2>2, <2>4 DEF OutInv, Reserve
<1>4. ASSUME NEW b \in Blocks, Store(b) PROVE RingInv' /\ OutInv'
  <2>1. RingInv' BY <1>4, RingStore
  <2> QED BY <1>4, <2>1 DEF OutInv, Store
<1>5. ASSUME NEW k \in {"batch", "stub"}, Launch(k) PROVE RingInv' /\ OutInv' BY <1>0, <1>5 DEF Launch
<1>6. CASE Synchronize BY <1>0, <1>6 DEF Synchronize
<1>7. ASSUME NEW b \in Blocks, HitLocal(b) \/ BlockDone(b) PROVE RingInv' /\ OutInv'
  BY <1>0, <1>7 DEF HitLocal, BlockDone
<1>8. CASE UNCHANGED vars BY <1>0, <1>8 DEF vars
<1> QED BY <1>1, <1>2, <1>3, <1>4, <1>5, <1>6, <1>7, <1>8 DEF Next, Finished

(* RingInv and OutInv hold always. *)
LEMMA RingAlways ==
  ASSUME CapDividesModulus
  PROVE  Spec => [](RingInv /\ OutInv)
<1>1. Init => RingInv /\ OutInv
  <2> SUFFICES ASSUME Init PROVE RingInv /\ OutInv OBVIOUS
  <2>1. queue = <<>> /\ out = want /\ \A b \in Blocks : todo[b] = <<>> BY DEF Init
  <2>2. Len(<<>>) = 0 /\ 1..0 = {} OBVIOUS
  <2>3. Len(queue) = 0 /\ \A b \in Blocks : Len(todo[b]) = 0 BY <2>1, <2>2, Zenon
  <2>4. 1..Len(queue) = {} /\ \A b \in Blocks : 1..Len(todo[b]) = {} BY <2>2, <2>3, Zenon
  <2> QED BY <2>1, <2>4, Zenon DEF RingInv, OutInv, Pending, Filled
<1>2. BaseInv /\ BaseInv' /\ Backlog /\ (RingInv /\ OutInv) /\ [Next]_vars => (RingInv /\ OutInv)'
  BY RingStep
<1> QED BY <1>1, <1>2, BaseAlways, BacklogAlways, PTL DEF Spec

(* When the grid has finished every undrained hit is in its slot, whole: no *)
(* place is reserved and not filled and no record mixes two blocks' fields, *)
(* whatever the interleaving of the blocks.  CapDividesModulus is needed:   *)
(* MCDeviceRingWrap has the counterexample.                                 *)
THEOREM DeviceRingSettled ==
  ASSUME CapDividesModulus
  PROVE  Spec => []SettledWhenDrained
<1>1. BaseInv /\ RingInv => SettledWhenDrained
  BY Settled DEF SettledWhenDrained, SlotOf
<1> QED BY <1>1, RingAlways, BaseAlways, PTL

(* Every drain returns what the oldest places were reserved for, each once, *)
(* whole and in the order of reservation, over any number of index wraps.   *)
THEOREM DeviceRingDrained ==
  ASSUME CapDividesModulus
  PROVE  Spec => []DrainedInOrder
<1>1. OutInv => DrainedInOrder BY DEF OutInv, DrainedInOrder
<1> QED BY <1>1, RingAlways, PTL

-----------------------------------------------------------------------------
(* The ring of the host. *)

HostRingInv == RingTypeOK /\ RingOK

(* An index inside the vector is its own remainder. *)
LEMMA WrapBelow ==
  ASSUME NEW C \in Nat \ {0}, NEW a \in Nat, a < C
  PROVE  a % C = a
OBVIOUS

(* An index less than a turn past the end wraps once. *)
LEMMA WrapAbove ==
  ASSUME NEW C \in Nat \ {0}, NEW a \in Nat, a >= C, a < C + C
  PROVE  a % C = a - C
<1>1. a = 1 * C + (a - C) /\ a - C \in 0..(C - 1)
  OBVIOUS
<1> QED BY <1>1

(* A remainder is an index of the vector. *)
LEMMA WrapRange ==
  ASSUME NEW C \in Nat \ {0}, NEW a \in Nat
  PROVE  a % C \in 0..(C - 1)
OBVIOUS

(* So is the remainder of the sum of two indices. *)
LEMMA WrapSum ==
  ASSUME NEW C \in Nat \ {0}, NEW b \in 0..(C - 1), NEW k \in 0..(C - 1)
  PROVE  (b + k) % C \in 0..(C - 1)
OBVIOUS

(* A full turn comes back to where it started. *)
LEMMA FullTurn ==
  ASSUME NEW C \in Nat \ {0}, NEW b \in 0..(C - 1)
  PROVE  (b + C) % C = b
<1>1. b + C = 1 * C + b
  OBVIOUS
<1> QED BY <1>1

(* Every cell is at some distance below the capacity from the read index. *)
LEMMA Reach ==
  ASSUME NEW C \in Nat \ {0}, NEW b \in 0..(C - 1), NEW i \in 0..(C - 1)
  PROVE  \E k \in 0..(C - 1) : (b + k) % C = i
<1>1. CASE b <= i
  <2>1. i - b \in 0..(C - 1) /\ b + (i - b) = i
    BY <1>1
  <2>2. (b + (i - b)) % C = i
    BY <2>1
  <2> QED BY <2>1, <2>2
<1>2. CASE b > i
  <2>1. i - b + C \in 0..(C - 1) /\ b + (i - b + C) = i + C
    BY <1>2
  <2>2. (b + (i - b + C)) % C = i
    BY <2>1, FullTurn
  <2> QED BY <2>1, <2>2
<1> QED BY <1>1, <1>2

(* One past a wrapped index is the wrap of one past. *)
LEMMA SuccWrap ==
  ASSUME NEW C \in Nat \ {0}, NEW b \in 0..(C - 1), NEW n \in 0..(C - 1)
  PROVE  (((b + n) % C) + 1) % C = (b + (n + 1)) % C
<1> DEFINE a == b + n
<1>1. a \in Nat /\ a < C + C /\ a + 1 < C + C /\ b + (n + 1) = a + 1
  OBVIOUS
<1> HIDE DEF a
<1>2. CASE a < C
  BY <1>1, <1>2 DEF a
<1>3. CASE a >= C
  <2>1. a % C = a - C
    BY <1>1, <1>3, WrapAbove
  <2>2. (a + 1) % C = (a + 1) - C
    <3> DEFINE c == a + 1
    <3>1. c \in Nat /\ c >= C /\ c < C + C
      BY <1>1, <1>3
    <3> HIDE DEF c
    <3>2. c % C = c - C
      BY <3>1, WrapAbove
    <3> QED BY <3>2 DEF c
  <2>3. (a - C) + 1 = (a + 1) - C /\ (a - C) + 1 \in 0..(C - 1)
    BY <1>1, <1>3
  <2>4. ((a - C) + 1) % C = (a - C) + 1
    BY <2>3
  <2> QED BY <1>1, <2>1, <2>2, <2>3, <2>4 DEF a
<1> QED BY <1>1, <1>2, <1>3

(* Moving the start one cell on is the same as looking one cell further. *)
LEMMA PopShift ==
  ASSUME NEW C \in Nat \ {0}, NEW b \in 0..(C - 1), NEW k \in 0..(C - 1)
  PROVE  (((b + 1) % C) + k) % C = (b + (k + 1)) % C
<1>1. CASE b + 1 < C
  <2>1. (b + 1) % C = b + 1 /\ (b + 1) + k = b + (k + 1)
    BY <1>1
  <2> QED BY <2>1
<1>2. CASE b + 1 = C
  <2>1. b + (k + 1) = k + C /\ 0 + k = k
    BY <1>2
  <2>2. (b + 1) % C = 0
    <3>1. C = 1 * C + 0
      OBVIOUS
    <3> QED BY <1>2, <3>1
  <2>3. (k + C) % C = k /\ k % C = k
    BY FullTurn
  <2> QED BY <2>1, <2>2, <2>3
<1> QED BY <1>1, <1>2

(* The state of an empty ring satisfies the invariant. *)
LEMMA HostRingInit == RingInit => HostRingInv
<1> USE RingAssumption
<1>1. 0 % Capacity = 0 /\ 0 + 0 = 0
  BY WrapBelow
<1> QED BY <1>1 DEF RingInit, HostRingInv, RingTypeOK, RingOK

(* push keeps the invariant: on a ring with room, and on a full one. *)
LEMMA RingPush ==
  ASSUME HostRingInv, NEW h \in HitRecords, push(h)
  PROVE  HostRingInv'
<1> USE RingAssumption
<1> USE DEF HostRingInv, RingTypeOK
<1>1. RingTypeOK'
  <2>1. (tail + 1) % Capacity \in 0..(Capacity - 1) /\ (head + 1) % Capacity \in 0..(Capacity - 1)
    BY WrapRange
  <2> QED BY <2>1 DEF push
<1>2. CASE size # Capacity
  <2>1. head' = head /\ size' = size + 1 /\ size < Capacity /\ tail' = (tail + 1) % Capacity
        /\ buffer' = [buffer EXCEPT ![tail] = h]
    BY <1>2 DEF push
  <2>2. size \in 0..(Capacity - 1)
    BY <2>1
  <2>3. tail' = (head' + size') % Capacity
    BY <2>1, <2>2, SuccWrap DEF RingOK
  <2>4. ASSUME NEW k \in 0..(Capacity - 1), k < size'
        PROVE  buffer'[(head' + k) % Capacity] \in HitRecords
    <3>1. (head + k) % Capacity \in 0..(Capacity - 1)
      BY WrapRange
    <3>2. k < size \/ k = size
      BY <2>1, <2>4
    <3>3. CASE k < size
      BY <2>1, <3>1, <3>3 DEF RingOK
    <3>4. CASE k = size
      BY <2>1, <3>1, <3>4 DEF RingOK
    <3> QED BY <3>2, <3>3, <3>4
  <2> QED BY <1>1, <2>3, <2>4 DEF RingOK
<1>3. CASE size = Capacity
  <2>1. head' = (head + 1) % Capacity /\ size' = size /\ tail' = (tail + 1) % Capacity
        /\ buffer' = [buffer EXCEPT ![tail] = h]
    BY <1>3 DEF push
  <2>2. (head + size) % Capacity = head
    BY <1>3, FullTurn
  <2>3. tail' = head' /\ head' \in 0..(Capacity - 1)
    BY <1>1, <2>1, <2>2 DEF RingOK
  <2>4. (head' + size') % Capacity = head'
    BY <1>3, <2>1, <2>3, FullTurn
  <2>5. ASSUME NEW k \in 0..(Capacity - 1)
        PROVE  buffer'[(head' + k) % Capacity] \in HitRecords
    <3> DEFINE i == (head' + k) % Capacity
    <3>1. i \in 0..(Capacity - 1)
      BY <2>3, WrapSum
    <3> HIDE DEF i
    <3>2. PICK m \in 0..(Capacity - 1) : (head + m) % Capacity = i
      BY <3>1, Reach
    <3>3. m < size
      BY <1>3
    <3>4. buffer[i] \in HitRecords
      BY <3>2, <3>3 DEF RingOK
    <3>5. buffer'[i] \in HitRecords
      BY <2>1, <3>1, <3>4
    <3> QED BY <3>5 DEF i
  <2> QED BY <1>1, <2>3, <2>4, <2>5 DEF RingOK
<1> QED BY <1>2, <1>3

(* tryPop keeps the invariant. *)
LEMMA RingPop ==
  ASSUME HostRingInv, tryPop
  PROVE  HostRingInv'
<1> USE RingAssumption
<1> USE DEF HostRingInv, RingTypeOK
<1>1. CASE size = 0
  BY <1>1 DEF tryPop, RingOK
<1>2. CASE size # 0
  <2>1. head' = (head + 1) % Capacity /\ size' = size - 1 /\ tail' = tail /\ buffer' = buffer
    BY <1>2 DEF tryPop
  <2>2. head' \in 0..(Capacity - 1)
    BY <2>1, WrapRange
  <2>3. ASSUME NEW k \in 0..(Capacity - 1)
        PROVE  (head' + k) % Capacity = (head + (k + 1)) % Capacity
    BY <2>1, PopShift
  <2>4. tail' = (head' + size') % Capacity
    <3>1. size - 1 \in 0..(Capacity - 1) /\ (size - 1) + 1 = size
      BY <1>2
    <3>2. (head' + (size - 1)) % Capacity = (head + ((size - 1) + 1)) % Capacity
      BY <2>3, <3>1
    <3> QED BY <2>1, <3>1, <3>2 DEF RingOK
  <2>5. ASSUME NEW k \in 0..(Capacity - 1), k < size'
        PROVE  buffer'[(head' + k) % Capacity] \in HitRecords
    <3>1. k + 1 \in 0..(Capacity - 1) /\ k + 1 < size
      BY <1>2, <2>1, <2>5
    <3>2. (head' + k) % Capacity = (head + (k + 1)) % Capacity
      BY <2>3, <3>1
    <3>3. buffer[(head + (k + 1)) % Capacity] \in HitRecords
      BY <3>1 DEF RingOK
    <3> QED BY <2>1, <3>2, <3>3
  <2> QED BY <1>2, <2>1, <2>2, <2>4, <2>5 DEF RingOK
<1> QED BY <1>1, <1>2

(* HitRingBuffer keeps its indices in range, its write index size_ past its *)
(* read index, and every live cell written, over any sequence of calls.     *)
THEOREM RingSafe == RingSpec => [](RingTypeOK /\ RingOK)
<1>1. RingInit => HostRingInv
  BY HostRingInit
<1>2. HostRingInv /\ [RingNext]_ringVars => HostRingInv'
  <2> SUFFICES ASSUME HostRingInv, [RingNext]_ringVars PROVE HostRingInv'
    OBVIOUS
  <2>1. CASE \E h \in HitRecords : push(h)
    BY <2>1, RingPush
  <2>2. CASE tryPop
    BY <2>2, RingPop
  <2>3. CASE UNCHANGED ringVars
    BY <2>3 DEF ringVars, HostRingInv, RingTypeOK, RingOK
  <2> QED BY <2>1, <2>2, <2>3 DEF RingNext
<1> QED BY <1>1, <1>2, PTL DEF RingSpec, HostRingInv

-----------------------------------------------------------------------------
(* The refinement. *)

(* Two distances below the capacity that lead to the same cell are equal. *)
LEMMA Inject ==
  ASSUME NEW C \in Nat \ {0}, NEW b \in 0..(C - 1),
         NEW k \in 0..(C - 1), NEW m \in 0..(C - 1), (b + k) % C = (b + m) % C
  PROVE  k = m
<1> DEFINE x == b + k
           y == b + m
<1>1. x \in Nat /\ y \in Nat /\ x < C + C /\ y < C + C
  OBVIOUS
<1>2. x - y = k - m /\ x - y < C /\ y - x < C
  OBVIOUS
<1>3. x % C = y % C
  OBVIOUS
<1> HIDE DEF x, y
<1>4. (x < C => x % C = x) /\ (y < C => y % C = y)
  BY <1>1, WrapBelow
<1>5. (x >= C => x % C = x - C) /\ (y >= C => y % C = y - C)
  BY <1>1, WrapAbove
<1>6. x = y
  BY <1>1, <1>2, <1>3, <1>4, <1>5
<1> QED BY <1>6 DEF x, y

(* The abstract queue is a sequence of hits, as long as size_. *)
ContentsFact ==
  /\ Contents \in Seq(HitRecords) /\ Len(Contents) = size /\ size \in Nat
  /\ \A i \in 1..size : Contents[i] = buffer[(head + (i - 1)) % Capacity]

(* The invariant gives it, in any state. *)
LEMMA ContentsSeq == HostRingInv => ContentsFact
<1> SUFFICES ASSUME HostRingInv PROVE ContentsFact
  OBVIOUS
<1> USE RingAssumption DEF HostRingInv, RingTypeOK
<1>1. \A i \in 1..size : head + i - 1 = head + (i - 1)
  OBVIOUS
<1>2. \A i \in 1..size : Contents[i] = buffer[(head + (i - 1)) % Capacity]
  BY <1>1 DEF Contents
<1>3. ASSUME NEW i \in 1..size
      PROVE  buffer[(head + (i - 1)) % Capacity] \in HitRecords
  <2>1. i - 1 \in 0..(Capacity - 1) /\ i - 1 < size
    OBVIOUS
  <2> QED BY <2>1 DEF RingOK
<1>4. Contents \in [1..size -> HitRecords]
  BY <1>1, <1>3 DEF Contents
<1> QED BY <1>2, <1>4 DEF ContentsFact

(* push is the abstract Push. *)
LEMMA PushRefines ==
  ASSUME HostRingInv, HostRingInv', NEW h \in HitRecords, push(h)
  PROVE  Fifo!Push(h)
<1> USE RingAssumption
<1>1. /\ Contents \in Seq(HitRecords) /\ Len(Contents) = size /\ size \in Nat
      /\ \A i \in 1..size : Contents[i] = buffer[(head + (i - 1)) % Capacity]
  BY ContentsSeq DEF ContentsFact
<1>a. ContentsFact'
  BY ContentsSeq, PTL
<1>2. \A i \in 1..size' : Contents'[i] = buffer'[(head' + (i - 1)) % Capacity]
  BY <1>a DEF ContentsFact
<1>3. Contents' \in Seq(HitRecords) /\ Len(Contents') = size' /\ size' \in Nat
  BY <1>a DEF ContentsFact
<1>4. RingTypeOK /\ tail = (head + size) % Capacity /\ size <= Capacity
  BY DEF HostRingInv, RingOK, RingTypeOK
<1>5. CASE size # Capacity
  <2>1. head' = head /\ size' = size + 1 /\ size < Capacity
        /\ buffer' = [buffer EXCEPT ![tail] = h] /\ result' = "stored"
    BY <1>4, <1>5 DEF push, RingTypeOK
  <2>2. ASSUME NEW i \in 1..(size + 1)
        PROVE  Contents'[i] = Append(Contents, h)[i]
    <3>1. Contents'[i] = buffer'[(head + (i - 1)) % Capacity]
      BY <1>2, <2>1
    <3>2. i - 1 \in 0..(Capacity - 1) /\ size \in 0..(Capacity - 1) /\ head \in 0..(Capacity - 1)
      BY <1>1, <1>4, <2>1 DEF RingTypeOK
    <3>3. (head + (i - 1)) % Capacity \in 0..(Capacity - 1)
      BY <3>2, WrapSum
    <3>4. CASE i = size + 1
      <4>1. i - 1 = size
        BY <1>1, <3>4
      <4>2. buffer'[(head + (i - 1)) % Capacity] = h
        BY <1>4, <2>1, <3>3, <4>1 DEF RingTypeOK
      <4> QED BY <1>1, <3>1, <3>4, <4>2
    <3>5. CASE i # size + 1
      <4>1. i \in 1..size /\ i - 1 # size
        BY <1>1, <3>5
      <4>2. (head + (i - 1)) % Capacity # tail
        BY <1>4, <3>2, <4>1, Inject
      <4>3. buffer'[(head + (i - 1)) % Capacity] = Contents[i]
        BY <1>1, <1>4, <2>1, <3>3, <4>1, <4>2 DEF RingTypeOK
      <4> QED BY <1>1, <3>1, <4>1, <4>3
    <3> QED BY <3>4, <3>5
  <2>3. Contents' = Append(Contents, h)
    BY <1>1, <1>3, <2>1, <2>2
  <2> QED BY <1>1, <1>5, <2>1, <2>3 DEF Fifo!Push
<1>6. CASE size = Capacity
  <2>1. head' = (head + 1) % Capacity /\ size' = size
        /\ buffer' = [buffer EXCEPT ![tail] = h] /\ result' = "overwrote"
    BY <1>6 DEF push
  <2>2. head \in 0..(Capacity - 1) /\ tail = head
    BY <1>4, <1>6, FullTurn DEF RingTypeOK
  <2>3. Tail(Contents) \in Seq(HitRecords) /\ Len(Tail(Contents)) = size - 1
        /\ \A i \in 1..(size - 1) : Tail(Contents)[i] = Contents[i + 1]
    BY <1>1, <1>6
  <2>4. ASSUME NEW i \in 1..size
        PROVE  Contents'[i] = Append(Tail(Contents), h)[i]
    <3>1. i - 1 \in 0..(Capacity - 1) /\ (i - 1) + 1 = i
      BY <1>6
    <3>2. Contents'[i] = buffer'[(head + i) % Capacity]
      <4>1. (head' + (i - 1)) % Capacity = (head + ((i - 1) + 1)) % Capacity
        BY <2>1, <2>2, <3>1, PopShift
      <4> QED BY <1>2, <2>1, <3>1, <4>1
    <3>3. CASE i = size
      <4>1. (head + i) % Capacity = tail
        BY <1>6, <2>2, <3>3, FullTurn
      <4>2. buffer'[tail] = h
        BY <1>4, <2>1 DEF RingTypeOK
      <4> QED BY <1>1, <2>3, <3>2, <3>3, <4>1, <4>2
    <3>4. CASE i # size
      <4>1. i \in 1..(size - 1) /\ i \in 0..(Capacity - 1) /\ i # 0 /\ i + 1 \in 1..size /\ (i + 1) - 1 = i
        BY <1>1, <1>6, <3>4
      <4>2. (head + 0) % Capacity = head /\ 0 \in 0..(Capacity - 1)
        BY <2>2
      <4>3. (head + i) % Capacity # tail
        BY <2>2, <4>1, <4>2, Inject
      <4>4. (head + i) % Capacity \in 0..(Capacity - 1)
        BY <2>2, <4>1, WrapSum
      <4>5. buffer'[(head + i) % Capacity] = buffer[(head + i) % Capacity]
        BY <1>4, <2>1, <4>3, <4>4 DEF RingTypeOK
      <4>6. Contents[i + 1] = buffer[(head + i) % Capacity]
        BY <1>1, <4>1
      <4> QED BY <1>1, <2>3, <3>2, <4>1, <4>5, <4>6
    <3> QED BY <3>3, <3>4
  <2>5. Contents' = Append(Tail(Contents), h)
    BY <1>1, <1>3, <2>1, <2>3, <2>4
  <2> QED BY <1>1, <1>6, <2>1, <2>5 DEF Fifo!Push
<1> QED BY <1>5, <1>6

(* tryPop is the abstract Pop. *)
LEMMA PopRefines ==
  ASSUME HostRingInv, HostRingInv', tryPop
  PROVE  Fifo!Pop
<1> USE RingAssumption
<1>1. /\ Contents \in Seq(HitRecords) /\ Len(Contents) = size /\ size \in Nat
      /\ \A i \in 1..size : Contents[i] = buffer[(head + (i - 1)) % Capacity]
  BY ContentsSeq DEF ContentsFact
<1>a. ContentsFact'
  BY ContentsSeq, PTL
<1>2. \A i \in 1..size' : Contents'[i] = buffer'[(head' + (i - 1)) % Capacity]
  BY <1>a DEF ContentsFact
<1>3. Contents' \in Seq(HitRecords) /\ Len(Contents') = size' /\ size' \in Nat
  BY <1>a DEF ContentsFact
<1>4. head \in 0..(Capacity - 1) /\ size \in 0..Capacity
  BY DEF HostRingInv, RingTypeOK
<1>5. CASE size = 0
  <2>1. Contents' = Contents /\ result' = "none"
    BY <1>5 DEF tryPop, Contents
  <2> QED BY <1>1, <1>5, <2>1 DEF Fifo!Pop
<1>6. CASE size # 0
  <2>1. head' = (head + 1) % Capacity /\ size' = size - 1 /\ buffer' = buffer /\ result' = buffer[head]
    BY <1>6 DEF tryPop
  <2>2. 1 \in 1..size /\ (head + (1 - 1)) % Capacity = head
    BY <1>4, <1>6
  <2>3. result' = Head(Contents) /\ Contents # <<>>
    BY <1>1, <1>6, <2>1, <2>2
  <2>4. ASSUME NEW i \in 1..(size - 1)
        PROVE  Contents'[i] = Tail(Contents)[i]
    <3>1. i - 1 \in 0..(Capacity - 1) /\ (i - 1) + 1 = i /\ i + 1 \in 1..size /\ (i + 1) - 1 = i
      BY <1>4
    <3>2. (head' + (i - 1)) % Capacity = (head + ((i - 1) + 1)) % Capacity
      BY <1>4, <2>1, <3>1, PopShift
    <3>3. Contents'[i] = buffer[(head + i) % Capacity]
      BY <1>2, <2>1, <3>1, <3>2
    <3>4. Contents[i + 1] = buffer[(head + i) % Capacity]
      BY <1>1, <3>1
    <3>5. Tail(Contents)[i] = Contents[i + 1]
      BY <1>1, <1>6
    <3> QED BY <3>3, <3>4, <3>5
  <2>5. Contents' = Tail(Contents)
    BY <1>1, <1>3, <1>6, <2>1, <2>4
  <2> QED BY <2>3, <2>5 DEF Fifo!Pop
<1> QED BY <1>5, <1>6

(* HitRingBuffer implements the lossy FIFO for every capacity: tryPop gives *)
(* the oldest hit that was not discarded, and push's answer is true to      *)
(* whether it discarded one.                                                *)
THEOREM RingRefinesFifo == RingSpec => FifoSpec
<1>1. RingInit => Fifo!Init
  BY RingAssumption DEF RingInit, Fifo!Init, Contents
<1>2. HostRingInv /\ HostRingInv' /\ [RingNext]_ringVars => [Fifo!Next]_<<Contents, result>>
  <2> SUFFICES ASSUME HostRingInv, HostRingInv', [RingNext]_ringVars
               PROVE  [Fifo!Next]_<<Contents, result>>
    OBVIOUS
  <2>1. CASE \E h \in HitRecords : push(h)
    BY <2>1, PushRefines DEF Fifo!Next
  <2>2. CASE tryPop
    BY <2>2, PopRefines DEF Fifo!Next
  <2>3. CASE UNCHANGED ringVars
    BY <2>3 DEF ringVars, Contents
  <2> QED BY <2>1, <2>2, <2>3 DEF RingNext
<1>3. RingSpec => []HostRingInv
  BY RingSafe DEF HostRingInv
<1> QED BY <1>1, <1>2, <1>3, PTL DEF RingSpec, FifoSpec, Fifo!Spec
=============================================================================
