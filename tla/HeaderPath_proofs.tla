-------------------------- MODULE HeaderPath_proofs --------------------------
(***************************************************************************)
(* Proofs about Sha256 and HeaderPath, for messages of every length below  *)
(* 2^37 bytes, trees of every size, hashes of any number of words, digits  *)
(* of any base and all values of the fields.                               *)
(*                                                                         *)
(* Induction and recursion on the natural numbers come first, from the     *)
(* well-foundedness of <: LeastElement, Induction on sets, and that a      *)
(* function defined by recursion exists and is unique.  Sequences are then *)
(* treated as functions on 1..n (Arr), concatenation and subsequence as    *)
(* relations between their elements (Joins, Copies).                       *)
(*                                                                         *)
(* There are three inductive invariants, on disjoint parts of the state.   *)
(* ShaInv: ctx has compressed the whole blocks of what was fed and keeps   *)
(* the rest in front of data.  TreeInv: level is the level of the tree at  *)
(* some height.  JobInv: from the ingestion of a job on, the item, the     *)
(* device's copy, the hit and the host's header are the functions of the   *)
(* raw fields that the code computes, so that the properties become facts  *)
(* about those functions: the round trip of a hash through words, the      *)
(* order of digits and of numbers, the target of compact bits and the      *)
(* layout of the hashed message.                                           *)
(***************************************************************************)
EXTENDS HeaderPath, SequenceTheorems, WellFoundedInduction, TLAPS

-----------------------------------------------------------------------------
(* Induction and recursion. *)

(* A set of naturals has a least element: what the inductions below use. *)
LEMMA LeastElement ==
  ASSUME NEW T, T \subseteq Nat, T # {}
  PROVE  \E x \in T : \A y \in T : x <= y
<1> DEFINE R == OpToRel(<, Nat)
<1>1. IsWellFoundedOn(R, Nat)
  BY NatLessThanWellFounded, Zenon
<1> HIDE DEF R
<1>2. PICK x \in T : \A y \in T : <<y, x>> \notin R
  BY <1>1, WFMin
<1>3. \A y \in T : ~(y < x)
  BY <1>2 DEF R, OpToRel
<1> QED BY <1>3

(* Induction over a set of naturals. *)
LEMMA Induction ==
  ASSUME NEW T, 0 \in T, \A n \in Nat : n \in T => n + 1 \in T
  PROVE  Nat \subseteq T
<1> DEFINE U == Nat \ T
<1>1. SUFFICES ASSUME U # {} PROVE FALSE
  OBVIOUS
<1>2. PICK x \in U : \A y \in U : x <= y
  BY <1>1, LeastElement
<1>3. x # 0 /\ x - 1 \in Nat /\ x - 1 \notin U
  BY <1>2
<1>4. (x - 1) + 1 \in T
  BY <1>3
<1> QED BY <1>2, <1>4

(* f starts with f0 and satisfies the recursion h up to n. *)
Solves(f, f0, h, n) == f[0] = f0 /\ \A i \in 1..n : f[i] = h[i][f[i - 1]]

(* f is the function that f0 and h define. *)
Recursion(f, f0, h) == f = [i \in Nat |-> IF i = 0 THEN f0 ELSE h[i][f[i - 1]]]

(* Two functions that satisfy one recursion agree. *)
LEMMA RecursionUnique ==
  ASSUME NEW h, NEW f0, NEW f, NEW g, NEW n \in Nat, Solves(f, f0, h, n), Solves(g, f0, h, n)
  PROVE  \A i \in 0..n : f[i] = g[i]
<1> DEFINE T == {i \in Nat : i <= n => f[i] = g[i]}
<1>1. 0 \in T BY DEF Solves
<1>2. \A i \in Nat : i \in T => i + 1 \in T
  <2> SUFFICES ASSUME NEW i \in Nat, i \in T, i + 1 <= n PROVE f[i + 1] = g[i + 1]
    OBVIOUS
  <2>1. i + 1 \in 1..n /\ (i + 1) - 1 = i OBVIOUS
  <2> QED BY <2>1 DEF Solves
<1> HIDE DEF T
<1>3. Nat \subseteq T BY <1>1, <1>2, Induction
<1> QED BY <1>3 DEF T

(* A recursion over the naturals has a solution. *)
LEMMA RecursionExists ==
  ASSUME NEW V, NEW f0 \in V, NEW h \in [Nat -> [V -> V]]
  PROVE  \E f \in [Nat -> V] : Recursion(f, f0, h)
<1> DEFINE Upto(g, n) == g \in [Nat -> V] /\ Solves(g, f0, h, n)
           T == {n \in Nat : \E g : Upto(g, n)}
           G == [n \in Nat |-> CHOOSE g : Upto(g, n)]
           F == [n \in Nat |-> G[n][n]]
<1>1. 0 \in T
  <2>1. Upto([i \in Nat |-> f0], 0) BY DEF Solves
  <2> QED BY <2>1
<1>2. ASSUME NEW n \in Nat, \E g : Upto(g, n) PROVE \E g : Upto(g, n + 1)
  <2>1. PICK g : Upto(g, n) BY <1>2
  <2> DEFINE k == [i \in Nat |-> IF i = n + 1 THEN h[i][g[n]] ELSE g[i]]
  <2>2. k \in [Nat -> V] /\ k[0] = f0 BY <2>1 DEF Solves
  <2>3. ASSUME NEW i \in 1..(n + 1) PROVE k[i] = h[i][k[i - 1]]
    <3>1. CASE i = n + 1
      <4>1. i - 1 = n /\ k[i] = h[i][g[n]] /\ k[n] = g[n] BY <3>1
      <4> QED BY <4>1
    <3>2. CASE i # n + 1
      <4>1. i \in 1..n /\ i - 1 # n + 1 /\ i - 1 \in Nat BY <3>2
      <4> QED BY <2>1, <4>1 DEF Solves
    <3> QED BY <3>1, <3>2
  <2>4. Upto(k, n + 1)
    <3> HIDE DEF k
    <3> QED BY <2>2, <2>3 DEF Solves
  <2> QED BY <2>4
<1>3. Nat \subseteq T
  <2> HIDE DEF Upto
  <2>1. \A n \in Nat : n \in T => n + 1 \in T BY <1>2
  <2> HIDE DEF T
  <2> QED BY <1>1, <2>1, Induction
<1> HIDE DEF T
<1>4. \A n \in Nat : Upto(G[n], n)
  <2> SUFFICES ASSUME NEW n \in Nat PROVE Upto(G[n], n) OBVIOUS
  <2>1. \E g : Upto(g, n) BY <1>3 DEF T
  <2> HIDE DEF Upto
  <2> QED BY <2>1
<1> HIDE DEF G
<1>5. F \in [Nat -> V] /\ F[0] = f0 BY <1>4 DEF Solves
<1>6. ASSUME NEW i \in Nat, i # 0 PROVE F[i] = h[i][F[i - 1]]
  <2>1. Upto(G[i], i) /\ Upto(G[i - 1], i - 1) /\ i - 1 \in Nat BY <1>4, <1>6
  <2>2. Solves(G[i], f0, h, i - 1) BY <2>1 DEF Solves
  <2>3. \A j \in 0..(i - 1) : G[i][j] = G[i - 1][j] BY <2>1, <2>2, RecursionUnique
  <2>4. G[i][i - 1] = G[i - 1][i - 1] BY <2>1, <2>3
  <2>5. G[i][i] = h[i][G[i][i - 1]] BY <2>1, <1>6 DEF Solves
  <2>6. F[i] = G[i][i] /\ F[i - 1] = G[i - 1][i - 1] BY <2>1
  <2> QED BY <2>4, <2>5, <2>6
<1> HIDE DEF F
<1>7. Recursion(F, f0, h)
  BY <1>5, <1>6 DEF Recursion
<1> QED BY <1>5, <1>7

-----------------------------------------------------------------------------
(* Powers. *)
LEMMA PowerRec ==
  ASSUME NEW b \in Nat
  PROVE  /\ Power(b, 0) = 1
         /\ \A n \in Nat : Power(b, n) \in Nat /\ Power(b, n + 1) = b * Power(b, n)
<1> DEFINE P == CHOOSE p : p = [i \in Nat |-> IF i = 0 THEN 1 ELSE b * p[i - 1]]
           h == [i \in Nat |-> [v \in Nat |-> b * v]]
<1>1. PICK f \in [Nat -> Nat] : Recursion(f, 1, h)
  <2>1. h \in [Nat -> [Nat -> Nat]] OBVIOUS
  <2> HIDE DEF h
  <2> QED BY <2>1, RecursionExists
<1>3. f = [i \in Nat |-> IF i = 0 THEN 1 ELSE b * f[i - 1]]
  <2>1. \A i \in Nat : i # 0 => h[i][f[i - 1]] = b * f[i - 1] OBVIOUS
  <2> HIDE DEF h
  <2> QED BY <1>1, <2>1 DEF Recursion
<1>4. P = [i \in Nat |-> IF i = 0 THEN 1 ELSE b * P[i - 1]]
  BY <1>3
<1>5. \A n : Power(b, n) = P[n] BY DEF Power
<1> HIDE DEF P
<1>6. \A n \in Nat : P[n] \in Nat
  <2> DEFINE T == {n \in Nat : P[n] \in Nat}
  <2>1. 0 \in T BY <1>4
  <2>2. \A n \in Nat : n \in T => n + 1 \in T BY <1>4
  <2> HIDE DEF T
  <2>3. Nat \subseteq T BY <2>1, <2>2, Induction
  <2> QED BY <2>3 DEF T
<1>7. P[0] = 1 /\ \A n \in Nat : P[n + 1] = b * P[n]
  <2>1. \A n \in Nat : n + 1 \in Nat /\ n + 1 # 0 /\ (n + 1) - 1 = n OBVIOUS
  <2> QED BY <1>4, <2>1
<1> QED BY <1>5, <1>6, <1>7, Zenon

-----------------------------------------------------------------------------
(* Sequences as functions on 1..n. *)

(* f has n elements, all in V. *)
Arr(f, n, V) == f \in [1..n -> V]

(* h is f, of length m, followed by g, of length n; t is the n elements of s *)
(* behind the first a.                                                       *)
Joins(h, f, m, g, n) ==
  (\A i \in 1..m : h[i] = f[i]) /\ (\A i \in 1..n : h[m + i] = g[i])
Copies(t, s, a, n) == \A i \in 1..n : t[i] = s[a + i]

(* An array is a sequence of that length. *)
LEMMA ArrIs ==
  ASSUME NEW V, NEW n \in Nat, NEW f, Arr(f, n, V)
  PROVE  f \in Seq(V) /\ Len(f) = n /\ DOMAIN f = 1..n /\ f \in [1..n -> V]
<1>0. f \in [1..n -> V] BY DEF Arr
<1>1. f \in Seq(V) BY <1>0, SeqDef
<1>2. Len(f) \in Nat /\ DOMAIN f = 1..Len(f) BY <1>1, LenProperties
<1>3. DOMAIN f = 1..n BY <1>0
<1> QED BY <1>0, <1>1, <1>2, <1>3

(* A sequence is an array of its length. *)
LEMMA SeqArr ==
  ASSUME NEW V, NEW n \in Nat, NEW f \in Seq(V), Len(f) = n
  PROVE  Arr(f, n, V)
BY LenProperties DEF Arr

(* Two of them with the same elements are equal. *)
LEMMA ArrEqual ==
  ASSUME NEW V, NEW n \in Nat, NEW f, NEW g, Arr(f, n, V), Arr(g, n, V),
         \A i \in 1..n : f[i] = g[i]
  PROVE  f = g
BY DEF Arr

(* The concatenation of two arrays. *)
LEMMA CatArr ==
  ASSUME NEW V, NEW m \in Nat, NEW n \in Nat, NEW f, NEW g, Arr(f, m, V), Arr(g, n, V)
  PROVE  Arr(f \o g, m + n, V) /\ Joins(f \o g, f, m, g, n)
<1>1. f \in Seq(V) /\ g \in Seq(V) /\ Len(f) = m /\ Len(g) = n BY ArrIs
<1>2. /\ f \o g \in Seq(V) /\ Len(f \o g) = m + n
      /\ \A i \in 1..(m + n) : (f \o g)[i] = IF i <= m THEN f[i] ELSE g[i - m]
  BY <1>1, ConcatProperties
<1>3. m + n \in Nat OBVIOUS
<1>4. Arr(f \o g, m + n, V) BY <1>2, <1>3, SeqArr
<1> QED BY <1>2, <1>4 DEF Joins

(* The n elements behind the first a. *)
LEMMA SubArr ==
  ASSUME NEW V, NEW s, NEW a \in Nat, NEW n \in Nat, NEW l \in Nat, Arr(s, l, V), a + n <= l
  PROVE  Arr(SubSeq(s, a + 1, a + n), n, V) /\ Copies(SubSeq(s, a + 1, a + n), s, a, n)
<1>1. \A i \in (a + 1)..(a + n) : s[i] \in V BY DEF Arr
<1> DEFINE t == SubSeq(s, a + 1, a + n)
           e == a + 1
           z == a + n
<1>2. e \in Int /\ z \in Int /\ \A i \in e..z : s[i] \in V BY <1>1
<1>3. /\ SubSeq(s, e, z) \in Seq(V) /\ Len(SubSeq(s, e, z)) = IF e <= z THEN z - e + 1 ELSE 0
      /\ \A i \in 1..(z - e + 1) : SubSeq(s, e, z)[i] = s[e + i - 1]
  <2> HIDE DEF e, z
  <2> QED BY <1>2, SubSeqProperties
<1>4. t \in Seq(V) /\ Len(t) = n BY <1>3
<1>5. ASSUME NEW i \in 1..n PROVE t[i] = s[a + i]
  <2>1. i \in 1..(z - e + 1) /\ e + i - 1 = a + i OBVIOUS
  <2> QED BY <1>3, <2>1
<1>6. Arr(t, n, V) BY <1>4, SeqArr
<1> QED BY <1>5, <1>6 DEF Copies

(* An array with one element more. *)
LEMMA AppendArr ==
  ASSUME NEW V, NEW n \in Nat, NEW f, NEW e \in V, Arr(f, n, V)
  PROVE  Arr(Append(f, e), n + 1, V) /\ Joins(Append(f, e), f, n, <<e>>, 1)
<1>1. f \in Seq(V) /\ Len(f) = n BY ArrIs
<1>2. /\ Append(f, e) \in Seq(V) /\ Len(Append(f, e)) = n + 1
      /\ \A i \in 1..n : Append(f, e)[i] = f[i]
      /\ Append(f, e)[n + 1] = e
  BY <1>1, AppendProperties
<1>3. n + 1 \in Nat OBVIOUS
<1>4. Arr(Append(f, e), n + 1, V) BY <1>2, <1>3, SeqArr
<1> QED BY <1>2, <1>4 DEF Joins

-----------------------------------------------------------------------------
(* The length field. *)

(* Shifting by one more byte. *)
LEMMA ShiftedRec ==
  ASSUME NEW v \in Nat
  PROVE  /\ Shifted(v, 0) = v
         /\ \A k \in Nat : Shifted(v, k) \in Nat /\ Shifted(v, k + 1) = Shifted(v, k) \div 256
<1> DEFINE P == CHOOSE f : f = [i \in Nat |-> IF i = 0 THEN v ELSE f[i - 1] \div 256]
           h == [i \in Nat |-> [x \in Nat |-> x \div 256]]
<1>1. PICK f \in [Nat -> Nat] : Recursion(f, v, h)
  <2>1. h \in [Nat -> [Nat -> Nat]] OBVIOUS
  <2> HIDE DEF h
  <2> QED BY <2>1, RecursionExists
<1>2. f = [i \in Nat |-> IF i = 0 THEN v ELSE f[i - 1] \div 256]
  <2>1. \A i \in Nat : i # 0 => h[i][f[i - 1]] = f[i - 1] \div 256 OBVIOUS
  <2> HIDE DEF h
  <2> QED BY <1>1, <2>1 DEF Recursion
<1>3. P = [i \in Nat |-> IF i = 0 THEN v ELSE P[i - 1] \div 256]
  BY <1>2
<1>4. \A k : Shifted(v, k) = P[k] BY DEF Shifted
<1> HIDE DEF P
<1>5. P[0] = v /\ \A k \in Nat : P[k + 1] = P[k] \div 256
  <2>1. \A k \in Nat : k + 1 \in Nat /\ k + 1 # 0 /\ (k + 1) - 1 = k OBVIOUS
  <2> QED BY <1>3, <2>1
<1>6. \A k \in Nat : P[k] \in Nat
  <2> DEFINE T == {k \in Nat : P[k] \in Nat}
  <2>1. 0 \in T BY <1>5
  <2>2. \A k \in Nat : k \in T => k + 1 \in T BY <1>5
  <2> HIDE DEF T
  <2>3. Nat \subseteq T BY <2>1, <2>2, Induction
  <2> QED BY <2>3 DEF T
<1>7. Shifted(v, 0) = v BY <1>4, <1>5
<1> QED BY <1>4, <1>5, <1>6, <1>7

(* A byte is a byte. *)
LEMMA ByteType ==
  ASSUME NEW v \in Nat, NEW k \in Nat
  PROVE  ByteAt(v, k) \in 0..255
<1>1. Shifted(v, k) \in Nat BY ShiftedRec
<1> QED BY <1>1 DEF ByteAt

(* The length has eight bytes. *)
LEMMA BigEndianType ==
  ASSUME NEW v \in Nat
  PROVE  Arr(BigEndian64(v), 8, Int) /\ \A i \in 1..8 : BigEndian64(v)[i] = ByteAt(v, 8 - i)
<1>1. ASSUME NEW i \in 1..8 PROVE ByteAt(v, 8 - i) \in Int
  <2>1. 8 - i \in Nat OBVIOUS
  <2>2. ByteAt(v, 8 - i) \in 0..255 BY <2>1, ByteType, Zenon
  <2> QED BY <2>2
<1> QED BY <1>1 DEF BigEndian64, Arr

TwoTo40 == 1099511627776

(* The byte that the code leaves out is 0 for lengths below 2^40 bits, and  *)
(* so are the ones before it.                                               *)
LEMMA LengthFieldIsBigEndian ==
  ASSUME NEW v \in Nat, v < TwoTo40
  PROVE  LengthField(v) = BigEndian64(v)
<1> DEFINE s(k) == Shifted(v, k)
<1>0. \A k \in Nat : s(k) \in Nat /\ s(k + 1) = s(k) \div 256 BY ShiftedRec
<1>1. s(0) = v BY ShiftedRec
<1> HIDE DEF s
<1>2. s(1) = v \div 256 BY <1>0, <1>1
<1>3. s(1) \in Nat /\ s(1) < 4294967296 BY <1>2 DEF TwoTo40
<1>4. s(2) \in Nat /\ s(2) < 16777216
  <2>1. s(2) = s(1) \div 256 BY <1>0
  <2> QED BY <1>3, <2>1
<1>5. s(3) \in Nat /\ s(3) < 65536
  <2>1. s(3) = s(2) \div 256 BY <1>0
  <2> QED BY <1>4, <2>1
<1>6. s(4) \in Nat /\ s(4) < 256
  <2>1. s(4) = s(3) \div 256 BY <1>0
  <2> QED BY <1>5, <2>1
<1>7. s(5) = 0
  <2>1. s(5) = s(4) \div 256 BY <1>0
  <2> QED BY <1>6, <2>1
<1>8. s(6) = 0
  <2>1. s(6) = s(5) \div 256 BY <1>0
  <2> QED BY <1>7, <2>1
<1>9. s(7) = 0
  <2>1. s(7) = s(6) \div 256 BY <1>0
  <2> QED BY <1>8, <2>1
<1>10. ByteAt(v, 5) = 0 /\ ByteAt(v, 6) = 0 /\ ByteAt(v, 7) = 0
  BY <1>7, <1>8, <1>9 DEF ByteAt, s
<1>11. BigEndian64(v) = <<ByteAt(v, 7), ByteAt(v, 6), ByteAt(v, 5), ByteAt(v, 4),
                          ByteAt(v, 3), ByteAt(v, 2), ByteAt(v, 1), ByteAt(v, 0)>>
  BY DEF BigEndian64
<1> QED BY <1>10, <1>11 DEF LengthField

-----------------------------------------------------------------------------
(* The padded message, byte by byte. *)

Blocks(m) == IF Len(m) % 64 < 56 THEN Len(m) \div 64 + 1 ELSE Len(m) \div 64 + 2

PadByte(m, k) ==
  IF k <= Len(m) THEN m[k]
  ELSE IF k = Len(m) + 1 THEN 128
  ELSE IF k <= 64 * Blocks(m) - 8 THEN 0
  ELSE ByteAt(8 * Len(m), 64 * Blocks(m) - k)

(* Byte j of block i. *)
BlockByte(m, i, j) == PadByte(m, 64 * (i - 1) + j)

PadBlocks(m) == [i \in 1..Blocks(m) |-> [j \in 1..64 |-> BlockByte(m, i, j)]]

Block == [1..64 -> Int]

(* How long the zeros are. *)
LEMMA PadLength ==
  ASSUME NEW n \in Nat
  PROVE  /\ (64 - ((n + 9) % 64)) % 64 \in Nat
         /\ n + 1 + ((64 - ((n + 9) % 64)) % 64) + 8
              = 64 * (IF n % 64 < 56 THEN n \div 64 + 1 ELSE n \div 64 + 2)
<1> DEFINE q == n \div 64
           r == n % 64
           x == (n + 9) % 64
<1>1. q \in Nat /\ r \in 0..63 /\ n = 64 * q + r OBVIOUS
<1>5. x \in 0..63 OBVIOUS
<1> HIDE DEF q, r
<1>6. x = IF r < 55 THEN r + 9 ELSE r - 55
  <2>2. CASE r < 55
    <3>1. n + 9 = 64 * q + (r + 9) /\ r + 9 \in 0..63 BY <1>1, <2>2
    <3> QED BY <1>1, <3>1, <2>2
  <2>3. CASE r >= 55
    <3>1. n + 9 = 64 * (q + 1) + (r - 55) /\ r - 55 \in 0..63 BY <1>1, <2>3
    <3> QED BY <1>1, <3>1, <2>3
  <2> QED BY <1>1, <2>2, <2>3
<1> HIDE DEF x
<1> DEFINE y == (64 - x) % 64
<1>7. y = IF x = 0 THEN 0 ELSE 64 - x BY <1>5
<1> HIDE DEF y
<1>8. y \in Nat /\ n + 1 + y + 8 = 64 * (IF r < 56 THEN q + 1 ELSE q + 2)
  BY <1>1, <1>5, <1>6, <1>7
<1> QED BY <1>8 DEF x, y, q, r

(* The padded message, place by place. *)
LEMMA PaddedIs ==
  ASSUME NEW m \in Seq(Int)
  PROVE  /\ Blocks(m) \in Nat
         /\ Arr(PaddedMessage(m), 64 * Blocks(m), Int)
         /\ \A k \in 1..(64 * Blocks(m)) : PaddedMessage(m)[k] = PadByte(m, k)
<1> DEFINE n == Len(m)
           pad == (64 - ((n + 9) % 64)) % 64
           nb == Blocks(m)
           e == BigEndian64(8 * n)
           o == <<128>>
           z == Zeros(pad)
           a == m \o o
           b == a \o z
           c == b \o e
<1>1. n \in Nat /\ Arr(m, n, Int) BY SeqArr, LenProperties
<1>2. nb \in Nat /\ pad \in Nat /\ n + 1 + pad + 8 = 64 * nb
  <2>2. nb = IF n % 64 < 56 THEN n \div 64 + 1 ELSE n \div 64 + 2 BY DEF Blocks
  <2> HIDE DEF n, nb
  <2>1. /\ pad \in Nat
        /\ n + 1 + pad + 8 = 64 * (IF n % 64 < 56 THEN n \div 64 + 1 ELSE n \div 64 + 2)
    BY <1>1, PadLength
  <2>3. nb \in Nat BY <1>1, <2>2
  <2> QED BY <2>1, <2>2, <2>3
<1>3. PaddedMessage(m) = c BY DEF PaddedMessage
<1>4. Arr(e, 8, Int) /\ \A i \in 1..8 : e[i] = ByteAt(8 * n, 8 - i)
  <2>1. 8 * n \in Nat BY <1>1
  <2> HIDE DEF n
  <2> QED BY <2>1, BigEndianType
<1>5. Arr(z, pad, Int) /\ \A i \in 1..pad : z[i] = 0 BY DEF Zeros, Arr
<1>6. Arr(o, 1, Int) /\ o[1] = 128 BY DEF Arr
<1>a. 1 \in Nat /\ 8 \in Nat OBVIOUS
<1> HIDE DEF n, pad, e, nb, o, z
<1>b. n + 1 \in Nat /\ (n + 1) + pad \in Nat BY <1>1, <1>2
<1>7. Arr(a, n + 1, Int) /\ Joins(a, m, n, o, 1)
  <2>1. 1 \in Nat /\ Arr(o, 1, Int) BY <1>6
  <2> QED BY <1>1, <2>1, CatArr, Zenon
<1> HIDE DEF a
<1>8. a[n + 1] = 128 /\ \A i \in 1..n : a[i] = m[i] BY <1>1, <1>6, <1>7 DEF Joins
<1>9. Arr(b, (n + 1) + pad, Int) /\ Joins(b, a, n + 1, z, pad)
  BY <1>2, <1>5, <1>7, <1>b, CatArr, Zenon
<1> HIDE DEF b
<1>10. Arr(c, ((n + 1) + pad) + 8, Int) /\ Joins(c, b, (n + 1) + pad, e, 8)
  BY <1>4, <1>9, <1>b, <1>a, CatArr, Zenon
<1> HIDE DEF c
<1>11. Arr(c, 64 * nb, Int)
  <2>1. ((n + 1) + pad) + 8 = 64 * nb BY <1>1, <1>2
  <2> QED BY <1>10, <2>1, Zenon
<1>12. ASSUME NEW k \in 1..(64 * nb) PROVE c[k] = PadByte(m, k)
  <2>0. PadByte(m, k) = IF k <= n THEN m[k] ELSE IF k = n + 1 THEN 128
                        ELSE IF k <= 64 * nb - 8 THEN 0 ELSE ByteAt(8 * n, 64 * nb - k)
    BY DEF PadByte, n, nb
  <2>1. CASE k <= n
    <3>1. k \in 1..n /\ k \in 1..(n + 1) /\ k \in 1..((n + 1) + pad) BY <1>1, <1>2, <2>1
    <3>2. c[k] = m[k] BY <1>8, <1>9, <1>10, <3>1, ZenonT(60) DEF Joins
    <3> QED BY <2>0, <2>1, <3>2
  <2>2. CASE k = n + 1
    <3>1. k \in 1..(n + 1) /\ k \in 1..((n + 1) + pad) /\ ~(k <= n) BY <1>1, <1>2, <2>2
    <3>2. c[k] = 128 BY <1>8, <1>9, <1>10, <3>1, <2>2, ZenonT(60) DEF Joins
    <3> QED BY <2>0, <2>2, <3>1, <3>2
  <2>3. CASE k > n + 1 /\ k <= 64 * nb - 8
    <3>1. /\ k - (n + 1) \in 1..pad /\ (n + 1) + (k - (n + 1)) = k /\ k \in 1..((n + 1) + pad)
          /\ ~(k <= n) /\ k # n + 1
      BY <1>1, <1>2, <2>3
    <3>2. b[(n + 1) + (k - (n + 1))] = 0 BY <1>5, <1>9, <3>1, Zenon DEF Joins
    <3>3. c[k] = 0 BY <1>10, <3>1, <3>2 DEF Joins
    <3> QED BY <2>0, <2>3, <3>1, <3>3
  <2>4. CASE k > n + 1 /\ k > 64 * nb - 8
    <3> DEFINE i == k - ((n + 1) + pad)
    <3>1. /\ i \in 1..8 /\ ((n + 1) + pad) + i = k /\ 8 - i = 64 * nb - k
          /\ ~(k <= n) /\ k # n + 1 /\ ~(k <= 64 * nb - 8)
      BY <1>1, <1>2, <2>4
    <3> HIDE DEF i
    <3>2. c[((n + 1) + pad) + i] = ByteAt(8 * n, 8 - i) BY <1>4, <1>10, <3>1, Zenon DEF Joins
    <3> QED BY <2>0, <3>1, <3>2, Zenon
  <2> QED BY <1>1, <1>2, <2>1, <2>2, <2>3, <2>4
<1> QED BY <1>2, <1>3, <1>11, <1>12 DEF nb

(* The standard's blocks. *)
LEMMA ReferenceIs ==
  ASSUME NEW m \in Seq(Int)
  PROVE  Reference(m) = PadBlocks(m)
<1> DEFINE p == PaddedMessage(m)
           nb == Blocks(m)
<1>1. nb \in Nat /\ Arr(p, 64 * nb, Int) /\ \A k \in 1..(64 * nb) : p[k] = PadByte(m, k)
  BY PaddedIs
<1> HIDE DEF nb, p
<1>a. 64 * nb \in Nat BY <1>1
<1>2. Len(p) = 64 * nb /\ p \in [1..(64 * nb) -> Int] BY <1>1, <1>a, ArrIs, ZenonT(60)
<1>3. Len(p) \div 64 = nb BY <1>1, <1>2
<1>4. ASSUME NEW i \in 1..nb
      PROVE  SubSeq(p, 64 * (i - 1) + 1, 64 * i) = [j \in 1..64 |-> PadByte(m, 64 * (i - 1) + j)]
  <2> DEFINE a == 64 * (i - 1)
  <2>1. a \in Nat /\ a + 64 = 64 * i /\ \A j \in 1..64 : a + j \in 1..(64 * nb) BY <1>1
  <2>a. 64 \in Nat /\ a + 64 <= 64 * nb BY <1>1
  <2> HIDE DEF a
  <2>b. \A j \in 1..64 : p[a + j] = PadByte(m, a + j) BY <1>1, <2>1, Zenon
  <2> DEFINE t == SubSeq(p, a + 1, a + 64)
  <2>3. Arr(t, 64, Int) /\ Copies(t, p, a, 64)
    BY <1>1, <1>a, <2>1, <2>a, SubArr, Zenon
  <2> HIDE DEF t
  <2>4. t = [j \in 1..64 |-> PadByte(m, a + j)] BY <2>b, <2>3 DEF Arr, Copies
  <2>5. SubSeq(p, a + 1, 64 * i) = [j \in 1..64 |-> PadByte(m, a + j)] BY <2>1, <2>4 DEF t
  <2> QED BY <2>5 DEF a
<1>5. Reference(m) = [i \in 1..nb |-> SubSeq(p, 64 * (i - 1) + 1, 64 * i)]
  BY <1>3 DEF Reference, p
<1> QED BY <1>4, <1>5 DEF PadBlocks, BlockByte, nb

-----------------------------------------------------------------------------
(* The end of a message in its last blocks. *)

(* st has absorbed the first q blocks of m. *)
Whole(st, m, q) ==
  /\ Arr(st, q, Block)
  /\ \A i \in 1..q : \A j \in 1..64 : st[i][j] = m[64 * (i - 1) + j]

(* m is q blocks and r bytes. *)
Splits(m, q, r) == q \in Nat /\ r \in 0..63 /\ Len(m) = 64 * q + r

(* How many blocks the padded message has. *)
LEMMA BlockCount ==
  ASSUME NEW m, NEW q, NEW r, Splits(m, q, r)
  PROVE  Blocks(m) = (IF r < 56 THEN q + 1 ELSE q + 2) /\ Blocks(m) \in Nat
<1>0. q \in Nat /\ r \in 0..63 /\ Len(m) = 64 * q + r BY DEF Splits
<1>1. Len(m) % 64 = r /\ Len(m) \div 64 = q BY <1>0
<1>2. Blocks(m) = IF r < 56 THEN q + 1 ELSE q + 2 BY <1>1 DEF Blocks
<1> QED BY <1>0, <1>2

(* b is the 56 bytes of last and the length v. *)
Ends(b, last, v) ==
  /\ \A j \in 1..56 : b[j] = last[j]
  /\ \A j \in 57..64 : b[j] = ByteAt(v, 64 - j)

(* The last of the padded blocks. *)
LEMMA LastBlock ==
  ASSUME NEW v \in Nat, v < TwoTo40, NEW last, Arr(last, 56, Int)
  PROVE  last \o LengthField(v) \in Block /\ Ends(last \o LengthField(v), last, v)
<1> DEFINE e == BigEndian64(v)
           b == last \o e
<1>1. LengthField(v) = e BY LengthFieldIsBigEndian
<1>2. Arr(e, 8, Int) /\ \A i \in 1..8 : e[i] = ByteAt(v, 8 - i) BY BigEndianType
<1> HIDE DEF e
<1>3. 56 \in Nat /\ 8 \in Nat OBVIOUS
<1>4. Arr(b, 56 + 8, Int) /\ Joins(b, last, 56, e, 8) BY <1>2, <1>3, CatArr, Zenon
<1> HIDE DEF b
<1>5. b \in Block BY <1>4 DEF Arr, Block
<1>6. ASSUME NEW j \in 57..64 PROVE b[j] = ByteAt(v, 64 - j)
  <2>1. j - 56 \in 1..8 /\ 56 + (j - 56) = j /\ 8 - (j - 56) = 64 - j OBVIOUS
  <2>2. b[56 + (j - 56)] = e[j - 56] BY <1>4, <2>1 DEF Joins
  <2>3. e[j - 56] = ByteAt(v, 8 - (j - 56)) BY <1>2, <2>1, Zenon
  <2> QED BY <2>1, <2>2, <2>3
<1>7. \A j \in 1..56 : b[j] = last[j] BY <1>4 DEF Joins
<1> QED BY <1>1, <1>5, <1>6, <1>7 DEF b, Ends

(* The first l bytes of b: the rest of m behind q blocks, 0x80 and zeros. *)
Rest(b, m, q, r, l) ==
  \A j \in 1..l : b[j] = IF j <= r THEN m[64 * q + j] ELSE IF j = r + 1 THEN 128 ELSE 0

(* The bytes of the padded message, by their place in a block. *)
LEMMA ByteBefore ==
  ASSUME NEW m, NEW q, NEW r, Splits(m, q, r), NEW i \in 1..q, NEW j \in 1..64
  PROVE  BlockByte(m, i, j) = m[64 * (i - 1) + j]
<1>1. 64 * (i - 1) + j <= Len(m) BY DEF Splits
<1> QED BY <1>1 DEF BlockByte, PadByte

(* The bytes behind the message when its padding fits one block. *)
LEMMA ByteOne ==
  ASSUME NEW m, NEW q, NEW r, Splits(m, q, r), r < 56, NEW j \in 1..64
  PROVE  BlockByte(m, q + 1, j) = IF j <= r THEN m[64 * q + j] ELSE IF j = r + 1 THEN 128
                                  ELSE IF j <= 56 THEN 0 ELSE ByteAt(8 * Len(m), 64 - j)
<1> DEFINE k == 64 * ((q + 1) - 1) + j
<1>0. q \in Nat /\ r \in 0..63 /\ Len(m) = 64 * q + r BY DEF Splits
<1>1. Blocks(m) = q + 1 BY BlockCount
<1>2. /\ k <= Len(m) <=> j <= r
      /\ k = Len(m) + 1 <=> j = r + 1
      /\ k <= 64 * (q + 1) - 8 <=> j <= 56
      /\ 64 * (q + 1) - k = 64 - j /\ k = 64 * q + j
  BY <1>0
<1>3. BlockByte(m, q + 1, j) = PadByte(m, k) BY DEF BlockByte
<1> HIDE DEF k
<1> QED BY <1>1, <1>2, <1>3 DEF PadByte

(* The bytes behind the message when its padding takes two. *)
LEMMA ByteTwo ==
  ASSUME NEW m, NEW q, NEW r, Splits(m, q, r), r >= 56, NEW j \in 1..64
  PROVE  /\ BlockByte(m, q + 1, j) = IF j <= r THEN m[64 * q + j]
                                     ELSE IF j = r + 1 THEN 128 ELSE 0
         /\ BlockByte(m, q + 2, j) = IF j <= 56 THEN 0 ELSE ByteAt(8 * Len(m), 64 - j)
<1> DEFINE k == 64 * ((q + 1) - 1) + j
           l == 64 * ((q + 2) - 1) + j
<1>0. q \in Nat /\ r \in 0..63 /\ Len(m) = 64 * q + r BY DEF Splits
<1>1. Blocks(m) = q + 2 BY <1>0, BlockCount
<1>2. /\ k <= Len(m) <=> j <= r
      /\ k = Len(m) + 1 <=> j = r + 1
      /\ k <= 64 * (q + 2) - 8 /\ k = 64 * q + j
  BY <1>0
<1>4. /\ ~(l <= Len(m)) /\ l # Len(m) + 1
      /\ l <= 64 * (q + 2) - 8 <=> j <= 56
      /\ 64 * (q + 2) - l = 64 - j
  BY <1>0
<1>3. BlockByte(m, q + 1, j) = PadByte(m, k) /\ BlockByte(m, q + 2, j) = PadByte(m, l)
  BY DEF BlockByte
<1> HIDE DEF k, l
<1> QED BY <1>1, <1>2, <1>3, <1>4 DEF PadByte

(* Blocks with the right bytes are the padded message's. *)
LEMMA SameBlocks ==
  ASSUME NEW m, NEW n \in Nat, Blocks(m) = n, NEW s, Arr(s, n, Block),
         \A i \in 1..n : \A j \in 1..64 : s[i][j] = BlockByte(m, i, j)
  PROVE  s = PadBlocks(m)
<1>1. ASSUME NEW i \in 1..n PROVE s[i] = [j \in 1..64 |-> BlockByte(m, i, j)]
  <2>1. s[i] \in Block BY DEF Arr
  <2> QED BY <2>1 DEF Block
<1> QED BY <1>1 DEF PadBlocks, Arr

(* The two ways to end: a block with the rest, 0x80 and the length ... *)
LEMMA EndInOne ==
  ASSUME NEW m, NEW q, NEW r, Splits(m, q, r), r < 56, 8 * Len(m) < TwoTo40,
         NEW st, Whole(st, m, q), NEW last, Arr(last, 56, Int), Rest(last, m, q, r, 56)
  PROVE  Append(st, last \o LengthField(8 * Len(m))) = PadBlocks(m)
<1> DEFINE v == 8 * Len(m)
           b == last \o LengthField(v)
           s == Append(st, b)
<1>0. q \in Nat /\ r \in 0..63 /\ Len(m) = 64 * q + r BY DEF Splits
<1>1. v \in Nat /\ v < TwoTo40 BY <1>0
<1>2. b \in Block /\ Ends(b, last, v)
  <2> HIDE DEF v
  <2> QED BY <1>1, LastBlock, Zenon
<1>3. ASSUME NEW j \in 1..64 PROVE b[j] = BlockByte(m, q + 1, j)
  <2>1. BlockByte(m, q + 1, j) = IF j <= r THEN m[64 * q + j] ELSE IF j = r + 1 THEN 128
                      ELSE IF j <= 56 THEN 0 ELSE ByteAt(v, 64 - j)
    BY ByteOne
  <2> HIDE DEF b, v
  <2>2. CASE j \in 1..56
    <3>1. b[j] = last[j] BY <1>2, <2>2, Zenon DEF Ends
    <3>3. j <= 56 BY <2>2
    <3>2. last[j] = IF j <= r THEN m[64 * q + j] ELSE IF j = r + 1 THEN 128 ELSE 0
      BY <2>2 DEF Rest
    <3> QED BY <2>1, <3>1, <3>2, <3>3
  <2>3. CASE j \in 57..64
    <3>1. ~(j <= r) /\ j # r + 1 /\ ~(j <= 56) BY <1>0, <2>3
    <3>2. b[j] = ByteAt(v, 64 - j) BY <1>2, <2>3, Zenon DEF Ends
    <3> QED BY <2>1, <3>1, <3>2
  <2> QED BY <2>2, <2>3
<1> HIDE DEF b
<1>5. Arr(s, q + 1, Block) /\ Joins(s, st, q, <<b>>, 1)
  <2>1. Arr(st, q, Block) BY DEF Whole
  <2> QED BY <1>0, <1>2, <2>1, AppendArr, Zenon
<1> HIDE DEF s
<1>6. s[q + 1] = b /\ \A i \in 1..q : s[i] = st[i] BY <1>0, <1>5 DEF Joins
<1>7. ASSUME NEW i \in 1..(q + 1), NEW j \in 1..64 PROVE s[i][j] = BlockByte(m, i, j)
  <2>1. CASE i = q + 1 BY <1>3, <1>6, <2>1, Zenon
  <2>2. CASE i \in 1..q
    <3>1. s[i][j] = m[64 * (i - 1) + j] BY <1>6, <2>2, ZenonT(60) DEF Whole
    <3>2. BlockByte(m, i, j) = m[64 * (i - 1) + j] BY <1>0, <2>2, ByteBefore
    <3> QED BY <3>1, <3>2
  <2> QED BY <1>0, <2>1, <2>2
<1>8. Blocks(m) = q + 1 /\ q + 1 \in Nat BY <1>0, BlockCount
<1>9. s = PadBlocks(m) BY <1>5, <1>7, <1>8, SameBlocks
<1> QED BY <1>9 DEF s, b

(* ... or a block with the rest and 0x80, and one with zeros and the length. *)
LEMMA EndInTwo ==
  ASSUME NEW m, NEW q, NEW r, Splits(m, q, r), r >= 56, 8 * Len(m) < TwoTo40,
         NEW st, Whole(st, m, q), NEW full \in Block, Rest(full, m, q, r, 64)
  PROVE  Append(Append(st, full), Zeros(56) \o LengthField(8 * Len(m))) = PadBlocks(m)
<1> DEFINE v == 8 * Len(m)
           last == Zeros(56)
           b == last \o LengthField(v)
           u == Append(st, full)
           s == Append(u, b)
<1>0. q \in Nat /\ q + 1 \in Nat /\ r \in 0..63 /\ Len(m) = 64 * q + r BY DEF Splits
<1>1. v \in Nat /\ v < TwoTo40 BY <1>0
<1>a. Arr(last, 56, Int) /\ \A j \in 1..56 : last[j] = 0 BY DEF Zeros, Arr
<1>2. b \in Block /\ Ends(b, last, v)
  <2> HIDE DEF v, last
  <2> QED BY <1>1, <1>a, LastBlock, Zenon
<1>3. ASSUME NEW j \in 1..64 PROVE b[j] = BlockByte(m, q + 2, j) /\ full[j] = BlockByte(m, q + 1, j)
  <2>1. /\ BlockByte(m, q + 1, j) = IF j <= r THEN m[64 * q + j] ELSE IF j = r + 1 THEN 128 ELSE 0
        /\ BlockByte(m, q + 2, j) = IF j <= 56 THEN 0 ELSE ByteAt(v, 64 - j)
    BY ByteTwo
  <2> HIDE DEF b, v, last
  <2>4. full[j] = BlockByte(m, q + 1, j)
    <3>1. full[j] = IF j <= r THEN m[64 * q + j] ELSE IF j = r + 1 THEN 128 ELSE 0
      BY Zenon DEF Rest
    <3> QED BY <2>1, <3>1
  <2>2. CASE j \in 1..56
    <3>1. b[j] = last[j] BY <1>2, <2>2, Zenon DEF Ends
    <3>3. j <= 56 BY <2>2
    <3> QED BY <1>a, <2>1, <2>2, <2>4, <3>1, <3>3
  <2>3. CASE j \in 57..64
    <3>1. ~(j <= 56) BY <1>0, <2>3
    <3>2. b[j] = ByteAt(v, 64 - j) BY <1>2, <2>3, Zenon DEF Ends
    <3> QED BY <2>1, <2>4, <3>1, <3>2
  <2> QED BY <2>2, <2>3
<1> HIDE DEF b
<1>5. Arr(u, q + 1, Block) /\ Joins(u, st, q, <<full>>, 1)
  <2>1. Arr(st, q, Block) BY DEF Whole
  <2> QED BY <1>0, <2>1, AppendArr, Zenon
<1> HIDE DEF u
<1>6. u[q + 1] = full /\ \A i \in 1..q : u[i] = st[i] BY <1>0, <1>5 DEF Joins
<1>b. Arr(s, (q + 1) + 1, Block) /\ Joins(s, u, q + 1, <<b>>, 1)
  BY <1>0, <1>2, <1>5, AppendArr, Zenon
<1> HIDE DEF s
<1>c. (q + 1) + 1 = q + 2 /\ q + 2 \in Nat BY <1>0
<1>d. Arr(s, q + 2, Block) BY <1>b, <1>c
<1>e. s[q + 2] = b /\ \A i \in 1..(q + 1) : s[i] = u[i] BY <1>0, <1>b, <1>c DEF Joins
<1>7. ASSUME NEW i \in 1..(q + 2), NEW j \in 1..64 PROVE s[i][j] = BlockByte(m, i, j)
  <2>1. CASE i = q + 2 BY <1>3, <1>e, <2>1, Zenon
  <2>3. CASE i = q + 1
    <3>1. s[i] = u[i] BY <1>e, <2>3, <1>0
    <3> QED BY <1>3, <1>6, <2>3, <3>1, Zenon
  <2>2. CASE i \in 1..q
    <3>3. s[i] = st[i] BY <1>0, <1>6, <1>e, <2>2
    <3>1. s[i][j] = m[64 * (i - 1) + j] BY <2>2, <3>3, Zenon DEF Whole
    <3>2. BlockByte(m, i, j) = m[64 * (i - 1) + j] BY <1>0, <2>2, ByteBefore
    <3> QED BY <3>1, <3>2
  <2> QED BY <1>0, <2>1, <2>2, <2>3
<1>8. Blocks(m) = q + 2 BY <1>0, BlockCount
<1>9. s = PadBlocks(m) BY <1>c, <1>d, <1>7, <1>8, SameBlocks
<1> QED BY <1>9 DEF s, u, b

-----------------------------------------------------------------------------
(* What sha256_update has compressed and what it keeps. *)

(* The context after q blocks and r bytes: bitlen counts the blocks, state    *)
(* has absorbed them and data begins with the bytes that are left.  Behind    *)
(* them data holds anything.                                                  *)
CtxOf(q, st, data, r) == [bitlen |-> 512 * q, state |-> st, data |-> data, datalen |-> r]

Fed(m, q, st, data, r) ==
  Splits(m, q, r) /\ Whole(st, m, q) /\ data \in Block /\ Copies(data, m, 64 * q, r)

ShaInv ==
  /\ msg \in Seq(Int) /\ Len(msg) <= MaxLen
  /\ \E q, st, data, r : ctx = CtxOf(q, st, data, r) /\ Fed(msg, q, st, data, r)

(* A block more. *)
LEMMA WholeMore ==
  ASSUME NEW m, NEW q \in Nat, NEW st, Whole(st, m, q), NEW b \in Block, Copies(b, m, 64 * q, 64)
  PROVE  Whole(Append(st, b), m, q + 1)
<1> DEFINE s == Append(st, b)
<1>2. Arr(s, q + 1, Block) /\ Joins(s, st, q, <<b>>, 1)
  BY AppendArr, Zenon DEF Whole
<1> HIDE DEF s
<1>3. s[q + 1] = b /\ \A i \in 1..q : s[i] = st[i] BY <1>2 DEF Joins
<1>4. ASSUME NEW i \in 1..(q + 1), NEW j \in 1..64 PROVE s[i][j] = m[64 * (i - 1) + j]
  <2>1. CASE i = q + 1
    <3>1. 64 * (i - 1) + j = 64 * q + j BY <2>1
    <3>2. b[j] = m[64 * q + j] BY Zenon DEF Copies
    <3> QED BY <1>3, <2>1, <3>1, <3>2
  <2>2. CASE i \in 1..q
    <3>1. s[i] = st[i] BY <1>3, <2>2
    <3> QED BY <2>2, <3>1, Zenon DEF Whole
  <2> QED BY <2>1, <2>2
<1>5. Whole(s, m, q + 1) BY <1>2, <1>4 DEF Whole
<1> QED BY <1>5 DEF s

(* A byte more leaves what was fed before. *)
LEMMA OneByteMore ==
  ASSUME NEW m \in Seq(Int), NEW b \in Int
  PROVE  /\ Append(m, b) \in Seq(Int) /\ Len(Append(m, b)) = Len(m) + 1
         /\ Append(m, b)[Len(m) + 1] = b /\ Len(m) \in Nat
         /\ \A k \in 1..Len(m) : Append(m, b)[k] = m[k]
BY AppendProperties, LenProperties

(* One turn of the loop of sha256_update keeps what was fed. *)
LEMMA UpdateFed ==
  ASSUME NEW m \in Seq(Int), NEW b \in Int, NEW q, NEW st, NEW data, NEW r,
         Fed(m, q, st, data, r),
         NEW data2, data2 = [data EXCEPT ![r + 1] = b]
  PROVE  /\ r + 1 = 64 => Fed(Append(m, b), q + 1, Append(st, data2), data2, 0)
         /\ r + 1 # 64 => Fed(Append(m, b), q, st, data2, r + 1)
<1> DEFINE M == Append(m, b)
           n == Len(m)
<1>1. /\ M \in Seq(Int) /\ Len(M) = n + 1 /\ M[n + 1] = b
      /\ n \in Nat /\ \A k \in 1..n : M[k] = m[k]
  BY OneByteMore
<1>2. q \in Nat /\ r \in 0..63 /\ n = 64 * q + r BY DEF Fed, Splits
<1>3. data \in Block /\ Arr(st, q, Block) BY DEF Fed, Whole
<1> HIDE DEF M, n
<1>4. ASSUME NEW i \in 1..q, NEW j \in 1..64 PROVE st[i][j] = M[64 * (i - 1) + j]
  <2>1. 64 * (i - 1) + j \in 1..n BY <1>2
  <2>2. st[i][j] = m[64 * (i - 1) + j] BY Zenon DEF Fed, Whole
  <2> QED BY <1>1, <2>1, <2>2, Zenon
<1>5. Whole(st, M, q) BY <1>3, <1>4 DEF Whole
<1>6. data2 \in Block BY <1>2, <1>3 DEF Block
<1>7. ASSUME NEW j \in 1..(r + 1) PROVE data2[j] = M[64 * q + j]
  <2>1. j \in 1..64 /\ 64 * q + j \in 1..(n + 1) BY <1>2
  <2>2. CASE j = r + 1
    <3>1. 64 * q + j = n + 1 /\ data2[j] = b BY <1>2, <1>3, <2>1, <2>2 DEF Block
    <3> QED BY <1>1, <3>1
  <2>3. CASE j \in 1..r
    <3>1. 64 * q + j \in 1..n /\ j # r + 1 BY <1>2, <2>3
    <3>2. data2[j] = data[j] BY <1>2, <1>3, <2>1, <3>1 DEF Block
    <3>3. data[j] = m[64 * q + j] BY <2>3, Zenon DEF Fed, Copies
    <3>4. M[64 * q + j] = m[64 * q + j] BY <1>1, <3>1, Zenon
    <3> QED BY <3>2, <3>3, <3>4
  <2> QED BY <1>2, <2>2, <2>3
<1>8. ASSUME r + 1 = 64 PROVE Fed(M, q + 1, Append(st, data2), data2, 0)
  <2>1. Splits(M, q + 1, 0)
    <3>1. n + 1 = 64 * (q + 1) + 0 /\ q + 1 \in Nat /\ 0 \in 0..63 BY <1>2, <1>8
    <3> QED BY <1>1, <3>1 DEF Splits
  <2>2. Copies(data2, M, 64 * q, 64) BY <1>7, <1>8 DEF Copies
  <2>5. Whole(Append(st, data2), M, q + 1) BY <1>2, <1>5, <1>6, <2>2, WholeMore, Zenon
  <2>6. Copies(data2, M, 64 * (q + 1), 0) BY DEF Copies
  <2> QED BY <1>6, <2>1, <2>5, <2>6 DEF Fed
<1>9. ASSUME r + 1 # 64 PROVE Fed(M, q, st, data2, r + 1)
  <2>1. Splits(M, q, r + 1)
    <3>1. n + 1 = 64 * q + (r + 1) /\ r + 1 \in 0..63 BY <1>2, <1>9
    <3> QED BY <1>1, <1>2, <3>1 DEF Splits
  <2>2. Copies(data2, M, 64 * q, r + 1) BY <1>7 DEF Copies
  <2> QED BY <1>5, <1>6, <2>1, <2>2 DEF Fed
<1> QED BY <1>8, <1>9 DEF M

(* What that turn makes of the context. *)
LEMMA UpdateCtx ==
  ASSUME NEW q, NEW st, NEW data, NEW r, NEW b
  PROVE  LET data2 == [data EXCEPT ![r + 1] = b]
         IN  UpdateByte(CtxOf(q, st, data, r), b)
               = IF r + 1 = 64
                 THEN [bitlen |-> 512 * q + 512, state |-> Append(st, data2),
                       data |-> data2, datalen |-> 0]
                 ELSE CtxOf(q, st, data2, r + 1)
<1> DEFINE c == CtxOf(q, st, data, r)
           data2 == [data EXCEPT ![r + 1] = b]
<1>1. c.bitlen = 512 * q /\ c.state = st /\ c.data = data /\ c.datalen = r BY DEF CtxOf
<1> HIDE DEF c
<1> QED BY <1>1 DEF UpdateByte, transform, c, CtxOf

(* A fresh context has been fed nothing. *)
LEMMA ShaInitInv == ShaInit => ShaInv
<1> SUFFICES ASSUME ShaInit PROVE ShaInv OBVIOUS
<1> DEFINE d == [i \in 1..64 |-> Junk]
<1>1. msg = <<>> /\ ctx = sha256_init BY DEF ShaInit
<1>2. msg \in Seq(Int) /\ Len(msg) = 0 BY <1>1
<1>3. Splits(msg, 0, 0) BY <1>2 DEF Splits
<1>4. Whole(<<>>, msg, 0) BY DEF Whole, Arr
<1>5. d \in Block BY DEF Block, Junk
<1>6. Copies(d, msg, 64 * 0, 0) BY DEF Copies
<1>7. Fed(msg, 0, <<>>, d, 0) BY <1>3, <1>4, <1>5, <1>6 DEF Fed
<1>8. ctx = CtxOf(0, <<>>, d, 0)
  BY <1>1 DEF CtxOf, sha256_init, IV
<1> QED BY <1>2, <1>7, <1>8, ShaAssumption DEF ShaInv

(* sha256_update keeps the invariant. *)
LEMMA ShaUpdateInv == ShaInv /\ sha256_update => ShaInv'
<1> SUFFICES ASSUME ShaInv, sha256_update PROVE ShaInv' OBVIOUS
<1> DEFINE b == Len(msg) + 1
<1>1. msg \in Seq(Int) /\ Len(msg) \in Nat /\ b \in Int BY LenProperties DEF ShaInv
<1>2. Len(msg) < MaxLen /\ msg' = Append(msg, b) /\ ctx' = UpdateByte(ctx, b) BY DEF sha256_update
<1> HIDE DEF b
<1>3. PICK q, st, data, r : ctx = CtxOf(q, st, data, r) /\ Fed(msg, q, st, data, r) BY DEF ShaInv
<1> DEFINE data2 == [data EXCEPT ![r + 1] = b]
<1>4. q \in Nat BY <1>3 DEF Fed, Splits
<1>5. ctx' = IF r + 1 = 64
             THEN [bitlen |-> 512 * q + 512, state |-> Append(st, data2),
                   data |-> data2, datalen |-> 0]
             ELSE CtxOf(q, st, data2, r + 1)
  BY <1>2, <1>3, UpdateCtx
<1>6. /\ r + 1 = 64 => Fed(msg', q + 1, Append(st, data2), data2, 0)
      /\ r + 1 # 64 => Fed(msg', q, st, data2, r + 1)
  BY <1>1, <1>2, <1>3, UpdateFed
<1>7. msg' \in Seq(Int) /\ Len(msg') <= MaxLen
  BY <1>1, <1>2, OneByteMore, ShaAssumption
<1> HIDE DEF data2
<1>8. \E Q, S, D, R : ctx' = CtxOf(Q, S, D, R) /\ Fed(msg', Q, S, D, R)
  <2>1. CASE r + 1 = 64
    <3>1. 512 * q + 512 = 512 * (q + 1) BY <1>4
    <3>2. ctx' = CtxOf(q + 1, Append(st, data2), data2, 0) BY <1>5, <2>1, <3>1 DEF CtxOf
    <3> QED BY <1>6, <2>1, <3>2
  <2>2. CASE r + 1 # 64
    <3>1. ctx' = CtxOf(q, st, data2, r + 1) BY <1>5, <2>2
    <3> QED BY <1>6, <2>2, <3>1
  <2> QED BY <2>1, <2>2
<1> QED BY <1>7, <1>8 DEF ShaInv

-----------------------------------------------------------------------------
(* sha256_final, and the parts of a message behind its first block. *)

(* sha256_final ends the message as the standard does. *)
LEMMA FinalIs ==
  ASSUME NEW m, NEW q, NEW st, NEW data, NEW r, Fed(m, q, st, data, r), 8 * Len(m) < TwoTo40
  PROVE  sha256_final(CtxOf(q, st, data, r)) = PadBlocks(m)
<1> DEFINE oneBlock == r < 56
           padded == [i \in 1..64 |->
                        IF i <= r THEN data[i] ELSE IF i = r + 1 THEN 128
                        ELSE IF i <= 56 \/ ~oneBlock THEN 0 ELSE data[i]]
           first == SubSeq(padded, 1, 56)
           last == IF oneBlock THEN first ELSE Zeros(56)
           state == IF oneBlock THEN st ELSE Append(st, padded)
           v == 8 * Len(m)
<1>0. q \in Nat /\ r \in 0..63 /\ Len(m) = 64 * q + r BY DEF Fed, Splits
<1>1. data \in Block /\ Splits(m, q, r) /\ Whole(st, m, q) BY DEF Fed
<1>2. sha256_final(CtxOf(q, st, data, r)) = Append(state, last \o LengthField(v))
  <2> DEFINE c == CtxOf(q, st, data, r)
  <2>1. c.bitlen = 512 * q /\ c.state = st /\ c.data = data /\ c.datalen = r BY DEF CtxOf
  <2>2. 512 * q + 8 * r = v BY <1>0
  <2> HIDE DEF c, v
  <2>3. sha256_final(c) = Append(state, last \o LengthField(512 * q + 8 * r))
    BY <2>1 DEF sha256_final, Finalise, transform
  <2> QED BY <2>2, <2>3 DEF c
<1>3. padded \in Block BY <1>0, <1>1 DEF Block
<1>4. \A j \in 1..r : data[j] = m[64 * q + j] BY DEF Fed, Copies
<1>5. ASSUME r < 56 PROVE Append(state, last \o LengthField(v)) = PadBlocks(m)
  <2>1. Arr(padded, 64, Int) BY <1>3 DEF Arr, Block
  <2>2. Rest(padded, m, q, r, 56)
    <3>1. ASSUME NEW j \in 1..56 PROVE padded[j] = IF j <= r THEN m[64 * q + j] ELSE IF j = r + 1 THEN 128 ELSE 0
      <4>3. j \in 1..64 /\ j <= 56 OBVIOUS
      <4>1. padded[j] = IF j <= r THEN data[j] ELSE IF j = r + 1 THEN 128 ELSE 0 BY <4>3, Zenon
      <4>2. CASE j <= r
        <5>1. data[j] = m[64 * q + j] BY <1>0, <1>4, <4>2
        <5> QED BY <4>1, <4>2, <5>1
      <4> QED BY <4>1, <4>2
    <3> HIDE DEF padded
    <3> QED BY <3>1 DEF Rest
  <2> HIDE DEF padded
  <2>3. Arr(first, 56, Int) /\ Copies(first, padded, 0, 56)
    <3>1. 0 \in Nat /\ 56 \in Nat /\ 64 \in Nat /\ 0 + 56 <= 64 /\ 0 + 1 = 1 /\ 0 + 56 = 56 OBVIOUS
    <3>2. Arr(SubSeq(padded, 0 + 1, 0 + 56), 56, Int) /\ Copies(SubSeq(padded, 0 + 1, 0 + 56), padded, 0, 56)
      BY <2>1, <3>1, SubArr, ZenonT(60)
    <3> QED BY <3>1, <3>2
  <2> HIDE DEF first
  <2>4. Rest(first, m, q, r, 56)
    <3>1. ASSUME NEW j \in 1..56 PROVE first[j] = padded[j]
      <4>1. 0 + j = j OBVIOUS
      <4> QED BY <2>3, <4>1 DEF Copies
    <3> QED BY <2>2, <3>1 DEF Rest
  <2>5. Append(st, first \o LengthField(8 * Len(m))) = PadBlocks(m)
    BY <1>1, <1>5, <2>3, <2>4, EndInOne, Zenon
  <2> QED BY <1>5, <2>5
<1>6. ASSUME ~(r < 56) PROVE Append(state, last \o LengthField(v)) = PadBlocks(m)
  <2>1. r >= 56 BY <1>0, <1>6
  <2>2. Rest(padded, m, q, r, 64)
    <3>1. ASSUME NEW j \in 1..64 PROVE padded[j] = IF j <= r THEN m[64 * q + j] ELSE IF j = r + 1 THEN 128 ELSE 0
      BY <1>0, <1>4, <1>6
    <3> HIDE DEF padded
    <3> QED BY <3>1 DEF Rest
  <2> HIDE DEF padded
  <2>3. Append(Append(st, padded), Zeros(56) \o LengthField(8 * Len(m))) = PadBlocks(m)
    BY <1>1, <1>3, <2>1, <2>2, EndInTwo, Zenon
  <2> QED BY <1>6, <2>3
<1> HIDE DEF state, last
<1> QED BY <1>2, <1>5, <1>6

(* The first block. *)
LEMMA FirstBlock ==
  ASSUME NEW m \in Seq(Int), Len(m) >= 64
  PROVE  Whole(<<SubSeq(m, 1, 64)>>, m, 1)
<1> DEFINE b == SubSeq(m, 1, 64)
           n == Len(m)
<1>1. n \in Nat /\ Arr(m, n, Int) /\ 0 + 64 <= n BY SeqArr, LenProperties
<1> HIDE DEF n
<1>2. 0 \in Nat /\ 64 \in Nat /\ 0 + 1 = 1 /\ 0 + 64 = 64 OBVIOUS
<1>3. Arr(SubSeq(m, 0 + 1, 0 + 64), 64, Int) /\ Copies(SubSeq(m, 0 + 1, 0 + 64), m, 0, 64)
  BY <1>1, <1>2, SubArr, ZenonT(60)
<1>4. Arr(b, 64, Int) /\ Copies(b, m, 0, 64) BY <1>2, <1>3
<1> HIDE DEF b
<1>5. b \in Block BY <1>4 DEF Arr, Block
<1>6. Arr(<<b>>, 1, Block) BY <1>5 DEF Arr
<1>7. ASSUME NEW j \in 1..64 PROVE b[j] = m[64 * (1 - 1) + j]
  <2>1. 64 * (1 - 1) + j = 0 + j OBVIOUS
  <2> QED BY <1>4, <2>1 DEF Copies
<1>8. Whole(<<b>>, m, 1) BY <1>6, <1>7 DEF Whole
<1> QED BY <1>8 DEF b

(* The bytes of m behind its first block. *)
LEMMA TailOf ==
  ASSUME NEW m \in Seq(Int), NEW n \in Nat, Len(m) = 64 + n
  PROVE  LET tail == SubSeq(m, 65, Len(m))
         IN  Arr(tail, n, Int) /\ Copies(tail, m, 64, n)
<1> DEFINE l == Len(m)
           c == 64
<1>0. c + 1 = 65 /\ c + n = Len(m) OBVIOUS
<1>1. l \in Nat /\ c \in Nat /\ c + n <= l BY <1>0, LenProperties
<1>2. Arr(m, l, Int) BY SeqArr
<1>3. ASSUME Arr(SubSeq(m, c + 1, c + n), n, Int), Copies(SubSeq(m, c + 1, c + n), m, c, n)
      PROVE  LET tail == SubSeq(m, 65, Len(m)) IN Arr(tail, n, Int) /\ Copies(tail, m, 64, n)
  BY <1>0, <1>3
<1> HIDE DEF l, c
<1>4. Arr(SubSeq(m, c + 1, c + n), n, Int) /\ Copies(SubSeq(m, c + 1, c + n), m, c, n)
  BY <1>1, <1>2, SubArr, ZenonT(60)
<1> QED BY <1>3, <1>4

(* A copy of a copy. *)
LEMMA CopyCopy ==
  ASSUME NEW t, NEW s, NEW m, NEW a \in Nat, NEW n \in Nat, NEW b \in Nat, NEW k \in Nat,
         Copies(s, m, a, n), Copies(t, s, b, k), b + k <= n
  PROVE  Copies(t, m, a + b, k)
<1>1. ASSUME NEW i \in 1..k PROVE t[i] = m[(a + b) + i]
  <2>1. b + i \in 1..n /\ a + (b + i) = (a + b) + i OBVIOUS
  <2>2. t[i] = s[b + i] /\ s[b + i] = m[a + (b + i)] BY <2>1, Zenon DEF Copies
  <2> QED BY <2>1, <2>2
<1> QED BY <1>1 DEF Copies

(* sha256_finish_from_midstate absorbs the whole blocks of the tail. *)
LEMMA AbsorbedIs ==
  ASSUME NEW m \in Seq(Int), NEW full \in Nat, NEW n \in Nat, 64 * full <= n, Len(m) = 64 + n,
         NEW tail, Arr(tail, n, Int), Copies(tail, m, 64, n), NEW mid, Whole(mid, m, 1)
  PROVE  LET absorbed[i \in 0..full] ==
               IF i = 0 THEN mid
               ELSE transform(absorbed[i - 1], SubSeq(tail, 64 * (i - 1) + 1, 64 * i))
         IN  Whole(absorbed[full], m, full + 1)
<1> DEFINE blk(i) == SubSeq(tail, 64 * (i - 1) + 1, 64 * i)
           A == CHOOSE f : f = [i \in 0..full |->
                  IF i = 0 THEN mid ELSE transform(f[i - 1], blk(i))]
           h == [i \in Nat |-> [v \in Seq(Block) |-> IF i \in 1..full THEN Append(v, blk(i)) ELSE v]]
<1>1. ASSUME NEW i \in 1..full PROVE blk(i) \in Block /\ Copies(blk(i), m, 64 * i, 64)
  <2> DEFINE a == 64 * (i - 1)
  <2>1. a \in Nat /\ 64 \in Nat /\ a + 64 = 64 * i /\ a + 64 <= n /\ 64 + a = 64 * i OBVIOUS
  <2> HIDE DEF a
  <2>2. Arr(SubSeq(tail, a + 1, a + 64), 64, Int) /\ Copies(SubSeq(tail, a + 1, a + 64), tail, a, 64)
    BY <2>1, SubArr, Zenon
  <2>3. Arr(blk(i), 64, Int) /\ Copies(blk(i), tail, a, 64) BY <2>1, <2>2 DEF a
  <2> HIDE DEF blk
  <2>4. Copies(blk(i), m, 64 + a, 64) BY <2>1, <2>3, CopyCopy, Zenon
  <2>5. blk(i) \in Block BY <2>3 DEF Arr, Block
  <2> QED BY <2>1, <2>4, <2>5
<1> HIDE DEF blk
<1>2. mid \in Seq(Block)
  <2>1. 1 \in Nat /\ Arr(mid, 1, Block) BY DEF Whole
  <2> QED BY <2>1, ArrIs, Zenon
<1>3. h \in [Nat -> [Seq(Block) -> Seq(Block)]]
  <2>1. \A i \in 1..full, v \in Seq(Block) : Append(v, blk(i)) \in Seq(Block) BY <1>1
  <2> QED BY <2>1
<1> HIDE DEF h
<1>4. PICK f \in [Nat -> Seq(Block)] : Recursion(f, mid, h)
  BY <1>2, <1>3, RecursionExists, Zenon
<1> DEFINE g == [i \in 0..full |-> f[i]]
<1>5. g = [i \in 0..full |-> IF i = 0 THEN mid ELSE transform(g[i - 1], blk(i))]
  <2>1. ASSUME NEW i \in 0..full PROVE g[i] = IF i = 0 THEN mid ELSE transform(g[i - 1], blk(i))
    <3>1. CASE i = 0
      <4>1. f[0] = mid BY <1>4 DEF Recursion
      <4> QED BY <3>1, <4>1
    <3>2. CASE i # 0
      <4>1. i \in Nat /\ i \in 1..full /\ i - 1 \in 0..full /\ i - 1 \in Nat BY <3>2
      <4>2. f[i] = h[i][f[i - 1]] BY <1>4, <3>2, <4>1 DEF Recursion
      <4>3. f[i - 1] \in Seq(Block) BY <4>1
      <4>4. h[i][f[i - 1]] = Append(f[i - 1], blk(i)) BY <4>1, <4>3 DEF h
      <4>5. g[i] = f[i] /\ g[i - 1] = f[i - 1] BY <4>1
      <4> HIDE DEF g
      <4> QED BY <3>2, <4>2, <4>4, <4>5 DEF transform
    <3> QED BY <3>1, <3>2
  <2> HIDE DEF g
  <2>2. DOMAIN g = 0..full /\ g = [i \in DOMAIN g |-> g[i]] BY DEF g
  <2> QED BY <2>1, <2>2
<1> HIDE DEF g
<1>6. A = [i \in 0..full |-> IF i = 0 THEN mid ELSE transform(A[i - 1], blk(i))] BY <1>5
<1> HIDE DEF A
<1>7. Whole(A[full], m, full + 1)
  <2> DEFINE T == {i \in Nat : i <= full => Whole(A[i], m, i + 1)}
  <2>1. 0 \in T
    <3>1. A[0] = mid /\ 0 + 1 = 1 BY <1>6
    <3> QED BY <3>1
  <2>2. ASSUME NEW i \in Nat, i \in T PROVE i + 1 \in T
    <3> SUFFICES ASSUME i + 1 <= full PROVE Whole(A[i + 1], m, (i + 1) + 1) OBVIOUS
    <3>1. i + 1 \in 0..full /\ i + 1 # 0 /\ (i + 1) - 1 = i /\ i + 1 \in 1..full /\ i + 1 \in Nat OBVIOUS
    <3>2. Whole(A[i], m, i + 1) BY <2>2, <3>1
    <3>3. A[i + 1] = Append(A[i], blk(i + 1)) BY <1>6, <3>1 DEF transform
    <3>4. blk(i + 1) \in Block /\ Copies(blk(i + 1), m, 64 * (i + 1), 64) BY <1>1, <3>1, Zenon
    <3>5. Whole(Append(A[i], blk(i + 1)), m, (i + 1) + 1) BY <3>1, <3>2, <3>4, WholeMore, Zenon
    <3> QED BY <3>3, <3>5
  <2> HIDE DEF T
  <2>3. Nat \subseteq T BY <2>1, <2>2, Induction
  <2> QED BY <2>3 DEF T
<1> QED BY <1>7 DEF A, blk

-----------------------------------------------------------------------------
(* The fast paths. *)

(* The rest of the tail, 0x80 and zeros. *)
LEMMA PaddedRest ==
  ASSUME NEW m, NEW q \in Nat, NEW r \in 0..63, NEW rest, Arr(rest, r, Int), Copies(rest, m, 64 * q, r)
  PROVE  LET block == rest \o <<128>> \o Zeros(63 - r)
         IN  block \in Block /\ Rest(block, m, q, r, 64)
<1> DEFINE z == Zeros(63 - r)
           o == <<128>>
           a == rest \o o
           b == a \o z
           k == 63 - r
<1>1. r \in Nat /\ r + 1 \in Nat /\ k \in Nat /\ (r + 1) + k = 64 OBVIOUS
<1>2. Arr(z, k, Int) /\ \A i \in 1..k : z[i] = 0 BY <1>1 DEF Zeros, Arr
<1>3. Arr(o, 1, Int) /\ o[1] = 128 BY DEF Arr
<1> HIDE DEF z, o, k
<1>4. Arr(a, r + 1, Int) /\ Joins(a, rest, r, o, 1)
  <2>1. 1 \in Nat /\ Arr(o, 1, Int) BY <1>3
  <2> QED BY <1>1, <2>1, CatArr, ZenonT(60)
<1> HIDE DEF a
<1>5. Arr(b, (r + 1) + k, Int) /\ Joins(b, a, r + 1, z, k) BY <1>1, <1>2, <1>4, CatArr, Zenon
<1> HIDE DEF b
<1>6. b \in Block BY <1>1, <1>5 DEF Arr, Block
<1>7. ASSUME NEW j \in 1..64
      PROVE  b[j] = IF j <= r THEN m[64 * q + j] ELSE IF j = r + 1 THEN 128 ELSE 0
  <2>1. CASE j <= r
    <3>1. j \in 1..r /\ j \in 1..(r + 1) BY <2>1
    <3>2. b[j] = m[64 * q + j] BY <1>4, <1>5, <3>1, Zenon DEF Joins, Copies
    <3> QED BY <2>1, <3>2
  <2>2. CASE j = r + 1
    <3>1. j \in 1..(r + 1) /\ 1 \in 1..1 /\ ~(j <= r) BY <1>1, <2>2
    <3>2. b[j] = a[r + 1] BY <1>5, <2>2, <3>1, Zenon DEF Joins
    <3>3. a[r + 1] = 128 BY <1>3, <1>4, <3>1, Zenon DEF Joins
    <3> QED BY <2>2, <3>1, <3>2, <3>3
  <2>3. CASE j > r + 1
    <3>1. j - (r + 1) \in 1..k /\ (r + 1) + (j - (r + 1)) = j /\ ~(j <= r) /\ j # r + 1 BY <1>1, <2>3
    <3>2. b[(r + 1) + (j - (r + 1))] = 0 BY <1>2, <1>5, <3>1, Zenon DEF Joins
    <3> QED BY <3>1, <3>2
  <2> QED BY <2>1, <2>2, <2>3
<1>8. Rest(b, m, q, r, 64) BY <1>7 DEF Rest
<1> QED BY <1>6, <1>8 DEF b, a, o, z

(* Of a block only what comes before the length. *)
LEMMA RestOfBlock ==
  ASSUME NEW m, NEW q, NEW r, NEW b \in Block, Rest(b, m, q, r, 64)
  PROVE  Arr(SubSeq(b, 1, 56), 56, Int) /\ Rest(SubSeq(b, 1, 56), m, q, r, 56)
<1> DEFINE first == SubSeq(b, 1, 56)
<1>1. 0 \in Nat /\ 56 \in Nat /\ 64 \in Nat /\ 0 + 56 <= 64 /\ 0 + 1 = 1 /\ 0 + 56 = 56 OBVIOUS
<1>2. Arr(b, 64, Int) BY DEF Arr, Block
<1>3. Arr(SubSeq(b, 0 + 1, 0 + 56), 56, Int) /\ Copies(SubSeq(b, 0 + 1, 0 + 56), b, 0, 56)
  BY <1>1, <1>2, SubArr, ZenonT(60)
<1>4. Arr(first, 56, Int) /\ Copies(first, b, 0, 56) BY <1>1, <1>3
<1> HIDE DEF first
<1>5. ASSUME NEW j \in 1..56
      PROVE  first[j] = IF j <= r THEN m[64 * q + j] ELSE IF j = r + 1 THEN 128 ELSE 0
  <2>1. 0 + j = j /\ j \in 1..64 OBVIOUS
  <2>2. first[j] = b[0 + j] BY <1>4, Zenon DEF Copies
  <2>3. b[j] = IF j <= r THEN m[64 * q + j] ELSE IF j = r + 1 THEN 128 ELSE 0
    BY <2>1, Zenon DEF Rest
  <2> QED BY <2>1, <2>2, <2>3
<1>6. Rest(first, m, q, r, 56) BY <1>5 DEF Rest
<1> QED BY <1>4, <1>6 DEF first

(* Resuming from the midstate ends the message as the standard does. *)
LEMMA FinishIs ==
  ASSUME NEW m \in Seq(Int), NEW q \in Nat, NEW r, Splits(m, q + 1, r), 8 * Len(m) < TwoTo40
  PROVE  sha256_finish_from_midstate(sha256_midstate_64(SubSeq(m, 1, 64)),
                                     SubSeq(m, 65, Len(m)), Len(m)) = PadBlocks(m)
<1> DEFINE n == 64 * q + r
           tail == SubSeq(m, 65, Len(m))
           first == SubSeq(m, 1, 64)
           mid == sha256_midstate_64(first)
           full == Len(tail) \div 64
           rem == Len(tail) % 64
           A == CHOOSE f : f = [i \in 0..full |->
                  IF i = 0 THEN mid
                  ELSE transform(f[i - 1], SubSeq(tail, 64 * (i - 1) + 1, 64 * i))]
           block == SubSeq(tail, 64 * full + 1, Len(tail)) \o <<128>> \o Zeros(63 - rem)
           spill == rem >= 56
           state == IF spill THEN transform(A[full], block) ELSE A[full]
           last == IF spill THEN Zeros(56) ELSE SubSeq(block, 1, 56)
           st == A[full]
<1>0. /\ r \in 0..63 /\ r \in Nat /\ Len(m) = 64 + n /\ n \in Nat /\ q + 1 \in Nat /\ 64 * q <= n
      /\ 64 * q \in Nat /\ 64 * q + r <= n
  BY DEF Splits
<1>1. Arr(tail, n, Int) /\ Copies(tail, m, 64, n)
  <2> HIDE DEF n
  <2> QED BY <1>0, TailOf
<1>2. mid = <<first>> BY DEF sha256_midstate_64, transform, IV
<1>3. Whole(mid, m, 1)
  <2>1. Len(m) >= 64 BY <1>0
  <2>2. Whole(<<SubSeq(m, 1, 64)>>, m, 1) BY <2>1, FirstBlock
  <2> HIDE DEF mid
  <2> QED BY <1>2, <2>2
<1>4. Len(tail) = n
  <2> HIDE DEF n, tail
  <2> QED BY <1>0, <1>1, ArrIs, Zenon
<1> HIDE DEF mid, tail
<1>5. full = q /\ rem = r BY <1>0, <1>4
<1> HIDE DEF full, rem
<1>6. Whole(st, m, q + 1)
  <2>1. full \in Nat /\ 64 * full <= n BY <1>0, <1>5
  <2> HIDE DEF n
  <2>2. Whole(A[full], m, full + 1)
    BY <1>0, <1>1, <1>3, <2>1, AbsorbedIs
  <2> HIDE DEF A
  <2> QED BY <1>5, <2>2
<1>7. sha256_finish_from_midstate(mid, tail, Len(m))
        = Append(state, last \o LengthField(8 * Len(m)))
  BY DEF sha256_finish_from_midstate, FinishFrom, transform, full, rem
<1> HIDE DEF A
<1>8. block \in Block /\ Rest(block, m, q + 1, r, 64)
  <2> DEFINE rest == SubSeq(tail, 64 * q + 1, 64 * q + r)
             x == 64 * q
  <2>1. Arr(rest, r, Int) /\ Copies(rest, tail, x, r)
    <3>1. x \in Nat /\ x + r <= n BY <1>0
    <3> HIDE DEF n, x
    <3>2. Arr(SubSeq(tail, x + 1, x + r), r, Int) /\ Copies(SubSeq(tail, x + 1, x + r), tail, x, r)
      BY <1>0, <1>1, <3>1, SubArr, Zenon
    <3> QED BY <3>2 DEF x
  <2> HIDE DEF rest
  <2>2. Copies(rest, m, 64 + x, r)
    <3>1. x \in Nat /\ 64 \in Nat /\ x + r <= n BY <1>0
    <3> HIDE DEF n, x
    <3> QED BY <1>0, <1>1, <2>1, <3>1, CopyCopy, Zenon
  <2>3. Copies(rest, m, 64 * (q + 1), r)
    <3>1. 64 + x = 64 * (q + 1) BY <1>0
    <3> HIDE DEF x
    <3> QED BY <2>2, <3>1
  <2>4. block = rest \o <<128>> \o Zeros(63 - r) BY <1>4, <1>5 DEF rest
  <2> HIDE DEF block
  <2> QED BY <1>0, <2>1, <2>3, <2>4, PaddedRest
<1> HIDE DEF block, st
<1>9. ASSUME r < 56 PROVE Append(state, last \o LengthField(8 * Len(m))) = PadBlocks(m)
  <2>1. Arr(SubSeq(block, 1, 56), 56, Int) /\ Rest(SubSeq(block, 1, 56), m, q + 1, r, 56)
    BY <1>8, RestOfBlock
  <2>2. Append(st, SubSeq(block, 1, 56) \o LengthField(8 * Len(m))) = PadBlocks(m)
    BY <1>6, <1>9, <2>1, EndInOne, Zenon
  <2>3. ~spill BY <1>0, <1>5, <1>9
  <2> HIDE DEF spill
  <2> QED BY <2>2, <2>3 DEF st
<1>10. ASSUME r >= 56 PROVE Append(state, last \o LengthField(8 * Len(m))) = PadBlocks(m)
  <2>2. Append(Append(st, block), Zeros(56) \o LengthField(8 * Len(m))) = PadBlocks(m)
    BY <1>6, <1>8, <1>10, EndInTwo, Zenon
  <2>3. spill BY <1>0, <1>5, <1>10
  <2> HIDE DEF spill
  <2> QED BY <2>2, <2>3 DEF st, transform
<1>11. r < 56 \/ r >= 56 BY <1>0
<1> HIDE DEF state, last
<1> QED BY <1>7, <1>9, <1>10, <1>11 DEF mid, tail

(* The two fixed blocks of an 80-byte header. *)
LEMMA HeaderIs ==
  ASSUME NEW m \in Seq(Int), Splits(m, 1, 16)
  PROVE  sha256_80_be(m) = PadBlocks(m)
<1> DEFINE st == <<SubSeq(m, 1, 64)>>
           rest == SubSeq(m, 65, 80)
           o == <<128>>
           a == rest \o o
           z == Zeros(39)
           last == a \o z
           q == 1
           r == 16
           k == 39
<1>1. Whole(st, m, 1)
  <2>1. Len(m) >= 64 BY DEF Splits
  <2> QED BY <2>1, FirstBlock
<1>2. Splits(m, q, r) OBVIOUS
<1>3. 8 * Len(m) = 640 /\ 640 < TwoTo40 BY DEF Splits, TwoTo40
<1>4. Arr(rest, r, Int) /\ Copies(rest, m, 64, r)
  <2>1. r \in Nat /\ Len(m) = 64 + r /\ Len(m) = 80 BY DEF Splits
  <2> HIDE DEF r
  <2>2. Arr(SubSeq(m, 65, Len(m)), r, Int) /\ Copies(SubSeq(m, 65, Len(m)), m, 64, r)
    BY <2>1, TailOf
  <2> QED BY <2>1, <2>2
<1>a. r \in 0..63 /\ (r + 1) + k = 56 /\ r < 56 OBVIOUS
<1>g. r \in Nat /\ r + 1 \in Nat /\ k \in Nat /\ 1 \in Nat OBVIOUS
<1>h. \A i \in 1..k : z[i] = 0 BY DEF Zeros
<1>b. Arr(z, k, Int) BY DEF Zeros, Arr
<1>c. Arr(o, 1, Int) BY DEF Arr
<1>d. o[1] = 128 OBVIOUS
<1>e. 64 = 64 * q OBVIOUS
<1> HIDE DEF rest, st, o, z, q, r, k
<1>5. Arr(a, r + 1, Int) /\ Joins(a, rest, r, o, 1)
  <2>1. 1 \in Nat /\ Arr(o, 1, Int) BY <1>c
  <2>2. r \in Nat /\ Arr(rest, r, Int) BY <1>g, <1>4
  <2> QED BY <2>1, <2>2, CatArr, Zenon
<1> HIDE DEF a
<1>6. Arr(last, (r + 1) + k, Int) /\ Joins(last, a, r + 1, z, k) BY <1>g, <1>b, <1>5, CatArr, Zenon
<1> HIDE DEF last
<1>7. ASSUME NEW j \in 1..56
      PROVE  last[j] = IF j <= r THEN m[64 * q + j] ELSE IF j = r + 1 THEN 128 ELSE 0
  <2>1. CASE j \in 1..r
    <3>1. j \in 1..(r + 1) /\ j <= r BY <1>a, <1>g, <2>1
    <3>2. last[j] = m[64 + j] BY <1>4, <1>5, <1>6, <2>1, <3>1, Zenon DEF Joins, Copies
    <3> QED BY <1>e, <3>1, <3>2
  <2>2. CASE j = r + 1
    <3>1. r + 1 \in 1..(r + 1) /\ 1 \in 1..1 /\ ~(j <= r) BY <1>g, <2>2
    <3>2. last[r + 1] = a[r + 1] BY <1>6, <3>1, Zenon DEF Joins
    <3>3. a[r + 1] = o[1] BY <1>5, <3>1, Zenon DEF Joins
    <3> QED BY <1>d, <2>2, <3>1, <3>2, <3>3
  <2>3. CASE j > r + 1
    <3>1. j - (r + 1) \in 1..k /\ (r + 1) + (j - (r + 1)) = j /\ ~(j <= r) /\ j # r + 1 BY <1>a, <1>g, <2>3
    <3>2. last[(r + 1) + (j - (r + 1))] = z[j - (r + 1)] BY <1>6, <3>1, Zenon DEF Joins
    <3>3. z[j - (r + 1)] = 0 BY <1>h, <3>1, Zenon
    <3> QED BY <3>1, <3>2, <3>3
  <2> QED BY <1>a, <1>g, <2>1, <2>2, <2>3
<1>8. Rest(last, m, q, r, 56) BY <1>7 DEF Rest
<1>9. r < 56 /\ 8 * Len(m) < TwoTo40 /\ Arr(last, 56, Int) BY <1>3, <1>6, <1>a
<1>f. Whole(st, m, q) BY <1>1 DEF q
<1>10. Append(st, last \o LengthField(8 * Len(m))) = PadBlocks(m)
  BY <1>2, <1>8, <1>9, <1>f, EndInOne, Zenon
<1>11. LengthField(640) = BigEndian64(640)
  <2>1. 640 \in Nat OBVIOUS
  <2> QED BY <1>3, <2>1, LengthFieldIsBigEndian
<1>12. sha256_80_be(m) = Append(st, last \o BigEndian64(640))
  BY DEF sha256_80_be, transform, IV, last, a, rest, st, o, z
<1> QED BY <1>3, <1>10, <1>11, <1>12

(* The one block of a 32-byte digest. *)
LEMMA DigestIs ==
  ASSUME NEW m \in Seq(Int), Splits(m, 0, 32)
  PROVE  SecondRound(m) = PadBlocks(m)
<1> DEFINE o == <<128, 0, 0, 0>>
           z == Zeros(24)
           e == <<0, 0, 1, 0>>
           a == m \o o
           c == a \o z
           b == c \o e
           q == 0
           n == 32
           k == 24
           f == 4
<1>1. /\ n \in Nat /\ k \in Nat /\ f \in Nat /\ n + f \in Nat /\ (n + f) + k \in Nat
      /\ n + f = 36 /\ (n + f) + k = 60 /\ ((n + f) + k) + f = 64 /\ n < 56
  OBVIOUS
<1>2. Splits(m, q, n) OBVIOUS
<1>3. Arr(m, n, Int)
  <2>1. Len(m) = n BY DEF Splits
  <2> QED BY <1>1, <2>1, SeqArr
<1>4. Arr(o, f, Int) /\ Arr(z, k, Int) /\ Arr(e, f, Int) BY DEF Arr, Zeros
<1>5. /\ o[1] = 128 /\ \A i \in 2..4 : o[i] = 0
      /\ \A i \in 1..24 : z[i] = 0
      /\ e[3] = 1 /\ \A i \in {1, 2, 4} : e[i] = 0
  BY DEF Zeros
<1>6. q + 1 = 1 /\ q \in Nat OBVIOUS
<1> HIDE DEF q, n, k, f, o, z, e
<1>7. Arr(a, n + f, Int) /\ Joins(a, m, n, o, f) BY <1>1, <1>3, <1>4, CatArr, Zenon
<1> HIDE DEF a
<1>8. Arr(c, (n + f) + k, Int) /\ Joins(c, a, n + f, z, k) BY <1>1, <1>4, <1>7, CatArr, ZenonT(60)
<1> HIDE DEF c
<1>9. Arr(b, ((n + f) + k) + f, Int) /\ Joins(b, c, (n + f) + k, e, f)
  BY <1>1, <1>4, <1>8, CatArr, ZenonT(60)
<1> HIDE DEF b
<1>10. b \in Block BY <1>1, <1>9 DEF Arr, Block
<1>11. /\ \A j \in 1..32 : b[j] = m[j]
       /\ \A j \in 33..36 : b[j] = o[j - 32]
       /\ \A j \in 37..60 : b[j] = z[j - 36]
       /\ \A j \in 61..64 : b[j] = e[j - 60]
  <2>1. /\ \A i \in 1..32 : a[i] = m[i]
        /\ \A i \in 1..4 : a[32 + i] = o[i]
    BY <1>7 DEF Joins, n, f
  <2>2. /\ \A i \in 1..36 : c[i] = a[i]
        /\ \A i \in 1..24 : c[36 + i] = z[i]
    BY <1>1, <1>8 DEF Joins, k
  <2>3. /\ \A i \in 1..60 : b[i] = c[i]
        /\ \A i \in 1..4 : b[60 + i] = e[i]
    BY <1>1, <1>9 DEF Joins, f
  <2>4. ASSUME NEW j \in 1..32 PROVE b[j] = m[j]
    <3>1. j \in 1..36 /\ j \in 1..60 OBVIOUS
    <3> QED BY <2>1, <2>2, <2>3, <3>1, Zenon
  <2>5. ASSUME NEW j \in 33..36 PROVE b[j] = o[j - 32]
    <3>1. j - 32 \in 1..4 /\ 32 + (j - 32) = j /\ j \in 1..36 /\ j \in 1..60 OBVIOUS
    <3>2. b[j] = a[j] BY <2>2, <2>3, <3>1, Zenon
    <3>3. a[32 + (j - 32)] = o[j - 32] BY <2>1, <3>1, Zenon
    <3> QED BY <3>1, <3>2, <3>3
  <2>6. ASSUME NEW j \in 37..60 PROVE b[j] = z[j - 36]
    <3>1. j - 36 \in 1..24 /\ 36 + (j - 36) = j /\ j \in 1..60 OBVIOUS
    <3>2. b[j] = c[j] BY <2>3, <3>1, Zenon
    <3>3. c[36 + (j - 36)] = z[j - 36] BY <2>2, <3>1, Zenon
    <3> QED BY <3>1, <3>2, <3>3
  <2>7. ASSUME NEW j \in 61..64 PROVE b[j] = e[j - 60]
    <3>1. j - 60 \in 1..4 /\ 60 + (j - 60) = j OBVIOUS
    <3> QED BY <2>3, <3>1
  <2> QED BY <2>4, <2>5, <2>6, <2>7
<1>12. ByteAt(256, 1) = 1 /\ ByteAt(256, 0) = 0 /\ \A i \in 2..7 : ByteAt(256, i) = 0
  <2> DEFINE s(i) == Shifted(256, i)
  <2>1. s(0) = 256 /\ \A i \in Nat : s(i + 1) = s(i) \div 256
    <3>1. 256 \in Nat OBVIOUS
    <3> QED BY <3>1, ShiftedRec
  <2>2. \A i : ByteAt(256, i) = s(i) % 256 BY DEF ByteAt
  <2> HIDE DEF s
  <2>3. s(0 + 1) = 1 BY <2>1
  <2>4. s(1 + 1) = 0 BY <2>1, <2>3
  <2>5. s(2 + 1) = 0 BY <2>1, <2>4
  <2>6. s(3 + 1) = 0 BY <2>1, <2>5
  <2>7. s(4 + 1) = 0 BY <2>1, <2>6
  <2>8. s(5 + 1) = 0 BY <2>1, <2>7
  <2>9. s(6 + 1) = 0 BY <2>1, <2>8
  <2>10. s(0) = 256 /\ s(1) = 1 /\ s(2) = 0 /\ s(3) = 0 /\ s(4) = 0 /\ s(5) = 0 /\ s(6) = 0 /\ s(7) = 0
    BY <2>1, <2>3, <2>4, <2>5, <2>6, <2>7, <2>8, <2>9
  <2> QED BY <2>2, <2>10
<1>13. ASSUME NEW j \in 1..64 PROVE b[j] = BlockByte(m, 1, j)
  <2>1. BlockByte(m, q + 1, j) = IF j <= n THEN m[64 * q + j] ELSE IF j = n + 1 THEN 128
                                  ELSE IF j <= 56 THEN 0 ELSE ByteAt(8 * Len(m), 64 - j)
    <3>1. n < 56 BY <1>1
    <3> QED BY <1>2, <3>1, ByteOne, Zenon
  <2>a. q + 1 = 1 /\ n = 32 /\ 64 * q + j = j /\ n + 1 = 33 /\ 8 * Len(m) = 256 BY DEF q, n, Splits
  <2> DEFINE B == BlockByte(m, 1, j)
  <2>b. /\ j <= 32 => B = m[j]
        /\ j = 33 => B = 128
        /\ 33 < j /\ j <= 56 => B = 0
        /\ 56 < j => B = ByteAt(256, 64 - j)
    <3> DEFINE y == ByteAt(8 * Len(m), 64 - j)
               x == m[64 * q + j]
    <3>1. B = IF j <= n THEN x ELSE IF j = n + 1 THEN 128 ELSE IF j <= 56 THEN 0 ELSE y
      BY <2>1, <2>a
    <3>2. x = m[j] /\ y = ByteAt(256, 64 - j) BY <2>a
    <3> HIDE DEF B, x, y
    <3> QED BY <2>a, <3>1, <3>2
  <2> HIDE DEF B
  <2>3. CASE j \in 1..32
    <3>1. b[j] = m[j] BY <1>11, <2>3, Zenon
    <3> QED BY <2>b, <2>3, <3>1 DEF B
  <2>4. CASE j \in 33..36
    <3>1. b[j] = o[j - 32] BY <1>11, <2>4, Zenon
    <3>2. j = 33 => o[j - 32] = 128 BY <1>5
    <3>3. j # 33 => o[j - 32] = 0
      <4>1. j # 33 => j - 32 \in 2..4 BY <2>4
      <4> QED BY <1>5, <4>1, Zenon
    <3> QED BY <2>b, <2>4, <3>1, <3>2, <3>3 DEF B
  <2>5. CASE j \in 37..60
    <3>1. b[j] = z[j - 36] BY <1>11, <2>5, Zenon
    <3>2. j - 36 \in 1..24 BY <2>5
    <3>3. z[j - 36] = 0 BY <1>5, <3>2, Zenon
    <3>4. 56 < j => 64 - j \in 2..7 BY <2>5
    <3>5. 56 < j => ByteAt(256, 64 - j) = 0 BY <1>12, <3>4, Zenon
    <3> QED BY <2>b, <2>5, <3>1, <3>3, <3>5 DEF B
  <2>6. CASE j \in 61..64
    <3>1. b[j] = e[j - 60] BY <1>11, <2>6, Zenon
    <3>2. CASE j = 63
      <4>1. j - 60 = 3 /\ 64 - j = 1 /\ 56 < j BY <3>2
      <4>2. e[j - 60] = 1 /\ ByteAt(256, 64 - j) = 1 BY <1>5, <1>12, <4>1
      <4> QED BY <2>b, <3>1, <4>1, <4>2 DEF B
    <3>3. CASE j # 63
      <4>1. j - 60 \in {1, 2, 4} /\ (64 - j \in 2..7 \/ 64 - j = 0) /\ 56 < j BY <2>6, <3>3
      <4>2. e[j - 60] = 0 BY <1>5, <4>1, Zenon
      <4>3. ByteAt(256, 64 - j) = 0
        <5>1. CASE 64 - j \in 2..7 BY <1>12, <5>1, Zenon
        <5>2. CASE 64 - j = 0 BY <1>12, <5>2
        <5> QED BY <4>1, <5>1, <5>2
      <4> QED BY <2>b, <3>1, <4>1, <4>2, <4>3 DEF B
    <3> QED BY <3>2, <3>3
  <2> QED BY <2>3, <2>4, <2>5, <2>6
<1>14. Blocks(m) = 1
  <2>1. Blocks(m) = q + 1 BY <1>1, <1>2, BlockCount
  <2> QED BY <1>6, <2>1
<1>15. Arr(<<b>>, 1, Block) BY <1>10 DEF Arr
<1>16. ASSUME NEW i \in 1..1, NEW j \in 1..64 PROVE <<b>>[i][j] = BlockByte(m, i, j)
  <2>1. i = 1 /\ <<b>>[1] = b OBVIOUS
  <2>2. b[j] = BlockByte(m, 1, j) BY <1>13
  <2> QED BY <2>1, <2>2
<1>17. <<b>> = PadBlocks(m)
  <2>1. 1 \in Nat OBVIOUS
  <2> QED BY <1>14, <1>15, <1>16, <2>1, SameBlocks
<1>18. SecondRound(m) = <<b>> BY DEF SecondRound, transform, IV, b, c, a, o, z, e
<1> QED BY <1>17, <1>18

-----------------------------------------------------------------------------
(* The merkle tree. *)

(* The nodes at height h of a tree over n leaves, from those below. *)
Leaf == [k \in Nat |-> <<k + 1>>]
Above(n, h, f) ==
  [k \in Nat |-> <<f[2 * k], f[IF 2 * k + 1 <= Width(n, h - 1) - 1 THEN 2 * k + 1 ELSE 2 * k]>>]

Grows(g, n, m) == g[0] = Leaf /\ \A i \in 1..m : g[i] = Above(n, i, g[i - 1])

(* At most one function builds the tree. *)
LEMMA TreeUnique ==
  ASSUME NEW n, NEW f, NEW g, NEW m \in Nat, Grows(f, n, m), Grows(g, n, m)
  PROVE  \A i \in 0..m : f[i] = g[i]
<1> DEFINE T == {i \in Nat : i <= m => f[i] = g[i]}
<1>1. 0 \in T BY DEF Grows
<1>2. ASSUME NEW i \in Nat, i \in T PROVE i + 1 \in T
  <2> SUFFICES ASSUME i + 1 <= m PROVE f[i + 1] = g[i + 1] OBVIOUS
  <2>1. i + 1 \in 1..m /\ (i + 1) - 1 = i OBVIOUS
  <2>2. f[i] = g[i] BY <1>2
  <2> QED BY <2>1, <2>2 DEF Grows
<1> HIDE DEF T
<1>3. Nat \subseteq T BY <1>1, <1>2, Induction
<1> QED BY <1>3 DEF T

(* One does. *)
LEMMA TreeExists ==
  ASSUME NEW n
  PROVE  \E f : f = [h \in Nat |-> IF h = 0 THEN Leaf ELSE Above(n, h, f[h - 1])]
<1> DEFINE T == {m \in Nat : \E g : Grows(g, n, m)}
           G == [m \in Nat |-> CHOOSE g : Grows(g, n, m)]
           F == [m \in Nat |-> G[m][m]]
<1>1. 0 \in T
  <2>1. Grows([i \in Nat |-> Leaf], n, 0) BY DEF Grows
  <2> QED BY <2>1
<1>2. ASSUME NEW m \in Nat, m \in T PROVE m + 1 \in T
  <2>1. PICK g : Grows(g, n, m) BY <1>2
  <2> DEFINE k == [i \in Nat |-> IF i = m + 1 THEN Above(n, i, g[m]) ELSE g[i]]
  <2>2. k[0] = Leaf BY <2>1 DEF Grows
  <2>3. ASSUME NEW i \in 1..(m + 1) PROVE k[i] = Above(n, i, k[i - 1])
    <3>1. CASE i = m + 1
      <4>1. i - 1 = m /\ k[i] = Above(n, i, g[m]) /\ k[m] = g[m] BY <3>1
      <4> QED BY <4>1
    <3>2. CASE i # m + 1
      <4>1. i \in 1..m /\ i - 1 # m + 1 /\ i - 1 \in Nat /\ i \in Nat BY <3>2
      <4>2. k[i] = g[i] /\ k[i - 1] = g[i - 1] BY <3>2, <4>1
      <4> HIDE DEF k
      <4> QED BY <2>1, <4>1, <4>2 DEF Grows
    <3> QED BY <3>1, <3>2
  <2> HIDE DEF k
  <2>4. Grows(k, n, m + 1) BY <2>2, <2>3 DEF Grows
  <2> QED BY <2>4
<1>3. Nat \subseteq T
  <2> HIDE DEF T
  <2> QED BY <1>1, <1>2, Induction
<1>4. ASSUME NEW m \in Nat PROVE Grows(G[m], n, m)
  <2>1. \E g : Grows(g, n, m) BY <1>3
  <2> QED BY <2>1
<1> HIDE DEF G, T
<1>5. F[0] = Leaf BY <1>4 DEF Grows
<1>6. ASSUME NEW i \in Nat, i # 0 PROVE F[i] = Above(n, i, F[i - 1])
  <2>1. Grows(G[i], n, i) /\ Grows(G[i - 1], n, i - 1) /\ i - 1 \in Nat BY <1>4, <1>6
  <2>2. Grows(G[i], n, i - 1) BY <2>1 DEF Grows
  <2>3. \A j \in 0..(i - 1) : G[i][j] = G[i - 1][j] BY <2>1, <2>2, TreeUnique
  <2>4. G[i][i - 1] = G[i - 1][i - 1] BY <2>1, <2>3
  <2>5. G[i][i] = Above(n, i, G[i][i - 1]) BY <2>1, <1>6 DEF Grows
  <2>6. F[i] = G[i][i] /\ F[i - 1] = G[i - 1][i - 1] BY <2>1
  <2> QED BY <2>4, <2>5, <2>6
<1>7. F = [h \in Nat |-> IF h = 0 THEN Leaf ELSE Above(n, h, F[h - 1])]
  <2>1. DOMAIN F = Nat /\ F = [h \in DOMAIN F |-> F[h]] OBVIOUS
  <2> HIDE DEF F
  <2> QED BY <1>5, <1>6, <2>1
<1> QED BY <1>7

(* A node is the pair of the two below it. *)
LEMMA TreeNodeRec ==
  ASSUME NEW n
  PROVE  /\ \A k \in Nat : TreeNode(n, 0, k) = <<k + 1>>
         /\ \A h \in Nat, k \in Nat :
              TreeNode(n, h + 1, k)
                = <<TreeNode(n, h, 2 * k),
                    TreeNode(n, h, IF 2 * k + 1 <= Width(n, h) - 1 THEN 2 * k + 1 ELSE 2 * k)>>
<1> DEFINE last(h) == Width(n, h) - 1
           E(f) == f = [h \in Nat |-> [k \in Nat |->
                     IF h = 0 THEN <<k + 1>>
                     ELSE <<f[h - 1][2 * k],
                            f[h - 1][IF 2 * k + 1 <= last(h - 1) THEN 2 * k + 1 ELSE 2 * k]>>]]
           P == CHOOSE f : E(f)
<1>1. PICK f : f = [h \in Nat |-> IF h = 0 THEN Leaf ELSE Above(n, h, f[h - 1])] BY TreeExists
<1>2. E(f)
  <2> DEFINE g == [h \in Nat |-> [k \in Nat |->
                     IF h = 0 THEN <<k + 1>>
                     ELSE <<f[h - 1][2 * k],
                            f[h - 1][IF 2 * k + 1 <= last(h - 1) THEN 2 * k + 1 ELSE 2 * k]>>]]
  <2>1. ASSUME NEW h \in Nat PROVE f[h] = g[h]
    <3>1. CASE h = 0
      <4>1. f[h] = Leaf BY <1>1, <3>1
      <4>2. g[h] = Leaf BY <3>1 DEF Leaf
      <4> QED BY <4>1, <4>2
    <3>2. CASE h # 0
      <4>1. f[h] = Above(n, h, f[h - 1]) BY <1>1, <3>2
      <4>2. g[h] = Above(n, h, f[h - 1]) BY <3>2 DEF Above
      <4> QED BY <4>1, <4>2
    <3> QED BY <3>1, <3>2
  <2>2. DOMAIN f = Nat /\ f = [h \in Nat |-> f[h]] BY <1>1
  <2>3. f = g
    <3>1. DOMAIN g = Nat /\ g = [h \in Nat |-> g[h]] OBVIOUS
    <3> HIDE DEF g
    <3> QED BY <2>1, <2>2, <3>1
  <2> QED BY <2>3
<1>3. E(P)
  <2> HIDE DEF E
  <2> QED BY <1>2
<1>4. \A h, k : TreeNode(n, h, k) = P[h][k] BY DEF TreeNode
<1>5. \A h, k \in Nat : P[h][k] = IF h = 0 THEN <<k + 1>>
        ELSE <<P[h - 1][2 * k], P[h - 1][IF 2 * k + 1 <= last(h - 1) THEN 2 * k + 1 ELSE 2 * k]>>
  <2> SUFFICES ASSUME NEW h \in Nat, NEW k \in Nat
      PROVE P[h][k] = IF h = 0 THEN <<k + 1>>
        ELSE <<P[h - 1][2 * k], P[h - 1][IF 2 * k + 1 <= last(h - 1) THEN 2 * k + 1 ELSE 2 * k]>>
    OBVIOUS
  <2>1. E(P) BY <1>3
  <2> HIDE DEF P, last
  <2>2. P[h] = [j \in Nat |-> IF h = 0 THEN <<j + 1>>
                 ELSE <<P[h - 1][2 * j],
                        P[h - 1][IF 2 * j + 1 <= last(h - 1) THEN 2 * j + 1 ELSE 2 * j]>>]
    BY <2>1
  <2> QED BY <2>2
<1> HIDE DEF P
<1>6. \A k \in Nat : P[0][k] = <<k + 1>> BY <1>5
<1>7. ASSUME NEW h \in Nat, NEW k \in Nat
      PROVE  P[h + 1][k] = <<P[h][2 * k], P[h][IF 2 * k + 1 <= last(h) THEN 2 * k + 1 ELSE 2 * k]>>
  <2>1. h + 1 \in Nat /\ h + 1 # 0 /\ (h + 1) - 1 = h OBVIOUS
  <2> HIDE DEF last
  <2> QED BY <1>5, <2>1
<1>8. ASSUME NEW h \in Nat, NEW k \in Nat
      PROVE  TreeNode(n, h + 1, k)
               = <<TreeNode(n, h, 2 * k),
                   TreeNode(n, h, IF 2 * k + 1 <= last(h) THEN 2 * k + 1 ELSE 2 * k)>>
  <2> DEFINE r == IF 2 * k + 1 <= last(h) THEN 2 * k + 1 ELSE 2 * k
  <2>1. P[h + 1][k] = <<P[h][2 * k], P[h][r]>> BY <1>7
  <2> HIDE DEF r
  <2>2. TreeNode(n, h + 1, k) = <<TreeNode(n, h, 2 * k), TreeNode(n, h, r)>> BY <1>4, <2>1, Zenon
  <2> QED BY <2>2 DEF r
<1> QED BY <1>4, <1>6, <1>8

(* Multiplication by a natural number is monotonic. *)
LEMMA MulMono ==
  ASSUME NEW a \in Int, NEW b \in Int, NEW p \in Nat, a <= b
  PROVE  a * p <= b * p
<1>1. (b - a) * p >= 0 OBVIOUS
<1>2. (b - a) * p = b * p - a * p OBVIOUS
<1> QED BY <1>1, <1>2

(* Half of a level, rounded up, is the level above. *)
LEMMA WidthHalves ==
  ASSUME NEW n \in Nat \ {0}, NEW h \in Nat
  PROVE  /\ Width(n, 0) = n
         /\ Width(n, h) \in Nat \ {0}
         /\ (Width(n, h) + 1) \div 2 = Width(n, h + 1)
         /\ Width(n, h) > 1 => h + 1 <= n
<1> DEFINE p == Power(2, h)
           w == Width(n, h)
<1>1. p \in Nat /\ Power(2, 0) = 1 /\ Power(2, h + 1) = 2 * p BY PowerRec
<1>2. h < p
  <2> DEFINE T == {i \in Nat : i < Power(2, i)}
  <2>1. 0 \in T BY <1>1
  <2>2. ASSUME NEW i \in Nat, i \in T PROVE i + 1 \in T
    <3>1. Power(2, i) \in Nat /\ Power(2, i + 1) = 2 * Power(2, i) BY PowerRec
    <3> QED BY <2>2, <3>1
  <2> HIDE DEF T
  <2>3. Nat \subseteq T BY <2>1, <2>2, Induction
  <2> QED BY <2>3 DEF T
<1>3. Width(n, 0) = n BY <1>1 DEF Width
<1>4. w = (n + p - 1) \div p /\ Width(n, h + 1) = (n + 2 * p - 1) \div (2 * p) BY <1>1 DEF Width
<1> HIDE DEF p, w
<1> DEFINE d == 2 * p
           v == (n + d - 1) \div d
           u == (w + 1) \div 2
<1>5. w \in Nat /\ w * p <= n + p - 1 /\ n + p - 1 < w * p + p
  BY <1>1, <1>2, <1>4
<1>a. d \in Nat /\ d > 0 BY <1>1, <1>2
<1>6. v \in Nat /\ v * d <= n + d - 1 /\ n + d - 1 < v * d + d
  <2> HIDE DEF d
  <2> QED BY <1>a
<1>b. u \in Nat /\ (2 * u = w \/ 2 * u = w + 1) BY <1>5
<1> HIDE DEF v, u
<1>c. p \in Nat /\ p > 0 BY <1>1, <1>2
<1>7. w # 0
  <2> SUFFICES ASSUME w = 0 PROVE FALSE OBVIOUS
  <2>1. w * p = 0 BY <1>c
  <2> QED BY <1>5, <1>c, <2>1
<1>8. u * d = (2 * u) * p /\ (u - 1) * d = (2 * u - 2) * p BY <1>b, <1>c
<1>9. w * p <= (2 * u) * p
  <2>1. w <= 2 * u BY <1>b, <1>5
  <2> QED BY <2>1, <1>b, <1>5, <1>c, MulMono
<1>10. (2 * u - 2) * p <= (w - 1) * p
  <2>1. 2 * u - 2 <= w - 1 BY <1>b, <1>5
  <2> QED BY <2>1, <1>b, <1>5, <1>c, MulMono
<1>11. (w - 1) * p = w * p - p /\ (v - 1) * d = v * d - d BY <1>5, <1>6, <1>a, <1>c
<1>d. w * p \in Nat /\ v * d \in Nat /\ u * d \in Nat /\ (w - 1) * p \in Int /\ (v - 1) * d \in Int /\ (u - 1) * d \in Int
  BY <1>5, <1>6, <1>a, <1>b, <1>c
<1>12. n <= u * d /\ (u - 1) * d < n
  <2> DEFINE a == w * p
             b == (2 * u) * p
             c == (2 * u - 2) * p
             e == (w - 1) * p
             x == u * d
             y == (u - 1) * d
  <2>1. /\ a \in Nat /\ x \in Nat /\ y \in Int /\ e \in Int /\ x = b /\ y = c /\ a <= b /\ c <= e
        /\ e = a - p /\ a <= n + p - 1 /\ n + p - 1 < a + p
    BY <1>5, <1>8, <1>9, <1>10, <1>11, <1>d
  <2> HIDE DEF a, b, c, e, x, y
  <2>2. n <= x /\ y < n BY <1>c, <2>1
  <2> QED BY <2>2 DEF x, y
<1>13. n <= v * d /\ (v - 1) * d < n
  <2> HIDE DEF d
  <2> QED BY <1>6, <1>11, <1>a, <1>d
<1> HIDE DEF d
<1>14. u = v
  <2>1. (u - 1) * d < v * d /\ (v - 1) * d < u * d BY <1>12, <1>13, <1>d
  <2>2. ~(v <= u - 1)
    <3> SUFFICES ASSUME v <= u - 1 PROVE FALSE OBVIOUS
    <3>1. v * d <= (u - 1) * d BY <1>a, <1>b, <1>6, MulMono
    <3> QED BY <2>1, <3>1, <1>d
  <2>3. ~(u <= v - 1)
    <3> SUFFICES ASSUME u <= v - 1 PROVE FALSE OBVIOUS
    <3>1. u * d <= (v - 1) * d BY <1>a, <1>b, <1>6, MulMono
    <3> QED BY <2>1, <3>1, <1>d
  <2> QED BY <1>b, <1>6, <2>2, <2>3
<1>15. w > 1 => h + 1 <= n
  <2> SUFFICES ASSUME w > 1 PROVE h + 1 <= n OBVIOUS
  <2>1. 1 * p <= (w - 1) * p
    <3>1. 1 <= w - 1 BY <1>5
    <3> QED BY <1>5, <1>c, <3>1, MulMono
  <2> QED BY <1>2, <1>5, <1>11, <1>c, <1>d, <2>1
<1>16. Width(n, h + 1) = v BY <1>4 DEF v, d
<1> QED BY <1>3, <1>5, <1>7, <1>14, <1>15, <1>16 DEF w, u

(* One turn of the loop of compute_merkle_root_be is one height of the tree. *)
TreeLevel(n, h) == [i \in 1..Width(n, h) |-> TreeNode(n, h, i - 1)]

(* One turn of the loop goes one height up. *)
LEMMA LevelUp ==
  ASSUME NEW n \in Nat \ {0}, NEW h \in Nat
  PROVE  NextLevel(TreeLevel(n, h)) = TreeLevel(n, h + 1)
<1> DEFINE lv == TreeLevel(n, h)
           w == Width(n, h)
           z == Width(n, h + 1)
<1>1. w \in Nat \ {0} /\ (w + 1) \div 2 = z BY WidthHalves
<1>2. Len(lv) = w BY <1>1 DEF TreeLevel
<1> HIDE DEF w, z
<1>3. \A i \in 1..w : lv[i] = TreeNode(n, h, i - 1) BY DEF TreeLevel, w
<1> HIDE DEF lv
<1>4. ASSUME NEW i \in 1..z
      PROVE  <<lv[2 * i - 1], IF 2 * i <= Len(lv) THEN lv[2 * i] ELSE lv[2 * i - 1]>>
               = TreeNode(n, h + 1, i - 1)
  <2> DEFINE k == i - 1
             r == IF 2 * k + 1 <= w - 1 THEN 2 * k + 1 ELSE 2 * k
  <2>1. k \in Nat /\ 2 * i - 1 \in 1..w /\ (2 * i - 1) - 1 = 2 * k BY <1>1
  <2>2. TreeNode(n, h + 1, k) = <<TreeNode(n, h, 2 * k), TreeNode(n, h, r)>>
    BY <2>1, TreeNodeRec DEF w
  <2>3. lv[2 * i - 1] = TreeNode(n, h, 2 * k)
    <3>1. lv[2 * i - 1] = TreeNode(n, h, (2 * i - 1) - 1) BY <1>3, <2>1, Zenon
    <3> QED BY <2>1, <3>1
  <2>4. (IF 2 * i <= w THEN lv[2 * i] ELSE lv[2 * i - 1]) = TreeNode(n, h, r)
    <3>1. CASE 2 * i <= w
      <4>1. 2 * i \in 1..w /\ 2 * i - 1 = r BY <1>1, <3>1
      <4>2. lv[2 * i] = TreeNode(n, h, 2 * i - 1) BY <1>3, <4>1, Zenon
      <4> HIDE DEF r
      <4> QED BY <3>1, <4>1, <4>2
    <3>2. CASE ~(2 * i <= w)
      <4>1. r = 2 * k BY <1>1, <3>2
      <4> HIDE DEF r, k
      <4> QED BY <2>3, <3>2, <4>1
    <3> QED BY <3>1, <3>2
  <2> HIDE DEF r, k
  <2>5. <<lv[2 * i - 1], IF 2 * i <= Len(lv) THEN lv[2 * i] ELSE lv[2 * i - 1]>>
          = <<TreeNode(n, h, 2 * k), TreeNode(n, h, r)>>
    BY <1>2, <2>3, <2>4
  <2> QED BY <2>2, <2>5 DEF k
<1>5. NextLevel(lv) = [i \in 1..z |->
         <<lv[2 * i - 1], IF 2 * i <= Len(lv) THEN lv[2 * i] ELSE lv[2 * i - 1]>>]
  BY <1>1, <1>2 DEF NextLevel
<1> QED BY <1>4, <1>5 DEF TreeLevel, z, lv

(* The leaves of the model are height 0. *)
LEMMA LevelZero ==
  ASSUME NEW n \in Nat \ {0}
  PROVE  [i \in 1..n |-> <<i>>] = TreeLevel(n, 0) /\ Len([i \in 1..n |-> <<i>>]) = n
<1>1. Width(n, 0) = n
  <2>1. 0 \in Nat OBVIOUS
  <2> QED BY <2>1, WidthHalves
<1>2. ASSUME NEW i \in 1..n PROVE <<i>> = TreeNode(n, 0, i - 1)
  <2>1. i - 1 \in Nat /\ (i - 1) + 1 = i OBVIOUS
  <2> QED BY <2>1, TreeNodeRec
<1> QED BY <1>1, <1>2 DEF TreeLevel

TreeInv ==
  stage = "merkle" =>
    \E n \in 1..MaxLeaves :
      /\ leaves = [i \in 1..n |-> <<i>>]
      /\ \E h \in 0..n : level = TreeLevel(n, h)

(* The invariant is what MerkleIsTree says. *)
LEMMA TreeInvImplies == TreeInv => MerkleIsTree
<1> SUFFICES ASSUME TreeInv, stage = "merkle"
             PROVE  \E h \in 0..Len(leaves) :
                      level = [i \in 1..Width(Len(leaves), h) |-> TreeNode(Len(leaves), h, i - 1)]
  BY DEF MerkleIsTree
<1>1. PICK n \in 1..MaxLeaves : /\ leaves = [i \in 1..n |-> <<i>>]
                                /\ \E h \in 0..n : level = TreeLevel(n, h)
  BY DEF TreeInv
<1>2. n \in Nat \ {0} BY HeaderAssumption
<1>3. Len(leaves) = n BY <1>1, <1>2, LevelZero
<1>4. PICK h \in 0..n : level = TreeLevel(n, h) BY <1>1
<1> QED BY <1>3, <1>4 DEF TreeLevel

(* It is kept: by a turn of the loop through LevelUp. *)
LEMMA TreeInvStep == TreeInv /\ [Next]_vars => TreeInv'
<1> SUFFICES ASSUME TreeInv, [Next]_vars, (stage = "merkle")'
             PROVE  \E n \in 1..MaxLeaves :
                      /\ leaves' = [i \in 1..n |-> <<i>>]
                      /\ \E h \in 0..n : level' = TreeLevel(n, h)
  BY DEF TreeInv
<1>1. CASE CoinbaseTxid
  <2>1. PICK n \in 1..MaxLeaves : leaves' = [i \in 1..n |-> <<i>>] /\ level' = leaves'
    BY <1>1 DEF CoinbaseTxid
  <2>2. n \in Nat \ {0} /\ 0 \in 0..n BY HeaderAssumption
  <2>3. level' = TreeLevel(n, 0) BY <2>1, <2>2, LevelZero
  <2> QED BY <2>1, <2>2, <2>3
<1>2. CASE compute_merkle_root_be
  <2>1. /\ stage = "merkle" /\ Len(level) > 1 /\ level' = NextLevel(level) /\ leaves' = leaves
    BY <1>2 DEF compute_merkle_root_be
  <2>2. PICK n \in 1..MaxLeaves : /\ leaves = [i \in 1..n |-> <<i>>]
                                  /\ \E h \in 0..n : level = TreeLevel(n, h)
    BY <2>1 DEF TreeInv
  <2>3. PICK h \in 0..n : level = TreeLevel(n, h) BY <2>2
  <2>4. n \in Nat \ {0} /\ h \in Nat BY HeaderAssumption
  <2>5. Len(level) = Width(n, h)
    <3>1. Width(n, h) \in Nat BY <2>4, WidthHalves
    <3> QED BY <2>3, <3>1 DEF TreeLevel
  <2>6. h + 1 \in 0..n
    <3>1. h + 1 <= n BY <2>1, <2>4, <2>5, WidthHalves
    <3> QED BY <2>4, <3>1
  <2>7. level' = TreeLevel(n, h + 1) BY <2>1, <2>3, <2>4, LevelUp
  <2> QED BY <2>1, <2>2, <2>6, <2>7
<1>3. CASE UNCHANGED <<stage, treeVars>>
  BY <1>3 DEF TreeInv, treeVars
<1>4. ASSUME stage' # "merkle" PROVE FALSE BY <1>4
<1>5. [Next]_vars => CoinbaseTxid \/ compute_merkle_root_be \/ UNCHANGED <<stage, treeVars>> \/ stage' # "merkle"
  BY DEF Next, vars, HashCoinbase, ingestJobWithPolicy, ingestTemplate, uploadDeviceJobs,
         kernel_mine_stub, kernel_mine_batch_unroll, MineNonce, NoHit, verifyAndSubmit, NextJob
<1> QED BY <1>1, <1>2, <1>3, <1>4, <1>5

-----------------------------------------------------------------------------
(* Numbers and their digits. *)

(* Powers of the base. *)
LEMMA PowerPositive ==
  ASSUME NEW n \in Nat
  PROVE  Power(Base, n) \in Nat \ {0} /\ Power(Base, 0) = 1 /\ Power(Base, n + 1) = Base * Power(Base, n)
<1>0. Base \in Nat /\ Base > 1 BY HeaderAssumption
<1> DEFINE T == {k \in Nat : Power(Base, k) \in Nat \ {0}}
<1>1. Power(Base, 0) = 1 /\ \A k \in Nat : Power(Base, k) \in Nat /\ Power(Base, k + 1) = Base * Power(Base, k)
  BY <1>0, PowerRec
<1>2. 0 \in T BY <1>1
<1>3. ASSUME NEW k \in Nat, k \in T PROVE k + 1 \in T
  <2>1. Power(Base, k) \in Nat \ {0} /\ Power(Base, k + 1) = Base * Power(Base, k) BY <1>1, <1>3
  <2> QED BY <1>0, <2>1
<1> HIDE DEF T
<1>4. Nat \subseteq T BY <1>2, <1>3, Induction
<1> QED BY <1>1, <1>4 DEF T

(* v is the value of every prefix of b. *)
Digits(v, b, n) == v[0] = 0 /\ \A i \in 1..n : v[i] = v[i - 1] * Base + b[i]

(* Equal prefixes have equal values. *)
LEMMA DigitsSame ==
  ASSUME NEW n \in Nat, NEW a, NEW b, NEW v, NEW w, Digits(v, a, n), Digits(w, b, n),
         NEW m \in 0..n, \A i \in 1..m : a[i] = b[i]
  PROVE  v[m] = w[m]
<1> DEFINE T == {i \in Nat : i <= m => v[i] = w[i]}
<1>1. 0 \in T BY DEF Digits
<1>2. ASSUME NEW i \in Nat, i \in T PROVE i + 1 \in T
  <2> SUFFICES ASSUME i + 1 <= m PROVE v[i + 1] = w[i + 1] OBVIOUS
  <2>1. i + 1 \in 1..n /\ i + 1 \in 1..m /\ (i + 1) - 1 = i OBVIOUS
  <2>2. v[i] = w[i] BY <1>2
  <2>3. v[i + 1] = v[i] * Base + a[i + 1] /\ w[i + 1] = w[i] * Base + b[i + 1] BY <2>1 DEF Digits
  <2>4. a[i + 1] = b[i + 1] BY <2>1
  <2> QED BY <2>2, <2>3, <2>4
<1> HIDE DEF T
<1>3. Nat \subseteq T BY <1>1, <1>2, Induction
<1> QED BY <1>3 DEF T

(* Every array of digits has its values. *)
LEMMA DigitsExist ==
  ASSUME NEW n \in Nat, NEW b, Arr(b, n, Nat)
  PROVE  \E v \in [Nat -> Nat] : Digits(v, b, n)
<1> DEFINE h == [i \in Nat |-> [x \in Nat |-> IF i \in 1..n THEN x * Base + b[i] ELSE 0]]
<1>0. Base \in Nat /\ \A i \in 1..n : b[i] \in Nat BY HeaderAssumption DEF Arr
<1>1. h \in [Nat -> [Nat -> Nat]] BY <1>0
<1>2. \A i \in 1..n, x \in Nat : h[i][x] = x * Base + b[i] OBVIOUS
<1> HIDE DEF h
<1>3. PICK v \in [Nat -> Nat] : Recursion(v, 0, h)
  <2>1. 0 \in Nat OBVIOUS
  <2> QED BY <1>1, <2>1, RecursionExists
<1>4. v[0] = 0 BY <1>3 DEF Recursion
<1>5. ASSUME NEW i \in 1..n PROVE v[i] = v[i - 1] * Base + b[i]
  <2>1. i \in Nat /\ i # 0 /\ i - 1 \in Nat OBVIOUS
  <2>2. v[i] = h[i][v[i - 1]] BY <1>3, <2>1 DEF Recursion
  <2>3. v[i - 1] \in Nat BY <1>3, <2>1
  <2>4. h[i][v[i - 1]] = v[i - 1] * Base + b[i] BY <1>2, <2>3
  <2> QED BY <2>2, <2>4
<1>6. Digits(v, b, n) BY <1>4, <1>5 DEF Digits
<1> QED BY <1>6

(* ValueOf is the value of the whole. *)
LEMMA ValueIs ==
  ASSUME NEW n \in Nat, NEW b, Arr(b, n, Nat), NEW v, Digits(v, b, n)
  PROVE  ValueOf(b) = v[n]
<1> DEFINE E(f) == f = [i \in 0..n |-> IF i = 0 THEN 0 ELSE f[i - 1] * Base + b[i]]
           P == CHOOSE f : E(f)
           w == [i \in 0..n |-> v[i]]
<1>1. Len(b) = n BY ArrIs
<1>2. E(w)
  <2>1. ASSUME NEW i \in 0..n PROVE w[i] = IF i = 0 THEN 0 ELSE w[i - 1] * Base + b[i]
    <3>1. CASE i = 0 BY <3>1 DEF Digits
    <3>2. CASE i # 0
      <4>1. i \in 1..n /\ i - 1 \in 0..n BY <3>2
      <4>2. v[i] = v[i - 1] * Base + b[i] BY <4>1 DEF Digits
      <4>3. w[i] = v[i] /\ w[i - 1] = v[i - 1] BY <4>1
      <4> HIDE DEF w
      <4> QED BY <3>2, <4>2, <4>3
    <3> QED BY <3>1, <3>2
  <2>2. w = [i \in 0..n |-> w[i]] OBVIOUS
  <2> HIDE DEF w
  <2> QED BY <2>1, <2>2
<1>3. E(P)
  <2> HIDE DEF E, w
  <2> QED BY <1>2
<1>4. ValueOf(b) = P[n] BY <1>1 DEF ValueOf
<1>5. P = [i \in 0..n |-> IF i = 0 THEN 0 ELSE P[i - 1] * Base + b[i]] BY <1>3
<1> HIDE DEF P
<1>6. Digits(P, b, n)
  <2>1. P[0] = 0 BY <1>5
  <2>2. ASSUME NEW i \in 1..n PROVE P[i] = P[i - 1] * Base + b[i]
    <3>1. i \in 0..n /\ i # 0 OBVIOUS
    <3> QED BY <1>5, <3>1
  <2> QED BY <2>1, <2>2 DEF Digits
<1>7. n \in 0..n /\ \A i \in 1..n : b[i] = b[i] OBVIOUS
<1>8. P[n] = v[n] BY <1>6, <1>7, DigitsSame
<1> QED BY <1>4, <1>8

(* A value is a natural number. *)
LEMMA ValueNat ==
  ASSUME NEW n \in Nat, NEW b, Arr(b, n, Nat)
  PROVE  ValueOf(b) \in Nat
<1>1. PICK v \in [Nat -> Nat] : Digits(v, b, n) BY DigitsExist
<1> QED BY <1>1, ValueIs

(* A smaller prefix stays smaller, whatever digits follow. *)
LEMMA LessPersists ==
  ASSUME NEW n \in Nat, NEW a, NEW b, Arr(a, n, Bytes), Arr(b, n, Bytes),
         NEW v \in [Nat -> Nat], NEW w \in [Nat -> Nat], Digits(v, a, n), Digits(w, b, n),
         NEW m \in 0..n, v[m] < w[m]
  PROVE  v[n] < w[n]
<1> DEFINE T == {i \in Nat : m + i <= n => v[m + i] < w[m + i]}
<1>0. Base \in Nat BY HeaderAssumption
<1>1. 0 \in T
  <2>1. m + 0 = m OBVIOUS
  <2> QED BY <2>1
<1>2. ASSUME NEW i \in Nat, i \in T PROVE i + 1 \in T
  <2> SUFFICES ASSUME m + (i + 1) <= n PROVE v[m + (i + 1)] < w[m + (i + 1)] OBVIOUS
  <2> DEFINE j == m + i
  <2>1. j \in Nat /\ j + 1 \in 1..n /\ (j + 1) - 1 = j /\ m + (i + 1) = j + 1 OBVIOUS
  <2>2. v[j] < w[j] BY <1>2
  <2> HIDE DEF j
  <2>3. v[j + 1] = v[j] * Base + a[j + 1] /\ w[j + 1] = w[j] * Base + b[j + 1] BY <2>1 DEF Digits
  <2>4. a[j + 1] \in 0..(Base - 1) /\ b[j + 1] \in 0..(Base - 1) BY <2>1 DEF Arr, Bytes
  <2>5. v[j] \in Nat /\ w[j] \in Nat BY <2>1
  <2> DEFINE x == v[j]
             y == w[j]
  <2>6. (x + 1) * Base <= y * Base
    <3>1. x + 1 <= y /\ x + 1 \in Int /\ y \in Int BY <2>2, <2>5
    <3> HIDE DEF x, y
    <3> QED BY <1>0, <3>1, MulMono
  <2>7. (x + 1) * Base = x * Base + Base /\ x * Base \in Nat /\ y * Base \in Nat BY <1>0, <2>5
  <2> HIDE DEF x, y
  <2>8. x * Base + a[j + 1] < y * Base + b[j + 1] BY <1>0, <2>4, <2>6, <2>7
  <2> QED BY <2>1, <2>3, <2>8 DEF x, y
<1> HIDE DEF T
<1>3. Nat \subseteq T BY <1>1, <1>2, Induction
<1>4. n - m \in Nat /\ m + (n - m) = n OBVIOUS
<1>5. n - m \in T BY <1>3, <1>4
<1> QED BY <1>4, <1>5 DEF T

(* The bytewise comparison of the code is the comparison of the numbers. *)
LEMMA LexIsNumeric ==
  ASSUME NEW n \in Nat, NEW a, NEW b, Arr(a, n, Bytes), Arr(b, n, Bytes)
  PROVE  LexLeq(a, b) <=> ValueOf(a) <= ValueOf(b)
<1>0. Bytes \subseteq Nat BY HeaderAssumption DEF Bytes
<1>1. Arr(a, n, Nat) /\ Arr(b, n, Nat) BY <1>0 DEF Arr
<1>2. PICK v \in [Nat -> Nat] : Digits(v, a, n) BY <1>1, DigitsExist
<1>3. PICK w \in [Nat -> Nat] : Digits(w, b, n) BY <1>1, DigitsExist
<1>4. ValueOf(a) = v[n] /\ ValueOf(b) = w[n] BY <1>1, <1>2, <1>3, ValueIs
<1>5. DOMAIN a = 1..n /\ DOMAIN b = 1..n BY DEF Arr
<1>6. \A i \in 1..n : a[i] \in Nat /\ b[i] \in Nat BY <1>1 DEF Arr
<1>7. CASE \A i \in 1..n : a[i] = b[i]
  <2>1. LexLeq(a, b) BY <1>5, <1>6, <1>7 DEF LexLeq
  <2>2. v[n] = w[n]
    <3>1. n \in 0..n OBVIOUS
    <3> QED BY <1>2, <1>3, <1>7, <3>1, DigitsSame
  <2> QED BY <1>4, <2>1, <2>2
<1>8. CASE \E i \in 1..n : a[i] # b[i]
  <2> DEFINE D == {i \in 1..n : a[i] # b[i]}
  <2>1. D \subseteq Nat /\ D # {} BY <1>8
  <2>2. PICK j \in D : \A i \in D : j <= i BY <2>1, LeastElement
  <2>3. j \in 1..n /\ a[j] # b[j] OBVIOUS
  <2>4. \A i \in 1..(j - 1) : a[i] = b[i]
    <3> SUFFICES ASSUME NEW i \in 1..(j - 1), a[i] # b[i] PROVE FALSE OBVIOUS
    <3>1. i \in D BY <2>3
    <3> QED BY <2>2, <2>3, <3>1
  <2> HIDE DEF D
  <2>5. v[j - 1] = w[j - 1]
    <3>1. j - 1 \in 0..n BY <2>3
    <3> QED BY <1>2, <1>3, <2>4, <3>1, DigitsSame
  <2>6. v[j] = v[j - 1] * Base + a[j] /\ w[j] = v[j - 1] * Base + b[j]
    BY <1>2, <1>3, <2>3, <2>5 DEF Digits
  <2>7. v[j - 1] * Base \in Nat /\ a[j] \in Nat /\ b[j] \in Nat /\ j \in 0..n
    <3>1. v[j - 1] \in Nat /\ Base \in Nat BY <1>2, <2>3, HeaderAssumption
    <3> QED BY <1>6, <2>3, <3>1
  <2>8. CASE a[j] < b[j]
    <3>1. v[j] < w[j] BY <2>6, <2>7, <2>8
    <3>2. v[n] < w[n] BY <1>2, <1>3, <2>7, <3>1, LessPersists
    <3>3. ASSUME NEW i \in 1..n, \A k \in 1..(i - 1) : a[k] = b[k] PROVE a[i] <= b[i]
      <4>1. ~(j < i)
        <5> SUFFICES ASSUME j < i PROVE FALSE OBVIOUS
        <5>1. j \in 1..(i - 1) BY <2>3
        <5> QED BY <2>3, <3>3, <5>1
      <4>2. CASE i = j BY <2>7, <2>8, <4>2
      <4>3. CASE i < j
        <5>1. i \in 1..(j - 1) BY <2>3, <4>3
        <5> QED BY <1>6, <2>4, <5>1
      <4> QED BY <2>3, <4>1, <4>2, <4>3
    <3>4. LexLeq(a, b) BY <1>5, <3>3 DEF LexLeq
    <3>5. v[n] \in Nat /\ w[n] \in Nat BY <1>2, <1>3
    <3> QED BY <1>4, <3>2, <3>4, <3>5
  <2>9. CASE b[j] < a[j]
    <3>1. w[j] < v[j] BY <2>6, <2>7, <2>9
    <3>2. w[n] < v[n] BY <1>2, <1>3, <2>7, <3>1, LessPersists
    <3>3. ~LexLeq(a, b)
      <4>1. ~(a[j] <= b[j]) BY <2>7, <2>9
      <4> QED BY <1>5, <2>3, <2>4, <4>1 DEF LexLeq
    <3>5. v[n] \in Nat /\ w[n] \in Nat BY <1>2, <1>3
    <3> QED BY <1>4, <3>2, <3>3, <3>5
  <2> QED BY <2>3, <2>7, <2>8, <2>9
<1> QED BY <1>7, <1>8

-----------------------------------------------------------------------------
(* Bytes and words. *)

Word(V) == [1..4 -> V]

(* Byte j of word i of f is byte 4(i-1)+j of the array g. *)
Spread(g, ws, n) == \A i \in 1..n : \A j \in 1..4 : g[4 * (i - 1) + j] = ws[i][j]

(* A word is an array of four. *)
LEMMA WordArr ==
  ASSUME NEW V, NEW w \in Word(V)
  PROVE  Arr(w, 4, V)
BY DEF Word, Arr

(* bswap32 turns a word around. *)
LEMMA ReverseWord ==
  ASSUME NEW V, NEW w \in Word(V)
  PROVE  /\ bswap32(w) \in Word(V) /\ \A j \in 1..4 : bswap32(w)[j] = w[5 - j]
         /\ bswap32(bswap32(w)) = w
<1>0. 4 \in Nat OBVIOUS
<1>1. Len(w) = 4 BY <1>0, WordArr, ArrIs
<1> DEFINE r == bswap32(w)
<1>2. r = [i \in 1..4 |-> w[(4 - i) + 1]] BY <1>1 DEF bswap32, Reverse
<1>3. \A i \in 1..4 : (4 - i) + 1 \in 1..4 /\ (4 - i) + 1 = 5 - i OBVIOUS
<1>4. r \in Word(V) /\ \A j \in 1..4 : r[j] = w[5 - j] BY <1>2, <1>3 DEF Word
<1> HIDE DEF r
<1>5. Len(r) = 4
  <2>1. Arr(r, 4, V) BY <1>4, WordArr, Zenon
  <2> QED BY <1>0, <2>1, ArrIs, Zenon
<1>6. bswap32(r) = [i \in 1..4 |-> r[(4 - i) + 1]] BY <1>5 DEF bswap32, Reverse
<1>7. ASSUME NEW i \in 1..4 PROVE r[(4 - i) + 1] = w[i]
  <2>1. (4 - i) + 1 \in 1..4 /\ 5 - ((4 - i) + 1) = i OBVIOUS
  <2>2. r[(4 - i) + 1] = w[5 - ((4 - i) + 1)] BY <1>4, <2>1, Zenon
  <2> QED BY <2>1, <2>2
<1>8. w = [i \in 1..4 |-> w[i]] BY DEF Word
<1>9. bswap32(r) = w BY <1>6, <1>7, <1>8
<1> QED BY <1>4, <1>9 DEF r

(* Words stored one after the other. *)
LEMMA FlattenIs ==
  ASSUME NEW V, NEW n \in Nat \ {0}, NEW ws, Arr(ws, n, Word(V))
  PROVE  Arr(FlattenSeq(ws), 4 * n, V) /\ Spread(FlattenSeq(ws), ws, n)
<1> DEFINE E(f) == f = [i \in 1..n |-> IF i = 1 THEN ws[i] ELSE f[i - 1] \o ws[i]]
           P == CHOOSE f : E(f)
           h == [i \in Nat |-> [v \in Seq(V) |-> IF i \in 1..n THEN v \o ws[i] ELSE v]]
<1>0. Len(ws) = n /\ n # 0 BY ArrIs
<1>1. ASSUME NEW i \in 1..n PROVE ws[i] \in Word(V) /\ ws[i] \in Seq(V) /\ Arr(ws[i], 4, V)
  <2>1. ws[i] \in Word(V) BY DEF Arr
  <2>2. 4 \in Nat OBVIOUS
  <2> QED BY <2>1, <2>2, WordArr, ArrIs
<1>2. h \in [Nat -> [Seq(V) -> Seq(V)]]
  <2>1. \A i \in 1..n, v \in Seq(V) : v \o ws[i] \in Seq(V) BY <1>1
  <2> QED BY <2>1
<1>3. \A i \in 1..n, v \in Seq(V) : h[i][v] = v \o ws[i] OBVIOUS
<1> HIDE DEF h
<1>4. PICK f \in [Nat -> Seq(V)] : Recursion(f, <<>>, h)
  <2>1. <<>> \in Seq(V) OBVIOUS
  <2> QED BY <1>2, <2>1, RecursionExists
<1>5. ASSUME NEW i \in 1..n PROVE f[i] = IF i = 1 THEN ws[i] ELSE f[i - 1] \o ws[i]
  <2>1. i \in Nat /\ i # 0 /\ i - 1 \in Nat OBVIOUS
  <2>2. f[i] = h[i][f[i - 1]] /\ f[0] = <<>> BY <1>4, <2>1 DEF Recursion
  <2>3. f[i - 1] \in Seq(V) BY <1>4, <2>1
  <2>4. f[i] = f[i - 1] \o ws[i] BY <1>3, <2>2, <2>3
  <2>5. CASE i = 1
    <3>1. i - 1 = 0 BY <2>5
    <3>2. <<>> \o ws[i] = ws[i] BY <1>1
    <3> QED BY <2>2, <2>4, <2>5, <3>1, <3>2
  <2> QED BY <2>4, <2>5
<1> DEFINE g == [i \in 1..n |-> f[i]]
<1>6. E(g)
  <2>1. ASSUME NEW i \in 1..n PROVE g[i] = IF i = 1 THEN ws[i] ELSE g[i - 1] \o ws[i]
    <3>1. CASE i = 1 BY <1>5, <3>1
    <3>2. CASE i # 1
      <4>1. i - 1 \in 1..n BY <3>2
      <4>2. g[i] = f[i] /\ g[i - 1] = f[i - 1] BY <4>1
      <4> HIDE DEF g
      <4> QED BY <1>5, <3>2, <4>2
    <3> QED BY <3>1, <3>2
  <2>2. g = [i \in 1..n |-> g[i]] OBVIOUS
  <2> HIDE DEF g
  <2> QED BY <2>1, <2>2
<1>7. E(P)
  <2> HIDE DEF E, g
  <2> QED BY <1>6
<1>8. FlattenSeq(ws) = P[n] BY <1>0 DEF FlattenSeq
<1>9. P = [i \in 1..n |-> IF i = 1 THEN ws[i] ELSE P[i - 1] \o ws[i]] BY <1>7
<1> HIDE DEF P
<1> DEFINE T == {i \in Nat : i + 1 <= n => Arr(P[i + 1], 4 * (i + 1), V) /\ Spread(P[i + 1], ws, i + 1)}
<1>10. 0 \in T
  <2>1. 0 + 1 = 1 /\ 1 \in 1..n /\ 4 * 1 = 4 OBVIOUS
  <2>2. P[1] = ws[1] BY <1>9, <2>1
  <2>3. Arr(P[1], 4 * 1, V) BY <1>1, <2>1, <2>2
  <2>4. ASSUME NEW i \in 1..1, NEW j \in 1..4 PROVE P[1][4 * (i - 1) + j] = ws[i][j]
    <3>1. i = 1 /\ 4 * (i - 1) + j = j OBVIOUS
    <3> QED BY <2>2, <3>1
  <2>5. Spread(P[1], ws, 1) BY <2>4 DEF Spread
  <2> QED BY <2>1, <2>3, <2>5
<1>11. ASSUME NEW i \in Nat, i \in T PROVE i + 1 \in T
  <2> DEFINE k == i + 1
             l == 4 * k
  <2> SUFFICES ASSUME k + 1 <= n PROVE Arr(P[k + 1], 4 * (k + 1), V) /\ Spread(P[k + 1], ws, k + 1)
    OBVIOUS
  <2>1. k \in Nat /\ k + 1 \in 1..n /\ k + 1 # 1 /\ (k + 1) - 1 = k /\ k <= n OBVIOUS
  <2>a. l \in Nat /\ 4 \in Nat /\ l + 4 = 4 * (k + 1) OBVIOUS
  <2>2. Arr(P[k], l, V) /\ Spread(P[k], ws, k) BY <1>11, <2>1
  <2> HIDE DEF k, l
  <2>3. P[k + 1] = P[k] \o ws[k + 1] BY <1>9, <2>1
  <2>4. Arr(ws[k + 1], 4, V) BY <1>1, <2>1
  <2>5. Arr(P[k] \o ws[k + 1], l + 4, V) /\ Joins(P[k] \o ws[k + 1], P[k], l, ws[k + 1], 4)
    BY <2>a, <2>2, <2>4, CatArr, Zenon
  <2>6. Arr(P[k + 1], 4 * (k + 1), V) BY <2>3, <2>5, <2>a
  <2>7. Joins(P[k + 1], P[k], l, ws[k + 1], 4) BY <2>3, <2>5
  <2>8. ASSUME NEW x \in 1..(k + 1), NEW j \in 1..4 PROVE P[k + 1][4 * (x - 1) + j] = ws[x][j]
    <3>1. CASE x = k + 1
      <4>1. 4 * (x - 1) + j = l + j BY <2>1, <3>1 DEF l
      <4>2. P[k + 1][l + j] = ws[k + 1][j] BY <2>7, Zenon DEF Joins
      <4> QED BY <3>1, <4>1, <4>2
    <3>2. CASE x \in 1..k
      <4>1. 4 * (x - 1) + j \in 1..l BY <2>1, <3>2 DEF l
      <4>2. P[k + 1][4 * (x - 1) + j] = P[k][4 * (x - 1) + j] BY <2>7, <4>1, Zenon DEF Joins
      <4>3. P[k][4 * (x - 1) + j] = ws[x][j] BY <2>2, <3>2, Zenon DEF Spread
      <4> QED BY <4>2, <4>3
    <3> QED BY <2>1, <3>1, <3>2
  <2>9. Spread(P[k + 1], ws, k + 1) BY <2>8 DEF Spread
  <2> QED BY <2>6, <2>9
<1> HIDE DEF T
<1>12. Nat \subseteq T BY <1>10, <1>11, Induction
<1>13. n - 1 \in Nat /\ (n - 1) + 1 = n OBVIOUS
<1>14. n - 1 \in T BY <1>12, <1>13
<1>15. Arr(P[n], 4 * n, V) /\ Spread(P[n], ws, n) BY <1>13, <1>14 DEF T
<1> QED BY <1>8, <1>15

(* Every byte is a byte of a word. *)
LEMMA InSomeWord ==
  ASSUME NEW n \in Nat, NEW k \in 1..(4 * n)
  PROVE  \E i \in 1..n : \E j \in 1..4 : k = 4 * (i - 1) + j
<1> DEFINE i == (k - 1) \div 4 + 1
           j == ((k - 1) % 4) + 1
<1>1. i \in 1..n /\ j \in 1..4 /\ k = 4 * (i - 1) + j OBVIOUS
<1> QED BY <1>1

(* Arrays with the same words are equal. *)
LEMMA SpreadEqual ==
  ASSUME NEW V, NEW n \in Nat, NEW ws, NEW f, NEW g, Arr(f, 4 * n, V), Arr(g, 4 * n, V),
         Spread(f, ws, n), Spread(g, ws, n)
  PROVE  f = g
<1>1. ASSUME NEW k \in 1..(4 * n) PROVE f[k] = g[k]
  <2>1. PICK i \in 1..n, j \in 1..4 : k = 4 * (i - 1) + j BY InSomeWord
  <2>2. f[4 * (i - 1) + j] = g[4 * (i - 1) + j] BY Zenon DEF Spread
  <2> QED BY <2>1, <2>2
<1>2. 4 * n \in Nat OBVIOUS
<1> DEFINE l == 4 * n
<1> HIDE DEF l
<1>3. l \in Nat /\ Arr(f, l, V) /\ Arr(g, l, V) /\ \A k \in 1..l : f[k] = g[k] BY <1>1, <1>2 DEF l
<1> QED BY <1>3, ArrEqual

(* The length of a hash. *)
LEMMA HashLenFacts ==
  HashWords \in Nat \ {0} /\ HashLen = 4 * HashWords /\ HashLen \in Nat /\ HashLen >= 4
BY HeaderAssumption DEF HashLen

(* The words of a hash, each turned around. *)
LEMMA WordsIs ==
  ASSUME NEW V, NEW b, Arr(b, HashLen, V)
  PROVE  /\ Arr(be32BytesToLeU32Words(b), HashWords, Word(V))
         /\ \A i \in 1..HashWords :
              /\ bswap32(be32BytesToLeU32Words(b)[i]) = SubSeq(b, 4 * i - 3, 4 * i)
              /\ Arr(SubSeq(b, 4 * i - 3, 4 * i), 4, V)
              /\ Copies(SubSeq(b, 4 * i - 3, 4 * i), b, 4 * (i - 1), 4)
<1>0. HashWords \in Nat \ {0} /\ HashLen = 4 * HashWords /\ HashLen \in Nat BY HashLenFacts
<1> DEFINE W == be32BytesToLeU32Words(b)
<1>1. Len(b) \div 4 = HashWords
  <2>1. Len(b) = HashLen BY <1>0, ArrIs
  <2> QED BY <1>0, <2>1
<1>2. ASSUME NEW i \in 1..HashWords
      PROVE  LET s == SubSeq(b, 4 * i - 3, 4 * i)
             IN  /\ W[i] = bswap32(s) /\ Arr(s, 4, V) /\ Copies(s, b, 4 * (i - 1), 4)
                 /\ W[i] \in Word(V) /\ bswap32(W[i]) = s
  <2> DEFINE a == 4 * (i - 1)
             s == SubSeq(b, 4 * i - 3, 4 * i)
  <2>1. a \in Nat /\ 4 \in Nat /\ a + 4 <= HashLen /\ a + 1 = 4 * i - 3 /\ a + 4 = 4 * i BY <1>0
  <2> HIDE DEF a
  <2>2. Arr(SubSeq(b, a + 1, a + 4), 4, V) /\ Copies(SubSeq(b, a + 1, a + 4), b, a, 4)
    BY <1>0, <2>1, SubArr, Zenon
  <2>3. Arr(s, 4, V) /\ Copies(s, b, a, 4) BY <2>1, <2>2
  <2>4. W[i] = bswap32(s)
    <3>1. WordsOf(b)[i] = s BY <1>1 DEF WordsOf
    <3> QED BY <3>1 DEF be32BytesToLeU32Words
  <2> HIDE DEF s, W
  <2>5. s \in Word(V) BY <2>3 DEF Arr, Word
  <2>6. W[i] \in Word(V) /\ bswap32(W[i]) = s BY <2>4, <2>5, ReverseWord
  <2> QED BY <2>3, <2>4, <2>6 DEF a, s
<1>3. Arr(W, HashWords, Word(V))
  <2>1. W = [i \in 1..HashWords |-> W[i]] BY DEF be32BytesToLeU32Words
  <2> HIDE DEF W
  <2> QED BY <1>2, <2>1 DEF Arr
<1> QED BY <1>2, <1>3

(* leU32WordsToBe32Bytes undoes be32BytesToLeU32Words. *)
LEMMA RoundTrip ==
  ASSUME NEW V, NEW b, Arr(b, HashLen, V)
  PROVE  leU32WordsToBe32Bytes(be32BytesToLeU32Words(b)) = b
<1>0. HashWords \in Nat \ {0} /\ HashLen = 4 * HashWords /\ HashLen \in Nat BY HashLenFacts
<1> DEFINE W == be32BytesToLeU32Words(b)
           R == [i \in 1..HashWords |-> bswap32(W[i])]
<1>1. /\ Arr(W, HashWords, Word(V))
      /\ \A i \in 1..HashWords :
              /\ bswap32(W[i]) = SubSeq(b, 4 * i - 3, 4 * i)
              /\ Arr(SubSeq(b, 4 * i - 3, 4 * i), 4, V)
              /\ Copies(SubSeq(b, 4 * i - 3, 4 * i), b, 4 * (i - 1), 4)
  BY WordsIs
<1>2. leU32WordsToBe32Bytes(W) = FlattenSeq(R) BY DEF leU32WordsToBe32Bytes
<1> HIDE DEF W
<1>3. Arr(R, HashWords, Word(V))
  <2>1. \A i \in 1..HashWords : bswap32(W[i]) \in Word(V) BY <1>1 DEF Arr, Word
  <2> QED BY <2>1 DEF Arr
<1>4. Spread(b, R, HashWords)
  <2>1. ASSUME NEW i \in 1..HashWords, NEW j \in 1..4 PROVE b[4 * (i - 1) + j] = R[i][j]
    <3>1. R[i] = SubSeq(b, 4 * i - 3, 4 * i) BY <1>1
    <3>2. Copies(R[i], b, 4 * (i - 1), 4) BY <1>1, <3>1
    <3> HIDE DEF R
    <3> QED BY <3>2, Zenon DEF Copies
  <2> HIDE DEF R
  <2> QED BY <2>1 DEF Spread
<1> HIDE DEF R
<1>5. Arr(FlattenSeq(R), 4 * HashWords, V) /\ Spread(FlattenSeq(R), R, HashWords)
  BY <1>0, <1>3, FlattenIs, Zenon
<1>6. Arr(b, 4 * HashWords, V) BY <1>0
<1>7. HashWords \in Nat BY <1>0
<1>8. FlattenSeq(R) = b BY <1>4, <1>5, <1>6, <1>7, SpreadEqual, Zenon
<1> QED BY <1>2, <1>8 DEF W

-----------------------------------------------------------------------------
(* Targets. *)

(* An array of zeros. *)
LEMMA ZerosArr ==
  ASSUME NEW n \in Nat
  PROVE  Arr(Zeros(n), n, Bytes) /\ \A i \in 1..n : Zeros(n)[i] = 0
<1>1. 0 \in Bytes BY HeaderAssumption DEF Bytes
<1> QED BY <1>1 DEF Zeros, Arr

(* A number whose digits are all 0. *)
LEMMA ValueZero ==
  ASSUME NEW n \in Nat, NEW b, Arr(b, n, Nat), \A i \in 1..n : b[i] = 0
  PROVE  ValueOf(b) = 0
<1> DEFINE v == [i \in Nat |-> 0]
<1>1. Digits(v, b, n) BY HeaderAssumption DEF Digits
<1>2. v[n] = 0 OBVIOUS
<1> HIDE DEF v
<1> QED BY <1>1, <1>2, ValueIs

(* The largest number. *)
LEMMA ValueAll ==
  ASSUME NEW n \in Nat, NEW b, Arr(b, n, Nat), \A i \in 1..n : b[i] = Base - 1
  PROVE  ValueOf(b) = Power(Base, n) - 1
<1> DEFINE v == [i \in Nat |-> Power(Base, i) - 1]
<1>0. Base \in Nat /\ \A i \in Nat : Power(Base, i) \in Nat BY HeaderAssumption, PowerPositive
<1>1. v[0] = 0
  <2>1. 0 \in Nat OBVIOUS
  <2>2. Power(Base, 0) = 1 BY <2>1, PowerPositive
  <2> QED BY <2>2
<1>2. ASSUME NEW i \in 1..n PROVE v[i] = v[i - 1] * Base + b[i]
  <2> DEFINE k == i - 1
             p == Power(Base, k)
  <2>1. k \in Nat /\ k + 1 = i OBVIOUS
  <2>2. Power(Base, k + 1) = Base * p BY <2>1, PowerPositive
  <2>3. v[i] = Base * p - 1 /\ v[i - 1] = p - 1 BY <2>1, <2>2
  <2>4. p \in Nat BY <1>0, <2>1
  <2> HIDE DEF p, v
  <2>5. (p - 1) * Base = Base * p - Base BY <1>0, <2>4
  <2>6. Base * p \in Nat BY <1>0, <2>4
  <2> QED BY <1>0, <2>3, <2>5, <2>6
<1>3. v[n] = Power(Base, n) - 1 OBVIOUS
<1> HIDE DEF v
<1>4. Digits(v, b, n) BY <1>1, <1>2 DEF Digits
<1> QED BY <1>3, <1>4, ValueIs

(* Three digits. *)
Three(m) == (m[1] * Base + m[2]) * Base + m[3]

(* Their value. *)
LEMMA ValueThree ==
  ASSUME NEW m, Arr(m, 3, Nat)
  PROVE  ValueOf(m) = Three(m) /\ Three(m) \in Nat
<1> DEFINE v == [i \in Nat |-> IF i = 0 THEN 0 ELSE IF i = 1 THEN m[1]
                              ELSE IF i = 2 THEN m[1] * Base + m[2] ELSE Three(m)]
<1>0. Base \in Nat /\ 3 \in Nat BY HeaderAssumption
<1>1. m[1] \in Nat /\ m[2] \in Nat /\ m[3] \in Nat BY DEF Arr
<1>2. v[0] = 0 /\ v[1] = m[1] /\ v[2] = m[1] * Base + m[2] /\ v[3] = Three(m) OBVIOUS
<1> HIDE DEF v
<1>3. v[1] = v[0] * Base + m[1] /\ v[2] = v[1] * Base + m[2] /\ v[3] = v[2] * Base + m[3]
  BY <1>0, <1>1, <1>2 DEF Three
<1>4. ASSUME NEW i \in 1..3 PROVE v[i] = v[i - 1] * Base + m[i]
  <2>1. CASE i = 1 BY <1>3, <2>1
  <2>2. CASE i = 2 BY <1>3, <2>2
  <2>3. CASE i = 3 BY <1>3, <2>3
  <2> QED BY <2>1, <2>2, <2>3
<1>5. Digits(v, m, 3) BY <1>2, <1>4 DEF Digits
<1>6. ValueOf(m) = v[3] BY <1>0, <1>5, ValueIs
<1>7. m[1] * Base \in Nat BY <1>0, <1>1
<1>8. (m[1] * Base + m[2]) * Base \in Nat BY <1>0, <1>1, <1>7
<1> QED BY <1>1, <1>2, <1>6, <1>8 DEF Three

(* Three digits with e digits below them. *)
Placed(b, x, m, n) == \A i \in 1..n : b[i] = IF i - x \in 1..3 THEN m[i - x] ELSE 0

(* The value of an array that is 0 outside three places. *)
LEMMA ValuePlaced ==
  ASSUME NEW n \in Nat, NEW x \in Nat, NEW e \in Nat, n = x + 3 + e, NEW m, Arr(m, 3, Nat),
         NEW b, Arr(b, n, Nat), Placed(b, x, m, n)
  PROVE  ValueOf(b) = Three(m) * Power(Base, e)
<1> DEFINE t == Three(m)
           v == [i \in Nat |-> IF i <= x THEN 0 ELSE IF i = x + 1 THEN m[1]
                               ELSE IF i = x + 2 THEN m[1] * Base + m[2]
                               ELSE t * Power(Base, i - (x + 3))]
<1>0. Base \in Nat BY HeaderAssumption
<1>1. m[1] \in Nat /\ m[2] \in Nat /\ m[3] \in Nat /\ t \in Nat BY ValueThree DEF Arr
<1>2. v[0] = 0 OBVIOUS
<1>3. ASSUME NEW i \in 1..n PROVE v[i] = v[i - 1] * Base + b[i]
  <2>0. b[i] = IF i - x \in 1..3 THEN m[i - x] ELSE 0 BY DEF Placed
  <2>1. CASE i <= x
    <3>1. ~(i - x \in 1..3) /\ i - 1 <= x /\ i - 1 \in Nat BY <2>1
    <3>2. b[i] = 0 /\ v[i] = 0 /\ v[i - 1] = 0 BY <2>0, <2>1, <3>1
    <3> QED BY <1>0, <3>2
  <2>2. CASE i = x + 1
    <3>1. i - x = 1 /\ i - 1 = x BY <2>2
    <3>2. b[i] = m[1] /\ v[i] = m[1] /\ v[i - 1] = 0 BY <2>0, <2>2, <3>1
    <3> QED BY <1>0, <1>1, <3>2
  <2>3. CASE i = x + 2
    <3>1. i - x = 2 /\ i - 1 = x + 1 BY <2>3
    <3>2. b[i] = m[2] /\ v[i] = m[1] * Base + m[2] /\ v[i - 1] = m[1] BY <2>0, <2>3, <3>1
    <3> QED BY <3>2
  <2>4. CASE i = x + 3
    <3>1. i - x = 3 /\ i - 1 = x + 2 /\ i - (x + 3) = 0 BY <2>4
    <3>2. Power(Base, 0) = 1
      <4>1. 0 \in Nat OBVIOUS
      <4> QED BY <4>1, PowerPositive
    <3>3. b[i] = m[3] /\ v[i - 1] = m[1] * Base + m[2] BY <2>0, <2>4, <3>1
    <3>4. v[i] = t * Power(Base, 0) BY <2>0, <2>4, <3>1
    <3> HIDE DEF v, t
    <3>5. v[i] = t BY <1>1, <3>2, <3>4
    <3> QED BY <3>3, <3>5 DEF t, Three
  <2>5. CASE i > x + 3
    <3> DEFINE k == i - 1 - (x + 3)
               p == Power(Base, k)
    <3>1. k \in Nat /\ k + 1 = i - (x + 3) /\ ~(i - x \in 1..3) /\ i - 1 > x + 2 /\ i - 1 \in Nat BY <2>5
    <3>2. Power(Base, k + 1) = Base * p /\ p \in Nat BY <3>1, PowerPositive
    <3>3. b[i] = 0 BY <2>0, <3>1
    <3>4. v[i - 1] = t * p BY <3>1
    <3>5. v[i] = t * Power(Base, k + 1) BY <2>5, <3>1
    <3> HIDE DEF v, t, p, k
    <3>6. t * (Base * p) = (t * p) * Base BY <1>0, <1>1, <3>2
    <3>7. (t * p) * Base \in Nat BY <1>0, <1>1, <3>2
    <3> QED BY <3>2, <3>3, <3>4, <3>5, <3>6, <3>7
  <2> QED BY <2>1, <2>2, <2>3, <2>4, <2>5
<1>4. v[n] = t * Power(Base, e)
  <2>1. n - (x + 3) = e /\ n > x + 2 OBVIOUS
  <2> QED BY <2>1
<1> HIDE DEF v
<1>5. Digits(v, b, n) BY <1>2, <1>3 DEF Digits
<1> QED BY <1>4, <1>5, ValueIs

(* A number whose digits but the last are 0. *)
LEMMA ValueLast ==
  ASSUME NEW n \in Nat \ {0}, NEW b, Arr(b, n, Nat), \A i \in 1..n : i # n => b[i] = 0
  PROVE  ValueOf(b) = b[n]
<1> DEFINE v == [i \in Nat |-> IF i = n THEN b[n] ELSE 0]
<1>0. Base \in Nat BY HeaderAssumption
<1>1. b[n] \in Nat BY DEF Arr
<1>2. v[0] = 0 /\ v[n] = b[n] OBVIOUS
<1>3. ASSUME NEW i \in 1..n PROVE v[i] = v[i - 1] * Base + b[i]
  <2>1. i - 1 \in Nat /\ i - 1 # n /\ v[i - 1] = 0 /\ v[i] = b[i] OBVIOUS
  <2>2. b[i] \in Nat BY DEF Arr
  <2> HIDE DEF v
  <2> QED BY <1>0, <2>1, <2>2
<1> HIDE DEF v
<1>4. Digits(v, b, n) BY <1>2, <1>3 DEF Digits
<1> QED BY <1>2, <1>4, ValueIs

(* The mantissa of compact bits. *)
LEMMA MantissaIs ==
  ASSUME NEW c \in Compact
  PROVE  /\ c[1] \in Nat /\ c[2] \in Nat
         /\ Arr(Tail(c), 3, Bytes) /\ Arr(Tail(c), 3, Nat) /\ Tail(c)[1] = c[2]
<1>0. Bytes \subseteq Nat /\ 4 \in Nat /\ 3 \in Nat BY HeaderAssumption DEF Bytes
<1>1. c \in [1..4 -> Nat] /\ \A i \in 2..4 : c[i] \in Bytes BY DEF Compact
<1>2. Arr(c, 4, Nat) BY <1>1 DEF Arr
<1>3. c \in Seq(Nat) /\ Len(c) = 4 BY <1>0, <1>2, ArrIs
<1>4. c # <<>>
  <2> SUFFICES ASSUME c = <<>> PROVE FALSE OBVIOUS
  <2>1. DOMAIN c = {} OBVIOUS
  <2>2. 1 \in DOMAIN c BY <1>1
  <2> QED BY <2>1, <2>2
<1>5. Tail(c) \in Seq(Nat) /\ Len(Tail(c)) = Len(c) - 1 /\ \A i \in 1..Len(Tail(c)) : Tail(c)[i] = c[i + 1]
  BY <1>3, <1>4, HeadTailProperties
<1>6. Len(Tail(c)) = 3 BY <1>3, <1>5
<1>7. Arr(Tail(c), 3, Nat) BY <1>0, <1>5, <1>6, SeqArr
<1>8. ASSUME NEW i \in 1..3 PROVE Tail(c)[i] = c[i + 1] /\ c[i + 1] \in Bytes
  BY <1>1, <1>5, <1>6
<1>9. Arr(Tail(c), 3, Bytes) BY <1>7, <1>8 DEF Arr
<1>10. 1 \in 1..3 /\ 1 + 1 = 2 /\ c[1] \in Nat /\ c[2] \in Nat BY <1>1
<1>11. Tail(c)[1] = c[2]
  <2>1. Tail(c)[1] = c[1 + 1] BY <1>8, <1>10
  <2> QED BY <1>10, <2>1
<1> QED BY <1>7, <1>9, <1>10, <1>11

(* Its value when it is, or is not, <<0, 0, 0>>. *)
LEMMA MantissaZero ==
  ASSUME NEW m, Arr(m, 3, Nat)
  PROVE  m = <<0, 0, 0>> <=> Three(m) = 0
<1>0. Base \in Nat /\ Base > 1 BY HeaderAssumption
<1>1. m[1] \in Nat /\ m[2] \in Nat /\ m[3] \in Nat BY DEF Arr
<1>2. CASE m = <<0, 0, 0>>
  <2>1. m[1] = 0 /\ m[2] = 0 /\ m[3] = 0 BY <1>2
  <2> QED BY <1>0, <1>2, <2>1 DEF Three
<1>3. CASE m # <<0, 0, 0>>
  <2>1. ~(m[1] = 0 /\ m[2] = 0 /\ m[3] = 0)
    <3> SUFFICES ASSUME m[1] = 0, m[2] = 0, m[3] = 0 PROVE FALSE OBVIOUS
    <3>1. m = [i \in 1..3 |-> m[i]] BY DEF Arr
    <3>2. \A i \in 1..3 : m[i] = <<0, 0, 0>>[i] OBVIOUS
    <3>3. <<0, 0, 0>> = [i \in 1..3 |-> <<0, 0, 0>>[i]] OBVIOUS
    <3> QED BY <1>3, <3>1, <3>2, <3>3
  <2> DEFINE x == m[1]
             y == m[2]
             z == m[3]
             p == x * Base
             q == (p + y) * Base
  <2>2. p \in Nat /\ (x # 0 => p # 0) BY <1>0, <1>1
  <2> HIDE DEF p
  <2>3. q \in Nat /\ (p + y # 0 => q # 0) BY <1>0, <1>1, <2>2
  <2> HIDE DEF q
  <2>4. q + z # 0
    <3>1. CASE z # 0 BY <1>1, <2>3, <3>1
    <3>2. CASE z = 0
      <4>1. p + y # 0
        <5>1. CASE x # 0 BY <1>1, <2>2, <5>1
        <5>2. CASE x = 0
          <6>1. y # 0 BY <2>1, <3>2, <5>2
          <6> QED BY <1>1, <2>2, <6>1
        <5> QED BY <5>1, <5>2
      <4> QED BY <2>3, <3>2, <4>1
    <3> QED BY <3>1, <3>2
  <2>5. Three(m) = q + z BY DEF Three, p, q
  <2> QED BY <1>3, <2>4, <2>5
<1> QED BY <1>2, <1>3

(* be[32] with bytes placed in it. *)
LEMMA PlacedArr ==
  ASSUME NEW x \in Int, NEW k \in Nat, NEW bs, Arr(bs, k, Bytes)
  PROVE  /\ Arr(PlacedAt(x, bs), HashLen, Bytes)
         /\ \A i \in 1..HashLen : PlacedAt(x, bs)[i] = IF i - x \in 1..k THEN bs[i - x] ELSE 0
<1>1. 0 \in Bytes /\ HashLen \in Nat BY HeaderAssumption, HashLenFacts DEF Bytes
<1>2. DOMAIN bs = 1..k /\ \A i \in 1..k : bs[i] \in Bytes BY DEF Arr
<1> QED BY <1>1, <1>2 DEF PlacedAt, Arr

(* Division by the base. *)
LEMMA DropDigit ==
  ASSUME NEW x \in Nat, NEW d \in Bytes
  PROVE  (x * Base + d) \div Base = x
<1>1. Base \in Nat /\ Base > 0 /\ d \in Nat /\ d < Base BY HeaderAssumption DEF Bytes
<1> DEFINE p == x * Base
           q == (p + d) \div Base
           r == (p + d) % Base
<1>2. p \in Nat BY <1>1
<1>3. q \in Int /\ r \in 0..(Base - 1) /\ p + d = Base * q + r BY <1>1, <1>2
<1>4. Base * q = q * Base BY <1>1, <1>3
<1> DEFINE s == q * Base
<1>5. ~(q < x)
  <2> SUFFICES ASSUME q < x PROVE FALSE OBVIOUS
  <2>1. (q + 1) * Base <= x * Base
    <3>1. q + 1 \in Int /\ q + 1 <= x BY <1>3
    <3> HIDE DEF q
    <3> QED BY <1>1, <3>1, MulMono
  <2>2. (q + 1) * Base = s + Base BY <1>1, <1>3
  <2>3. s \in Int BY <1>1, <1>3
  <2> HIDE DEF q, r, p, s
  <2> QED BY <1>1, <1>2, <1>3, <1>4, <2>1, <2>2, <2>3 DEF p, s
<1>6. ~(x < q)
  <2> SUFFICES ASSUME x < q PROVE FALSE OBVIOUS
  <2>1. (x + 1) * Base <= q * Base
    <3>1. x + 1 \in Int /\ x + 1 <= q BY <1>3
    <3> HIDE DEF q
    <3> QED BY <1>1, <1>3, <3>1, MulMono
  <2>2. (x + 1) * Base = p + Base BY <1>1
  <2>3. s \in Int BY <1>1, <1>3
  <2> HIDE DEF q, r, p, s
  <2> QED BY <1>1, <1>2, <1>3, <1>4, <2>1, <2>2, <2>3 DEF p, s
<1> HIDE DEF q
<1> QED BY <1>3, <1>5, <1>6 DEF q

(* With an exponent below 3 the code keeps at most one byte of the mantissa, in  *)
(* the last place, where at least two belong.                                    *)
LEMMA SmallTarget ==
  ASSUME NEW e \in Nat, e < 3, NEW m, Arr(m, 3, Bytes), NEW b,
         b = PlacedAt(HashLen - e, SubSeq(ShiftRight(m, 3 - e), 1, e))
  PROVE  /\ Arr(b, HashLen, Bytes) /\ ValueOf(b) <= Three(m) \div Power(Base, 3 - e)
         /\ Three(m) \div Power(Base, 3 - e) \in Nat
<1>0. /\ HashLen \in Nat /\ HashLen >= 4 /\ Base \in Nat /\ Base > 1 /\ 0 \in Bytes /\ 3 \in Nat
      /\ Bytes \subseteq Nat
  BY HashLenFacts, HeaderAssumption DEF Bytes
<1>m. m[1] \in Bytes /\ m[2] \in Bytes /\ m[3] \in Bytes BY DEF Arr
<1> DEFINE s == ShiftRight(m, 3 - e)
           t == SubSeq(s, 0 + 1, 0 + e)
<1>1. Arr(s, 3, Bytes) /\ \A i \in 1..3 : s[i] = IF i - (3 - e) \in 1..3 THEN m[i - (3 - e)] ELSE 0
  BY <1>0 DEF ShiftRight, Arr
<1> HIDE DEF s
<1>2. Arr(t, e, Bytes) /\ Copies(t, s, 0, e)
  <2>1. 0 \in Nat /\ 0 + e <= 3 OBVIOUS
  <2> HIDE DEF t
  <2> QED BY <1>0, <1>1, <2>1, SubArr DEF t
<1>3. b = PlacedAt(HashLen - e, t)
  <2>1. 0 + 1 = 1 /\ 0 + e = e OBVIOUS
  <2> QED BY <2>1 DEF s
<1> HIDE DEF t
<1>4. HashLen - e \in Int BY <1>0
<1>5. /\ Arr(b, HashLen, Bytes)
      /\ \A i \in 1..HashLen : b[i] = IF i - (HashLen - e) \in 1..e THEN t[i - (HashLen - e)] ELSE 0
  BY <1>2, <1>3, <1>4, PlacedArr
<1>6. \A i \in 1..e : t[i] = IF e = 2 /\ i = 2 THEN m[1] ELSE 0
  <2> SUFFICES ASSUME NEW i \in 1..e PROVE t[i] = IF e = 2 /\ i = 2 THEN m[1] ELSE 0 OBVIOUS
  <2>1. t[i] = s[0 + i] BY <1>2 DEF Copies
  <2>2. 0 + i = i /\ i \in 1..3 OBVIOUS
  <2>3. t[i] = IF i - (3 - e) \in 1..3 THEN m[i - (3 - e)] ELSE 0 BY <1>1, <2>1, <2>2
  <2>4. CASE e = 2 /\ i = 2
    <3>1. i - (3 - e) = 1 BY <2>4
    <3> QED BY <2>3, <2>4, <3>1
  <2>5. CASE ~(e = 2 /\ i = 2)
    <3>1. ~(i - (3 - e) \in 1..3) BY <2>5
    <3> QED BY <2>3, <2>5, <3>1
  <2> QED BY <2>4, <2>5
<1>7. \A i \in 1..HashLen : b[i] = IF e = 2 /\ i = HashLen THEN m[1] ELSE 0
  <2> SUFFICES ASSUME NEW i \in 1..HashLen PROVE b[i] = IF e = 2 /\ i = HashLen THEN m[1] ELSE 0 OBVIOUS
  <2> DEFINE j == i - (HashLen - e)
  <2>1. b[i] = IF j \in 1..e THEN t[j] ELSE 0 BY <1>5
  <2>2. j \in Int /\ j <= e /\ (j = e <=> i = HashLen) BY <1>0
  <2> HIDE DEF j
  <2>3. CASE j \in 1..e
    <3>1. t[j] = IF e = 2 /\ j = 2 THEN m[1] ELSE 0 BY <1>6, <2>3
    <3> QED BY <2>1, <2>2, <2>3, <3>1
  <2>4. CASE j \notin 1..e BY <2>1, <2>2, <2>4
  <2> QED BY <2>3, <2>4
<1>8. Arr(b, HashLen, Nat) BY <1>0, <1>5 DEF Arr
<1>9. ValueOf(b) = IF e = 2 THEN m[1] ELSE 0
  <2>1. HashLen \in Nat \ {0} /\ HashLen \in 1..HashLen BY <1>0
  <2>2. \A i \in 1..HashLen : i # HashLen => b[i] = 0 BY <1>7
  <2>3. b[HashLen] = IF e = 2 THEN m[1] ELSE 0 BY <1>7, <2>1
  <2> QED BY <1>8, <2>1, <2>2, <2>3, ValueLast
<1> DEFINE p == Power(Base, 3 - e)
           x == m[1] * Base + m[2]
<1>10. Arr(m, 3, Nat) BY <1>0 DEF Arr
<1>11. Three(m) \in Nat BY <1>10, ValueThree
<1>12. p \in Nat \ {0}
  <2>1. 3 - e \in Nat OBVIOUS
  <2> QED BY <2>1, PowerPositive
<1>13. Three(m) \div p \in Nat
  <2> HIDE DEF p
  <2> QED BY <1>11, <1>12
<1>14. CASE e # 2
  <2> HIDE DEF p
  <2> QED BY <1>5, <1>9, <1>13, <1>14 DEF p
<1>15. CASE e = 2
  <2>1. Power(Base, 1) = Base
    <3>1. 0 \in Nat /\ 0 + 1 = 1 OBVIOUS
    <3>2. Power(Base, 0) = 1 /\ Power(Base, 0 + 1) = Base * Power(Base, 0) BY <3>1, PowerPositive
    <3>3. Base * 1 = Base BY <1>0
    <3> QED BY <3>1, <3>2, <3>3
  <2>2. p = Base
    <3>1. 3 - e = 1 BY <1>15
    <3> QED BY <2>1, <3>1
  <2>3. m[1] * Base \in Nat /\ m[1] * Base >= m[1] /\ m[2] \in Nat /\ m[1] \in Nat
    <3>1. m[1] \in Nat /\ m[2] \in Nat BY <1>0, <1>m
    <3>2. m[1] * 1 <= m[1] * Base BY <1>0, <3>1
    <3> QED BY <1>0, <3>1, <3>2
  <2>4. x \in Nat /\ m[1] <= x BY <2>3
  <2> HIDE DEF x
  <2>5. (x * Base + m[3]) \div Base = x BY <1>m, <2>4, DropDigit
  <2>6. Three(m) = x * Base + m[3] BY DEF Three, x
  <2> HIDE DEF p
  <2>7. Three(m) \div p = x BY <2>2, <2>5, <2>6
  <2> QED BY <1>5, <1>9, <1>13, <1>15, <2>4, <2>7 DEF p
<1> QED BY <1>14, <1>15

(* What compactToTargetU32LE makes of compact bits. *)
LEMMA TargetIs ==
  ASSUME NEW c \in Compact
  PROVE  /\ Arr(TargetBytes(c), HashLen, Bytes) /\ CompactTarget(c) \in Nat
         /\ ValueOf(TargetBytes(c)) <= CompactTarget(c)
         /\ c[1] >= 3 => ValueOf(TargetBytes(c)) = CompactTarget(c)
<1> DEFINE e == c[1]
           m == Tail(c)
           b == TargetBytes(c)
<1>0. HashLen \in Nat /\ HashLen >= 4 /\ Base \in Nat /\ Base > 1 /\ Bytes \subseteq Nat /\ 0 \in Bytes
      /\ 3 \in Nat /\ 0 \in Nat
  BY HashLenFacts, HeaderAssumption DEF Bytes
<1>1. e \in Nat /\ c[2] \in Nat /\ Arr(m, 3, Bytes) /\ Arr(m, 3, Nat) /\ m[1] = c[2] BY MantissaIs
<1>2. ValueOf(m) = Three(m) /\ Three(m) \in Nat /\ (m = <<0, 0, 0>> <=> Three(m) = 0)
  BY <1>1, ValueThree, MantissaZero
<1> DEFINE core == CompactTarget(c)
<1>3. core = IF 2 * c[2] >= Base THEN 0
             ELSE IF e <= 3 THEN Three(m) \div Power(Base, 3 - e)
             ELSE IF e > HashLen THEN (IF Three(m) = 0 THEN 0 ELSE Power(Base, HashLen) - 1)
             ELSE Three(m) * Power(Base, e - 3)
  BY <1>2 DEF CompactTarget
<1>4. b = IF 2 * m[1] >= Base \/ m = <<0, 0, 0>> THEN Zeros(HashLen)
          ELSE IF e <= 3 THEN PlacedAt(HashLen - e, SubSeq(ShiftRight(m, 3 - e), 1, e))
          ELSE IF e > HashLen THEN [i \in 1..HashLen |-> Base - 1]
          ELSE PlacedAt(HashLen - e, m)
  BY DEF TargetBytes
<1>5. \A n \in Nat : Power(Base, n) \in Nat \ {0} BY PowerPositive
<1>z. Arr(Zeros(HashLen), HashLen, Bytes) /\ ValueOf(Zeros(HashLen)) = 0
  <2>1. Arr(Zeros(HashLen), HashLen, Bytes) /\ \A i \in 1..HashLen : Zeros(HashLen)[i] = 0 BY <1>0, ZerosArr
  <2>2. Arr(Zeros(HashLen), HashLen, Nat) BY <1>0, <2>1 DEF Arr
  <2> QED BY <1>0, <2>1, <2>2, ValueZero
<1> HIDE DEF b, core, m, e
<1> SUFFICES Arr(b, HashLen, Bytes) /\ core \in Nat /\ ValueOf(b) <= core /\ (e >= 3 => ValueOf(b) = core)
  BY DEF b, core, e
<1>6. CASE 2 * c[2] >= Base BY <1>0, <1>1, <1>3, <1>4, <1>6, <1>z
<1>7. CASE ~(2 * c[2] >= Base) /\ Three(m) = 0
  <2>1. b = Zeros(HashLen) BY <1>2, <1>4, <1>7
  <2>2. core = 0
    <3>1. CASE e <= 3
      <4> DEFINE p == Power(Base, 3 - e)
      <4>1. p \in Nat \ {0}
        <5>1. 3 - e \in Nat BY <1>1, <3>1
        <5> QED BY <1>5, <5>1
      <4>2. core = 0 \div p BY <1>3, <1>7, <3>1
      <4> HIDE DEF p
      <4> QED BY <4>1, <4>2
    <3>2. CASE e > HashLen
      <4>1. ~(e <= 3) BY <1>0, <1>1, <3>2
      <4> QED BY <1>3, <1>7, <3>2, <4>1
    <3>3. CASE ~(e <= 3) /\ ~(e > HashLen)
      <4> DEFINE p == Power(Base, e - 3)
      <4>1. p \in Nat \ {0}
        <5>1. e - 3 \in Nat BY <1>1, <3>3
        <5> QED BY <1>5, <5>1
      <4>2. core = 0 * p BY <1>3, <1>7, <3>3
      <4> HIDE DEF p
      <4> QED BY <4>1, <4>2
    <3> QED BY <3>1, <3>2, <3>3
  <2> QED BY <1>z, <2>1, <2>2
<1>8. CASE ~(2 * c[2] >= Base) /\ Three(m) # 0
  <2>0. ~(2 * m[1] >= Base \/ m = <<0, 0, 0>>) BY <1>1, <1>2, <1>8
  <2>1. CASE e < 3
    <3>1. b = PlacedAt(HashLen - e, SubSeq(ShiftRight(m, 3 - e), 1, e)) BY <1>1, <1>4, <2>0, <2>1
    <3>2. core = Three(m) \div Power(Base, 3 - e) BY <1>1, <1>3, <1>8, <2>1
    <3>3. /\ Arr(b, HashLen, Bytes) /\ ValueOf(b) <= Three(m) \div Power(Base, 3 - e)
          /\ Three(m) \div Power(Base, 3 - e) \in Nat
      BY <1>1, <2>1, <3>1, SmallTarget
    <3>4. ~(e >= 3) BY <1>1, <2>1
    <3> QED BY <3>2, <3>3, <3>4
  <2>2. CASE e > HashLen
    <3>1. b = [i \in 1..HashLen |-> Base - 1] BY <1>0, <1>1, <1>4, <2>0, <2>2
    <3>2. core = Power(Base, HashLen) - 1 BY <1>0, <1>1, <1>3, <1>8, <2>2
    <3>3. Base - 1 \in Bytes /\ Base - 1 \in Nat BY <1>0 DEF Bytes
    <3>4. Arr(b, HashLen, Bytes) /\ Arr(b, HashLen, Nat) /\ \A i \in 1..HashLen : b[i] = Base - 1
      BY <3>1, <3>3 DEF Arr
    <3>5. ValueOf(b) = Power(Base, HashLen) - 1 BY <1>0, <3>4, ValueAll
    <3>6. Power(Base, HashLen) \in Nat \ {0} BY <1>0, <1>5
    <3> QED BY <3>2, <3>4, <3>5, <3>6
  <2>3. CASE e >= 3 /\ e <= HashLen
    <3> DEFINE x == HashLen - e
               d == e - 3
    <3>0. x \in Nat /\ d \in Nat /\ HashLen = x + 3 + d /\ x \in Int BY <1>0, <1>1, <2>3
    <3>p. /\ Arr(PlacedAt(x, m), HashLen, Bytes)
          /\ \A i \in 1..HashLen : PlacedAt(x, m)[i] = IF i - x \in 1..3 THEN m[i - x] ELSE 0
      <4>1. x \in Int /\ 3 \in Nat /\ Arr(m, 3, Bytes) BY <1>0, <1>1, <3>0
      <4> HIDE DEF x
      <4> QED BY <4>1, PlacedArr, Zenon
    <3>1. core = Three(m) * Power(Base, d)
      <4>1. CASE e = 3
        <5>1. core = Three(m) \div Power(Base, 0)
          <6>1. 3 - e = 0 BY <4>1
          <6> QED BY <1>3, <1>8, <4>1, <6>1
        <5>2. Power(Base, 0) = 1 /\ d = 0 BY <1>0, <4>1, PowerPositive
        <5>3. Three(m) \div 1 = Three(m) /\ Three(m) * 1 = Three(m) BY <1>2
        <5> QED BY <5>1, <5>2, <5>3
      <4>2. CASE e # 3
        <5>1. ~(e <= 3) /\ ~(e > HashLen) BY <1>0, <1>1, <2>3, <4>2
        <5> QED BY <1>3, <1>8, <5>1
      <4> QED BY <4>1, <4>2
    <3>2. Arr(b, HashLen, Bytes) /\ \A i \in 1..HashLen : b[i] = IF i - x \in 1..3 THEN m[i - x] ELSE 0
      <4>1. CASE e = 3
        <5> DEFINE s == ShiftRight(m, 0)
                   t == SubSeq(s, 0 + 1, 0 + 3)
        <5>1. Arr(s, 3, Bytes) /\ \A i \in 1..3 : s[i] = m[i]
          <6>1. \A i \in 1..3 : m[i] \in Bytes BY <1>1 DEF Arr
          <6>2. \A i \in 1..3 : i - 0 = i OBVIOUS
          <6> QED BY <6>1, <6>2 DEF ShiftRight, Arr
        <5> HIDE DEF s
        <5>2. Arr(t, 3, Bytes) /\ Copies(t, s, 0, 3)
          <6>1. 0 + 3 <= 3 OBVIOUS
          <6> QED BY <1>0, <5>1, <6>1, SubArr
        <5>3. \A i \in 1..3 : t[i] = m[i]
          <6> SUFFICES ASSUME NEW i \in 1..3 PROVE t[i] = m[i] OBVIOUS
          <6> HIDE DEF t
          <6>1. t[i] = s[0 + i] BY <5>2 DEF Copies
          <6>2. 0 + i = i OBVIOUS
          <6> QED BY <5>1, <6>1, <6>2
        <5>4. b = PlacedAt(HashLen - e, t)
          <6>1. 0 + 1 = 1 /\ 0 + 3 = e /\ 3 - e = 0 /\ e <= 3 BY <4>1
          <6>2. b = PlacedAt(HashLen - e, SubSeq(ShiftRight(m, 3 - e), 1, e)) BY <1>4, <2>0, <6>1
          <6>3. t = SubSeq(ShiftRight(m, 3 - e), 1, e) BY <6>1 DEF s
          <6> HIDE DEF t
          <6> QED BY <6>2, <6>3
        <5> HIDE DEF t
        <5>5. t = m BY <1>0, <1>1, <5>2, <5>3, ArrEqual
        <5>6. b = PlacedAt(x, m) BY <5>4, <5>5
        <5> HIDE DEF x
        <5> QED BY <3>p, <5>6, Zenon
      <4>2. CASE e # 3
        <5>1. ~(e <= 3) /\ ~(e > HashLen) BY <1>0, <1>1, <2>3, <4>2
        <5>2. b = PlacedAt(x, m) BY <1>4, <2>0, <5>1
        <5> HIDE DEF x
        <5> QED BY <3>p, <5>2, Zenon
      <4> QED BY <4>1, <4>2
    <3> HIDE DEF x, d
    <3>3. Arr(b, HashLen, Nat) BY <1>0, <3>2 DEF Arr
    <3>4. ValueOf(b) = Three(m) * Power(Base, d)
      <4>1. HashLen \in Nat /\ x \in Nat /\ d \in Nat /\ HashLen = x + 3 + d /\ Arr(m, 3, Nat)
        BY <1>0, <1>1, <3>0
      <4>2. Placed(b, x, m, HashLen) BY <3>2 DEF Placed
      <4> QED BY <3>3, <4>1, <4>2, ValuePlaced
    <3>5. Three(m) * Power(Base, d) \in Nat
      <4>1. Power(Base, d) \in Nat BY <1>5, <3>0
      <4> DEFINE p == Power(Base, d)
                 q == Three(m)
      <4>2. p \in Nat /\ q \in Nat BY <1>2, <4>1
      <4> HIDE DEF p, q
      <4>3. q * p \in Nat BY <4>2
      <4> QED BY <4>3 DEF p, q
    <3> QED BY <3>1, <3>2, <3>4, <3>5
  <2> QED BY <1>0, <1>1, <2>1, <2>2, <2>3
<1> QED BY <1>2, <1>6, <1>7, <1>8

-----------------------------------------------------------------------------
(* What the kernels hash. *)

(* The layout of a hashed message: four bytes, a hash, the hash r in two      *)
(* pieces, and three words.                                                   *)
Laid(h, L, v, p, r, t, b, n) ==
  h = (v \o p \o SubSeq(r, 1, L - 4)) \o SubSeq(r, L - 3, L) \o t \o b \o n

(* The two hashes, and the first of the words, are found in it again. *)
Holds(h, L, p, r, t) ==
  SubSeq(h, 5, 4 + 2 * L) = p \o r /\ SubSeq(h, 2 * L + 5, 2 * L + 8) = t

(* Each byte of such a message is traced to its piece. *)
LEMMA Layout ==
  ASSUME NEW V, NEW L \in Nat, L >= 4, NEW v, NEW p, NEW r, NEW t, NEW b, NEW n,
         Arr(v, 4, V), Arr(p, L, V), Arr(r, L, V), Arr(t, 4, V), Arr(b, 4, V), Arr(n, 4, V),
         NEW h, Laid(h, L, v, p, r, t, b, n)
  PROVE  Holds(h, L, p, r, t)
<1> DEFINE k == L - 4
           r1 == SubSeq(r, 0 + 1, 0 + k)
           r2 == SubSeq(r, k + 1, k + 4)
           h0 == v \o p
           h1 == h0 \o r1
           h2 == h1 \o r2
           h3 == h2 \o t
           h4 == h3 \o b
           s == SubSeq(h, 4 + 1, 4 + 2 * L)
           u == SubSeq(h, (2 * L + 4) + 1, (2 * L + 4) + 4)
           g == p \o r
<1>0. k \in Nat /\ 4 \in Nat /\ 0 \in Nat /\ 0 + k <= L /\ k + 4 <= L OBVIOUS
<1>1. SubSeq(r, 1, L - 4) = r1 /\ SubSeq(r, L - 3, L) = r2
  <2>1. 0 + 1 = 1 /\ 0 + k = L - 4 /\ k + 1 = L - 3 /\ k + 4 = L OBVIOUS
  <2> QED BY <2>1
<1>2. Arr(r1, k, V) /\ Copies(r1, r, 0, k) /\ Arr(r2, 4, V) /\ Copies(r2, r, k, 4)
  <2> HIDE DEF k, r1, r2
  <2> QED BY <1>0, SubArr DEF r1, r2
<1>3. h = h4 \o n BY <1>1 DEF Laid
<1> HIDE DEF k, r1, r2
<1>4. Arr(h0, 4 + L, V) /\ Joins(h0, v, 4, p, L) BY <1>0, CatArr
<1>5. Arr(h1, (4 + L) + k, V) /\ Joins(h1, h0, 4 + L, r1, k)
  <2>1. 4 + L \in Nat OBVIOUS
  <2> HIDE DEF h0
  <2> QED BY <1>0, <1>2, <1>4, <2>1, CatArr
<1>6. Arr(h2, ((4 + L) + k) + 4, V) /\ Joins(h2, h1, (4 + L) + k, r2, 4)
  <2>1. (4 + L) + k \in Nat BY <1>0
  <2> HIDE DEF h1
  <2> QED BY <1>0, <1>2, <1>5, <2>1, CatArr
<1>7. ((4 + L) + k) + 4 = 2 * L + 4 /\ (4 + L) + k = 2 * L /\ 2 * L + 4 \in Nat /\ 2 * L \in Nat BY DEF k
<1> DEFINE z == 2 * L + 4
<1>8. Arr(h3, z + 4, V) /\ Joins(h3, h2, z, t, 4)
  <2>1. Arr(h2, z, V) /\ z \in Nat BY <1>6, <1>7
  <2> HIDE DEF h2, z
  <2> QED BY <1>0, <2>1, CatArr
<1>9. Arr(h4, (z + 4) + 4, V) /\ Joins(h4, h3, z + 4, b, 4)
  <2>1. z + 4 \in Nat OBVIOUS
  <2> HIDE DEF h3, z
  <2> QED BY <1>0, <1>8, <2>1, CatArr
<1>10. Arr(h, ((z + 4) + 4) + 4, V) /\ Joins(h, h4, (z + 4) + 4, n, 4)
  <2>1. (z + 4) + 4 \in Nat OBVIOUS
  <2> HIDE DEF h4, z
  <2> QED BY <1>0, <1>3, <1>9, <2>1, CatArr
<1>11. Arr(s, 2 * L, V) /\ Copies(s, h, 4, 2 * L) /\ Arr(u, 4, V) /\ Copies(u, h, z, 4)
  <2> DEFINE w == ((z + 4) + 4) + 4
  <2>1. w \in Nat /\ 4 + 2 * L <= w /\ z + 4 <= w /\ z \in Nat /\ 2 * L \in Nat OBVIOUS
  <2> HIDE DEF w
  <2>2. Arr(h, w, V) BY <1>10 DEF w
  <2>3. Arr(s, 2 * L, V) /\ Copies(s, h, 4, 2 * L)
    <3> DEFINE d == 2 * L
    <3>1. d \in Nat /\ 4 + d <= w BY <2>1
    <3> HIDE DEF d
    <3>2. Arr(SubSeq(h, 4 + 1, 4 + d), d, V) /\ Copies(SubSeq(h, 4 + 1, 4 + d), h, 4, d)
      BY <1>0, <2>1, <2>2, <3>1, SubArr
    <3> QED BY <3>2 DEF d
  <2>4. Arr(u, 4, V) /\ Copies(u, h, z, 4)
    <3> HIDE DEF z
    <3>2. Arr(SubSeq(h, z + 1, z + 4), 4, V) /\ Copies(SubSeq(h, z + 1, z + 4), h, z, 4)
      BY <1>0, <2>1, <2>2, SubArr
    <3> QED BY <3>2 DEF z
  <2> QED BY <2>3, <2>4
<1>12. Arr(g, L + L, V) /\ Joins(g, p, L, r, L) BY CatArr
<1>13. u = t
  <2>1. ASSUME NEW i \in 1..4 PROVE u[i] = t[i]
    <3> HIDE DEF u, h3, h4
    <3>1. u[i] = h[z + i] BY <1>11 DEF Copies
    <3>2. z + i \in 1..(z + 4) /\ z + i \in 1..((z + 4) + 4) BY <1>7
    <3> HIDE DEF z
    <3>3. h[z + i] = h4[z + i] BY <1>10, <3>2 DEF Joins
    <3>4. h4[z + i] = h3[z + i] BY <1>9, <3>2 DEF Joins
    <3>5. h3[z + i] = t[i] BY <1>8 DEF Joins
    <3> QED BY <3>1, <3>3, <3>4, <3>5
  <2> HIDE DEF u
  <2> QED BY <1>0, <1>11, <2>1, ArrEqual
<1> HIDE DEF s, g, h0, h1, h2, h3, h4
<1>14. ASSUME NEW j \in 1..(2 * L + 4) PROVE h[j] = h2[j]
  <2>1. j \in 1..z /\ j \in 1..(z + 4) /\ j \in 1..((z + 4) + 4) OBVIOUS
  <2> HIDE DEF z
  <2>2. h[j] = h4[j] BY <1>10, <2>1 DEF Joins
  <2>3. h4[j] = h3[j] BY <1>9, <2>1 DEF Joins
  <2>4. h3[j] = h2[j] BY <1>8, <2>1 DEF Joins
  <2> QED BY <2>2, <2>3, <2>4
<1> HIDE DEF z
<1>15. ASSUME NEW i \in 1..(2 * L) PROVE s[i] = g[i]
  <2>1. s[i] = h2[4 + i]
    <3>1. s[i] = h[4 + i] BY <1>11 DEF Copies
    <3>2. 4 + i \in 1..(2 * L + 4) OBVIOUS
    <3> QED BY <1>14, <3>1, <3>2
  <2>2. CASE i <= L
    <3>1. 4 + i \in 1..((4 + L) + k) /\ 4 + i \in 1..(4 + L) /\ i \in 1..L BY <1>7, <2>2
    <3>2. h2[4 + i] = h1[4 + i] BY <1>6, <3>1 DEF Joins
    <3>3. h1[4 + i] = h0[4 + i] BY <1>5, <3>1 DEF Joins
    <3>4. h0[4 + i] = p[i] BY <1>4, <3>1 DEF Joins
    <3>5. g[i] = p[i] BY <1>12, <3>1 DEF Joins
    <3> QED BY <2>1, <3>2, <3>3, <3>4, <3>5
  <2>3. CASE ~(i <= L)
    <3> DEFINE j == i - L
    <3>1. j \in 1..L /\ L + j = i BY <2>3
    <3>2. g[i] = r[j] BY <1>12, <3>1 DEF Joins
    <3>3. h2[4 + i] = r[j]
      <4>1. CASE j <= k
        <5>1. j \in 1..k /\ (4 + L) + j = 4 + i /\ 4 + i \in 1..((4 + L) + k) /\ 0 + j = j
          BY <1>0, <3>1, <4>1
        <5> HIDE DEF j
        <5>2. h2[4 + i] = h1[4 + i] BY <1>6, <5>1 DEF Joins
        <5>3. h1[(4 + L) + j] = r1[j] BY <1>5, <5>1 DEF Joins
        <5>4. r1[j] = r[0 + j] BY <1>2, <5>1 DEF Copies
        <5> QED BY <5>1, <5>2, <5>3, <5>4
      <4>2. CASE ~(j <= k)
        <5> DEFINE q == j - k
        <5>1. q \in 1..4 /\ ((4 + L) + k) + q = 4 + i /\ k + q = j BY <1>0, <3>1, <4>2 DEF k
        <5> HIDE DEF q, j
        <5>2. h2[((4 + L) + k) + q] = r2[q] BY <1>6, <5>1 DEF Joins
        <5>3. r2[q] = r[k + q] BY <1>2, <5>1 DEF Copies
        <5> QED BY <5>1, <5>2, <5>3
      <4> QED BY <4>1, <4>2
    <3> QED BY <2>1, <3>2, <3>3
  <2> QED BY <2>2, <2>3
<1>16. s = g
  <2>1. L + L = 2 * L /\ 2 * L \in Nat OBVIOUS
  <2> DEFINE d == 2 * L
  <2>2. d \in Nat /\ Arr(s, d, V) /\ Arr(g, d, V) /\ \A i \in 1..d : s[i] = g[i] BY <1>11, <1>12, <1>15, <2>1
  <2> HIDE DEF d
  <2> QED BY <2>2, ArrEqual
<1>17. 4 + 1 = 5 /\ (2 * L + 4) + 1 = 2 * L + 5 /\ (2 * L + 4) + 4 = 2 * L + 8 OBVIOUS
<1> QED BY <1>13, <1>16, <1>17 DEF s, g, u, Holds

(* Comparisons of words. *)
LEMMA WordOrder ==
  ASSUME NEW a \in U32, NEW b \in U32
  PROVE  /\ ValueOf(a) \in Nat /\ ValueOf(b) \in Nat
         /\ LexLeq(a, b) <=> ValueOf(a) <= ValueOf(b)
         /\ LexLess(a, b) => ValueOf(a) <= ValueOf(b)
         /\ ~LexLess(a, b) => ValueOf(b) <= ValueOf(a)
<1>0. Bytes \subseteq Nat /\ 4 \in Nat BY HeaderAssumption DEF Bytes
<1>1. Arr(a, 4, Bytes) /\ Arr(b, 4, Bytes) BY DEF U32, Arr
<1>2. Arr(a, 4, Nat) /\ Arr(b, 4, Nat) BY <1>0, <1>1 DEF Arr
<1>3. ValueOf(a) \in Nat /\ ValueOf(b) \in Nat BY <1>0, <1>2, ValueNat
<1>4. LexLeq(a, b) <=> ValueOf(a) <= ValueOf(b) BY <1>0, <1>1, LexIsNumeric
<1> QED BY <1>3, <1>4 DEF LexLess

(* The word 0. *)
LEMMA ZeroIs ==
  ZeroWord \in U32 /\ ZeroWord \in Compact /\ \A i \in 1..4 : ZeroWord[i] = 0
<1>1. 0 \in Bytes /\ Bytes \subseteq Nat BY HeaderAssumption DEF Bytes
<1> QED BY <1>1 DEF ZeroWord, Zeros, U32, Compact

(* Only 0 is at most 0. *)
LEMMA LexZero ==
  ASSUME NEW a \in U32, LexLeq(a, ZeroWord)
  PROVE  a = ZeroWord
<1>0. Bytes \subseteq Nat BY HeaderAssumption DEF Bytes
<1>1. DOMAIN a = 1..4 /\ \A i \in 1..4 : a[i] \in Nat BY <1>0 DEF U32
<1>2. ASSUME NEW i \in 1..4, a[i] # 0 PROVE FALSE
  <2> DEFINE D == {j \in 1..4 : a[j] # 0}
  <2>1. D \subseteq Nat /\ D # {} BY <1>2
  <2>2. PICK j \in D : \A l \in D : j <= l BY <2>1, LeastElement
  <2>3. j \in 1..4 /\ a[j] # 0 OBVIOUS
  <2>4. \A l \in 1..(j - 1) : a[l] = ZeroWord[l]
    <3> SUFFICES ASSUME NEW l \in 1..(j - 1), a[l] # 0 PROVE FALSE BY <2>3, ZeroIs
    <3>1. l \in D BY <2>3
    <3> QED BY <2>2, <2>3, <3>1
  <2>5. a[j] <= ZeroWord[j] BY <1>1, <2>3, <2>4 DEF LexLeq
  <2>6. ZeroWord[j] = 0 BY <2>3, ZeroIs
  <2> QED BY <1>1, <2>3, <2>5, <2>6
<1>3. Arr(a, 4, Bytes) /\ Arr(ZeroWord, 4, Bytes) /\ 4 \in Nat BY ZeroIs DEF U32, Arr
<1>4. \A i \in 1..4 : a[i] = ZeroWord[i] BY <1>2, ZeroIs
<1> QED BY <1>3, <1>4, ArrEqual

-----------------------------------------------------------------------------
(* What is known of a job from its ingestion to its verdict. *)

(* The fields of RawJobInputs.  A minimum time of 0 is only set for a job     *)
(* whose own time is 0.                                                       *)
Sent(r) ==
  /\ r.version \in U32 /\ r.ntime \in U32
  /\ r.nbits \in Compact /\ r.share_nbits \in Compact
  /\ r.prevhash_be \in Hash /\ r.merkle_root_be \in Hash
  /\ r.source = "stratum" =>
       /\ r.header_first64 = HeaderFirst64(r.version, r.prevhash_be, r.merkle_root_be)
       /\ r.ntime_min \in U32 /\ r.ntime_max \in U32
       /\ r.ntime_min = ZeroWord => r.ntime = ZeroWord

(* The outcome of main()'s classification of a digest. *)
Classified(v, d, it) ==
  /\ v = "block" => isHashLEQTarget(d, it.block_target_le)
  /\ v = "submitted" => isHashLEQTarget(d, it.share_target_le)
  /\ v = "rejected" => ~isHashLEQTarget(d, it.share_target_le)

JobInv ==
  /\ stage \in {"job", "device", "hit", "done"} => Sent(raw) /\ item = normalizeJob(raw)
  /\ stage \in {"device", "hit", "done"} => dj = DeviceJob(item)
  /\ stage \in {"hit", "done"} => found.nonce \in U32
  /\ stage = "hit" /\ found.kernel = "unrolled" => found.message = UnrolledMessage(found.nonce)
  /\ stage = "done" =>
       header = HostHeader(found.nonce) /\ digest \in Hash /\ Classified(verdict, digest, item)

(* Four bytes of a number are a word. *)
LEMMA BytesOfType ==
  ASSUME NEW v \in Nat
  PROVE  BytesOf(v, 4) \in U32
<1>0. Base \in Nat /\ Base > 1 BY HeaderAssumption
<1>1. ASSUME NEW i \in 1..4 PROVE (v \div Power(Base, 4 - i)) % Base \in Bytes
  <2> DEFINE p == Power(Base, 4 - i)
  <2>1. p \in Nat \ {0}
    <3>1. 4 - i \in Nat OBVIOUS
    <3> QED BY <3>1, PowerPositive
  <2> HIDE DEF p
  <2>2. v \div p \in Nat BY <2>1
  <2> DEFINE q == v \div p
  <2> HIDE DEF q
  <2>3. q \in Nat BY <2>2 DEF q
  <2>4. q % Base \in 0..(Base - 1) BY <1>0, <2>3
  <2> QED BY <2>4 DEF p, q, Bytes
<1> QED BY <1>1 DEF BytesOf, U32

(* The notify handler and the policy give such fields. *)
LEMMA StratumSent ==
  ASSUME ingestJobWithPolicy
  PROVE  Sent(raw')
<1>1. PICK v \in Versions, t \in Times, b \in CompactBits, s \in CompactBits \cup {ZeroWord},
           p \in PrevHashes, r \in Roots, caps \in NtimeCaps :
         raw' = [source |-> "stratum", version |-> v, nbits |-> b, ntime |-> t,
                 prevhash_be |-> p, merkle_root_be |-> r,
                 header_first64 |-> HeaderFirst64(v, p, r),
                 share_nbits |-> s,
                 ntime_min |-> OrDefault(caps[1], t),
                 ntime_max |-> OrDefault(caps[2], BytesOf(ValueOf(t) + 2, 4))]
  BY DEF ingestJobWithPolicy
<1>2. v \in U32 /\ t \in U32 /\ b \in Compact /\ p \in Hash /\ r \in Hash
  BY HeaderAssumption
<1>3. s \in Compact BY ZeroIs, HeaderAssumption
<1>4. caps[1] \in U32 /\ caps[2] \in U32
  <2>1. caps \in U32 \X U32 BY HeaderAssumption
  <2> HIDE DEF U32
  <2> QED BY <2>1
<1>5. BytesOf(ValueOf(t) + 2, 4) \in U32
  <2>1. ValueOf(t) \in Nat BY <1>2, WordOrder
  <2>2. ValueOf(t) + 2 \in Nat BY <2>1
  <2> QED BY <2>2, BytesOfType
<1>6. /\ OrDefault(caps[1], t) \in U32 /\ (OrDefault(caps[1], t) = ZeroWord => t = ZeroWord)
      /\ OrDefault(caps[2], BytesOf(ValueOf(t) + 2, 4)) \in U32
  BY <1>2, <1>4, <1>5 DEF OrDefault
<1>7. /\ raw'.version = v /\ raw'.ntime = t /\ raw'.nbits = b /\ raw'.share_nbits = s
      /\ raw'.prevhash_be = p /\ raw'.merkle_root_be = r
      /\ raw'.header_first64 = HeaderFirst64(v, p, r)
      /\ raw'.ntime_min = OrDefault(caps[1], t)
      /\ raw'.ntime_max = OrDefault(caps[2], BytesOf(ValueOf(t) + 2, 4))
  BY <1>1
<1> QED BY <1>2, <1>3, <1>6, <1>7 DEF Sent

(* So does GbtRunner. *)
LEMMA TemplateSent ==
  ASSUME ingestTemplate
  PROVE  Sent(raw')
<1>1. PICK v \in Versions, t \in Times, b \in CompactBits, p \in PrevHashes, r \in Roots :
         raw' = [source |-> "gbt", version |-> v, nbits |-> b, ntime |-> t,
                 prevhash_be |-> p, merkle_root_be |-> r,
                 header_first64 |-> Zeros(2 * HashLen),
                 share_nbits |-> b,
                 ntime_min |-> ZeroWord, ntime_max |-> ZeroWord]
  BY DEF ingestTemplate
<1>2. v \in U32 /\ t \in U32 /\ b \in Compact /\ p \in Hash /\ r \in Hash
  BY HeaderAssumption
<1>3. /\ raw'.version = v /\ raw'.ntime = t /\ raw'.nbits = b /\ raw'.share_nbits = b
      /\ raw'.prevhash_be = p /\ raw'.merkle_root_be = r /\ raw'.source # "stratum"
  BY <1>1
<1> QED BY <1>2, <1>3 DEF Sent

(* Nothing is claimed before there is a job. *)
LEMMA JobInvInit == Init => JobInv
BY DEF Init, JobInv

(* The kernels' step. *)
LEMMA MineInv ==
  ASSUME JobInv, NEW kernel, NEW n \in Nonces, NEW message, MineNonce(kernel, n, message),
         kernel = "unrolled" => message = UnrolledMessage(n)
  PROVE  JobInv'
<1>0. n \in U32 BY HeaderAssumption
<1>1. Sent(raw) /\ item = normalizeJob(raw) /\ dj = DeviceJob(item) BY DEF JobInv, MineNonce
<1>2. stage' = "hit" /\ raw' = raw /\ item' = item /\ dj' = dj BY DEF MineNonce
<1>3. found'.nonce = n /\ found'.kernel = kernel /\ found'.message = message
  <2>1. PICK d \in Digests :
          found' = [kernel |-> kernel, nonce |-> n, message |-> message, digest |-> d]
    BY DEF MineNonce
  <2> QED BY <2>1
<1>5. found'.kernel = "unrolled" => found'.message = (UnrolledMessage(found.nonce))'
  BY <1>2, <1>3 DEF UnrolledMessage, DeviceNtime
<1> QED BY <1>0, <1>1, <1>2, <1>3, <1>5 DEF JobInv

(* The host's step. *)
LEMMA VerdictInv ==
  ASSUME JobInv, NEW g \in BOOLEAN, verifyAndSubmit(g)
  PROVE  JobInv'
<1>1. Sent(raw) /\ item = normalizeJob(raw) /\ dj = DeviceJob(item) /\ found.nonce \in U32
  BY DEF JobInv, verifyAndSubmit
<1>2. stage' = "done" /\ raw' = raw /\ item' = item /\ dj' = dj /\ found' = found
  BY DEF verifyAndSubmit
<1>3. header' = HostHeader(found.nonce) BY DEF verifyAndSubmit
<1>4. (HostHeader(found.nonce))' = HostHeader(found.nonce) BY <1>2 DEF HostHeader
<1>5. digest' \in Hash BY HeaderAssumption DEF verifyAndSubmit
<1>6. Classified(verdict', digest', item)
  BY DEF verifyAndSubmit, Classified
<1> QED BY <1>1, <1>2, <1>3, <1>4, <1>5, <1>6 DEF JobInv

(* Every step keeps the invariant. *)
LEMMA JobInvStep ==
  ASSUME JobInv, [Next]_vars
  PROVE  JobInv'
<1>1. CASE HashCoinbase
  <2>1. stage = "coinbase" /\ stage' = "coinbase" BY <1>1 DEF HashCoinbase
  <2> QED BY <2>1 DEF JobInv
<1>2. CASE CoinbaseTxid
  <2>1. stage' = "merkle" BY <1>2 DEF CoinbaseTxid
  <2> QED BY <2>1 DEF JobInv
<1>3. CASE compute_merkle_root_be
  <2>1. stage' = "merkle" BY <1>3 DEF compute_merkle_root_be
  <2> QED BY <2>1 DEF JobInv
<1>4. CASE ingestJobWithPolicy
  <2>1. stage' = "job" /\ item' = normalizeJob(raw') BY <1>4 DEF ingestJobWithPolicy
  <2>2. Sent(raw') BY <1>4, StratumSent
  <2> QED BY <2>1, <2>2 DEF JobInv
<1>5. CASE ingestTemplate
  <2>1. stage' = "job" /\ item' = normalizeJob(raw') BY <1>5 DEF ingestTemplate
  <2>2. Sent(raw') BY <1>5, TemplateSent
  <2> QED BY <2>1, <2>2 DEF JobInv
<1>6. CASE uploadDeviceJobs
  <2>1. Sent(raw) /\ item = normalizeJob(raw) BY <1>6 DEF uploadDeviceJobs, JobInv
  <2>2. stage' = "device" /\ raw' = raw /\ item' = item /\ dj' = DeviceJob(item)
    BY <1>6 DEF uploadDeviceJobs
  <2> QED BY <2>1, <2>2 DEF JobInv
<1>7. CASE kernel_mine_stub
  <2>1. PICK n \in Nonces : MineNonce("stub", n, StubMessage(n)) BY <1>7 DEF kernel_mine_stub
  <2>2. "stub" # "unrolled" OBVIOUS
  <2> QED BY <2>1, <2>2, MineInv
<1>8. CASE kernel_mine_batch_unroll
  <2>1. PICK n \in Nonces : MineNonce("unrolled", n, UnrolledMessage(n)) \/ MineNonce("tail", n, TailMessage(n))
    BY <1>8 DEF kernel_mine_batch_unroll
  <2>2. "tail" # "unrolled" OBVIOUS
  <2> QED BY <2>1, <2>2, MineInv
<1>9. CASE NoHit
  <2>1. stage' = "coinbase" BY <1>9 DEF NoHit
  <2> QED BY <2>1 DEF JobInv
<1>10. CASE \E g \in BOOLEAN : verifyAndSubmit(g) BY <1>10, VerdictInv
<1>11. CASE NextJob
  <2>1. stage' = "coinbase" BY <1>11 DEF NextJob
  <2> QED BY <2>1 DEF JobInv
<1>12. CASE UNCHANGED vars
  <2>1. /\ stage' = stage /\ raw' = raw /\ item' = item /\ dj' = dj /\ found' = found
        /\ header' = header /\ digest' = digest /\ verdict' = verdict
    BY <1>12 DEF vars, jobVars
  <2>2. (UnrolledMessage(found.nonce))' = UnrolledMessage(found.nonce)
    BY <2>1 DEF UnrolledMessage, DeviceNtime
  <2>3. (HostHeader(found.nonce))' = HostHeader(found.nonce) BY <2>1 DEF HostHeader
  <2> QED BY <2>1, <2>2, <2>3 DEF JobInv
<1> QED BY <1>1, <1>2, <1>3, <1>4, <1>5, <1>6, <1>7, <1>8, <1>9, <1>10, <1>11, <1>12 DEF Next

(* It holds always. *)
LEMMA JobInvAlways == Spec => []JobInv
<1>1. JobInv /\ [Next]_vars => JobInv' BY JobInvStep
<1> QED BY <1>1, JobInvInit, PTL DEF Spec

-----------------------------------------------------------------------------
(* The theorems about jobs, hits and verdicts. *)

(* The header that main() rebuilds for a hit, and that is verified, stored and  *)
(* submitted, holds the bytes of prevhash and merkle root that the pool or node *)
(* sent: the normalizer's word order is undone, for hashes of any width.        *)
THEOREM HeaderHostWire == Spec => []HostHeaderIsWire
<1>1. JobInv => HostHeaderIsWire
  <2> SUFFICES ASSUME JobInv, stage = "done"
               PROVE  header = raw.version \o raw.prevhash_be \o raw.merkle_root_be
                                 \o raw.ntime \o raw.nbits \o found.nonce
    BY DEF HostHeaderIsWire
  <2>1. Sent(raw) /\ item = normalizeJob(raw) /\ header = HostHeader(found.nonce) BY DEF JobInv
  <2>2. raw.prevhash_be \in Hash /\ raw.merkle_root_be \in Hash BY <2>1 DEF Sent
  <2>3. /\ item.version = raw.version /\ item.ntime = raw.ntime /\ item.nbits = raw.nbits
        /\ item.prevhash_le = be32BytesToLeU32Words(raw.prevhash_be)
        /\ item.merkle_root_le = be32BytesToLeU32Words(raw.merkle_root_be)
    BY <2>1 DEF normalizeJob
  <2>4. Arr(raw.prevhash_be, HashLen, Bytes) /\ Arr(raw.merkle_root_be, HashLen, Bytes)
    BY <2>2 DEF Hash, Arr
  <2>5. /\ leU32WordsToBe32Bytes(item.prevhash_le) = raw.prevhash_be
        /\ leU32WordsToBe32Bytes(item.merkle_root_le) = raw.merkle_root_be
    BY <2>3, <2>4, RoundTrip
  <2> QED BY <2>1, <2>3, <2>5 DEF HostHeader
<1> QED BY <1>1, JobInvAlways, PTL

(* The host's test of a digest against compact bits, in numbers. *)
LEMMA CheckIsNumeric ==
  ASSUME NEW d \in Hash, NEW c \in Compact
  PROVE  /\ isHashLEQTarget(d, compactToTargetU32LE(c)) => ValueOf(d) <= CompactTarget(c)
         /\ ~isHashLEQTarget(d, compactToTargetU32LE(c)) /\ c[1] >= 3 => ValueOf(d) > CompactTarget(c)
<1> DEFINE b == TargetBytes(c)
<1>0. HashLen \in Nat /\ Bytes \subseteq Nat BY HashLenFacts, HeaderAssumption DEF Bytes
<1>1. /\ Arr(b, HashLen, Bytes) /\ CompactTarget(c) \in Nat /\ ValueOf(b) <= CompactTarget(c)
      /\ c[1] >= 3 => ValueOf(b) = CompactTarget(c)
  BY TargetIs
<1> HIDE DEF b
<1>2. leU32WordsToBe32Bytes(be32BytesToLeU32Words(b)) = b BY <1>1, RoundTrip
<1>3. isHashLEQTarget(d, compactToTargetU32LE(c)) <=> LexLeq(d, b)
  BY <1>2 DEF isHashLEQTarget, compactToTargetU32LE, b
<1>4. Arr(d, HashLen, Bytes) BY DEF Hash, Arr
<1>5. LexLeq(d, b) <=> ValueOf(d) <= ValueOf(b) BY <1>0, <1>1, <1>4, LexIsNumeric
<1>6. ValueOf(d) \in Nat /\ ValueOf(b) \in Nat
  <2>1. Arr(d, HashLen, Nat) /\ Arr(b, HashLen, Nat) BY <1>0, <1>1, <1>4 DEF Arr
  <2> QED BY <1>0, <2>1, ValueNat
<1> QED BY <1>1, <1>3, <1>5, <1>6

(* The verdict of main() and verifyAndSubmit is the comparison of the digest, as a *)
(* number, with the target that the compact bits stand for: nothing                *)
(* above it is sent and, for exponents of at least 3, nothing within it rejected.  *)
THEOREM HeaderVerdicts == Spec => []VerdictIsNumeric
<1>1. JobInv => VerdictIsNumeric
  <2> SUFFICES ASSUME JobInv, stage = "done"
               PROVE  /\ verdict = "submitted" => ValueOf(digest) <= CompactTarget(raw.share_nbits)
                      /\ verdict = "block" => ValueOf(digest) <= CompactTarget(raw.nbits)
                      /\ verdict = "rejected" /\ raw.share_nbits[1] >= 3
                           => ValueOf(digest) > CompactTarget(raw.share_nbits)
    BY DEF VerdictIsNumeric
  <2>1. Sent(raw) /\ item = normalizeJob(raw) /\ digest \in Hash /\ Classified(verdict, digest, item)
    BY DEF JobInv
  <2>2. raw.nbits \in Compact /\ raw.share_nbits \in Compact BY <2>1 DEF Sent
  <2>3. /\ item.block_target_le = compactToTargetU32LE(raw.nbits)
        /\ item.share_target_le = compactToTargetU32LE(raw.share_nbits)
    BY <2>1 DEF normalizeJob
  <2>4. verdict = "submitted" => ValueOf(digest) <= CompactTarget(raw.share_nbits)
    BY <2>1, <2>2, <2>3, CheckIsNumeric DEF Classified
  <2>5. verdict = "block" => ValueOf(digest) <= CompactTarget(raw.nbits)
    BY <2>1, <2>2, <2>3, CheckIsNumeric DEF Classified
  <2>6. verdict = "rejected" /\ raw.share_nbits[1] >= 3 => ValueOf(digest) > CompactTarget(raw.share_nbits)
    BY <2>1, <2>2, <2>3, CheckIsNumeric DEF Classified
  <2> QED BY <2>4, <2>5, <2>6
<1> QED BY <1>1, JobInvAlways, PTL

(* The kernels' clamp keeps the time in a window that is not empty. *)
LEMMA ClampInWindow ==
  ASSUME dj.ntime \in U32, dj.ntime_min \in U32, dj.ntime_max \in U32,
         LexLeq(dj.ntime_min, dj.ntime_max), dj.ntime_min = ZeroWord => dj.ntime = ZeroWord
  PROVE  DeviceNtime \in U32 /\ LexLeq(dj.ntime_min, DeviceNtime) /\ LexLeq(DeviceNtime, dj.ntime_max)
<1> DEFINE t == dj.ntime
           mn == dj.ntime_min
           mx == dj.ntime_max
           low == IF mn # ZeroWord /\ LexLess(t, mn) THEN mn ELSE t
           r == IF mx # ZeroWord /\ LexLess(mx, low) THEN mx ELSE low
<1>1. DeviceNtime = r BY DEF DeviceNtime
<1>2. t \in U32 /\ mn \in U32 /\ mx \in U32 /\ LexLeq(mn, mx) /\ (mn = ZeroWord => t = ZeroWord)
  OBVIOUS
<1>3. mx = ZeroWord => mn = ZeroWord BY <1>2, LexZero
<1> HIDE DEF t, mn, mx
<1>4. ValueOf(t) \in Nat /\ ValueOf(mn) \in Nat /\ ValueOf(mx) \in Nat /\ ValueOf(mn) <= ValueOf(mx)
  BY <1>2, WordOrder
<1>5. low \in U32 /\ ValueOf(mn) <= ValueOf(low) /\ (mn = ZeroWord => low = mn)
  <2>1. CASE mn = ZeroWord
    <3>1. low = t /\ t = mn BY <1>2, <2>1
    <3> HIDE DEF low
    <3> QED BY <1>2, <1>4, <3>1
  <2>2. CASE mn # ZeroWord /\ LexLess(t, mn)
    <3>1. low = mn BY <2>2
    <3> HIDE DEF low
    <3> QED BY <1>2, <1>4, <2>2, <3>1
  <2>3. CASE mn # ZeroWord /\ ~LexLess(t, mn)
    <3>1. low = t BY <2>3
    <3>2. ValueOf(mn) <= ValueOf(t) BY <1>2, <2>3, WordOrder
    <3> HIDE DEF low
    <3> QED BY <1>2, <2>3, <3>1, <3>2
  <2> QED BY <2>1, <2>2, <2>3
<1> HIDE DEF low
<1>6. r \in U32 /\ ValueOf(mn) <= ValueOf(r) /\ ValueOf(r) <= ValueOf(mx)
  <2>1. CASE mx = ZeroWord
    <3>1. r = low /\ low = mn BY <1>3, <1>5, <2>1
    <3> HIDE DEF r
    <3> QED BY <1>2, <1>4, <3>1
  <2>2. CASE mx # ZeroWord /\ LexLess(mx, low)
    <3>1. r = mx BY <2>2
    <3> HIDE DEF r
    <3> QED BY <1>2, <1>4, <3>1
  <2>3. CASE mx # ZeroWord /\ ~LexLess(mx, low)
    <3>1. r = low BY <2>3
    <3>2. ValueOf(low) <= ValueOf(mx) BY <1>2, <1>5, <2>3, WordOrder
    <3> HIDE DEF r
    <3> QED BY <1>5, <3>1, <3>2
  <2> QED BY <2>1, <2>2, <2>3
<1> HIDE DEF r
<1>7. LexLeq(mn, r) /\ LexLeq(r, mx) BY <1>2, <1>6, WordOrder
<1> QED BY <1>1, <1>6, <1>7 DEF mn, mx

(* The unrolled kernel hashes prevhash and merkle root of a pool's job whole and in *)
(* place, across the seam between midstate and tail, and a time inside the          *)
(* policy's window whenever that window is not empty.                               *)
THEOREM HeaderPoolFields == Spec => []DeviceHashesPoolFields
<1>1. JobInv => DeviceHashesPoolFields
  <2> SUFFICES ASSUME JobInv, stage = "hit", found.kernel = "unrolled", raw.source = "stratum"
               PROVE  /\ SubSeq(found.message, 5, 4 + 2 * HashLen) = raw.prevhash_be \o raw.merkle_root_be
                      /\ LexLeq(raw.ntime_min, raw.ntime_max) =>
                           LET t == bswap32(SubSeq(found.message, 2 * HashLen + 5, 2 * HashLen + 8))
                           IN LexLeq(raw.ntime_min, t) /\ LexLeq(t, raw.ntime_max)
    BY DEF DeviceHashesPoolFields
  <2> DEFINE p == raw.prevhash_be
             r == raw.merkle_root_be
             n == found.nonce
             h == found.message
             c == DeviceNtime
  <2>0. HashLen \in Nat /\ HashLen >= 4 /\ HashLen = 4 * HashWords /\ HashWords \in Nat \ {0} /\ Bytes \subseteq Nat
    BY HashLenFacts, HeaderAssumption DEF Bytes
  <2>1. Sent(raw) /\ item = normalizeJob(raw) /\ dj = DeviceJob(item) /\ n \in U32 /\ h = UnrolledMessage(n)
    BY DEF JobInv
  <2>2. /\ raw.version \in U32 /\ raw.ntime \in U32 /\ raw.nbits \in Compact /\ p \in Hash /\ r \in Hash
        /\ raw.header_first64 = HeaderFirst64(raw.version, p, r)
        /\ raw.ntime_min \in U32 /\ raw.ntime_max \in U32
        /\ raw.ntime_min = ZeroWord => raw.ntime = ZeroWord
    BY <2>1 DEF Sent
  <2>3. /\ dj.ntime = raw.ntime /\ dj.nbits = raw.nbits /\ dj.midstate = raw.header_first64
        /\ dj.merkle_root_le = be32BytesToLeU32Words(r)
        /\ dj.ntime_min = OrDefault(raw.ntime_min, raw.ntime)
        /\ dj.ntime_max = OrDefault(raw.ntime_max, raw.ntime)
    BY <2>1 DEF normalizeJob, DeviceJob
  <2> HIDE DEF p, r, n, h
  <2>4. bswap32(dj.merkle_root_le[HashWords]) = SubSeq(r, HashLen - 3, HashLen)
    <3>1. Arr(r, HashLen, Bytes) BY <2>2 DEF Hash, Arr
    <3>2. HashWords \in 1..HashWords /\ 4 * HashWords - 3 = HashLen - 3 BY <2>0
    <3>3. bswap32(be32BytesToLeU32Words(r)[HashWords]) = SubSeq(r, 4 * HashWords - 3, 4 * HashWords)
      BY <3>1, <3>2, WordsIs
    <3> QED BY <2>0, <2>3, <3>2, <3>3
  <2>5. c \in U32
    <3>1. dj.ntime \in U32 /\ dj.ntime_min \in U32 /\ dj.ntime_max \in U32 BY <2>2, <2>3 DEF OrDefault
    <3> QED BY <3>1 DEF DeviceNtime
  <2>6. h = (bswap32(raw.version) \o p \o SubSeq(r, 1, HashLen - 4)) \o SubSeq(r, HashLen - 3, HashLen)
              \o bswap32(c) \o bswap32(raw.nbits) \o bswap32(n)
    BY <2>1, <2>2, <2>3, <2>4 DEF UnrolledMessage, HeaderFirst64
  <2> HIDE DEF c
  <2>7. /\ raw.version \in Word(Nat) /\ c \in Word(Nat) /\ raw.nbits \in Word(Nat) /\ n \in Word(Nat)
        /\ Arr(p, HashLen, Nat) /\ Arr(r, HashLen, Nat)
    BY <2>0, <2>1, <2>2, <2>5 DEF Word, U32, Compact, Hash, Arr
  <2>8. /\ Arr(bswap32(raw.version), 4, Nat) /\ Arr(bswap32(c), 4, Nat)
        /\ Arr(bswap32(raw.nbits), 4, Nat) /\ Arr(bswap32(n), 4, Nat)
        /\ bswap32(bswap32(c)) = c
    <3>1. /\ bswap32(raw.version) \in Word(Nat) /\ bswap32(c) \in Word(Nat)
          /\ bswap32(raw.nbits) \in Word(Nat) /\ bswap32(n) \in Word(Nat) /\ bswap32(bswap32(c)) = c
      BY <2>7, ReverseWord
    <3> QED BY <3>1, WordArr
  <2>9. /\ SubSeq(h, 5, 4 + 2 * HashLen) = p \o r
        /\ SubSeq(h, 2 * HashLen + 5, 2 * HashLen + 8) = bswap32(c)
    <3>1. HashLen \in Nat /\ HashLen >= 4 BY <2>0
    <3>2. Arr(p, HashLen, Nat) /\ Arr(r, HashLen, Nat) BY <2>7
    <3> DEFINE v == bswap32(raw.version)
               x == bswap32(c)
               y == bswap32(raw.nbits)
               z == bswap32(n)
    <3>3. Arr(v, 4, Nat) /\ Arr(x, 4, Nat) /\ Arr(y, 4, Nat) /\ Arr(z, 4, Nat) BY <2>8
    <3>4. Laid(h, HashLen, v, p, r, x, y, z) BY <2>6 DEF Laid
    <3> HIDE DEF v, x, y, z
    <3>5. Holds(h, HashLen, p, r, x) BY <3>1, <3>2, <3>3, <3>4, Layout, Zenon
    <3> QED BY <3>5 DEF x, Holds
  <2>10. LexLeq(raw.ntime_min, raw.ntime_max) => LexLeq(raw.ntime_min, c) /\ LexLeq(c, raw.ntime_max)
    <3> SUFFICES ASSUME LexLeq(raw.ntime_min, raw.ntime_max)
                 PROVE  LexLeq(raw.ntime_min, c) /\ LexLeq(c, raw.ntime_max)
      OBVIOUS
    <3>1. raw.ntime_max = ZeroWord => raw.ntime_min = ZeroWord BY <2>2, LexZero
    <3>2. dj.ntime_min = raw.ntime_min /\ dj.ntime_max = raw.ntime_max
      BY <2>2, <2>3, <3>1 DEF OrDefault
    <3> QED BY <2>2, <2>3, <3>2, ClampInWindow DEF c
  <2> QED BY <2>8, <2>9, <2>10 DEF p, r, h
<1> QED BY <1>1, JobInvAlways, PTL

(* compute_merkle_root_be computes the levels of the tree with every odd last node *)
(* paired with itself, for every number of leaves.                                 *)
THEOREM HeaderMerkleTree == Spec => []MerkleIsTree
<1>1. Init => TreeInv BY DEF Init, TreeInv
<1>2. TreeInv /\ [Next]_vars => TreeInv' BY TreeInvStep
<1>3. TreeInv => MerkleIsTree BY TreeInvImplies
<1> QED BY <1>1, <1>2, <1>3, PTL DEF Spec

-----------------------------------------------------------------------------
(* The message and the context along the behaviours of the header path. *)

(* Every step keeps ShaInv: only a coinbase byte and the reset touch ctx. *)
LEMMA ShaInvStep == ShaInv /\ [Next]_vars => ShaInv'
<1> SUFFICES ASSUME ShaInv, [Next]_vars PROVE ShaInv' OBVIOUS
<1>1. CASE HashCoinbase
  <2>1. sha256_update BY <1>1 DEF HashCoinbase
  <2> QED BY <2>1, ShaUpdateInv
<1>2. CASE CoinbaseTxid
  <2>1. ShaInit' BY <1>2 DEF CoinbaseTxid, ShaInit, sha256_init
  <2>2. (ShaInit => ShaInv)' BY ShaInitInv, PTL
  <2> QED BY <2>1, <2>2
<1>3. CASE msg' = msg /\ ctx' = ctx BY <1>3 DEF ShaInv
<1> QED
  BY <1>1, <1>2, <1>3
  DEF Next, vars, compute_merkle_root_be, ingestJobWithPolicy, ingestTemplate, uploadDeviceJobs,
      kernel_mine_stub, kernel_mine_batch_unroll, MineNonce, NoHit, verifyAndSubmit, NextJob

(* It holds always. *)
LEMMA ShaInvAlways == Spec => []ShaInv
<1>1. Init => ShaInv BY ShaInitInv DEF Init
<1> QED BY <1>1, ShaInvStep, PTL DEF Spec

(* The length of a message in bits fits the bytes the code writes. *)
LEMMA ShortMessage ==
  ASSUME 8 * MaxLen < TwoTo40, ShaInv
  PROVE  msg \in Seq(Int) /\ Len(msg) \in Nat /\ 8 * Len(msg) < TwoTo40
<1>1. msg \in Seq(Int) /\ Len(msg) <= MaxLen BY DEF ShaInv
<1>2. Len(msg) \in Nat /\ MaxLen \in Nat /\ TwoTo40 \in Nat BY <1>1, LenProperties, ShaAssumption DEF TwoTo40
<1> QED BY <1>1, <1>2

(* sha256 of cpu_verify.cc cuts and pads every message as the standard does, so  *)
(* that no stale or uninitialised byte of ctx.data is hashed.  The hypothesis is *)
(* needed: LengthField has no byte for bits 40 to 47 of the length.              *)
THEOREM HeaderDigestReference ==
  ASSUME 8 * MaxLen < TwoTo40
  PROVE  Spec => []DigestIsReference
<1>1. ShaInv => DigestIsReference
  <2> SUFFICES ASSUME ShaInv PROVE DigestIsReference OBVIOUS
  <2>1. msg \in Seq(Int) /\ 8 * Len(msg) < TwoTo40 BY ShortMessage
  <2>2. PICK q, st, data, r : ctx = CtxOf(q, st, data, r) /\ Fed(msg, q, st, data, r) BY DEF ShaInv
  <2>3. sha256_final(CtxOf(q, st, data, r)) = PadBlocks(msg) BY <2>1, <2>2, FinalIs
  <2>4. Reference(msg) = PadBlocks(msg) BY <2>1, ReferenceIs
  <2> QED BY <2>2, <2>3, <2>4 DEF DigestIsReference
<1> QED BY <1>1, ShaInvAlways, PTL

(* Resuming from the midstate, the device's two blocks for a header and its second *)
(* round give the same blocks as the standard, with the same bound on the length.  *)
THEOREM HeaderFastPaths ==
  ASSUME 8 * MaxLen < TwoTo40
  PROVE  Spec => []FastPathsAgree
<1>1. ShaInv => FastPathsAgree
  <2> SUFFICES ASSUME ShaInv PROVE FastPathsAgree OBVIOUS
  <2>1. msg \in Seq(Int) /\ Len(msg) \in Nat /\ 8 * Len(msg) < TwoTo40 BY ShortMessage
  <2>2. Reference(msg) = PadBlocks(msg) BY <2>1, ReferenceIs
  <2>3. ASSUME Len(msg) >= 64
        PROVE  sha256_finish_from_midstate(sha256_midstate_64(SubSeq(msg, 1, 64)),
                                     SubSeq(msg, 65, Len(msg)), Len(msg)) = PadBlocks(msg)
    <3> DEFINE l == Len(msg)
               q == l \div 64 - 1
               r == l % 64
    <3>1. l \in Nat /\ l >= 64 BY <2>1, <2>3
    <3> HIDE DEF l
    <3>2. q \in Nat /\ r \in 0..63 /\ l = 64 * (q + 1) + r BY <3>1
    <3> HIDE DEF q, r
    <3>3. q \in Nat /\ Splits(msg, q + 1, r) BY <3>2 DEF Splits, l
    <3>4. msg \in Seq(Int) /\ 8 * Len(msg) < TwoTo40 BY <2>1
    <3> QED BY <3>3, <3>4, FinishIs
  <2>4. ASSUME Len(msg) = 80 PROVE sha256_80_be(msg) = PadBlocks(msg)
    <3>1. Splits(msg, 1, 16) BY <2>4 DEF Splits
    <3> QED BY <2>1, <3>1, HeaderIs
  <2>5. ASSUME Len(msg) = 32 PROVE SecondRound(msg) = PadBlocks(msg)
    <3>1. Splits(msg, 0, 32) BY <2>5 DEF Splits
    <3> QED BY <2>1, <3>1, DigestIs
  <2> QED BY <2>2, <2>3, <2>4, <2>5 DEF FastPathsAgree
<1> QED BY <1>1, ShaInvAlways, PTL
=============================================================================
