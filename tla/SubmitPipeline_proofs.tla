----------------------- MODULE SubmitPipeline_proofs -----------------------
(***************************************************************************)
(* Proofs about Outbox, for every set of hits, every word size, any set of *)
(* backup names and any combination of I/O faults, and about its client    *)
(* SubmitPipeline, for any number of pools, jobs, hits, rotations and      *)
(* restarts.                                                               *)
(*                                                                         *)
(* Outbox: QueueDeduped alone is not inductive only because enqueue and    *)
(* drop need the queue to be a sequence; with OutboxTypeOK it is.          *)
(* RewriteFramed and LoadComplete also need that a loop position is at     *)
(* least one while its method runs, which LoopStarted states.              *)
(*                                                                         *)
(* SubmitPipeline: every step of the main thread is a call of the outbox   *)
(* or leaves it alone (StepIsOutboxStep), so the first part's invariant    *)
(* holds here.  On top of that four inductive invariants, one per          *)
(* property: ReplayInv for ReplayOnce, OldestInv for ReplayOldestFirst,    *)
(* RouteInv for RoutedToOrigin and LossInv for NoSilentLoss.               *)
(***************************************************************************)
EXTENDS SubmitPipeline, WellFoundedInduction, TLAPS

(* A running loop has a position. *)
LoopStarted == op # "none" => idx >= 1

OutboxInv == OutboxTypeOK /\ QueueDeduped /\ LoopStarted /\ RewriteFramed /\ LoadComplete

(* Decoding a frame yields a record. *)
LEMMA DecodeType ==
  ASSUME NEW f, NEW k
  PROVE  Decode(f, k) \in Records
<1>1. CASE \E r \in Hit : Framed(f, k, r)
  BY <1>1 DEF Decode, Records
<1>2. CASE ~ \E r \in Hit : Framed(f, k, r)
  BY <1>2 DEF Decode, Records
<1> QED BY <1>1, <1>2

(* The key of a record is a key. *)
LEMMA KeyType ==
  ASSUME NEW r \in Records
  PROVE  Key(r) \in Keys
BY DEF Keys

(* The three parts of a record, or the first n of them, are cells. *)
LEMMA CellsType ==
  ASSUME NEW r \in Records, NEW n \in 0..3
  PROVE  SubSeq(Cells(r), 1, n) \in Seq(Cell)
<1>1. Cells(r) \in Seq(Cell)
  BY DEF Cells, Cell, Parts
<1> QED BY <1>1 DEF Cells

(* All three writes append the whole record. *)
LEMMA CellsWhole ==
  ASSUME NEW r
  PROVE  /\ Len(SubSeq(Cells(r), 1, 3)) = 3
         /\ \A p \in Parts : SubSeq(Cells(r), 1, 3)[p] = <<r, p>>
BY DEF Cells, Parts

(* Past the first operand, a concatenation is the second. *)
LEMMA ConcatRight ==
  ASSUME NEW S, NEW s \in Seq(S), NEW t \in Seq(S), NEW p \in 1..Len(t)
  PROVE  (s \o t)[Len(s) + p] = t[p]
<1>1. Len(s) \in Nat /\ Len(t) \in Nat /\ p \in Nat /\ p >= 1 /\ p <= Len(t)
  OBVIOUS
<1>2. Len(s) + p \in 1..(Len(s) + Len(t)) /\ ~(Len(s) + p <= Len(s)) /\ (Len(s) + p) - Len(s) = p
  BY <1>1
<1> QED BY <1>2

(* Removing an element leaves the others, in their order. *)
LEMMA WithoutIndexFact ==
  ASSUME NEW S, NEW s \in Seq(S), NEW i \in DOMAIN s
  PROVE  /\ WithoutIndex(s, i) \in Seq(S)
         /\ DOMAIN WithoutIndex(s, i) = 1..(Len(s) - 1)
         /\ \A j \in 1..(Len(s) - 1) :
              WithoutIndex(s, i)[j] = s[IF j < i THEN j ELSE j + 1]
<1>1. Len(s) \in Nat /\ DOMAIN s = 1..Len(s) /\ i \in 1..Len(s) /\ Len(s) - 1 \in Nat
  OBVIOUS
<1>2. \A j \in 1..(Len(s) - 1) : j \in 1..Len(s) /\ j + 1 \in 1..Len(s)
  BY <1>1
<1>3. \A j \in 1..Len(s) : s[j] \in S
  OBVIOUS
<1>4. WithoutIndex(s, i) \in [1..(Len(s) - 1) -> S]
  BY <1>1, <1>2, <1>3 DEF WithoutIndex
<1>5. WithoutIndex(s, i) \in Seq(S)
  BY <1>1, <1>4
<1> QED BY <1>4, <1>5 DEF WithoutIndex

(* Pushing a record whose key is new, and remembering the key, keeps the    *)
(* queue deduplicated: what enqueue and loadFromFile do.                    *)
LEMMA PushDeduped ==
  ASSUME OutboxTypeOK, QueueDeduped, NEW r \in Records,
         q' = (IF Key(r) \in seen THEN q ELSE Append(q, r)),
         seen' = seen \cup {Key(r)}
  PROVE  q' \in Seq(Records) /\ seen' \subseteq Keys /\ QueueDeduped'
<1>1. q \in Seq(Records) /\ seen \subseteq Keys
  BY DEF OutboxTypeOK
<1>2. seen' \subseteq Keys
  BY <1>1, KeyType
<1>3. CASE Key(r) \in seen
  BY <1>1, <1>2, <1>3 DEF QueueDeduped
<1>4. CASE Key(r) \notin seen
  <2>1. q' = Append(q, r) /\ q' \in Seq(Records)
    BY <1>1, <1>4
  <2>2. DOMAIN q' = 1..(Len(q) + 1) /\ DOMAIN q = 1..Len(q) /\ Len(q) \in Nat
    BY <1>1, <2>1
  <2>3. \A i \in DOMAIN q' : (i \in DOMAIN q /\ q'[i] = q[i]) \/ (i = Len(q) + 1 /\ q'[i] = r)
    BY <1>1, <2>1, <2>2
  <2>4. \A i \in DOMAIN q : Key(q[i]) # Key(r)
    BY <1>4 DEF QueueDeduped
  <2> HIDE DEF Key
  <2>5. \A i, j \in DOMAIN q' : Key(q'[i]) = Key(q'[j]) => i = j
    BY <2>3, <2>4 DEF QueueDeduped
  <2>6. \A i \in DOMAIN q' : Key(q'[i]) \in seen'
    BY <2>3 DEF QueueDeduped
  <2> QED BY <1>2, <2>1, <2>5, <2>6 DEF QueueDeduped
<1> QED BY <1>3, <1>4

-----------------------------------------------------------------------------
(* The empty outbox satisfies the invariant. *)
LEMMA InvInit == OutboxInit => OutboxInv
<1> SUFFICES ASSUME OutboxInit PROVE OutboxInv
  OBVIOUS
<1>1. baks \in [Epochs -> Seq(Cell)] /\ q \in Seq(Records) /\ file \in Seq(Cell)
  BY DEF OutboxInit
<1>2. OutboxTypeOK
  BY <1>1 DEF OutboxInit, OutboxTypeOK
<1>3. QueueDeduped
  BY DEF OutboxInit, QueueDeduped
<1>4. LoopStarted /\ RewriteFramed /\ LoadComplete
  BY DEF OutboxInit, LoopStarted, RewriteFramed, LoadComplete
<1> QED BY <1>2, <1>3, <1>4 DEF OutboxInv

(* Methods that only run with no loop in progress, and leave none, cannot   *)
(* disturb what the invariant says of loops.                                *)
LEMMA NoLoop ==
  ASSUME op' = "none"
  PROVE  LoopStarted' /\ RewriteFramed' /\ LoadComplete'
BY DEF LoopStarted, RewriteFramed, LoadComplete

(* enqueue *)
LEMMA InvEnqueue ==
  ASSUME OutboxInv, NEW r \in Records, enqueue(r)
  PROVE  OutboxInv'
<1>1. q' \in Seq(Records) /\ seen' \subseteq Keys /\ QueueDeduped'
  BY PushDeduped DEF OutboxInv, enqueue
<1>2. op' = "none"
  BY DEF enqueue
<1>3. OutboxTypeOK'
  BY <1>1 DEF OutboxInv, OutboxTypeOK, enqueue
<1> QED BY <1>1, <1>2, <1>3, NoLoop DEF OutboxInv

(* tryDequeue *)
LEMMA InvDequeue ==
  ASSUME OutboxInv, tryDequeue
  PROVE  OutboxInv'
<1>1. q \in Seq(Records) /\ q # <<>> /\ q' = Tail(q) /\ seen' = seen /\ op' = "none"
  BY DEF OutboxInv, OutboxTypeOK, tryDequeue
<1>2. q' \in Seq(Records) /\ \A i \in DOMAIN q' : i + 1 \in DOMAIN q /\ q'[i] = q[i + 1] /\ i \in Nat
  BY <1>1
<1>3. OutboxTypeOK'
  BY <1>1, <1>2 DEF OutboxInv, OutboxTypeOK, tryDequeue
<1>4. QueueDeduped'
  <2>1. \A i, j \in DOMAIN q' : Key(q'[i]) = Key(q'[j]) => i = j
    <3> SUFFICES ASSUME NEW i \in DOMAIN q', NEW j \in DOMAIN q', Key(q'[i]) = Key(q'[j])
                 PROVE  i = j
      OBVIOUS
    <3>1. i + 1 = j + 1
      BY <1>2 DEF OutboxInv, QueueDeduped
    <3> QED BY <1>2, <3>1
  <2>2. \A i \in DOMAIN q' : Key(q'[i]) \in seen'
    BY <1>1, <1>2 DEF OutboxInv, QueueDeduped
  <2> QED BY <2>1, <2>2 DEF QueueDeduped
<1> QED BY <1>1, <1>3, <1>4, NoLoop DEF OutboxInv

(* drop: the removed record's key is free again, and no other record had it. *)
LEMMA InvDrop ==
  ASSUME OutboxInv, NEW wid, NEW nonce, drop(wid, nonce)
  PROVE  OutboxInv'
<1>1. PICK i \in DOMAIN q : q' = WithoutIndex(q, i) /\ seen' = seen \ {Key(q[i])}
  BY DEF drop
<1>2. q \in Seq(Records) /\ op' = "none"
  BY DEF OutboxInv, OutboxTypeOK, drop
<1> DEFINE from(j) == IF j < i THEN j ELSE j + 1
<1>3. q' \in Seq(Records) /\ DOMAIN q' = 1..(Len(q) - 1)
      /\ \A j \in 1..(Len(q) - 1) : q'[j] = q[from(j)]
  BY <1>1, <1>2, WithoutIndexFact
<1>4. DOMAIN q = 1..Len(q) /\ Len(q) \in Nat /\ i \in 1..Len(q)
  BY <1>2
<1>5. \A j \in DOMAIN q' : from(j) \in DOMAIN q /\ from(j) # i
  BY <1>3, <1>4
<1>6. \A j, k \in DOMAIN q' : from(j) = from(k) => j = k
  BY <1>3, <1>4
<1> HIDE DEF from
<1>7. QueueDeduped'
  <2>1. \A j, k \in DOMAIN q' : Key(q'[j]) = Key(q'[k]) => j = k
    BY <1>3, <1>5, <1>6 DEF OutboxInv, QueueDeduped
  <2>2. \A j \in DOMAIN q' : Key(q'[j]) \in seen'
    BY <1>1, <1>3, <1>5 DEF OutboxInv, QueueDeduped
  <2> QED BY <2>1, <2>2 DEF QueueDeduped
<1>8. OutboxTypeOK'
  BY <1>1, <1>3 DEF OutboxInv, OutboxTypeOK, drop
<1> QED BY <1>2, <1>7, <1>8, NoLoop DEF OutboxInv

(* The queue and its keys untouched, QueueDeduped is too. *)
LEMMA SameQueue ==
  ASSUME OutboxInv, q' = q, seen' = seen
  PROVE  QueueDeduped'
BY DEF OutboxInv, QueueDeduped

(* appendToFile *)
LEMMA InvAppend ==
  ASSUME OutboxInv, NEW r \in Records, NEW n \in 0..3, appendToFile(r, n)
  PROVE  OutboxInv'
<1>1. SubSeq(Cells(r), 1, n) \in Seq(Cell)
  BY CellsType
<1>2. file' \in Seq(Cell)
  BY <1>1 DEF OutboxInv, OutboxTypeOK, appendToFile
<1>3. OutboxTypeOK'
  BY <1>2 DEF OutboxInv, OutboxTypeOK, appendToFile
<1>4. op' = "none" /\ q' = q /\ seen' = seen
  BY DEF appendToFile
<1> QED BY <1>3, <1>4, SameQueue, NoLoop DEF OutboxInv

(* clearFile *)
LEMMA InvClear ==
  ASSUME OutboxInv, clearFile
  PROVE  OutboxInv'
<1>1. OutboxTypeOK'
  BY DEF OutboxInv, OutboxTypeOK, clearFile
<1>2. op' = "none" /\ q' = q /\ seen' = seen
  BY DEF clearFile
<1> QED BY <1>1, <1>2, SameQueue, NoLoop DEF OutboxInv

(* rotateFile *)
LEMMA InvRotate ==
  ASSUME OutboxInv, NEW e \in Epochs, rotateFile(e)
  PROVE  OutboxInv'
<1>1. OutboxTypeOK'
  <2>1. OutboxTypeOK
    BY DEF OutboxInv
  <2>4. file' = <<>>
    BY DEF rotateFile, RotateRename, RotateCopy, RotateTruncate
  <2>5. present' = TRUE \/ present' = FALSE
    BY Zenon DEF rotateFile, RotateRename, RotateCopy, RotateTruncate
  <2>2. file' \in Seq(Cell)
    BY <2>4
  <2>6. present' \in BOOLEAN
    BY <2>5, Zenon
  <2>3. baks' \in [Epochs -> Seq(Cell)]
    BY <2>1 DEF OutboxTypeOK, rotateFile, RotateRename, RotateCopy, RotateTruncate
  <2> QED BY <2>1, <2>2, <2>6, <2>3 DEF OutboxTypeOK, rotateFile
<1>2. op' = "none" /\ q' = q /\ seen' = seen
  BY DEF rotateFile
<1> QED BY <1>1, <1>2, SameQueue, NoLoop DEF OutboxInv

(* loadFromFile *)
LEMMA InvLoad ==
  ASSUME OutboxInv, LoadBegin \/ LoadRecord \/ LoadEnd
  PROVE  OutboxInv'
<1>1. CASE LoadBegin
  <2>1. OutboxTypeOK' /\ QueueDeduped' /\ LoopStarted'
    BY <1>1 DEF LoadBegin, OutboxInv, OutboxTypeOK, QueueDeduped, LoopStarted
  <2>2. RewriteFramed' /\ LoadComplete'
    BY <1>1 DEF LoadBegin, RewriteFramed, LoadComplete
  <2> QED BY <2>1, <2>2 DEF OutboxInv
<1>2. CASE LoadRecord
  <2> DEFINE r == Decode(file, idx)
  <2>1. r \in Records
    BY DecodeType
  <2>2. q' = (IF Key(r) \in seen THEN q ELSE Append(q, r)) /\ seen' = seen \cup {Key(r)}
        /\ op = "load" /\ op' = op /\ idx' = idx + 1 /\ file' = file
    BY <1>2 DEF LoadRecord
  <2>3. idx \in Nat /\ idx >= 1
    BY <2>2 DEF OutboxInv, OutboxTypeOK, LoopStarted
  <2> DEFINE first(k) == FirstOfKey(file, k)
             d(k) == Decode(file, k)
  <2>4. /\ seen = {Key(d(k)) : k \in 1..(idx - 1)}
        /\ \A k \in 1..(idx - 1) : first(k) => \E i \in DOMAIN q : q[i] = d(k)
        /\ \A i \in DOMAIN q : \E k \in 1..(idx - 1) : q[i] = d(k) /\ first(k)
        /\ \A i, j \in DOMAIN q, k, l \in 1..(idx - 1) :
             q[i] = d(k) /\ first(k) /\ q[j] = d(l) /\ first(l) /\ k < l => i < j
    BY <2>2 DEF OutboxInv, LoadComplete
  <2>5. 1..(idx' - 1) = 1..(idx - 1) \cup {idx}
    BY <2>2, <2>3
  <2> HIDE DEF r
  <2>6. q' \in Seq(Records) /\ seen' \subseteq Keys /\ QueueDeduped'
    BY <2>1, <2>2, PushDeduped DEF OutboxInv
  <2>7. OutboxTypeOK' /\ LoopStarted' /\ RewriteFramed'
    BY <1>2, <2>2, <2>3, <2>6 DEF OutboxInv, OutboxTypeOK, LoadRecord, LoopStarted, RewriteFramed
  <2>8. first(idx) <=> Key(r) \notin seen
    BY <2>4 DEF r, FirstOfKey
  <2>9. LoadComplete'
    <3>1. seen' = {Key(d(k)) : k \in 1..(idx' - 1)}
      BY <2>2, <2>4, <2>5 DEF r
    <3>2. q \in Seq(Records) /\ Len(q) \in Nat /\ DOMAIN q = 1..Len(q)
      BY DEF OutboxInv, OutboxTypeOK
    <3>3. d(idx) = r /\ \A k \in 1..(idx' - 1) : k \in 1..(idx - 1) \/ k = idx
      BY <2>5 DEF r
    <3>4. \A k \in 1..(idx - 1) : Key(d(k)) \in seen
      BY <2>4
    <3>5. \A i \in DOMAIN q : Key(q[i]) \in seen
      BY DEF OutboxInv, QueueDeduped
    <3>6. \A k \in 1..(idx - 1) : k < idx
      BY <2>3
    <3> HIDE DEF first, d
    <3> SUFFICES /\ \A k \in 1..(idx' - 1) : first(k) => \E i \in DOMAIN q' : q'[i] = d(k)
                 /\ \A i \in DOMAIN q' : \E k \in 1..(idx' - 1) : q'[i] = d(k) /\ first(k)
                 /\ \A i, j \in DOMAIN q', k, l \in 1..(idx' - 1) :
                      q'[i] = d(k) /\ first(k) /\ q'[j] = d(l) /\ first(l) /\ k < l => i < j
      <4>1. file' = file
        BY <2>2
      <4>2. \A k : FirstOfKey(file', k) <=> first(k)
        BY <4>1 DEF first
      <4>3. \A k : Decode(file', k) = d(k)
        BY <4>1 DEF d
      <4>4. \A k : Key(Decode(file', k)) = Key(d(k))
        BY <4>3
      <4> HIDE DEF first, d
      <4> QED BY <3>1, <4>2, <4>3, <4>4 DEF LoadComplete
    <3>7. CASE Key(r) \in seen
      <4>1. q' = q /\ ~first(idx)
        BY <2>2, <2>8, <3>7
      <4>2. \A k \in 1..(idx' - 1) : first(k) => k \in 1..(idx - 1) /\ \E i \in DOMAIN q' : q'[i] = d(k)
        BY <2>4, <3>3, <4>1
      <4>3. \A i \in DOMAIN q' : \E k \in 1..(idx' - 1) : q'[i] = d(k) /\ first(k)
        BY <2>4, <2>5, <4>1
      <4>4. \A i, j \in DOMAIN q', k, l \in 1..(idx' - 1) :
              q'[i] = d(k) /\ first(k) /\ q'[j] = d(l) /\ first(l) /\ k < l => i < j
        BY <2>4, <4>1, <4>2
      <4> QED BY <4>2, <4>3, <4>4
    <3>8. CASE Key(r) \notin seen
      <4>1. q' = Append(q, r) /\ first(idx)
        BY <2>2, <2>8, <3>8
      <4>2. DOMAIN q' = 1..(Len(q) + 1) /\ q'[Len(q) + 1] = r
        BY <2>1, <3>2, <4>1
      <4>3. \A i \in DOMAIN q : i \in DOMAIN q' /\ q'[i] = q[i] /\ i < Len(q) + 1
        BY <2>1, <3>2, <4>1
      <4>4. \A i \in DOMAIN q' : i \in DOMAIN q \/ i = Len(q) + 1
        BY <3>2, <4>2
      <4>5. \A i \in DOMAIN q', k \in 1..(idx - 1) : q'[i] = d(k) => i \in DOMAIN q
        BY <3>4, <3>8, <4>2, <4>4
      <4>6. \A i \in DOMAIN q' : q'[i] = d(idx) => i = Len(q) + 1
        BY <3>3, <3>5, <3>8, <4>3, <4>4
      <4>7. \A k \in 1..(idx' - 1) : first(k) => \E i \in DOMAIN q' : q'[i] = d(k)
        <5>1. Len(q) + 1 \in DOMAIN q'
          BY <3>2, <4>2
        <5> QED BY <2>4, <3>3, <4>2, <4>3, <5>1
      <4>8. \A i \in DOMAIN q' : \E k \in 1..(idx' - 1) : q'[i] = d(k) /\ first(k)
        BY <2>4, <2>5, <3>3, <4>1, <4>2, <4>3, <4>4
      <4>9. ASSUME NEW i \in DOMAIN q', NEW j \in DOMAIN q', NEW k \in 1..(idx' - 1),
                   NEW l \in 1..(idx' - 1),
                   q'[i] = d(k), first(k), q'[j] = d(l), first(l), k < l
            PROVE  i < j
        <5>1. k \in 1..(idx - 1)
          BY <2>2, <2>3, <4>9
        <5>2. i \in DOMAIN q
          BY <4>5, <4>9, <5>1
        <5>3. CASE l = idx
          BY <4>3, <4>6, <4>9, <5>2, <5>3
        <5>4. CASE l \in 1..(idx - 1)
          BY <2>4, <4>3, <4>5, <4>9, <5>1, <5>2, <5>4
        <5> QED BY <3>3, <5>3, <5>4
      <4> QED BY <4>7, <4>8, <4>9
    <3> QED BY <3>7, <3>8
  <2> QED BY <2>6, <2>7, <2>9 DEF OutboxInv
<1>3. CASE LoadEnd
  <2>1. OutboxTypeOK' /\ op' = "none" /\ q' = q /\ seen' = seen
    BY <1>3 DEF LoadEnd, OutboxInv, OutboxTypeOK
  <2> QED BY <2>1, SameQueue, NoLoop DEF OutboxInv
<1> QED BY <1>1, <1>2, <1>3

(* rewriteFile *)
LEMMA InvRewrite ==
  ASSUME OutboxInv, NEW n \in 0..3, RewriteBegin \/ RewriteRecord(n) \/ RewriteEnd
  PROVE  OutboxInv'
<1>1. CASE RewriteBegin
  <2>1. OutboxTypeOK' /\ LoopStarted' /\ q' = q /\ seen' = seen
    BY <1>1 DEF RewriteBegin, OutboxInv, OutboxTypeOK, LoopStarted
  <2>2. RewriteFramed' /\ LoadComplete'
    BY <1>1 DEF RewriteBegin, RewriteFramed, LoadComplete
  <2> QED BY <2>1, <2>2, SameQueue DEF OutboxInv
<1>2. CASE RewriteRecord(n)
  <2>1. /\ op = "rewrite" /\ op' = op /\ idx' = idx + 1 /\ q' = q /\ seen' = seen
        /\ idx <= Len(q) /\ file' = file \o SubSeq(Cells(q[idx]), 1, n)
        /\ (n = 3 \/ "tear" \in Faults)
    BY <1>2 DEF RewriteRecord
  <2>2. idx \in Nat /\ idx >= 1 /\ q \in Seq(Records) /\ file \in Seq(Cell)
    BY <2>1 DEF OutboxInv, OutboxTypeOK, LoopStarted
  <2>3. q[idx] \in Records
    BY <2>1, <2>2
  <2>4. SubSeq(Cells(q[idx]), 1, n) \in Seq(Cell)
    BY <2>3, CellsType
  <2>5. file' \in Seq(Cell)
    BY <2>1, <2>2, <2>4
  <2>6. OutboxTypeOK' /\ LoopStarted' /\ LoadComplete'
    BY <1>2, <2>1, <2>2, <2>5 DEF OutboxInv, OutboxTypeOK, RewriteRecord, LoopStarted, LoadComplete
  <2>7. RewriteFramed'
    <3> SUFFICES ASSUME "tear" \notin Faults
                 PROVE  /\ Len(file') = 3 * (idx' - 1)
                        /\ \A k \in 1..(idx' - 1) : Framed(file', k, q'[k])
      BY DEF RewriteFramed, Framed
    <3> DEFINE c == SubSeq(Cells(q[idx]), 1, 3)
    <3>1. n = 3 /\ file' = file \o c
      BY <2>1
    <3>2. Len(c) = 3 /\ c \in Seq(Cell) /\ \A p \in Parts : c[p] = <<q[idx], p>>
      BY <2>4, <3>1, CellsWhole
    <3> HIDE DEF c
    <3>3. Len(file) = 3 * (idx - 1) /\ \A k \in 1..(idx - 1) : Framed(file, k, q[k])
      BY <2>1 DEF OutboxInv, RewriteFramed
    <3>4. Len(file') = 3 * (idx' - 1)
      <4>1. Len(file \o c) = Len(file) + Len(c)
        <5>1. \A u \in Seq(Cell) : \A v \in Seq(Cell) : Len(u \o v) = Len(u) + Len(v) OBVIOUS
        <5> QED BY <2>2, <3>2, <5>1, Zenon
      <4>2. Len(file') = 3 * (idx - 1) + 3 BY <3>1, <3>2, <3>3, <4>1, Zenon
      <4>3. idx \in Nat /\ idx' = idx + 1 BY <2>1, <2>2
      <4> QED BY <4>2, <4>3
    <3>5. ASSUME NEW k \in 1..(idx - 1)
          PROVE  Framed(file', k, q[k])
      <4>1. ASSUME NEW p \in Parts
            PROVE  file'[3 * (k - 1) + p] = <<q[k], p>>
        <5>1. 3 * (k - 1) + p \in 1..Len(file)
          BY <2>2, <3>3 DEF Parts
        <5>2. file'[3 * (k - 1) + p] = file[3 * (k - 1) + p]
          BY <2>2, <3>1, <3>2, <5>1
        <5> QED BY <3>3, <5>2 DEF Framed
      <4> QED BY <4>1 DEF Framed
    <3>6. Framed(file', idx, q[idx])
      <4>1. ASSUME NEW p \in Parts
            PROVE  file'[3 * (idx - 1) + p] = <<q[idx], p>>
        <5>1. p \in 1..3 /\ 3 * (idx - 1) + p = Len(file) + p
          BY <3>3 DEF Parts
        <5>2. p \in 1..Len(c)
          BY <3>2, <5>1
        <5>3. file \in Seq(Cell) /\ c \in Seq(Cell)
          BY <2>2, <3>2
        <5>4. (file \o c)[Len(file) + p] = c[p]
          BY <5>2, <5>3, ConcatRight, Zenon
        <5> QED BY <3>1, <3>2, <5>1, <5>4
      <4> QED BY <4>1 DEF Framed
    <3>7. \A k \in 1..(idx' - 1) : k \in 1..(idx - 1) \/ k = idx
      BY <2>1, <2>2
    <3> QED BY <2>1, <3>4, <3>5, <3>6, <3>7
  <2> QED BY <2>1, <2>6, <2>7, SameQueue DEF OutboxInv
<1>3. CASE RewriteEnd
  <2>1. OutboxTypeOK' /\ op' = "none" /\ q' = q /\ seen' = seen
    BY <1>3 DEF RewriteEnd, OutboxInv, OutboxTypeOK
  <2> QED BY <2>1, SameQueue, NoLoop DEF OutboxInv
<1> QED BY <1>1, <1>2, <1>3

(* The process ends. *)
LEMMA InvDie ==
  ASSUME OutboxInv, Die
  PROVE  OutboxInv'
<1>1. OutboxTypeOK' /\ QueueDeduped' /\ op' = "none"
  BY DEF Die, OutboxInv, OutboxTypeOK, QueueDeduped
<1> QED BY <1>1, NoLoop DEF OutboxInv

(* Every call of the outbox, and the process's death, keep the invariant. *)
LEMMA OutboxInvStep == OutboxInv /\ [OutboxNext]_outboxVars => OutboxInv'
<1> SUFFICES ASSUME OutboxInv, [OutboxNext]_outboxVars PROVE OutboxInv'
  OBVIOUS
<1>1. CASE \E r \in Records : enqueue(r)
  BY <1>1, InvEnqueue
<1>2. CASE tryDequeue
  BY <1>2, InvDequeue
<1>3. CASE \E r \in Hit : drop(r.wid, r.nonce)
  BY <1>3, InvDrop
<1>4. CASE \E r \in Records, n \in 0..3 : appendToFile(r, n)
  BY <1>4, InvAppend
<1>5. CASE clearFile
  BY <1>5, InvClear
<1>6. CASE \E e \in Epochs : rotateFile(e)
  BY <1>6, InvRotate
<1>7. CASE LoadBegin \/ LoadRecord \/ LoadEnd
  BY <1>7, InvLoad
<1>8. CASE RewriteBegin \/ (\E n \in 0..3 : RewriteRecord(n)) \/ RewriteEnd
  <2>1. 3 \in 0..3
    OBVIOUS
  <2> QED BY <1>8, <2>1, InvRewrite
<1>9. CASE Die
  BY <1>9, InvDie
<1>10. CASE UNCHANGED outboxVars
  <2>1. OutboxTypeOK' /\ QueueDeduped' /\ LoopStarted'
    BY <1>10 DEF outboxVars, OutboxInv, OutboxTypeOK, QueueDeduped, LoopStarted
  <2>2. RewriteFramed'
    BY <1>10 DEF outboxVars, OutboxInv, RewriteFramed
  <2>3. LoadComplete'
    BY <1>10 DEF outboxVars, OutboxInv, LoadComplete, FirstOfKey
  <2> QED BY <2>1, <2>2, <2>3 DEF OutboxInv
<1> QED BY <1>1, <1>2, <1>3, <1>4, <1>5, <1>6, <1>7, <1>8, <1>9, <1>10 DEF OutboxNext

-----------------------------------------------------------------------------
(* The inductive invariant holds under any client of the outbox. *)
THEOREM OutboxInvariant == OutboxSpec => []OutboxInv
BY InvInit, OutboxInvStep, PTL DEF OutboxSpec

(* The outbox's memory and files keep their types, faults included. *)
THEOREM OutboxTypes == OutboxSpec => []OutboxTypeOK
BY OutboxInvariant, PTL DEF OutboxInv

(* No two queued submissions share a dedupe key, and enqueueing a queued    *)
(* one again is a no-op, whatever the client does with enqueue, drop,       *)
(* tryDequeue, loadFromFile and restarts.                                   *)
THEOREM OutboxDedupes == OutboxSpec => []QueueDeduped
BY OutboxInvariant, PTL DEF OutboxInv

(* rewriteFile writes a well-framed image of the queue. *)
THEOREM OutboxRewriteFramed == OutboxSpec => []RewriteFramed
BY OutboxInvariant, PTL DEF OutboxInv

(* loadFromFile queues the first record of every key of the file and no     *)
(* other, in the order of the file, misframed files included.               *)
THEOREM OutboxLoadComplete == OutboxSpec => []LoadComplete
BY OutboxInvariant, PTL DEF OutboxInv

-----------------------------------------------------------------------------
(* The pipeline. *)

(* The device only reports winners, and hits name their job. *)
HitsWin == \A h \in ring \cup hits : h.wid \in WorkIds /\ Pair(h) \in Winners

TypeInv == TypeOK /\ OutboxInv /\ HitsWin

-----------------------------------------------------------------------------
(* A set of naturals has a least element. *)
LEMMA LeastElement ==
  ASSUME NEW T, T \subseteq Nat, T # {}
  PROVE  \E x \in T : \A y \in T : x <= y
<1> DEFINE R == OpToRel(<, Nat)
<1>1. IsWellFoundedOn(R, Nat)
  BY NatLessThanWellFounded, Zenon
<1> HIDE DEF R
<1>2. PICK x \in T : \A y \in T : <<y, x>> \notin R
  BY <1>1, WFMin
<1>3. \A y \in T : ~(y < x)
  BY <1>2 DEF R, OpToRel
<1> QED BY <1>3

(* The snapshot of a work id is a slot that holds it: the CHOOSE of         *)
(* SnapshotOf has a witness, the first such slot.                           *)
LEMMA SnapshotHolds ==
  ASSUME NEW w, \E s \in Active : slot[s] = w
  PROVE  SnapshotOf(w) \in Sources /\ slot[SnapshotOf(w)] = w
<1> DEFINE T == {s \in Active : slot[s] = w}
<1>1. T \subseteq Nat /\ T # {}
  BY PipelineAssumption DEF Active
<1>2. PICK s \in T : \A t \in T : s <= t
  BY <1>1, LeastElement
<1>3. \E u \in Active : slot[u] = w /\ \A t \in Active : slot[t] = w => u <= t
  BY <1>2
<1>4. SnapshotOf(w) \in Active /\ slot[SnapshotOf(w)] = w
  BY <1>3 DEF SnapshotOf
<1> QED BY <1>4 DEF Active

(* The record of a hit is a PendingSubmit value. *)
LEMMA RecType ==
  ASSUME TypeInv, NEW h \in hits, HasSnapshot(h)
  PROVE  Rec(h) \in Hit /\ Rec(h).wid = h.wid /\ Rec(h).hdr = SnapshotOf(h.wid)
<1>1. SnapshotOf(h.wid) \in Sources
  BY SnapshotHolds DEF HasSnapshot
<1>2. Pair(h) \in Winners
  BY DEF TypeInv, HitsWin
<1>3. Pair(h)[1] = h.wid /\ Pair(h)[2] = h.nonce
  BY DEF Pair
<1>4. [wid |-> Pair(h)[1], nonce |-> Pair(h)[2], hdr |-> SnapshotOf(h.wid)] \in Hit
  BY <1>1, <1>2, PipelineAssumption
<1> QED BY <1>3, <1>4 DEF Rec

(* Jobs of a source are work ids, and no work id is None. *)
LEMMA WorkIdFacts ==
  /\ \A s \in Sources : JobsOf[s] \subseteq WorkIds
  /\ WorkIds \subseteq Nat \ {0}
BY PipelineAssumption DEF WorkIds

(* Every step of the main thread is a call of the outbox, or leaves it      *)
(* alone: the main thread is one of the clients Outbox allows.              *)
LEMMA StepIsOutboxStep ==
  ASSUME TypeInv, [Next]_vars
  PROVE  [OutboxNext]_outboxVars
<1>1. cur \in Records /\ Epoch(clock) \in Epochs
  BY PipelineAssumption DEF TypeInv, TypeOK
<1>2. CASE StartRotated \/ RotateIfNeeded
  BY <1>1, <1>2 DEF StartRotated, RotateIfNeeded, Rotating, OutboxNext
<1>3. CASE StartLoad \/ Load \/ Loaded
  BY <1>3 DEF StartLoad, Load, Loaded, OutboxNext
<1>4. CASE ReplayDequeue
  BY <1>4 DEF ReplayDequeue, OutboxNext
<1>5. CASE RouteEnqueue
  BY <1>1, <1>5 DEF RouteEnqueue, OutboxNext
<1>6. ASSUME NEW n \in 0..3, Persist(n) PROVE OutboxNext
  BY <1>1, <1>6 DEF Persist, OutboxNext
<1>7. CASE Crash
  BY <1>7 DEF Crash, OutboxNext
<1>8. CASE \/ StartNoFile \/ ReplayDone \/ Launch \/ HitsDone \/ SendOk \/ SendNot
           \/ RotateNotNeeded \/ Tick
  BY <1>8 DEF StartNoFile, ReplayDone, Launch, HitsDone, SendOk, SendNot, RotateNotNeeded, Tick
<1>9. ASSUME NEW s \in Sources, NEW w \in WorkIds, DrainAdapter(s, w) PROVE UNCHANGED outboxVars
  BY <1>9 DEF DrainAdapter
<1>10. ASSUME NEW h \in hits, StaleHit(h) \/ BlockHit(h) \/ VerifyFails(h) \/ verifyAndSubmit(h)
       PROVE  UNCHANGED outboxVars
  BY <1>10 DEF StaleHit, BlockHit, VerifyFails, verifyAndSubmit
<1>11. CASE UNCHANGED vars
  BY <1>11 DEF vars
<1> QED
  BY <1>2, <1>3, <1>4, <1>5, <1>6, <1>7, <1>8, <1>9, <1>10, <1>11 DEF Next

(* The initial state. *)
LEMMA TypeInvInit == Init => TypeInv
<1> SUFFICES ASSUME Init PROVE TypeInv
  OBVIOUS
<1>1. OutboxInv
  BY InvInit DEF Init
<1>2. OutboxTypeOK
  BY <1>1 DEF OutboxInv
<1>3. /\ slot \in [Sources -> WorkIds \cup {None}] /\ wmap \in [WorkIds -> Sources \cup {None}]
      /\ cur \in Records /\ replayed \in Seq(Records)
  BY DEF Init, Records
<1>4. /\ base \in 0..MaxBase /\ clock \in ClockStart..MaxClock
      /\ lastRot \in 0..MaxClock /\ crashes \in 0..MaxCrashes
  BY PipelineAssumption DEF Init
<1>5. TypeOK
  BY <1>2, <1>3, <1>4 DEF Init, TypeOK
<1>6. HitsWin
  BY DEF Init, HitsWin
<1> QED BY <1>1, <1>5, <1>6 DEF TypeInv

(* What a launch puts into the ring or hands to the loop. *)
LEMMA LaunchTypes ==
  ASSUME TypeInv, Launch
  PROVE  /\ ring' \cup hits' \subseteq [wid : WorkIds, nonce : Nat, job : Sources, at : 0..MaxBase]
         /\ HitsWin'
<1> DEFINE T == [wid : WorkIds, nonce : Nat, job : Sources, at : 0..MaxBase]
<1>1. \A s \in Active : s \in Sources /\ slot[s] \in WorkIds
  BY DEF Active, TypeInv, TypeOK
<1>2. ASSUME NEW h \in DeviceHits
      PROVE  h \in T /\ h.wid \in WorkIds /\ Pair(h) \in Winners
  <2>1. Pair(h) \in Winners
    BY DEF DeviceHits, Pair
  <2>2. PICK s \in Active, k \in 0..(Span - 1) :
          h = [wid |-> slot[s], nonce |-> base + JobIndex(s) + k, job |-> s, at |-> base]
    BY DEF DeviceHits
  <2>3. h.nonce \in Nat
    BY <2>1, PipelineAssumption DEF Pair
  <2>4. base \in 0..MaxBase
    BY DEF TypeInv, TypeOK
  <2>5. h.nonce = base + JobIndex(s) + k /\ h.wid = slot[s]
    BY <2>2
  <2> QED BY <1>1, <2>1, <2>2, <2>3, <2>4, <2>5
<1>3. \A h \in ring : h \in T /\ h.wid \in WorkIds /\ Pair(h) \in Winners
  BY DEF TypeInv, TypeOK, HitsWin
<1>4. ring' \cup hits' \subseteq ring \cup DeviceHits
  BY DEF Launch
<1> QED BY <1>2, <1>3, <1>4 DEF HitsWin

(* Every step keeps the types. *)
LEMMA TypeInvStep == TypeInv /\ [Next]_vars => TypeInv'
<1> SUFFICES ASSUME TypeInv, [Next]_vars PROVE TypeInv'
  OBVIOUS
<1>0. OutboxInv' /\ OutboxTypeOK'
  BY StepIsOutboxStep, OutboxInvStep DEF TypeInv, OutboxInv
<1>a. TypeOK
  BY DEF TypeInv
<1>b. OutboxTypeOK /\ HitsWin
  BY DEF TypeInv, OutboxInv
<1> SUFFICES TypeOK' /\ HitsWin'
  BY <1>0 DEF TypeInv
<1>1. CASE \/ StartNoFile \/ StartLoad \/ Load \/ Loaded \/ ReplayDone \/ HitsDone
           \/ RouteEnqueue \/ SendNot \/ RotateNotNeeded
  BY <1>0, <1>1, <1>a, <1>b
  DEF StartNoFile, StartLoad, Load, Loaded, ReplayDone, HitsDone, RouteEnqueue, SendNot,
      RotateNotNeeded, loopVars, timeVars, hist, TypeOK, HitsWin
<1>2. CASE StartRotated \/ RotateIfNeeded
  <2>1. lastRot' \in 0..MaxClock
    <3>1. clock \in ClockStart..MaxClock
      BY <1>a DEF TypeOK
    <3>2. lastRot' = clock
      BY <1>2 DEF StartRotated, RotateIfNeeded, Rotating
    <3> QED BY <3>1, <3>2, PipelineAssumption
  <2>2. nameReused' \in BOOLEAN
    BY <1>2, Zenon DEF StartRotated, RotateIfNeeded, Rotating
  <2> QED
    BY <1>0, <1>2, <1>a, <1>b, <2>1, <2>2
    DEF StartRotated, RotateIfNeeded, Rotating, loopVars, hist, TypeOK, HitsWin
<1>3. CASE ReplayDequeue
  <2>1. cur' \in Records /\ replayed' \in Seq(Records)
    BY <1>3, <1>a, <1>b DEF ReplayDequeue, tryDequeue, TypeOK, OutboxTypeOK
  <2> QED
    BY <1>0, <1>3, <1>a, <1>b, <2>1 DEF ReplayDequeue, loopVars, timeVars, hist, TypeOK, HitsWin
<1>4. ASSUME NEW s \in Sources, NEW w \in WorkIds, DrainAdapter(s, w) PROVE TypeOK' /\ HitsWin'
  <2>1. slot' \in [Sources -> WorkIds \cup {None}] /\ wmap' \in [WorkIds -> Sources \cup {None}]
    BY <1>4, <1>a DEF DrainAdapter, set, TypeOK
  <2> QED
    BY <1>0, <1>4, <1>a, <1>b, <2>1 DEF DrainAdapter, timeVars, hist, TypeOK, HitsWin
<1>5. CASE Launch
  <2>1. base' \in 0..MaxBase
    BY <1>5, <1>a, PipelineAssumption DEF Launch, TypeOK
  <2> QED
    BY <1>0, <1>5, <1>a, <2>1, LaunchTypes DEF Launch, timeVars, hist, TypeOK
<1>6. ASSUME NEW h \in hits, StaleHit(h) \/ VerifyFails(h) PROVE TypeOK' /\ HitsWin'
  BY <1>0, <1>6, <1>a, <1>b DEF StaleHit, VerifyFails, TakeHit, timeVars, hist, TypeOK, HitsWin
<1>7. ASSUME NEW h \in hits, BlockHit(h) PROVE TypeOK' /\ HitsWin'
  <2>1. Rec(h) \in Hit
    BY <1>7, RecType DEF BlockHit
  <2> QED BY <1>0, <1>7, <1>a, <1>b, <2>1 DEF BlockHit, TakeHit, timeVars, TypeOK, HitsWin
<1>8. ASSUME NEW h \in hits, verifyAndSubmit(h) PROVE TypeOK' /\ HitsWin'
  <2>1. Rec(h) \in Hit /\ Rec(h) \in Records
    BY <1>8, RecType DEF verifyAndSubmit, Records
  <2> QED BY <1>0, <1>8, <1>a, <1>b, <2>1 DEF verifyAndSubmit, TakeHit, timeVars, TypeOK, HitsWin
<1>9. CASE SendOk
  <2>1. Destination(cur) \in Sources
    BY <1>9, PipelineAssumption DEF SendOk
  <2>2. /\ sent' \subseteq Sources \X Records /\ everSent' \subseteq Sources \X Records
        /\ resent' \subseteq Records
    BY <1>9, <1>a, <2>1 DEF SendOk, TypeOK
  <2> QED BY <1>0, <1>9, <1>a, <1>b, <2>2 DEF SendOk, loopVars, timeVars, TypeOK, HitsWin
<1>10. ASSUME NEW n \in 0..3, Persist(n) PROVE TypeOK' /\ HitsWin'
  <2>1. casualties' \subseteq Records
    BY <1>10, <1>a DEF Persist, TypeOK
  <2> QED BY <1>0, <1>10, <1>a, <1>b, <2>1 DEF Persist, loopVars, timeVars, TypeOK, HitsWin
<1>11. CASE Tick
  <2>1. clock' \in ClockStart..MaxClock
    BY <1>11, <1>a, PipelineAssumption DEF Tick, TypeOK
  <2> QED BY <1>0, <1>11, <1>a, <1>b, <2>1 DEF Tick, loopVars, hist, TypeOK, HitsWin
<1>12. CASE Crash
  <2>1. /\ slot' \in [Sources -> WorkIds \cup {None}] /\ wmap' \in [WorkIds -> Sources \cup {None}]
        /\ cur' \in Records /\ replayed' \in Seq(Records)
    BY <1>12 DEF Crash, Records
  <2>2. casualties' \subseteq Records
    BY <1>12, <1>a DEF Crash, TypeOK
  <2>3. base' \in 0..MaxBase /\ lastRot' \in 0..MaxClock /\ crashes' \in 0..MaxCrashes
    BY <1>12, <1>a, PipelineAssumption DEF Crash, TypeOK
  <2> QED BY <1>0, <1>12, <1>a, <2>1, <2>2, <2>3 DEF Crash, TypeOK, HitsWin
<1>13. CASE UNCHANGED vars
  BY <1>0, <1>13, <1>a, <1>b DEF vars, loopVars, timeVars, hist, TypeOK, HitsWin
<1> QED
  BY <1>1, <1>2, <1>3, <1>4, <1>5, <1>6, <1>7, <1>8, <1>9, <1>10, <1>11, <1>12, <1>13 DEF Next

(* The main thread's and the outbox's state keep their types. *)
THEOREM PipelineTypes == Spec => []TypeInv
BY TypeInvInit, TypeInvStep, PTL DEF Spec

-----------------------------------------------------------------------------
(* Replay.  What was replayed keeps its key in seen_ and is no longer       *)
(* queued, so that putting it back is a no-op and no other pending record   *)
(* has its key.                                                             *)

Replaying == pc = "replay" \/ (InCallback /\ ret = "replay")

ReplayedGone ==
  Replaying =>
    \A i \in DOMAIN replayed :
      /\ Key(replayed[i]) \in seen
      /\ \A j \in DOMAIN q : Key(q[j]) # Key(replayed[i])

(* Nothing is replayed before the load is over. *)
NothingYet == pc \in {"down", "load"} => replayed = <<>>

(* A replayed record is the one being routed. *)
RoutesReplayed ==
  InCallback /\ ret = "replay" => \E i \in DOMAIN replayed : replayed[i] = cur

ReplayInv == NothingYet /\ RoutesReplayed /\ ReplayedGone /\ ReplayOnce

(* A step that leaves the outbox's memory, the record being routed and the  *)
(* replayed records alone, and does not enter the replay.                   *)
LEMMA ReplayControl ==
  ASSUME ReplayInv, UNCHANGED <<q, seen, cur, replayed>>,
         Replaying' => Replaying,
         InCallback' /\ ret' = "replay" => InCallback /\ ret = "replay",
         pc' \in {"down", "load"} => pc \in {"down", "load"}
  PROVE  ReplayInv'
<1>1. NothingYet' /\ ReplayOnce'
  BY DEF ReplayInv, NothingYet, ReplayOnce
<1>2. RoutesReplayed'
  BY DEF ReplayInv, RoutesReplayed
<1>3. ReplayedGone'
  BY DEF ReplayInv, ReplayedGone
<1> QED BY <1>1, <1>2, <1>3 DEF ReplayInv

(* With nothing replayed there is nothing to say. *)
LEMMA ReplayNothing ==
  ASSUME replayed' = <<>>, ~(InCallback' /\ ret' = "replay")
  PROVE  ReplayInv'
<1>1. NothingYet' /\ ReplayedGone' /\ ReplayOnce'
  BY DEF NothingYet, ReplayedGone, ReplayOnce
<1>2. RoutesReplayed'
  BY DEF RoutesReplayed
<1> QED BY <1>1, <1>2 DEF ReplayInv

(* Every step keeps it. *)
LEMMA ReplayStep == TypeInv /\ ReplayInv /\ [Next]_vars => ReplayInv'
<1> SUFFICES ASSUME TypeInv, ReplayInv, [Next]_vars PROVE ReplayInv'
  OBVIOUS
<1>0. QueueDeduped /\ q \in Seq(Records) /\ replayed \in Seq(Records)
  BY DEF TypeInv, OutboxInv, OutboxTypeOK, TypeOK
<1>1. CASE StartRotated \/ StartNoFile \/ StartLoad \/ Load \/ Loaded
  <2>1. pc \in {"down", "load"} /\ pc' \in {"load", "idle", "replay"} /\ replayed' = replayed
    BY <1>1 DEF StartRotated, StartNoFile, StartLoad, Load, Loaded
  <2>2. replayed' = <<>> /\ ~InCallback'
    BY <2>1 DEF ReplayInv, NothingYet, InCallback
  <2> QED BY <2>2, ReplayNothing
<1>2. CASE ReplayDequeue
  <2> DEFINE n == Len(replayed)
             r == Head(q)
  <2>1. /\ pc = "replay" /\ q # <<>> /\ q' = Tail(q) /\ seen' = seen /\ cur' = r
        /\ replayed' = Append(replayed, r) /\ pc' = "enqueue"
    BY <1>2 DEF ReplayDequeue, tryDequeue
  <2>2. /\ n \in Nat /\ DOMAIN replayed = 1..n /\ DOMAIN replayed' = 1..(n + 1)
        /\ replayed'[n + 1] = r /\ \A i \in 1..n : replayed'[i] = replayed[i]
    BY <1>0, <2>1
  <2>3. /\ Len(q) \in Nat /\ DOMAIN q = 1..Len(q) /\ 1 \in DOMAIN q /\ q[1] = r
        /\ \A j \in DOMAIN q' : j + 1 \in DOMAIN q /\ q'[j] = q[j + 1] /\ j + 1 # 1
    BY <1>0, <2>1
  <2> HIDE DEF n, r
  <2> HIDE DEF Key
  <2>4. \A i \in 1..n : Key(replayed[i]) \in seen /\ \A j \in DOMAIN q : Key(q[j]) # Key(replayed[i])
    BY <2>1, <2>2 DEF ReplayInv, ReplayedGone, Replaying
  <2>5. Key(r) \in seen /\ \A j \in DOMAIN q' : Key(q'[j]) # Key(r)
    BY <1>0, <2>3 DEF QueueDeduped
  <2>6. \A i \in 1..n : Key(replayed[i]) # Key(r)
    BY <2>3, <2>4
  <2>7. \A i \in 1..(n + 1) : i \in 1..n \/ i = n + 1
    BY <2>2
  <2>8. ReplayedGone'
    BY <2>1, <2>2, <2>3, <2>4, <2>5, <2>7 DEF ReplayedGone
  <2>9. ReplayOnce'
    <3>1. \A i, j \in 1..n : Key(replayed[i]) = Key(replayed[j]) => i = j
      BY <2>2 DEF ReplayInv, ReplayOnce
    <3> SUFFICES ASSUME NEW i \in 1..(n + 1), NEW j \in 1..(n + 1),
                        Key(replayed'[i]) = Key(replayed'[j])
                 PROVE  i = j
      BY <2>2 DEF ReplayOnce
    <3> QED BY <2>2, <2>6, <2>7, <3>1
  <2>10. NothingYet' /\ RoutesReplayed'
    <3>1. n + 1 \in DOMAIN replayed'
      BY <2>2
    <3> QED BY <2>1, <2>2, <3>1 DEF NothingYet, RoutesReplayed
  <2> QED BY <2>8, <2>9, <2>10 DEF ReplayInv
<1>3. CASE RouteEnqueue
  <2>1. /\ pc = "enqueue" /\ pc' = "send" /\ UNCHANGED <<ret, cur, replayed>>
        /\ q' = (IF Key(cur) \in seen THEN q ELSE Append(q, cur)) /\ seen' = seen \cup {Key(cur)}
    BY <1>3 DEF RouteEnqueue, enqueue
  <2>2. NothingYet' /\ RoutesReplayed' /\ ReplayOnce'
    BY <2>1 DEF ReplayInv, NothingYet, RoutesReplayed, ReplayOnce, InCallback
  <2>3. ReplayedGone'
    <3> SUFFICES ASSUME ret = "replay" PROVE ReplayedGone'
      BY <2>1 DEF ReplayedGone, Replaying, InCallback
    <3>1. Replaying
      BY <2>1 DEF Replaying, InCallback
    <3>2. Key(cur) \in seen
      BY <2>1, <3>1 DEF ReplayInv, ReplayedGone, RoutesReplayed, InCallback
    <3>3. q' = q /\ seen' = seen
      BY <2>1, <3>2
    <3> QED BY <2>1, <3>1, <3>3 DEF ReplayInv, ReplayedGone
  <2> QED BY <2>2, <2>3 DEF ReplayInv
<1>4. CASE SendOk \/ SendNot \/ RotateIfNeeded \/ RotateNotNeeded
  BY <1>4, ReplayControl
  DEF SendOk, SendNot, RotateIfNeeded, RotateNotNeeded, Rotating, rotateFile, outboxVars,
      InCallback, Replaying
<1>5. ASSUME NEW k \in 0..3, Persist(k) PROVE ReplayInv'
  <2>1. UNCHANGED <<q, seen, cur, replayed, ret>> /\ pc = "append" /\ pc' = ret
    BY <1>5 DEF Persist, appendToFile
  <2>2. ret \in {"idle", "replay", "hits"}
    BY DEF TypeInv, TypeOK
  <2> QED BY <2>1, <2>2, ReplayControl DEF Replaying, InCallback
<1>6. CASE ReplayDone \/ Launch \/ HitsDone
  BY <1>6, ReplayControl DEF ReplayDone, Launch, HitsDone, outboxVars, Replaying, InCallback
<1>7. ASSUME NEW s \in Sources, NEW w \in WorkIds, DrainAdapter(s, w) PROVE ReplayInv'
  BY <1>7, ReplayControl DEF DrainAdapter, outboxVars, Replaying, InCallback
<1>8. ASSUME NEW h \in hits, StaleHit(h) \/ BlockHit(h) \/ VerifyFails(h) PROVE ReplayInv'
  BY <1>8, ReplayControl
  DEF StaleHit, BlockHit, VerifyFails, outboxVars, Replaying, InCallback
<1>9. ASSUME NEW h \in hits, verifyAndSubmit(h) PROVE ReplayInv'
  <2>1. pc' = "enqueue" /\ ret' = "hits" /\ UNCHANGED <<replayed, q, seen>>
    BY <1>9 DEF verifyAndSubmit, outboxVars
  <2>2. NothingYet' /\ RoutesReplayed' /\ ReplayedGone' /\ ReplayOnce'
    BY <2>1 DEF ReplayInv, NothingYet, RoutesReplayed, ReplayedGone, Replaying, ReplayOnce
  <2> QED BY <2>2 DEF ReplayInv
<1>10. CASE Tick \/ UNCHANGED vars
  BY <1>10, ReplayControl DEF Tick, vars, outboxVars, Replaying, InCallback
<1>11. CASE Crash
  BY <1>11, ReplayNothing DEF Crash, InCallback
<1> QED
  BY <1>1, <1>2, <1>3, <1>4, <1>5, <1>6, <1>7, <1>8, <1>9, <1>10, <1>11 DEF Next

(* The startup replay routes each pending record once, although it puts     *)
(* every record back while it drains the queue.                             *)
THEOREM PipelineReplayOnce == Spec => []ReplayOnce
<1>1. Init => ReplayInv
  BY DEF Init, ReplayInv, NothingYet, RoutesReplayed, InCallback, ReplayedGone, ReplayOnce
<1>2. ReplayInv => ReplayOnce
  BY DEF ReplayInv
<1> QED BY <1>1, <1>2, ReplayStep, PipelineTypes, PTL DEF Spec

-----------------------------------------------------------------------------
(* The order of the replay.  Until a rotation, the file only grows at its   *)
(* end while records are replayed, so the frames that were loaded stay      *)
(* where they are; and what waits in the queue waits in the order of the    *)
(* file, with nothing missing between what was replayed and what waits.     *)

(* Frame j of f was replayed, or waits before position i of the queue. *)
Ahead(f, j, i) ==
  \/ \E m \in DOMAIN replayed : replayed[m] = Decode(f, j)
  \/ \E m \in 1..(i - 1) : q[m] = Decode(f, j)

WaitsInOrder ==
  Replaying /\ lastRot = 0 =>
    \A i \in DOMAIN q : \E k \in 1..Frames(file) :
      /\ q[i] = Decode(file, k) /\ FirstOfKey(file, k)
      /\ \A j \in 1..(k - 1) : FirstOfKey(file, j) => Ahead(file, j, i)

(* A process that has not started has nothing queued; a load has a place.   *)
LoadWithin ==
  /\ pc = "down" => q = <<>>
  /\ op = "load" => idx <= Frames(file) + 1

OldestInv == WaitsInOrder /\ LoadWithin /\ ReplayOldestFirst

(* What is appended to a file leaves its frames as they were. *)
LEMMA FramesStay ==
  ASSUME NEW f \in Seq(Cell), NEW g \in Seq(Cell)
  PROVE  /\ Frames(f) \in Nat /\ Frames(f \o g) \in Nat /\ Frames(f) <= Frames(f \o g)
         /\ \A k \in 1..Frames(f) : /\ Decode(f \o g, k) = Decode(f, k)
                                    /\ FirstOfKey(f \o g, k) <=> FirstOfKey(f, k)
<1>1. Len(f) \in Nat /\ Len(g) \in Nat /\ Len(f \o g) = Len(f) + Len(g)
  OBVIOUS
<1>2. Frames(f) \in Nat /\ Frames(f \o g) \in Nat /\ Frames(f) <= Frames(f \o g)
  BY <1>1 DEF Frames
<1>3. ASSUME NEW k \in 1..Frames(f) PROVE Decode(f \o g, k) = Decode(f, k)
  <2>1. ASSUME NEW p \in Parts PROVE (f \o g)[3 * (k - 1) + p] = f[3 * (k - 1) + p]
    <3>1. 3 * (k - 1) + p \in 1..Len(f)
      BY <1>1 DEF Frames, Parts
    <3> QED BY <3>1
  <2>2. \A r : Framed(f \o g, k, r) <=> Framed(f, k, r)
    BY <2>1 DEF Framed
  <2> QED BY <2>2 DEF Decode
<1>4. ASSUME NEW k \in 1..Frames(f) PROVE FirstOfKey(f \o g, k) <=> FirstOfKey(f, k)
  <2>1. \A j \in 1..(k - 1) : j \in 1..Frames(f)
    BY <1>2
  <2> QED BY <1>3, <2>1 DEF FirstOfKey
<1> QED BY <1>2, <1>3, <1>4

(* A step that leaves queue, file, replayed records and rotation time       *)
(* alone, and does not enter the replay or leave the process.               *)
LEMMA OldestControl ==
  ASSUME OldestInv, UNCHANGED <<q, file, op, idx, replayed, lastRot>>,
         Replaying' => Replaying, pc' = "down" => pc = "down"
  PROVE  OldestInv'
<1>1. WaitsInOrder'
  <2>1. \A j, i : Ahead(file, j, i)' <=> Ahead(file, j, i)
    BY DEF Ahead
  <2> QED BY <2>1 DEF OldestInv, WaitsInOrder
<1>2. LoadWithin'
  BY DEF OldestInv, LoadWithin
<1>3. ReplayOldestFirst'
  BY DEF OldestInv, ReplayOldestFirst
<1> QED BY <1>1, <1>2, <1>3 DEF OldestInv

(* Nothing replayed, no replay running. *)
LEMMA OldestNothing ==
  ASSUME LoadWithin', replayed' = <<>>, ~Replaying'
  PROVE  OldestInv'
BY DEF OldestInv, WaitsInOrder, ReplayOldestFirst

(* A rotation: its time is not 0. *)
LEMMA OldestRotated ==
  ASSUME TypeInv, Rotating, pc' # "down"
  PROVE  OldestInv'
<1>1. lastRot' # 0
  BY PipelineAssumption DEF Rotating, TypeInv, TypeOK
<1>2. op' = "none"
  BY DEF Rotating, rotateFile
<1> QED BY <1>1, <1>2 DEF OldestInv, WaitsInOrder, ReplayOldestFirst, LoadWithin

(* The load is over: the queue is the first records of the file, in order. *)
LEMMA OldestLoaded ==
  ASSUME TypeInv, ReplayInv, OldestInv, Loaded
  PROVE  OldestInv'
<1>1. /\ op = "load" /\ idx > Frames(file) /\ UNCHANGED <<q, file, replayed>> /\ op' = "none"
      /\ pc = "load" /\ pc' = "replay"
  BY DEF Loaded, LoadEnd
<1>2. replayed' = <<>>
  BY <1>1 DEF ReplayInv, NothingYet
<1>3. /\ file \in Seq(Cell) /\ idx \in Nat /\ q \in Seq(Records)
  BY DEF TypeInv, OutboxInv, OutboxTypeOK
<1>4. Frames(file) \in Nat /\ idx - 1 = Frames(file)
  <2>1. Len(file) \in Nat
    BY <1>3
  <2>2. Frames(file) \in Nat
    BY <2>1 DEF Frames
  <2> QED BY <1>1, <1>3, <2>2 DEF OldestInv, LoadWithin
<1> DEFINE N == Frames(file)
<1>5. /\ \A k \in 1..N : FirstOfKey(file, k) => \E i \in DOMAIN q : q[i] = Decode(file, k)
      /\ \A i \in DOMAIN q : \E k \in 1..N : q[i] = Decode(file, k) /\ FirstOfKey(file, k)
      /\ \A i, j \in DOMAIN q, k, l \in 1..N :
           /\ q[i] = Decode(file, k) /\ FirstOfKey(file, k)
           /\ q[j] = Decode(file, l) /\ FirstOfKey(file, l)
           /\ k < l
           => i < j
  BY <1>1, <1>4 DEF TypeInv, OutboxInv, LoadComplete
<1> HIDE DEF N
<1>6. ASSUME NEW i \in DOMAIN q
      PROVE  \E k \in 1..N : /\ q[i] = Decode(file, k) /\ FirstOfKey(file, k)
                             /\ \A j \in 1..(k - 1) : FirstOfKey(file, j) =>
                                  \E m \in 1..(i - 1) : q[m] = Decode(file, j)
  <2>1. PICK k \in 1..N : q[i] = Decode(file, k) /\ FirstOfKey(file, k)
    BY <1>5
  <2>2. ASSUME NEW j \in 1..(k - 1), FirstOfKey(file, j)
        PROVE  \E m \in 1..(i - 1) : q[m] = Decode(file, j)
    <3>1. j \in 1..N /\ j < k
      BY <1>4 DEF N
    <3>2. PICK m \in DOMAIN q : q[m] = Decode(file, j)
      BY <1>5, <2>2, <3>1
    <3>3. m < i
      BY <1>5, <2>1, <2>2, <3>1, <3>2
    <3>4. m \in 1..(i - 1)
      BY <1>3, <3>3
    <3> QED BY <3>2, <3>4
  <2> QED BY <2>1, <2>2
<1>7. WaitsInOrder'
  BY <1>1, <1>6 DEF WaitsInOrder, Ahead, N
<1>8. ReplayOldestFirst'
  BY <1>2 DEF ReplayOldestFirst
<1>9. LoadWithin'
  BY <1>1 DEF LoadWithin
<1> QED BY <1>7, <1>8, <1>9 DEF OldestInv

(* The next record: everything before it in the file was replayed. *)
LEMMA OldestDequeue ==
  ASSUME TypeInv, OldestInv, ReplayDequeue
  PROVE  OldestInv'
<1> DEFINE n == Len(replayed)
<1>0. q \in Seq(Records) /\ replayed \in Seq(Records)
  BY DEF TypeInv, TypeOK, OutboxInv, OutboxTypeOK
<1>1. /\ pc = "replay" /\ pc' = "enqueue" /\ q # <<>> /\ q' = Tail(q) /\ UNCHANGED <<file, op, lastRot>>
      /\ op = "none" /\ replayed' = Append(replayed, Head(q))
  BY DEF ReplayDequeue, tryDequeue, timeVars
<1>2. /\ n \in Nat /\ DOMAIN replayed = 1..n /\ DOMAIN replayed' = 1..(n + 1)
      /\ replayed'[n + 1] = q[1] /\ \A i \in 1..n : replayed'[i] = replayed[i]
  BY <1>0, <1>1
<1>3. /\ 1 \in DOMAIN q /\ DOMAIN q = 1..Len(q) /\ Len(q) \in Nat
      /\ \A i \in DOMAIN q' : i \in Nat /\ i + 1 \in DOMAIN q /\ q'[i] = q[i + 1]
  BY <1>0, <1>1
<1> HIDE DEF n
<1>4. LoadWithin'
  BY <1>1 DEF LoadWithin
<1>5. CASE lastRot # 0
  BY <1>1, <1>4, <1>5 DEF OldestInv, WaitsInOrder, ReplayOldestFirst
<1>6. CASE lastRot = 0
  <2>1. \A i \in DOMAIN q : \E k \in 1..Frames(file) :
          /\ q[i] = Decode(file, k) /\ FirstOfKey(file, k)
          /\ \A j \in 1..(k - 1) : FirstOfKey(file, j) => Ahead(file, j, i)
    BY <1>1, <1>6 DEF OldestInv, WaitsInOrder, Replaying
  <2>2. \A i \in 1..n : \E k \in 1..Frames(file) :
          /\ replayed[i] = Decode(file, k) /\ FirstOfKey(file, k)
          /\ \A j \in 1..(k - 1) :
               FirstOfKey(file, j) => \E m \in 1..(i - 1) : replayed[m] = Decode(file, j)
    BY <1>2, <1>6 DEF OldestInv, ReplayOldestFirst
  <2>3. ASSUME NEW i \in 1..(n + 1)
        PROVE  \E k \in 1..Frames(file) :
                 /\ replayed'[i] = Decode(file, k) /\ FirstOfKey(file, k)
                 /\ \A j \in 1..(k - 1) :
                      FirstOfKey(file, j) => \E m \in 1..(i - 1) : replayed'[m] = Decode(file, j)
    <3>1. CASE i = n + 1
      <4>1. PICK k \in 1..Frames(file) :
              /\ q[1] = Decode(file, k) /\ FirstOfKey(file, k)
              /\ \A j \in 1..(k - 1) : FirstOfKey(file, j) => Ahead(file, j, 1)
        BY <1>3, <2>1
      <4>2. ASSUME NEW j \in 1..(k - 1), FirstOfKey(file, j)
            PROVE  \E m \in 1..(i - 1) : replayed'[m] = Decode(file, j)
        <5>1. \E m \in 1..n : replayed[m] = Decode(file, j)
          BY <1>2, <4>1, <4>2 DEF Ahead
        <5>2. i - 1 = n
          BY <1>2, <3>1
        <5> QED BY <1>2, <5>1, <5>2
      <4> QED BY <1>2, <3>1, <4>1, <4>2
    <3>2. CASE i \in 1..n
      <4>1. \A m \in 1..(i - 1) : m \in 1..n
        BY <1>2, <3>2
      <4>2. PICK k \in 1..Frames(file) :
              /\ replayed[i] = Decode(file, k) /\ FirstOfKey(file, k)
              /\ \A j \in 1..(k - 1) :
                   FirstOfKey(file, j) => \E m \in 1..(i - 1) : replayed[m] = Decode(file, j)
        BY <2>2, <3>2
      <4>3. replayed'[i] = replayed[i] /\ \A m \in 1..(i - 1) : replayed'[m] = replayed[m]
        BY <1>2, <3>2, <4>1
      <4>4. \A j \in 1..(k - 1) :
              FirstOfKey(file, j) => \E m \in 1..(i - 1) : replayed'[m] = Decode(file, j)
        BY <4>2, <4>3
      <4> QED BY <4>2, <4>3, <4>4
    <3> QED BY <1>2, <3>1, <3>2
  <2>4. ReplayOldestFirst'
    <3>1. file' = file /\ DOMAIN replayed' = 1..(n + 1)
      BY <1>1, <1>2
    <3>2. \A k : (Decode(file', k) = Decode(file, k)) /\ (FirstOfKey(file', k) <=> FirstOfKey(file, k))
      BY <3>1
    <3>3. Frames(file') = Frames(file)
      BY <3>1
    <3> QED BY <2>3, <3>1, <3>2, <3>3 DEF ReplayOldestFirst
  <2>5. ASSUME NEW i \in DOMAIN q'
        PROVE  \E k \in 1..Frames(file) :
                 /\ q'[i] = Decode(file, k) /\ FirstOfKey(file, k)
                 /\ \A j \in 1..(k - 1) : FirstOfKey(file, j) =>
                      \/ \E m \in DOMAIN replayed' : replayed'[m] = Decode(file, j)
                      \/ \E m \in 1..(i - 1) : q'[m] = Decode(file, j)
    <3>1. PICK k \in 1..Frames(file) :
            /\ q[i + 1] = Decode(file, k) /\ FirstOfKey(file, k)
            /\ \A j \in 1..(k - 1) : FirstOfKey(file, j) => Ahead(file, j, i + 1)
      BY <1>3, <2>1
    <3>2. ASSUME NEW j \in 1..(k - 1), FirstOfKey(file, j)
          PROVE  \/ \E m \in DOMAIN replayed' : replayed'[m] = Decode(file, j)
                 \/ \E m \in 1..(i - 1) : q'[m] = Decode(file, j)
      <4>1. CASE \E m \in DOMAIN replayed : replayed[m] = Decode(file, j)
        BY <1>2, <4>1
      <4>2. ASSUME NEW m \in 1..i, q[m] = Decode(file, j)
            PROVE  \/ \E x \in DOMAIN replayed' : replayed'[x] = Decode(file, j)
                   \/ \E x \in 1..(i - 1) : q'[x] = Decode(file, j)
        <5>1. CASE m = 1
          BY <1>2, <4>2, <5>1
        <5>2. CASE m # 1
          <6>1. m - 1 \in 1..(i - 1) /\ m - 1 \in DOMAIN q' /\ (m - 1) + 1 = m
            BY <1>0, <1>1, <1>3, <5>2
          <6>2. q'[m - 1] = q[m]
            BY <1>3, <6>1
          <6> QED BY <4>2, <6>1, <6>2
        <5> QED BY <5>1, <5>2
      <4>3. (i + 1) - 1 = i
        BY <1>3
      <4> QED BY <3>1, <3>2, <4>1, <4>2, <4>3 DEF Ahead
    <3> QED BY <1>3, <3>1, <3>2
  <2>6. WaitsInOrder'
    BY <1>1, <2>5 DEF WaitsInOrder, Ahead
  <2> QED BY <1>4, <2>4, <2>6 DEF OldestInv
<1> QED BY <1>5, <1>6

(* Appending what was routed leaves the frames that were loaded. *)
LEMMA OldestPersist ==
  ASSUME TypeInv, OldestInv, NEW c \in 0..3, Persist(c)
  PROVE  OldestInv'
<1> DEFINE g == SubSeq(Cells(cur), 1, c)
<1>1. /\ file' = file \o g /\ UNCHANGED <<q, op, replayed, lastRot, ret>> /\ op = "none"
      /\ pc = "append" /\ pc' = ret
  BY DEF Persist, appendToFile, timeVars
<1>2. file \in Seq(Cell) /\ g \in Seq(Cell) /\ ret \in {"idle", "replay", "hits"}
  BY CellsType DEF TypeInv, TypeOK, OutboxInv, OutboxTypeOK
<1> HIDE DEF g
<1>3. /\ Frames(file) \in Nat /\ Frames(file') \in Nat /\ Frames(file) <= Frames(file')
      /\ \A k \in 1..Frames(file) : /\ Decode(file', k) = Decode(file, k)
                                    /\ FirstOfKey(file', k) <=> FirstOfKey(file, k)
  BY <1>1, <1>2, FramesStay
<1>4. \A k \in 1..Frames(file) : k \in 1..Frames(file') /\ \A j \in 1..(k - 1) : j \in 1..Frames(file)
  BY <1>3
<1>5. LoadWithin'
  BY <1>1, <1>2 DEF LoadWithin
<1>6. ReplayOldestFirst'
  BY <1>1, <1>3, <1>4 DEF OldestInv, ReplayOldestFirst
<1>7. WaitsInOrder'
  <2>1. Replaying' => Replaying
    BY <1>1, <1>2 DEF Replaying, InCallback
  <2>2. ASSUME NEW j \in 1..Frames(file), NEW i PROVE Ahead(file, j, i) => Ahead(file, j, i)'
    BY <1>1, <1>3 DEF Ahead
  <2> SUFFICES ASSUME Replaying', lastRot' = 0, NEW i \in DOMAIN q'
               PROVE  \E k \in 1..Frames(file') :
                        /\ q'[i] = Decode(file', k) /\ FirstOfKey(file', k)
                        /\ \A j \in 1..(k - 1) : FirstOfKey(file', j) => Ahead(file, j, i)'
    BY DEF WaitsInOrder
  <2>3. PICK k \in 1..Frames(file) :
          /\ q[i] = Decode(file, k) /\ FirstOfKey(file, k)
          /\ \A j \in 1..(k - 1) : FirstOfKey(file, j) => Ahead(file, j, i)
    BY <1>1, <2>1 DEF OldestInv, WaitsInOrder
  <2> HIDE DEF Ahead
  <2>4. \A j \in 1..(k - 1) : FirstOfKey(file', j) => Ahead(file, j, i)'
    BY <1>3, <1>4, <2>2, <2>3
  <2> QED BY <1>1, <1>3, <1>4, <2>3, <2>4
<1> QED BY <1>5, <1>6, <1>7 DEF OldestInv

(* Every step keeps it. *)
LEMMA OldestStep == TypeInv /\ ReplayInv /\ OldestInv /\ [Next]_vars => OldestInv'
<1> SUFFICES ASSUME TypeInv, ReplayInv, OldestInv, [Next]_vars PROVE OldestInv'
  OBVIOUS
<1>1. CASE StartRotated \/ RotateIfNeeded
  BY <1>1, OldestRotated DEF StartRotated, RotateIfNeeded
<1>2. CASE StartNoFile
  <2>1. /\ pc = "down" /\ pc' = "replay" /\ UNCHANGED <<q, file, op, idx, replayed>>
    BY <1>2 DEF StartNoFile, outboxVars
  <2>2. q' = <<>> /\ replayed' = <<>>
    BY <2>1 DEF OldestInv, LoadWithin, ReplayInv, NothingYet
  <2> QED BY <2>1, <2>2 DEF OldestInv, LoadWithin, WaitsInOrder, ReplayOldestFirst
<1>3. CASE StartLoad \/ Load
  <2>1. /\ pc \in {"down", "load"} /\ pc' = "load" /\ UNCHANGED <<file, replayed>>
        /\ idx' = 1 \/ (idx' = idx + 1 /\ idx <= Frames(file))
    BY <1>3 DEF StartLoad, LoadBegin, Load, LoadRecord
  <2>2. replayed' = <<>> /\ ~Replaying'
    BY <2>1 DEF ReplayInv, NothingYet, Replaying, InCallback
  <2>3. Len(file) \in Nat /\ idx \in Nat
    BY DEF TypeInv, OutboxInv, OutboxTypeOK
  <2>4. Frames(file) \in Nat
    BY <2>3 DEF Frames
  <2>5. idx' <= Frames(file) + 1 /\ Frames(file') = Frames(file)
    BY <2>1, <2>3, <2>4
  <2>6. LoadWithin'
    BY <2>1, <2>5 DEF LoadWithin
  <2> QED BY <2>2, <2>6, OldestNothing
<1>4. CASE Loaded
  BY <1>4, OldestLoaded
<1>5. CASE ReplayDequeue
  BY <1>5, OldestDequeue
<1>6. CASE ReplayDone \/ Launch \/ HitsDone \/ SendOk \/ SendNot \/ RotateNotNeeded \/ Tick
  BY <1>6, OldestControl
  DEF ReplayDone, Launch, HitsDone, SendOk, SendNot, RotateNotNeeded, Tick, outboxVars, timeVars,
      Replaying, InCallback
<1>7. ASSUME NEW s \in Sources, NEW w \in WorkIds, DrainAdapter(s, w) PROVE OldestInv'
  BY <1>7, OldestControl DEF DrainAdapter, outboxVars, timeVars, Replaying, InCallback
<1>8. ASSUME NEW h \in hits, StaleHit(h) \/ BlockHit(h) \/ VerifyFails(h) \/ verifyAndSubmit(h)
      PROVE  OldestInv'
  <2>1. UNCHANGED <<q, file, op, idx, replayed, lastRot>> /\ pc' # "down" /\ ~Replaying'
    BY <1>8 DEF StaleHit, BlockHit, VerifyFails, verifyAndSubmit, TakeHit, outboxVars, timeVars,
                Replaying, InCallback
  <2> QED BY <2>1, OldestControl
<1>9. CASE RouteEnqueue
  <2>1. /\ pc = "enqueue" /\ pc' = "send" /\ UNCHANGED <<ret, replayed, file, lastRot>>
        /\ q' = (IF Key(cur) \in seen THEN q ELSE Append(q, cur)) /\ UNCHANGED <<op, idx>>
    BY <1>9 DEF RouteEnqueue, enqueue, timeVars
  <2>2. CASE ret = "replay"
    <3>1. Replaying /\ InCallback
      BY <2>1, <2>2 DEF Replaying, InCallback
    <3>2. Key(cur) \in seen
      BY <2>2, <3>1 DEF ReplayInv, ReplayedGone, RoutesReplayed
    <3> QED BY <2>1, <3>1, <3>2, OldestControl
  <2>3. CASE ret # "replay"
    <3>1. ~Replaying'
      BY <2>1, <2>3 DEF Replaying
    <3>2. LoadWithin'
      BY <2>1 DEF OldestInv, LoadWithin
    <3>3. ReplayOldestFirst'
      BY <2>1 DEF OldestInv, ReplayOldestFirst
    <3> QED BY <3>1, <3>2, <3>3 DEF OldestInv, WaitsInOrder
  <2> QED BY <2>2, <2>3
<1>10. ASSUME NEW c \in 0..3, Persist(c) PROVE OldestInv'
  BY <1>10, OldestPersist
<1>11. CASE Crash
  <2>1. replayed' = <<>> /\ q' = <<>> /\ op' = "none" /\ pc' = "down"
    BY <1>11 DEF Crash, Die
  <2>2. LoadWithin' /\ ~Replaying'
    BY <2>1 DEF LoadWithin, Replaying, InCallback
  <2> QED BY <2>1, <2>2, OldestNothing
<1>12. CASE UNCHANGED vars
  BY <1>12, OldestControl DEF vars, outboxVars, timeVars, Replaying, InCallback
<1> QED
  BY <1>1, <1>2, <1>3, <1>4, <1>5, <1>6, <1>7, <1>8, <1>9, <1>10, <1>11, <1>12 DEF Next

(* The startup replay takes the oldest pending record first and passes none *)
(* over, whatever crashes and cut writes made of the file, although it      *)
(* appends every record it routes to the same file.                         *)
THEOREM PipelineReplayOldestFirst == Spec => []ReplayOldestFirst
<1>1. Init => OldestInv
  BY DEF Init, OutboxInit, OldestInv, WaitsInOrder, LoadWithin, ReplayOldestFirst, Replaying,
         InCallback
<1>2. Init => ReplayInv
  BY DEF Init, ReplayInv, NothingYet, RoutesReplayed, InCallback, ReplayedGone, ReplayOnce
<1>3. OldestInv => ReplayOldestFirst
  BY DEF OldestInv
<1> QED BY <1>1, <1>2, <1>3, ReplayStep, OldestStep, PipelineTypes, PTL DEF Spec

-----------------------------------------------------------------------------
(* Routing.  The table and the headers agree because both come from the     *)
(* source that announced the work id; a record keeps that source through    *)
(* the queue and through the file, from which a restart reads it back.      *)

(* No two pools announce the same work id.  Nothing in the code sees to it: *)
(* it is what the property needs of the pools.                              *)
DisjointWorkIds == \A s, t \in Sources : JobsOf[s] \cap JobsOf[t] # {} => s = t

(* A record that decodes was built from a job of the source it names. *)
Genuine(r) == r # Junk => r.hdr \in Sources /\ r.wid \in JobsOf[r.hdr]

SlotsGenuine == \A s \in Sources : slot[s] # None => slot[s] \in JobsOf[s]

TableGenuine == \A w \in WorkIds : wmap[w] # None => wmap[w] \in Sources /\ w \in JobsOf[wmap[w]]

FileGenuine == \A i \in DOMAIN file : Genuine(file[i][1])

QueueGenuine == \A i \in DOMAIN q : Genuine(q[i])

RouteInv ==
  /\ SlotsGenuine /\ TableGenuine /\ FileGenuine /\ QueueGenuine
  /\ Genuine(cur) /\ RoutedToOrigin

(* What loadFromFile decodes from genuine cells is genuine. *)
LEMMA DecodeGenuine ==
  ASSUME TypeInv, FileGenuine, op = "load", idx <= Frames(file)
  PROVE  Genuine(Decode(file, idx))
<1>1. CASE \E r \in Hit : Framed(file, idx, r)
  <2> DEFINE r == Decode(file, idx)
  <2>1. r \in Hit /\ Framed(file, idx, r)
    BY <1>1 DEF Decode
  <2> HIDE DEF r
  <2>2. file \in Seq(Cell) /\ idx \in Nat /\ idx >= 1
    BY DEF TypeInv, OutboxInv, OutboxTypeOK, LoopStarted
  <2>3. Len(file) \in Nat /\ DOMAIN file = 1..Len(file)
    BY <2>2
  <2>4. 3 * (idx - 1) + 1 \in DOMAIN file
    BY <2>2, <2>3 DEF Frames
  <2>5. file[3 * (idx - 1) + 1] = <<r, 1>>
    BY <2>1 DEF Framed, Parts
  <2>6. file[3 * (idx - 1) + 1][1] = r
    BY <2>5
  <2> QED BY <2>4, <2>6 DEF FileGenuine, r
<1>2. CASE ~ \E r \in Hit : Framed(file, idx, r)
  BY <1>2 DEF Decode, Genuine
<1> QED BY <1>1, <1>2

(* Queueing a genuine record keeps the queue genuine. *)
LEMMA PushGenuine ==
  ASSUME TypeInv, QueueGenuine, NEW r \in Records, Genuine(r), q' = q \/ q' = Append(q, r)
  PROVE  QueueGenuine'
<1>1. q \in Seq(Records)
  BY DEF TypeInv, OutboxInv, OutboxTypeOK
<1>2. \A i \in DOMAIN q' : (i \in DOMAIN q /\ q'[i] = q[i]) \/ q'[i] = r
  BY <1>1
<1> QED BY <1>2 DEF QueueGenuine

(* The first n cells of a record all name it. *)
LEMMA CellsName ==
  ASSUME NEW r, NEW n \in 0..3, NEW i \in 1..n
  PROVE  SubSeq(Cells(r), 1, n)[i][1] = r
<1>1. Len(Cells(r)) = 3 /\ i \in 1..3 /\ \A p \in 1..3 : Cells(r)[p] = <<r, p>>
  BY DEF Cells
<1>2. Cells(r) \in Seq({r} \X (1..3))
  BY DEF Cells
<1>3. SubSeq(Cells(r), 1, n)[i] = Cells(r)[i]
  BY <1>1, <1>2
<1> QED BY <1>1, <1>3

(* Appending a genuine record, whole or cut short, keeps the file genuine. *)
LEMMA AppendGenuine ==
  ASSUME TypeInv, FileGenuine, NEW n \in 0..3, Genuine(cur), appendToFile(cur, n)
  PROVE  FileGenuine'
<1> DEFINE c == SubSeq(Cells(cur), 1, n)
<1>1. file \in Seq(Cell) /\ cur \in Records
  BY DEF TypeInv, TypeOK, OutboxInv, OutboxTypeOK
<1>2. c \in Seq(Cell)
  BY <1>1, CellsType
<1>3. Len(c) = n
  <2>1. Len(Cells(cur)) = 3 /\ Cells(cur) \in Seq(Cell)
    BY <1>1 DEF Cells, Cell, Parts
  <2> QED BY <2>1
<1>4. \A i \in 1..n : c[i][1] = cur
  BY CellsName
<1>5. file' = file \o c
  BY DEF appendToFile
<1> HIDE DEF c
<1>6. Len(file) \in Nat /\ DOMAIN file = 1..Len(file) /\ DOMAIN file' = 1..(Len(file) + n)
  BY <1>1, <1>2, <1>3, <1>5
<1>7. ASSUME NEW i \in DOMAIN file' PROVE Genuine(file'[i][1])
  <2>1. CASE i \in DOMAIN file
    <3>1. file'[i] = file[i]
      BY <1>1, <1>2, <1>5, <1>6, <2>1
    <3> QED BY <2>1, <3>1 DEF FileGenuine
  <2>2. CASE i \notin DOMAIN file
    <3>1. i - Len(file) \in 1..n /\ file'[i] = c[i - Len(file)]
      BY <1>1, <1>2, <1>3, <1>5, <1>6, <2>2
    <3> QED BY <1>4, <3>1
  <2> QED BY <2>1, <2>2
<1> QED BY <1>7 DEF FileGenuine

(* A step that leaves slots, table, file, queue, record and sends alone. *)
LEMMA RouteControl ==
  ASSUME RouteInv, UNCHANGED <<slot, wmap, file, q, cur, everSent>>
  PROVE  RouteInv'
BY DEF RouteInv, SlotsGenuine, TableGenuine, FileGenuine, QueueGenuine, Genuine, RoutedToOrigin

(* The initial state. *)
LEMMA RouteInit == Init => RouteInv
BY DEF Init, OutboxInit, RouteInv, SlotsGenuine, TableGenuine, FileGenuine, QueueGenuine,
       Genuine, RoutedToOrigin

(* Every step keeps it. *)
LEMMA RouteStep ==
  ASSUME DisjointWorkIds
  PROVE  TypeInv /\ RouteInv /\ [Next]_vars => RouteInv'
<1> SUFFICES ASSUME TypeInv, RouteInv, [Next]_vars PROVE RouteInv'
  OBVIOUS
<1> USE DEF RouteInv
<1>0. cur \in Records /\ q \in Seq(Records)
  BY DEF TypeInv, TypeOK, OutboxInv, OutboxTypeOK
<1>1. CASE \/ StartNoFile \/ Loaded \/ ReplayDone \/ Launch \/ HitsDone \/ SendNot
           \/ RotateNotNeeded \/ Tick \/ UNCHANGED vars
  BY <1>1, RouteControl
  DEF StartNoFile, Loaded, LoadEnd, ReplayDone, Launch, HitsDone, SendNot, RotateNotNeeded, Tick,
      vars, outboxVars, loopVars, hist
<1>2. ASSUME NEW h \in hits, StaleHit(h) \/ BlockHit(h) \/ VerifyFails(h) PROVE RouteInv'
  BY <1>2, RouteControl DEF StaleHit, BlockHit, VerifyFails, outboxVars, hist
<1>3. CASE StartRotated \/ RotateIfNeeded
  <2>1. file' = <<>> /\ UNCHANGED <<slot, wmap, q, cur, everSent>>
    BY <1>3 DEF StartRotated, RotateIfNeeded, Rotating, rotateFile, RotateRename, RotateCopy,
                RotateTruncate, loopVars, hist
  <2>2. FileGenuine'
    BY <2>1 DEF FileGenuine
  <2> QED BY <2>1, <2>2 DEF SlotsGenuine, TableGenuine, QueueGenuine, Genuine, RoutedToOrigin
<1>4. CASE StartLoad
  <2>1. q' = <<>> /\ UNCHANGED <<slot, wmap, file, cur, everSent>>
    BY <1>4 DEF StartLoad, LoadBegin, loopVars, hist
  <2>2. QueueGenuine'
    BY <2>1 DEF QueueGenuine
  <2> QED BY <2>1, <2>2 DEF SlotsGenuine, TableGenuine, FileGenuine, Genuine, RoutedToOrigin
<1>5. CASE Load
  <2> DEFINE r == Decode(file, idx)
  <2>1. /\ UNCHANGED <<slot, wmap, file, cur, everSent>> /\ (q' = q \/ q' = Append(q, r))
        /\ op = "load" /\ idx <= Frames(file)
    BY <1>5 DEF Load, LoadRecord, loopVars, hist
  <2>2. r \in Records /\ Genuine(r)
    BY <2>1, DecodeType, DecodeGenuine
  <2> HIDE DEF r
  <2>3. QueueGenuine'
    BY <2>1, <2>2, PushGenuine
  <2> QED BY <2>1, <2>3 DEF SlotsGenuine, TableGenuine, FileGenuine, Genuine, RoutedToOrigin
<1>6. CASE ReplayDequeue
  <2>1. q # <<>> /\ q' = Tail(q) /\ cur' = Head(q) /\ UNCHANGED <<slot, wmap, file, everSent>>
    BY <1>6 DEF ReplayDequeue, tryDequeue, loopVars, hist
  <2>2. /\ 1 \in DOMAIN q /\ Head(q) = q[1]
        /\ \A i \in DOMAIN q' : i + 1 \in DOMAIN q /\ q'[i] = q[i + 1]
    BY <1>0, <2>1
  <2>3. QueueGenuine' /\ Genuine(cur')
    BY <2>1, <2>2 DEF QueueGenuine
  <2> QED BY <2>1, <2>3 DEF SlotsGenuine, TableGenuine, FileGenuine, Genuine, RoutedToOrigin
<1>7. ASSUME NEW s \in Sources, NEW w \in WorkIds, DrainAdapter(s, w) PROVE RouteInv'
  <2>1. w \in JobsOf[s] /\ slot' = [slot EXCEPT ![s] = w] /\ wmap' = [wmap EXCEPT ![w] = s]
        /\ UNCHANGED <<file, q, cur, everSent>>
    BY <1>7 DEF DrainAdapter, set, outboxVars, hist
  <2>2. SlotsGenuine' /\ TableGenuine'
    BY <2>1 DEF SlotsGenuine, TableGenuine, TypeInv, TypeOK
  <2> QED BY <2>1, <2>2 DEF FileGenuine, QueueGenuine, Genuine, RoutedToOrigin
<1>8. ASSUME NEW h \in hits, verifyAndSubmit(h) PROVE RouteInv'
  <2>1. cur' = Rec(h) /\ HasSnapshot(h) /\ UNCHANGED <<slot, wmap, file, q, everSent>>
    BY <1>8 DEF verifyAndSubmit, outboxVars
  <2>2. Rec(h).wid = h.wid /\ Rec(h).hdr = SnapshotOf(h.wid) /\ h.wid \in WorkIds
    BY <2>1, RecType DEF TypeInv, HitsWin
  <2>3. SnapshotOf(h.wid) \in Sources /\ slot[SnapshotOf(h.wid)] = h.wid
    BY <2>1, SnapshotHolds DEF HasSnapshot
  <2>4. h.wid \in JobsOf[SnapshotOf(h.wid)]
    BY <2>2, <2>3, WorkIdFacts DEF SlotsGenuine, None
  <2>5. Genuine(cur')
    BY <2>1, <2>2, <2>3, <2>4 DEF Genuine
  <2> QED
    BY <2>1, <2>5
    DEF SlotsGenuine, TableGenuine, FileGenuine, QueueGenuine, Genuine, RoutedToOrigin
<1>9. CASE RouteEnqueue
  <2>1. UNCHANGED <<slot, wmap, file, cur, everSent>> /\ (q' = q \/ q' = Append(q, cur))
    BY <1>9 DEF RouteEnqueue, enqueue, loopVars, hist
  <2>2. QueueGenuine'
    BY <1>0, <2>1, PushGenuine
  <2> QED BY <2>1, <2>2 DEF SlotsGenuine, TableGenuine, FileGenuine, Genuine, RoutedToOrigin
<1>10. CASE SendOk
  <2> DEFINE d == Destination(cur)
  <2>1. d \in Sources /\ everSent' = everSent \cup {<<d, cur>>}
        /\ UNCHANGED <<slot, wmap, file, q, cur>>
    BY <1>10, PipelineAssumption DEF SendOk, outboxVars, loopVars
  <2>2. cur # Junk /\ cur.wid \in WorkIds /\ d = wmap[cur.wid] /\ d # None
    BY <2>1, PipelineAssumption DEF Destination, None
  <2>3. cur.wid \in JobsOf[d] /\ cur.hdr \in Sources /\ cur.wid \in JobsOf[cur.hdr]
    BY <2>2 DEF TableGenuine, Genuine
  <2>4. d = cur.hdr
    BY <2>1, <2>3 DEF DisjointWorkIds
  <2>5. RoutedToOrigin'
    BY <2>1, <2>4 DEF RoutedToOrigin
  <2> QED BY <2>1, <2>5 DEF SlotsGenuine, TableGenuine, FileGenuine, QueueGenuine, Genuine
<1>11. ASSUME NEW n \in 0..3, Persist(n) PROVE RouteInv'
  <2>1. appendToFile(cur, n) /\ UNCHANGED <<slot, wmap, q, cur, everSent>>
    BY <1>11 DEF Persist, appendToFile, loopVars
  <2>2. FileGenuine'
    BY <2>1, AppendGenuine
  <2> QED BY <2>1, <2>2 DEF SlotsGenuine, TableGenuine, QueueGenuine, Genuine, RoutedToOrigin
<1>12. CASE Crash
  <2>1. /\ slot' = [s \in Sources |-> None] /\ wmap' = [w \in WorkIds |-> None]
        /\ q' = <<>> /\ cur' = Junk /\ UNCHANGED <<file, everSent>>
    BY <1>12 DEF Crash, Die
  <2>2. SlotsGenuine' /\ TableGenuine' /\ QueueGenuine' /\ Genuine(cur')
    BY <2>1 DEF SlotsGenuine, TableGenuine, QueueGenuine, Genuine
  <2> QED BY <2>1, <2>2 DEF FileGenuine, Genuine, RoutedToOrigin
<1> QED
  BY <1>1, <1>2, <1>3, <1>4, <1>5, <1>6, <1>7, <1>8, <1>9, <1>10, <1>11, <1>12 DEF Next

(* A share goes to the pool whose job it was mined for, over any number of  *)
(* job changes, restarts and replays, when no two pools announce the same   *)
(* work id.                                                                 *)
THEOREM PipelineRoutedToOrigin ==
  ASSUME DisjointWorkIds
  PROVE  Spec => []RoutedToOrigin
<1>1. TypeInv /\ RouteInv /\ [Next]_vars => RouteInv'
  BY RouteStep
<1>2. RouteInv => RoutedToOrigin
  BY DEF RouteInv
<1> QED BY <1>1, <1>2, RouteInit, PipelineTypes, PTL DEF Spec

-----------------------------------------------------------------------------
(* Loss.  rotateFile truncates whatever its copy did, so a hit survives a   *)
(* rotation only if a file that cannot be renamed can be copied; and a file *)
(* that does not exist holds nothing.                                       *)

(* Renaming and copying the outbox file do not both fail. *)
CopyWorks == ~({"rename", "copy"} \subseteq Faults)

AbsentIsEmpty == ~present => file = <<>>

LossInv == AbsentIsEmpty /\ NoSilentLoss

(* An empty file holds no record. *)
LEMMA EmptyHoldsNothing ==
  ASSUME NEW r
  PROVE  ~Intact(<<>>, r)
BY DEF Intact

(* A record in a file is still there when more is appended. *)
LEMMA IntactGrows ==
  ASSUME NEW f \in Seq(Cell), NEW g \in Seq(Cell), NEW r, Intact(f, r)
  PROVE  Intact(f \o g, r)
<1>1. PICK i \in 0..Len(f) : i + 3 <= Len(f) /\ \A p \in Parts : f[i + p] = <<r, p>>
  BY DEF Intact
<1>2. Len(f) \in Nat /\ Len(g) \in Nat /\ Len(f \o g) = Len(f) + Len(g)
  OBVIOUS
<1>3. i \in 0..Len(f \o g) /\ i + 3 <= Len(f \o g)
  BY <1>1, <1>2
<1>4. ASSUME NEW p \in Parts PROVE (f \o g)[i + p] = <<r, p>>
  <2>1. i + p \in 1..Len(f)
    BY <1>1, <1>2 DEF Parts
  <2>2. (f \o g)[i + p] = f[i + p]
    BY <2>1
  <2> QED BY <1>1, <2>2
<1> QED BY <1>3, <1>4 DEF Intact

(* A whole append puts the record into the file. *)
LEMMA IntactOwn ==
  ASSUME NEW f \in Seq(Cell), NEW r \in Records
  PROVE  Intact(f \o SubSeq(Cells(r), 1, 3), r)
<1> DEFINE c == SubSeq(Cells(r), 1, 3)
<1>1. Len(c) = 3 /\ \A p \in Parts : c[p] = <<r, p>>
  BY CellsWhole
<1>2. c \in Seq(Cell)
  BY CellsType
<1> HIDE DEF c
<1>3. Len(f) \in Nat /\ Len(f \o c) = Len(f) + 3
  <2>1. Len(f) \in Nat /\ Len(f \o c) = Len(f) + Len(c)
    BY <1>2
  <2> QED BY <1>1, <2>1
<1>4. ASSUME NEW p \in Parts PROVE (f \o c)[Len(f) + p] = <<r, p>>
  <2>1. p \in 1..Len(c)
    BY <1>1 DEF Parts
  <2>2. (f \o c)[Len(f) + p] = c[p]
    BY <1>2, <2>1, ConcatRight, Zenon
  <2> QED BY <1>1, <2>2
<1>5. Len(f) \in 0..Len(f \o c) /\ Len(f) + 3 <= Len(f \o c)
  BY <1>3
<1> QED BY <1>4, <1>5 DEF Intact, c

(* A step that leaves the files, the finds and the record alone, and stays  *)
(* in the callback if it was there.                                         *)
LEMMA LossControl ==
  ASSUME LossInv, UNCHANGED <<file, present, baks, found, casualties, nameReused>>,
         InCallback => InCallback' /\ cur' = cur
  PROVE  LossInv'
BY DEF LossInv, AbsentIsEmpty, NoSilentLoss, OnDisk

(* A rotation keeps every record on disk, unless it reuses a backup name. *)
LEMMA RotationKeeps ==
  ASSUME TypeInv, LossInv, CopyWorks, Rotating
  PROVE  AbsentIsEmpty' /\ (~nameReused' => \A r : OnDisk(r) => OnDisk(r)')
<1> DEFINE e == Epoch(clock)
<1>1. e \in Epochs
  BY PipelineAssumption DEF TypeInv, TypeOK
<1>2. baks \in [Epochs -> Seq(Cell)]
  BY DEF TypeInv, OutboxInv, OutboxTypeOK
<1>3. nameReused' = (nameReused \/ baks[e] \notin {<<>>, baks'[e]})
      /\ (RotateRename(e) \/ RotateCopy(e) \/ RotateTruncate)
  BY DEF Rotating, rotateFile
<1> HIDE DEF e
<1>4. file' = <<>>
  BY <1>3 DEF RotateRename, RotateCopy, RotateTruncate
<1>5. CASE baks' = [baks EXCEPT ![e] = file]
  <2>1. ASSUME ~nameReused', NEW r, OnDisk(r) PROVE OnDisk(r)'
    <3>1. baks'[e] = file /\ \A x \in Epochs : x # e => baks'[x] = baks[x]
      BY <1>1, <1>2, <1>5
    <3>2. baks[e] = <<>> \/ baks[e] = baks'[e]
      BY <1>3, <2>1
    <3>3. CASE Intact(file, r)
      BY <1>1, <3>1, <3>3 DEF OnDisk
    <3>4. ASSUME NEW x \in Epochs, Intact(baks[x], r) PROVE Intact(baks'[x], r)
      BY <3>1, <3>2, <3>4, EmptyHoldsNothing
    <3> QED BY <2>1, <3>3, <3>4 DEF OnDisk
  <2> QED BY <1>4, <2>1 DEF AbsentIsEmpty
<1>6. CASE ~present /\ baks' = baks
  <2>1. file' = file
    BY <1>4, <1>6 DEF LossInv, AbsentIsEmpty
  <2> QED BY <1>4, <1>6, <2>1 DEF AbsentIsEmpty, OnDisk
<1> QED
  BY <1>3, <1>5, <1>6 DEF RotateRename, RotateCopy, RotateTruncate, CopyWorks

(* Every step keeps it. *)
LEMMA LossStep ==
  ASSUME CopyWorks
  PROVE  TypeInv /\ LossInv /\ [Next]_vars => LossInv'
<1> SUFFICES ASSUME TypeInv, LossInv, [Next]_vars PROVE LossInv'
  OBVIOUS
<1>0. cur \in Records /\ file \in Seq(Cell)
  BY DEF TypeInv, TypeOK, OutboxInv, OutboxTypeOK
<1>1. CASE \/ StartNoFile \/ StartLoad \/ Load \/ Loaded \/ ReplayDequeue \/ ReplayDone
           \/ Launch \/ HitsDone
  BY <1>1, LossControl
  DEF StartNoFile, StartLoad, LoadBegin, Load, LoadRecord, Loaded, LoadEnd, ReplayDequeue, tryDequeue,
      ReplayDone, Launch, HitsDone, outboxVars, hist, InCallback
<1>2. ASSUME NEW s \in Sources, NEW w \in WorkIds, DrainAdapter(s, w) PROVE LossInv'
  BY <1>2, LossControl DEF DrainAdapter, outboxVars, hist, InCallback
<1>3. ASSUME NEW h \in hits, StaleHit(h) \/ BlockHit(h) \/ VerifyFails(h) PROVE LossInv'
  BY <1>3, LossControl DEF StaleHit, BlockHit, VerifyFails, TakeHit, outboxVars, hist, InCallback
<1>4. CASE RouteEnqueue \/ SendOk \/ SendNot \/ RotateNotNeeded
  BY <1>4, LossControl
  DEF RouteEnqueue, enqueue, SendOk, SendNot, RotateNotNeeded, outboxVars, hist, InCallback
<1>5. CASE Tick \/ UNCHANGED vars
  BY <1>5, LossControl DEF Tick, vars, outboxVars, hist, InCallback
<1>6. ASSUME NEW h \in hits, verifyAndSubmit(h) PROVE LossInv'
  <2>1. /\ UNCHANGED <<file, present, baks, casualties, nameReused>> /\ pc = "hits"
        /\ found' = found \cup {cur'} /\ InCallback'
    BY <1>6 DEF verifyAndSubmit, TakeHit, outboxVars, InCallback
  <2>2. ~InCallback
    BY <2>1 DEF InCallback
  <2>3. AbsentIsEmpty'
    BY <2>1 DEF LossInv, AbsentIsEmpty
  <2>4. NoSilentLoss'
    BY <2>1, <2>2 DEF LossInv, NoSilentLoss, OnDisk
  <2> QED BY <2>3, <2>4 DEF LossInv
<1>7. CASE StartRotated \/ RotateIfNeeded
  <2>1. Rotating /\ UNCHANGED <<found, casualties, cur>> /\ (InCallback => InCallback')
    BY <1>7 DEF StartRotated, RotateIfNeeded, hist, InCallback
  <2>2. AbsentIsEmpty' /\ (~nameReused' => \A r : OnDisk(r) => OnDisk(r)')
    BY <2>1, RotationKeeps
  <2>3. ~nameReused' => ~nameReused
    BY <2>1 DEF Rotating
  <2> HIDE DEF OnDisk
  <2>4. NoSilentLoss'
    BY <2>1, <2>2, <2>3 DEF LossInv, NoSilentLoss
  <2> QED BY <2>2, <2>4 DEF LossInv
<1>8. ASSUME NEW n \in 0..3, Persist(n) PROVE LossInv'
  <2> DEFINE c == SubSeq(Cells(cur), 1, n)
  <2>1. /\ file' = file \o c /\ present' = (present \/ n > 0)
        /\ UNCHANGED <<baks, found, nameReused, cur>>
        /\ casualties' = casualties \cup {r \in {cur} : n < 3}
    BY <1>8 DEF Persist, appendToFile
  <2>2. c \in Seq(Cell)
    BY <1>0, CellsType
  <2>3. AbsentIsEmpty'
    <3> SUFFICES ASSUME ~present' PROVE file' = <<>>
      BY DEF AbsentIsEmpty
    <3>0. ~present /\ ~(n > 0)
      BY <2>1, Zenon
    <3>1. n = 0 /\ ~present
      BY <3>0
    <3>2. c = <<>>
      BY <3>1 DEF Cells
    <3> QED BY <2>1, <3>1, <3>2 DEF LossInv, AbsentIsEmpty
  <2>4. \A r : OnDisk(r) => OnDisk(r)'
    BY <1>0, <2>1, <2>2, IntactGrows DEF OnDisk
  <2>5. OnDisk(cur)' \/ cur \in casualties'
    <3>1. CASE n = 3
      BY <1>0, <2>1, <3>1, IntactOwn DEF OnDisk
    <3>2. CASE n < 3
      BY <2>1, <3>2
    <3> QED BY <3>1, <3>2
  <2> HIDE DEF OnDisk, c
  <2>6. NoSilentLoss'
    BY <2>1, <2>4, <2>5 DEF LossInv, NoSilentLoss
  <2> QED BY <2>3, <2>6 DEF LossInv
<1>9. CASE Crash
  <2>1. /\ UNCHANGED <<file, present, baks, found, nameReused>>
        /\ casualties' = casualties \cup {r \in {cur} : InCallback}
    BY <1>9 DEF Crash, Die
  <2>2. AbsentIsEmpty'
    BY <2>1 DEF LossInv, AbsentIsEmpty
  <2>3. NoSilentLoss'
    BY <2>1 DEF LossInv, NoSilentLoss, OnDisk
  <2> QED BY <2>2, <2>3 DEF LossInv
<1> QED
  BY <1>1, <1>2, <1>3, <1>4, <1>5, <1>6, <1>7, <1>8, <1>9 DEF Next

(* A verified hit is whole on disk, or being routed, or one whose own       *)
(* append was cut short or overtaken by the process's death, over any       *)
(* number of rotations and restarts and with writes cut short anywhere,     *)
(* unless a rotation reuses a backup name, and when a file that cannot be   *)
(* renamed can be copied.                                                   *)
THEOREM PipelineNoSilentLoss ==
  ASSUME CopyWorks
  PROVE  Spec => []NoSilentLoss
<1>1. Init => LossInv
  BY DEF Init, OutboxInit, LossInv, AbsentIsEmpty, NoSilentLoss
<1>2. TypeInv /\ LossInv /\ [Next]_vars => LossInv'
  BY LossStep
<1>3. LossInv => NoSilentLoss
  BY DEF LossInv
<1> QED BY <1>1, <1>2, <1>3, PipelineTypes, PTL DEF Spec
=============================================================================
