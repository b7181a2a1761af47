------------------------------ MODULE HitRing ------------------------------
(***************************************************************************)
(* cuda_engine::HitRingBuffer (src/src/cuda/hit_ring.h), the host ring of  *)
(* hits: a vector, two indices and a count, all changed under one mutex,   *)
(* so a call is one action.  LossyFifo says what the calls amount to.      *)
(***************************************************************************)
EXTENDS Naturals, Sequences

CONSTANTS HitRecords, Capacity,
          Blank       \* a default-constructed HitRecord

ASSUME RingAssumption == Capacity \in Nat \ {0} /\ Blank \notin HitRecords

VARIABLES buffer, head, tail, size,
          result      \* what the last call returned

ringVars == <<buffer, head, tail, size, result>>

RingInit ==
  /\ buffer = [i \in 0..(Capacity - 1) |-> Blank]
  /\ head = 0 /\ tail = 0 /\ size = 0
  /\ result = "none"

PushLeavesHead(h) ==
  /\ buffer' = [buffer EXCEPT ![tail] = h]
  /\ tail' = (tail + 1) % Capacity
  /\ size' = IF size = Capacity THEN size ELSE size + 1
  /\ result' = IF size = Capacity THEN "overwrote" ELSE "stored"
  /\ UNCHANGED head

PushNoWrap(h) ==
  /\ buffer' = [buffer EXCEPT ![tail] = h]
  /\ tail' = tail + 1
  /\ size' = IF size = Capacity THEN size ELSE size + 1
  /\ head' = IF size = Capacity THEN (head + 1) % Capacity ELSE head
  /\ result' = IF size = Capacity THEN "overwrote" ELSE "stored"

push(h) ==
  LET overwrote == size = Capacity
  IN  /\ buffer' = [buffer EXCEPT ![tail] = h]
      /\ tail' = (tail + 1) % Capacity
      /\ IF overwrote
         THEN head' = (head + 1) % Capacity /\ UNCHANGED size
         ELSE size' = size + 1 /\ UNCHANGED head
      /\ result' = IF overwrote THEN "overwrote" ELSE "stored"

tryPop ==
  \/ /\ size = 0
     /\ result' = "none"
     /\ UNCHANGED <<buffer, head, tail, size>>
  \/ /\ size # 0
     /\ result' = buffer[head]
     /\ head' = (head + 1) % Capacity
     /\ size' = size - 1
     /\ UNCHANGED <<buffer, tail>>

RingNext == (\E h \in HitRecords : push(h)) \/ tryPop

RingSpec == RingInit /\ [][RingNext]_ringVars

-----------------------------------------------------------------------------
(* Types: indices stay inside the vector, the count inside the capacity. *)
RingTypeOK ==
  /\ buffer \in [0..(Capacity - 1) -> HitRecords \cup {Blank}]
  /\ head \in 0..(Capacity - 1)
  /\ tail \in 0..(Capacity - 1)
  /\ size \in 0..Capacity

(* The write index is the count past the read index, so a push never lands  *)
(* on a live hit unless the ring is full, and every live cell was written.  *)
RingOK ==
  /\ tail = (head + size) % Capacity
  /\ \A k \in 0..(Capacity - 1) : k < size => buffer[(head + k) % Capacity] \in HitRecords

(* The hits the ring holds, oldest first. *)
Contents == [i \in 1..size |-> buffer[(head + i - 1) % Capacity]]

Fifo == INSTANCE LossyFifo WITH Hits <- HitRecords, contents <- Contents

(* The ring implements the lossy FIFO: over any sequence of pushes and      *)
(* pops, tryPop returns the oldest hit not discarded, and push's answer     *)
(* tells exactly when one was discarded.                                    *)
FifoSpec == Fifo!Spec
=============================================================================
