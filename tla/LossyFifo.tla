----------------------------- MODULE LossyFifo -----------------------------
(***************************************************************************)
(* What a bounded hit buffer promises (src/src/cuda/hit_ring.h): a FIFO of *)
(* at most Capacity hits, in which a push into a full buffer makes room by *)
(* discarding the oldest hit and says so.                                  *)
(***************************************************************************)
EXTENDS Naturals, Sequences

CONSTANTS Hits, Capacity

VARIABLES contents,   \* the hits held, oldest first
          result      \* what the last call returned

Init == contents = <<>> /\ result = "none"

Push(h) ==
  LET full == Len(contents) = Capacity
  IN  /\ contents' = Append(IF full THEN Tail(contents) ELSE contents, h)
      /\ result' = IF full THEN "overwrote" ELSE "stored"

Pop ==
  \/ contents = <<>> /\ result' = "none" /\ UNCHANGED contents
  \/ contents # <<>> /\ result' = Head(contents) /\ contents' = Tail(contents)

Next == (\E h \in Hits : Push(h)) \/ Pop

Spec == Init /\ [][Next]_<<contents, result>>
=============================================================================
