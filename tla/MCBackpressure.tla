--------------------------- MODULE MCBackpressure ---------------------------
(* A stratum source of weight 3, capped at 2, and a solo source of weight 1. *)
EXTENDS Backpressure

MCWeight == [s \in Sources |-> IF s \in Stratum THEN 3 ELSE 1]
=============================================================================
