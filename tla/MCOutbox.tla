------------------------------ MODULE MCOutbox ------------------------------
(* Small instances of Outbox: two work ids that agree modulo Word, so that  *)
(* their keys collide and their headers differ, and one that does not.      *)
EXTENDS Outbox

CONSTANTS MaxCells, MaxQueue

MCHit == { [wid |-> 1, nonce |-> 0, hdr |-> 1],
           [wid |-> 3, nonce |-> 0, hdr |-> 2],
           [wid |-> 2, nonce |-> 1, hdr |-> 1] }

Bounded == Len(file') <= MaxCells /\ Len(q') <= MaxQueue

MCOutboxSpec == OutboxInit /\ [][OutboxNext /\ Bounded]_outboxVars
=============================================================================
