-------------------------- MODULE MCSubmitPipeline --------------------------
(* Small instances of SubmitPipeline: a pool with two jobs whose ids agree  *)
(* modulo Word, a second pool, and (SharedJobs) two pools that announce the *)
(* same job id.                                                             *)
EXTENDS SubmitPipeline

MCHit == [wid : {1, 2, 3}, nonce : 0..2, hdr : {1, 2}]
DisjointJobs == <<{1, 3}, {2}>>
SharedJobs == <<{1}, {1}>>
MCWinners == {<<1, 0>>, <<3, 0>>, <<2, 0>>, <<2, 1>>, <<1, 1>>}
SixWinners == MCWinners \cup {<<3, 1>>}
MCBlocks == {<<1, 1>>}
MCRejects == {<<2, 1>>}
=============================================================================
