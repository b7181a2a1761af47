---------------------------- MODULE MCDeviceRing ----------------------------
(* Small instances of DeviceRing, whose blocks are interchangeable. *)
EXTENDS DeviceRing, TLC

BlockSymmetry == Permutations(Blocks)
=============================================================================
