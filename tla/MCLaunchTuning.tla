--------------------------- MODULE MCLaunchTuning ---------------------------
(* Small instances of LaunchTuning: configurations at, between and beyond  *)
(* the caps.                                                               *)
EXTENDS LaunchTuning

MCConfigs == {[threads |-> 5, npt |-> 1], [threads |-> 3, npt |-> 1],
              [threads |-> 1, npt |-> 7]}
=============================================================================
