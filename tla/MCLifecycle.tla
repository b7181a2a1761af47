---------------------------- MODULE MCLifecycle ----------------------------
(* Instances of Lifecycle.  The files cover a pool of each kind alone,     *)
(* mixed pools, two pools on one GBT runner, and each way a file can be    *)
(* unusable.                                                               *)
EXTENDS Lifecycle

File(p, h) == [form |-> "valid", pools |-> p, http |-> h]

Unusable(form) == [form |-> form, pools |-> <<>>, http |-> FALSE]

AllFiles == {File(<<"stratum", "stratum">>, FALSE), File(<<"stratum", "gbt">>, FALSE),
             File(<<"gbt", "gbt">>, TRUE), File(<<"bare", "stratum">>, TRUE), File(<<"bare">>, FALSE),
             Unusable("mistyped"), Unusable("unparsable")}

OnlyStdin == {Stdin}

SilentClient == {Stdin, Server}

SilentTlsPool == {Stdin, Stratum(1)}
============================================================================
