---------------------------- MODULE MCLifecycle ----------------------------
(* Model-checking instance of Lifecycle. *)
EXTENDS Lifecycle

(* recId 0 lands in slot 0; recId 128 starts there too and probes with *)
(* step 3 to slot 3, above _n = 2.                                      *)
ProbeRecIds == {0, 128}

(* Thread 1 lands in slot 1; thread 9 starts there and steps by 1 to    *)
(* slot 2, which is not below _n = 2 once thread 1's element is removed *)
(* and 9 can no longer be found.                                        *)
ProbeThreadIds == {1, 9}
=============================================================================
