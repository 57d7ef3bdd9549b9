--------------------------- MODULE MCWin32Gatherer ---------------------------
(* Model-checking instances of Win32Gatherer. *)
EXTENDS Win32Gatherer

(* Two adapter instances, so that one can be skipped or lose to the other; *)
(* a bandwidth of 0 (a counter showing no link speed) and of 10, and a    *)
(* transfer of 0 or 1 byte, so utilizations are NaN, +inf, 0 and 80.      *)
TwoInstances == {1, 2}
BandwidthValues == {0, 10}
TotalValues == {0, 1}
=============================================================================
