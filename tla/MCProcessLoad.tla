--------------------------- MODULE MCProcessLoad ---------------------------
(* Instances of ProcessLoad for TLC: Threads and Pids are model values. *)
EXTENDS ProcessLoad, TLC

CONSTANTS t1, t2, p1, p2

TwoThreads == {t1, t2}
OneThread == {t1}
TwoPids == {p1, p2}
OnePid == {p1}

(* The callers are interchangeable: every property quantifies over all *)
(* threads and Init gives every thread the same locals.                *)
ThreadSymmetry == Permutations(TwoThreads)
=============================================================================
