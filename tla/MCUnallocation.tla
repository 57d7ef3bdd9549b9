-------------------------- MODULE MCUnallocation ---------------------------
(* Instances of Unallocation for TLC: objects, drains and recIds are small *)
(* sets; tags are chosen for how they meet in the tag table's buckets.     *)
EXTENDS Unallocation

CONSTANTS o1, o2, o3, d1, d2

ThreeObjects == {o1, o2, o3}
TwoObjects == {o1, o2}
OneDrain == {d1}
TwoDrains == {d1, d2}

(* Distinct tags in distinct buckets of the 8-slot table; two of the    *)
(* objects share recId 0.                                               *)
SpreadTags == (o1 :> 1 @@ o2 :> 2 @@ o3 :> 3)
SpreadSizes == (o1 :> 1 @@ o2 :> 2 @@ o3 :> 1)
SpreadRecs == (o1 :> 0 @@ o2 :> 1 @@ o3 :> 0)

(* Distinct tags 0 and 8, which start in the same bucket. *)
ChainTags == (o1 :> 0 @@ o2 :> 8)
(* The tag systemHashCode gives every object: its GetMethodID lookup of *)
(* the static System.identityHashCode fails, so it returns 0.          *)
SharedTags == (o1 :> 0 @@ o2 :> 0)
PairSizes == (o1 :> 1 @@ o2 :> 2)
PairRecs == (o1 :> 0 @@ o2 :> 1)
=============================================================================
