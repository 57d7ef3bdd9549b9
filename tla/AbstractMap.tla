---------------------------- MODULE AbstractMap ----------------------------
(***************************************************************************)
(* What the Entity State Store promises its callers: a finite map from     *)
(* keys to values with lookup, put, delete and clear.  The open-addressing *)
(* HashMap of src/gearsBridge/hashmap.h is checked against this module by  *)
(* a refinement mapping (see HashMap.tla).                                 *)
(***************************************************************************)
CONSTANTS Keys, Vals, Absent

ASSUME Absent \notin Vals

VARIABLE map

Init == map = [k \in Keys |-> Absent]

Put(k, v) == map' = [map EXCEPT ![k] = v]

Delete(k) == map' = [map EXCEPT ![k] = Absent]

Clear == map' = [k \in Keys |-> Absent]

Next ==
    \/ \E k \in Keys, v \in Vals : Put(k, v)
    \/ \E k \in Keys : Delete(k)
    \/ Clear

Spec == Init /\ [][Next]_map
=============================================================================
