------------------------------ MODULE HashMap ------------------------------
(***************************************************************************)
(* The open-addressing hash table of src/gearsBridge/hashmap.h, the        *)
(* Entity State Store behind prevProcInfo and threadInfo                   *)
(* (jni/data_gatherer_posix.cpp) and the unallocation maps                 *)
(* (unallocationinfo.cc).                                                  *)
(*                                                                         *)
(* The table is the array _e of _capacity slots, each empty or holding one *)
(* element <<k, v>>; _n counts the elements insert() created.  A key is    *)
(* looked up by bucket(): start at hashcode & (cap-1) and step by          *)
(* ((hashcode >> 6) & (cap-1)) | 1 until a slot is empty or holds the key. *)
(* _grow_limit is always (int)(0.8 * _capacity) - 1, so it is a           *)
(* definition here rather than a variable.                                 *)
(***************************************************************************)
EXTENDS Integers, FiniteSets

CONSTANTS
    Keys,         \* the integer keys callers use (pids, thread ids, tags)
    Vals,         \* the values stored
    Empty,        \* an empty slot (_e[i] == 0)
    NoVal,        \* the null pointer findp() returns for a missing key
    MaxCapacity   \* bound on _capacity, to keep the model finite

ASSUME Keys \subseteq Nat /\ Vals # {} /\ MaxCapacity \in {8, 16, 32, 64}

VARIABLES
    capacity,     \* _capacity
    n,            \* _n
    slot          \* _e: [0 .. capacity-1 -> element or Empty]

vars == <<capacity, n, slot>>

Elt == [k : Keys, v : Vals]

NoSlot == -1    \* bucket() never returns: every slot is full of other keys

(* hashcode(int) / hashcode(jlong): the absolute value. *)
Hashcode(key) == IF key < 0 THEN -key ELSE key

(* Mutant: the step without the | 1, so it can be even or 0. *)
NoOr(x) == x

(* x | 1 *)
OrOne(x) == IF x % 2 = 0 THEN x + 1 ELSE x

(* The probe loop of bucket(); fuel is the number of slots not yet seen. *)
RECURSIVE ProbeFrom(_, _, _, _, _, _)
ProbeFrom(e, cap, key, i, j, fuel) ==
    IF fuel = 0 THEN NoSlot
    ELSE IF e[i] = Empty \/ e[i].k = key THEN i
    ELSE ProbeFrom(e, cap, key, (i + j) % cap, j, fuel - 1)

Bucket(e, cap, key) ==
    LET hc == Hashcode(key)
    IN  ProbeFrom(e, cap, key, hc % cap, OrOne((hc \div 64) % cap), cap)

EmptyTable(cap) == [i \in 0 .. cap - 1 |-> Empty]

(* Mutant: increase() without the floor of 8, so clear() leaves 0 slots. *)
GrownNoFloor(cap) == 2 * cap

(* increase(): double the capacity, at least 8. *)
Grown(cap) == IF 2 * cap < 8 THEN 8 ELSE 2 * cap

GrowLimitOf(cap) == (8 * cap) \div 10 - 1

GrowLimit == GrowLimitOf(capacity)

(* Mutant: increase() copies every element to the same index. *)
RehashSameIndex(old, i, ocap, ncap, new) ==
    [j \in 0 .. ncap - 1 |-> IF j < ocap THEN old[j] ELSE new[j]]

(* increase(): move the old elements, in slot order, to bucket() of the  *)
(* new table as it fills.                                                *)
RECURSIVE Rehash(_, _, _, _, _)
Rehash(old, i, ocap, ncap, new) ==
    IF i >= ocap THEN new
    ELSE IF old[i] = Empty THEN Rehash(old, i + 1, ocap, ncap, new)
    ELSE Rehash(old, i + 1, ocap, ncap,
                [new EXCEPT ![Bucket(new, ncap, old[i].k)] = old[i]])

(* findp(): the value stored for key, or Absent for a null pointer. *)
Findp(key, Absent) ==
    LET i == Bucket(slot, capacity, key)
    IN  IF i = NoSlot \/ slot[i] = Empty THEN Absent ELSE slot[i].v

Occupied == {i \in DOMAIN slot : slot[i] # Empty}

---------------------------------------------------------------------------
(* HashMap(): _capacity = _grow_limit = _n = 0, then increase(). *)
Init ==
    /\ capacity = Grown(0)
    /\ n = 0
    /\ slot = EmptyTable(Grown(0))

(* insert(key, val): check_capacity() grows the table when _n >= _grow_limit, *)
(* then the element at bucket(key) is created or overwritten and _n counts  *)
(* a created one.                                                           *)
Insert(key, val) ==
    LET grow == n >= GrowLimit
        cap1 == IF grow THEN Grown(capacity) ELSE capacity
        e1   == IF grow THEN Rehash(slot, 0, capacity, cap1, EmptyTable(cap1))
                        ELSE slot
        i    == Bucket(e1, cap1, key)
    IN  /\ cap1 <= MaxCapacity
        /\ i # NoSlot
        /\ slot' = [e1 EXCEPT ![i] = [k |-> key, v |-> val]]
        /\ capacity' = cap1
        /\ n' = n + (IF e1[i] = Empty THEN 1 ELSE 0)

(* *findp(key) = val: the callers' in-place update of a found element *)
(* (transferToAggMap, storeUnallocationInfoTag).                      *)
UpdateFound(key, val) ==
    LET i == Bucket(slot, capacity, key)
    IN  /\ i # NoSlot
        /\ slot[i] # Empty
        /\ slot' = [slot EXCEPT ![i].v = val]
        /\ UNCHANGED <<capacity, n>>

(* remove(key): free the element at bucket(key); _n is left as it is. *)
Remove(key) ==
    LET i == Bucket(slot, capacity, key)
    IN  /\ i # NoSlot
        /\ slot' = IF slot[i] # Empty THEN [slot EXCEPT ![i] = Empty] ELSE slot
        /\ UNCHANGED <<capacity, n>>

(* clear(): done(), then _capacity = _grow_limit = _n = 0 and increase(). *)
Clear ==
    /\ capacity' = Grown(0)
    /\ n' = 0
    /\ slot' = EmptyTable(Grown(0))

(* The operations of callers that never remove: prevProcInfo and the *)
(* aggregated unallocation map.                                        *)
StoreNext ==
    \/ \E k \in Keys, v \in Vals : Insert(k, v)
    \/ \E k \in Keys, v \in Vals : UpdateFound(k, v)
    \/ Clear

(* All operations, as threadInfo and unallocationInfoMap use them. *)
Next == StoreNext \/ \E k \in Keys : Remove(k)

StoreSpec == Init /\ [][StoreNext]_vars
Spec == Init /\ [][Next]_vars

---------------------------------------------------------------------------
(* Properties *)

(* The table is an array of a power-of-two capacity of at least 8 whose *)
(* slots are empty or hold one element.                                 *)
TypeOK ==
    /\ capacity \in {8, 16, 32, 64}
    /\ n \in 0 .. capacity
    /\ slot \in [0 .. capacity - 1 -> Elt \cup {Empty}]

(* bucket() always returns: for every key some probe reaches an empty slot *)
(* or the key, so no call of findp/insert/remove spins forever.           *)
ProbeTerminates == \A k \in Keys : Bucket(slot, capacity, k) # NoSlot

(* Through growth, rehash, in-place update, removal and clear, findp()   *)
(* answers as the abstract map does: the table refines AbstractMap with  *)
(* map = the findp() result of every key.                                 *)
Abs == INSTANCE AbstractMap
           WITH map <- [k \in Keys |-> Findp(k, NoVal)], Absent <- NoVal
MapRefinement == Abs!Spec
=============================================================================
