---------------------------- MODULE Unallocation ----------------------------
(***************************************************************************)
(* The native unallocation tracker of src/gearsBridge/unallocationinfo.cc, *)
(* driven by the JNI entry points recordUnallocation0/2 (an object was     *)
(* allocated: storeUnallocationInfoTag), recordUnallocation4 (it was       *)
(* freed: unallocate) and receiveUnallocations0 (a Java receiver drains    *)
(* the bytes: transferAggregatedUnallocationToJava).                       *)
(*                                                                         *)
(* unallocationInfoMap maps a tag (the object's identityHashCode) to one   *)
(* jlong packing size and recId; it is the HashMap of HashMap.tla, since   *)
(* unallocate() removes from it.  aggregatedUnallocationMap maps a recId  *)
(* to the bytes freed and not yet drained; it only sees findp, insert,     *)
(* in-place add and clear, where HashMap refines AbstractMap (run          *)
(* hashmap_store), so it is a function with a growing domain here.         *)
(*                                                                         *)
(* Each section under unallocationLock or freeLock is one step: the two    *)
(* locks guard disjoint maps, so only steps under the same lock exclude    *)
(* each other, and atomic steps give exactly that.  unallocate() is two    *)
(* steps (one per lock), the drain is a copy-and-clear step followed by    *)
(* one callback step per recId.                                            *)
(*                                                                         *)
(* In a JVMTI build, recordUnallocation0 stores the packed info as the     *)
(* object's JVMTI tag instead, and the ObjectFree event of the collector   *)
(* hands it to freeUnallocationInfo.  Whether the environment and the      *)
(* event are there is decided once by JNI_OnLoad, before any other call.   *)
(***************************************************************************)
EXTENDS Integers, FiniteSets, FiniteSetsExt, Bitwise, Functions, TLC

CONSTANTS
    Objects,      \* the Java objects whose allocation is recorded
    TagOf,        \* TagOf[o]: systemHashCode(env, o), the object's tag
    SizeOf,       \* SizeOf[o]: its size in bytes
    RecOf,        \* RecOf[o]: the recId it is accounted to
    Drains,       \* threads calling receiveUnallocations0
    HalfBits,     \* bits of a jint; a jlong has twice as many (32 in the code)
    Jvmti,        \* the build defines WITH_JVMTI and WITH_JVMTI_MEMORY
    CanFindReceiver, \* FindClass/GetMethodID find IMemoryUnallocationReceiver.unallocated
    Empty, NoVal, MaxCapacity

ASSUME HalfBits \in Nat \ {0} /\ Jvmti \in BOOLEAN /\ CanFindReceiver \in BOOLEAN

VARIABLES
    infoCap, infoN, infoSlot,  \* unallocationInfoMap (_capacity, _n, _e)
    agg,          \* aggregatedUnallocationMap: recId -> bytes
    objState,     \* objState[o]: "new", "live", "freeing" or "freed"
    local,        \* local of unallocate(): the info taken under unallocationLock
    drainPc,      \* drainPc[d]: "idle" or "deliver"
    tmp,          \* tmp[d]: the copy of aggregatedUnallocationMap being delivered
    delivered,    \* history: bytes the Java receiver was called with, per recId
    freed,        \* history: bytes of objects whose unallocation was recorded
    jvmti,        \* the jvmtiEnv pointer: "null" or "live"
    freeEvents,   \* ObjectFreeHandler is set and ObjectFree events are enabled
    objTag,       \* objTag[o]: the JVMTI tag of o, 0 when untagged
    unallocatedMethod  \* the cached jmethodID: "0" or "set"

infoVars == <<infoCap, infoN, infoSlot>>
jvmtiVars == <<jvmti, freeEvents, objTag>>
vars == <<infoVars, agg, objState, local, drainPc, tmp, delivered, freed, jvmtiVars,
          unallocatedMethod>>

---------------------------------------------------------------------------
(* jint and jlong arithmetic. *)

JlongBits == 2 * HalfBits

(* The two's-complement value of the low w bits of x. *)
Signed(x, w) == LET m == x % 2 ^ w
                IN  IF m >= 2 ^ (w - 1) THEN m - 2 ^ w ELSE m

(* The bit pattern of the w-bit value x, as a natural number. *)
Pattern(x, w) == x % 2 ^ w

Infos == -(2 ^ (JlongBits - 1)) .. 2 ^ (JlongBits - 1) - 1

(* createTagInfo: ((jlong)(jint) size) << 32 | recId, where recId is      *)
(* sign-extended to a jlong before the OR.                                *)
CreateTagInfo(size, recId) ==
    LET lTmp == Signed(size, HalfBits)
    IN  Signed(Pattern(lTmp * 2 ^ HalfBits, JlongBits)
                 | Pattern(recId, JlongBits), JlongBits)

(* getSize: info >> 32, an arithmetic shift. *)
GetSize(info) == info \div 2 ^ HalfBits

(* Mutant: the recId read from the high half. *)
GetRecIdHigh(info) == info \div 2 ^ HalfBits

(* getRecId: (jint) info. *)
GetRecId(info) == Signed(info, HalfBits)

(* The map unallocationInfoMap, as modelled by HashMap.tla. *)
InfoMap == INSTANCE HashMap
               WITH capacity <- infoCap, n <- infoN, slot <- infoSlot,
                    Keys <- Range(TagOf), Vals <- Infos

(* A value of a map with a growing domain; absent keys read as 0. *)
Get(f, k) == IF k \in DOMAIN f THEN f[k] ELSE 0

(* f with v added to the entry of k, created if absent. *)
AddTo(f, k, v) == IF k \in DOMAIN f THEN [f EXCEPT ![k] = @ + v]
                                    ELSE f @@ (k :> v)

NoMap == [r \in {} |-> 0]

(* Mutant: the test of unallocate() inverted. *)
TransferableInverted(info) == info = 0

(* if (local != 0): an info of 0 would mean recId 0 and size 0. *)
Transferable(info) == info # 0

(* JNI_OnLoad in a JVMTI build: <<jvmti, freeEvents>>.  GetEnv fails and  *)
(* jvmti stays 0; or jvmti is kept and AddCapabilities, SetEventCallbacks *)
(* or SetEventNotificationMode fails; or all succeed.  Without JVMTI there *)
(* is neither.                                                            *)
OnLoadOutcomes ==
    IF Jvmti THEN {<<"null", FALSE>>, <<"live", FALSE>>, <<"live", TRUE>>}
             ELSE {<<"null", FALSE>>}

---------------------------------------------------------------------------
Init ==
    /\ InfoMap!Init
    /\ agg = NoMap
    /\ objState = [o \in Objects |-> "new"]
    /\ local = [o \in Objects |-> 0]
    /\ drainPc = [d \in Drains |-> "idle"]
    /\ tmp = [d \in Drains |-> NoMap]
    /\ delivered = NoMap
    /\ freed = NoMap
    /\ \E o \in OnLoadOutcomes : jvmti = o[1] /\ freeEvents = o[2]
    /\ objTag = [o \in Objects |-> 0]
    /\ unallocatedMethod = "0"

(* recordUnallocation2 / recordUnallocation0 -> storeUnallocationInfoTag: *)
(* under unallocationLock, add the size to the info already stored for   *)
(* the tag (taking the new recId), or insert a new info.                  *)
Store(o) ==
    LET tag   == TagOf[o]
        found == InfoMap!Findp(tag, NoVal)
    IN  /\ objState[o] = "new"
        /\ IF found # NoVal
           THEN InfoMap!UpdateFound(tag,
                    CreateTagInfo(GetSize(found) + SizeOf[o], RecOf[o]))
           ELSE InfoMap!Insert(tag, CreateTagInfo(SizeOf[o], RecOf[o]))
        /\ objState' = [objState EXCEPT ![o] = "live"]
        /\ UNCHANGED <<agg, local, drainPc, tmp, delivered, freed, jvmtiVars, unallocatedMethod>>

(* recordUnallocation4 -> unallocate, first part: under               *)
(* unallocationLock, take the tag's info into local and remove it.    *)
UnallocateTake(o) ==
    LET tag   == TagOf[o]
        found == InfoMap!Findp(tag, NoVal)
    IN  /\ objState[o] = "live"
        /\ IF found # NoVal
           THEN /\ InfoMap!Remove(tag)
                /\ local' = [local EXCEPT ![o] = found]
           ELSE UNCHANGED <<infoVars, local>>
        /\ objState' = [objState EXCEPT ![o] = "freeing"]
        /\ freed' = AddTo(freed, RecOf[o], SizeOf[o])
        /\ UNCHANGED <<agg, drainPc, tmp, delivered, jvmtiVars, unallocatedMethod>>

(* unallocate, second part: if local != 0, freeUnallocationInfo, which  *)
(* under freeLock adds getSize(local) to the entry of getRecId(local)   *)
(* (transferToAggMap).                                                  *)
UnallocateFree(o) ==
    /\ objState[o] = "freeing"
    /\ agg' = IF Transferable(local[o])
              THEN AddTo(agg, GetRecId(local[o]), GetSize(local[o]))
              ELSE agg
    /\ objState' = [objState EXCEPT ![o] = "freed"]
    /\ UNCHANGED <<infoVars, local, drainPc, tmp, delivered, freed, jvmtiVars, unallocatedMethod>>

(* Mutant: the id looked up is not stored in the static. *)
InitUnallocatedMethodLost == unallocatedMethod

(* initUnallocatedMethod: look the method up while the cached id is 0; *)
(* a failed lookup leaves it 0 and is tried again by the next drain.    *)
InitUnallocatedMethod ==
    IF unallocatedMethod = "0" /\ CanFindReceiver THEN "set" ELSE unallocatedMethod

(* transferAggregatedUnallocationToJava, first part: initUnallocatedMethod, *)
(* then under freeLock copy aggregatedUnallocationMap into tmp and clear it. *)
TransferTake(d) ==
    /\ drainPc[d] = "idle"
    /\ unallocatedMethod' = InitUnallocatedMethod
    /\ tmp' = [tmp EXCEPT ![d] = agg]
    /\ agg' = NoMap
    /\ drainPc' = [drainPc EXCEPT ![d] = "deliver"]
    /\ UNCHANGED <<infoVars, objState, local, delivered, freed, jvmtiVars>>

(* callUnallocated: the receiver is called only if the method id is not 0. *)
CallUnallocated(recId, size) ==
    IF unallocatedMethod = "set" THEN AddTo(delivered, recId, size) ELSE delivered

(* One iteration of the loop over tmp: callUnallocated(recId, size). *)
Deliver(d) ==
    /\ drainPc[d] = "deliver"
    /\ \E r \in DOMAIN tmp[d] :
         /\ delivered' = CallUnallocated(r, tmp[d][r])
         /\ tmp' = [tmp EXCEPT ![d] = [x \in DOMAIN tmp[d] \ {r} |-> tmp[d][x]]]
    /\ UNCHANGED <<infoVars, agg, objState, local, drainPc, freed, jvmtiVars, unallocatedMethod>>

(* The loop ends and tmp is deleted. *)
DeliverDone(d) ==
    /\ drainPc[d] = "deliver"
    /\ DOMAIN tmp[d] = {}
    /\ drainPc' = [drainPc EXCEPT ![d] = "idle"]
    /\ UNCHANGED <<infoVars, agg, objState, local, tmp, delivered, freed, jvmtiVars, unallocatedMethod>>

(* recordUnallocation0 -> storeUnallocationInfo.  With JVMTI: if jvmti is *)
(* not 0, SetTag(allocated, createTagInfo(size, recId)), which replaces   *)
(* any earlier tag; else only an error is printed.  Without JVMTI: the     *)
(* tag is systemHashCode(allocated) and the info is stored as by Store.   *)
RecordUnallocation0(o) ==
    IF Jvmti
    THEN /\ objState[o] = "new"
         /\ objTag' = IF jvmti = "live"
                      THEN [objTag EXCEPT ![o] = CreateTagInfo(SizeOf[o], RecOf[o])]
                      ELSE objTag
         /\ objState' = [objState EXCEPT ![o] = "tagged"]
         /\ UNCHANGED <<infoVars, agg, local, drainPc, tmp, delivered, freed,
                        jvmti, freeEvents, unallocatedMethod>>
    ELSE Store(o)

(* The collector frees a tagged object and JVMTI posts ObjectFree with its *)
(* tag (never for tag 0): ObjectFreeHandler -> freeUnallocationInfo, which *)
(* under freeLock adds getSize(tag) to the entry of getRecId(tag).        *)
ObjectFreeHandler(o) ==
    /\ objState[o] = "tagged"
    /\ freeEvents
    /\ objTag[o] # 0
    /\ agg' = AddTo(agg, GetRecId(objTag[o]), GetSize(objTag[o]))
    /\ objState' = [objState EXCEPT ![o] = "freed"]
    /\ freed' = AddTo(freed, RecOf[o], SizeOf[o])
    /\ UNCHANGED <<infoVars, local, drainPc, tmp, delivered, jvmtiVars, unallocatedMethod>>

Next ==
    \/ \E o \in Objects : \/ Store(o) \/ RecordUnallocation0(o)
                          \/ UnallocateTake(o) \/ UnallocateFree(o)
                          \/ ObjectFreeHandler(o)
    \/ \E d \in Drains : TransferTake(d) \/ Deliver(d) \/ DeliverDone(d)

(* A thread that left unallocationLock goes on to freeLock, and a drain *)
(* thread runs its loop to the end: both are steps of a running call.   *)
(* The Java receiver is assumed to poll receiveUnallocations0 again and *)
(* again, so the drain's first step is weakly fair too.                 *)
Fairness ==
    /\ \A o \in Objects : WF_vars(UnallocateFree(o))
    /\ \A d \in Drains : WF_vars(TransferTake(d) \/ Deliver(d) \/ DeliverDone(d))

Spec == Init /\ [][Next]_vars
FairSpec == Spec /\ Fairness

---------------------------------------------------------------------------
(* Properties *)

(* Objects, infos and the tag table have the types of the code. *)
TypeOK ==
    /\ InfoMap!TypeOK
    /\ objState \in [Objects -> {"new", "live", "tagged", "freeing", "freed"}]
    /\ objTag \in [Objects -> Infos]
    /\ unallocatedMethod \in {"0", "set"}
    /\ local \in [Objects -> Infos]
    /\ drainPc \in [Drains -> {"idle", "deliver"}]

(* The bytes of the unallocations in flight between unallocationLock and *)
(* freeLock, for recId r.                                                *)
InFlight(r) ==
    MapThenSumSet(LAMBDA o : GetSize(local[o]),
                  {o \in Objects : /\ objState[o] = "freeing"
                                   /\ Transferable(local[o])
                                   /\ GetRecId(local[o]) = r})

RecIds ==
    DOMAIN freed \cup DOMAIN delivered \cup DOMAIN agg
    \cup UNION {DOMAIN tmp[d] : d \in Drains}
    \cup {GetRecId(local[o]) : o \in Objects}

(* No byte is lost, duplicated or moved to another recId: for every     *)
(* recId, the bytes of the objects whose unallocation was recorded equal *)
(* the bytes handed to the Java receiver, plus those waiting in          *)
(* aggregatedUnallocationMap, in a drain's copy, or in an unallocate()   *)
(* between its two locks.                                                *)
Conservation ==
    \A r \in RecIds :
        Get(freed, r) = Get(delivered, r) + Get(agg, r)
                        + MapThenSumSet(LAMBDA d : Get(tmp[d], r), Drains)
                        + InFlight(r)

(* The bytes handed to the Java side: those the receiver was called with *)
(* and those in the copies the drains have taken and not yet delivered.  *)
Handed ==
    LET rs == DOMAIN delivered \cup UNION {DOMAIN tmp[d] : d \in Drains}
    IN  [r \in rs |-> Get(delivered, r) + MapThenSumSet(LAMBDA d : Get(tmp[d], r), Drains)]

Counter == INSTANCE UnallocationCounter
               WITH notified <- {o \in Objects : objState[o] = "freed"},
                    counted <- agg, handed <- Handed

(* The tracker implements the producer/consumer counter of spec.md 9:     *)
(* an object's bytes enter aggregatedUnallocationMap under its own recId  *)
(* in the one step that completes its unallocation (freeUnallocationInfo *)
(* or ObjectFreeHandler), and a drain's copy-and-clear under freeLock     *)
(* takes all of the map at once, whatever the tag table merged or moved.  *)
CounterRefinement == Counter!Spec

(* Every byte whose unallocation is recorded is eventually handed to the *)
(* Java receiver under its recId.                                       *)
DrainedEventually ==
    \A r \in Range(RecOf), k \in 1 .. MapThenSumSet(LAMBDA o : SizeOf[o], Objects) :
        (Get(freed, r) >= k) ~> (Get(delivered, r) >= k)
=============================================================================
