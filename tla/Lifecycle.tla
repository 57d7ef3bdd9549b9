----------------------------- MODULE Lifecycle -----------------------------
(***************************************************************************)
(* The memory of the library's static HashMaps over its life: the         *)
(* aggregatedUnallocationMap of src/gearsBridge/unallocationinfo.cc, and  *)
(* prevProcInfo and (on Android) threadInfo of                            *)
(* src/gearsBridge/jni/data_gatherer_posix.cpp.  Elements are created by  *)
(* transferToAggMap, _getProcessProcessorLoad and registerThread; the     *)
(* drain of transferAggregatedUnallocationToJava copies and clears the    *)
(* aggregated map; registerThread(id, false) removes; JNI_OnUnload runs   *)
(* doneUnallocation and the platform done() (HashMap::done on the maps);  *)
(* at process exit every static map's ~HashMap calls done() once more.    *)
(*                                                                         *)
(* Each table is the HashMap of HashMap.tla.  The heap is abstracted to   *)
(* what ownership needs: the number of element blocks (new Elt) allocated *)
(* and not deleted, and how often each map's current array _e was        *)
(* deleted, and the ProcessInfo objects prevProcInfo's values point to, *)
(* which the Android done() deletes through the map's iterator.           *)
(* unallocationInfoMap goes through the                                   *)
(* same done() pair as the aggregated map and is left out too.  The locks *)
(* of the drain and of freeUnallocationInfo make each call one step;      *)
(* their interleaving is the subject of Unallocation.tla.                 *)
(***************************************************************************)
EXTENDS Integers, FiniteSets

CONSTANTS
    RecIds,       \* the recIds freed bytes are aggregated under
    Sizes,        \* the sizes of single unallocations
    MaxSize,      \* bound on an aggregated value, to keep the model finite
    ThreadIds,    \* Java thread ids registerThread is called with
    Pids,         \* pids _getProcessProcessorLoad is asked for
    Android,      \* TRUE for the Android build of data_gatherer_posix.cpp
    Empty, NoVal, MaxCapacity

ASSUME Android \in BOOLEAN

VARIABLES
    capacity, n, slot,  \* aggregatedUnallocationMap (_capacity, _n, _e)
    thrCap, thrN, thrSlot,     \* threadInfo (Android only)
    procCap, procN, procSlot,  \* prevProcInfo of data_gatherer_posix.cpp
    elts,         \* element blocks allocated by the maps or copies, not deleted
    infos,        \* ProcessInfo objects allocated and not deleted
    arrFreed,     \* arrFreed[m]: times delete _e ran on map m's current array
    phase         \* "loaded", "unloaded" (JNI_OnUnload ran) or "exited"

mapVars == <<capacity, n, slot>>
thrVars == <<thrCap, thrN, thrSlot>>
procVars == <<procCap, procN, procSlot>>
vars == <<mapVars, thrVars, procVars, elts, infos, arrFreed, phase>>

Maps == {"agg", "thread", "proc"}

Agg == INSTANCE HashMap WITH Keys <- RecIds, Vals <- 0 .. MaxSize
Thr == INSTANCE HashMap WITH Keys <- ThreadIds, Vals <- {1},
                             capacity <- thrCap, n <- thrN, slot <- thrSlot
Proc == INSTANCE HashMap WITH Keys <- Pids, Vals <- {1},
                              capacity <- procCap, n <- procN, slot <- procSlot

(* The elements done() deletes: its loop runs over i < _n, not _capacity. *)
DoneFrees(e, cnt) == {i \in DOMAIN e : i < cnt /\ e[i] # Empty}

(* done(): delete and zero _e[i] for each i < _n, then delete _e.  _e,  *)
(* _capacity and _n keep their values.                                  *)
AfterDone(e, cnt) ==
    [i \in DOMAIN e |-> IF i \in DoneFrees(e, cnt) THEN Empty ELSE e[i]]

(* The element blocks done() deletes on the maps it runs on. *)
DoneCount(ms) ==
      (IF "agg" \in ms THEN Cardinality(DoneFrees(slot, n)) ELSE 0)
    + (IF "thread" \in ms THEN Cardinality(DoneFrees(thrSlot, thrN)) ELSE 0)
    + (IF "proc" \in ms THEN Cardinality(DoneFrees(procSlot, procN)) ELSE 0)

(* done() on the maps ms, at once; the others are left as they are. *)
Done(ms) ==
    /\ elts' = elts - DoneCount(ms)
    /\ slot' = IF "agg" \in ms THEN AfterDone(slot, n) ELSE slot
    /\ thrSlot' = IF "thread" \in ms THEN AfterDone(thrSlot, thrN) ELSE thrSlot
    /\ procSlot' = IF "proc" \in ms THEN AfterDone(procSlot, procN) ELSE procSlot
    /\ arrFreed' = [m \in Maps |-> IF m \in ms THEN arrFreed[m] + 1 ELSE arrFreed[m]]
    /\ UNCHANGED <<capacity, n, thrCap, thrN, procCap, procN>>

(* The slots a HashMapIterator visits, from first() through next():   *)
(* every index below _capacity whose _e[i] is not 0, whatever _n is.  *)
Iterated(e) == {i \in DOMAIN e : e[i] # Empty}

(* HashMap(const HashMap &m): a new Elt for every element of m. *)
CopyAllocs == Cardinality(Agg!Occupied)

(* The maps whose done() the platform done() calls: on Android it deletes *)
(* the ProcessInfo values, then prevProcInfo.done() and threadInfo.done(). *)
PlatformDone == IF Android THEN {"proc", "thread"} ELSE {}

(* The static maps of the build, whose destructors run at exit. *)
StaticMaps == IF Android THEN Maps ELSE {"agg", "proc"}

---------------------------------------------------------------------------
(* Static initialisation (HashMap(): increase() for every static map), *)
(* then JNI_OnLoad, whose initUnallocationInfoMap does nothing.         *)
Init ==
    /\ Agg!Init /\ Thr!Init /\ Proc!Init
    /\ elts = 0
    /\ infos = 0
    /\ arrFreed = [m \in Maps |-> 0]
    /\ phase = "loaded"

(* freeUnallocationInfo -> transferToAggMap(recId, size): add to the    *)
(* element found, or insert one, which allocates a new Elt.  Growth in *)
(* insert() moves the element pointers and deletes only the old array. *)
TransferToAggMap(r, s) ==
    LET found == Agg!Findp(r, NoVal)
    IN  /\ phase = "loaded"
        /\ IF found = NoVal
           THEN /\ Agg!Insert(r, s)
                /\ elts' = elts + 1
           ELSE /\ found + s <= MaxSize
                /\ Agg!UpdateFound(r, found + s)
                /\ UNCHANGED elts
        /\ UNCHANGED <<thrVars, procVars, infos, arrFreed, phase>>

(* transferAggregatedUnallocationToJava: tmp = new Map(map) copies every *)
(* element, map.clear() runs done() and starts an empty table, and after *)
(* the callbacks delete tmp runs ~HashMap, that is done(), on the copy,  *)
(* which has the same _n and layout.                                     *)
Drain ==
    LET kept == Cardinality(DoneFrees(slot, n))
    IN  /\ phase = "loaded"
        /\ elts' = elts + CopyAllocs - kept - kept
        /\ Agg!Clear
        /\ UNCHANGED <<thrVars, procVars, infos, arrFreed, phase>>

(* registerThread(threadId, reg) on Android: insert pthread_self() if    *)
(* findp misses, or remove(threadId), which deletes the element bucket() *)
(* stops at if that slot is not empty.                                   *)
RegisterThread(id, reg) ==
    LET i == Thr!Bucket(thrSlot, thrCap, id)
    IN  /\ Android /\ phase = "loaded"
        /\ IF reg
           THEN /\ Thr!Findp(id, NoVal) = NoVal
                /\ Thr!Insert(id, 1)
                /\ elts' = elts + 1
           ELSE /\ Thr!Remove(id)
                /\ elts' = elts - (IF i # Thr!NoSlot /\ thrSlot[i] # Empty THEN 1 ELSE 0)
        /\ UNCHANGED <<mapVars, procVars, infos, arrFreed, phase>>

(* _getProcessProcessorLoad(pid): on a findp miss, new ProcessInfo() and *)
(* its insert (one Elt).  The rest of the call is ProcessLoad.tla.       *)
GetProcessProcessorLoad(p) ==
    /\ phase = "loaded"
    /\ Proc!Findp(p, NoVal) = NoVal
    /\ Proc!Insert(p, 1)
    /\ elts' = elts + 1
    /\ infos' = infos + 1
    /\ UNCHANGED <<mapVars, thrVars, arrFreed, phase>>

(* The platform done() before the maps' done(): on Android, delete       *)
(* it.value() for every slot the iterator of prevProcInfo visits.        *)
DeletedInfos == IF Android THEN Cardinality(Iterated(procSlot)) ELSE 0

(* JNI_OnUnload: DisposeEnvironment, then doneUnallocation() calls done() *)
(* on the static map, and the platform done().                            *)
OnUnload ==
    /\ phase = "loaded"
    /\ Done({"agg"} \cup PlatformDone)
    /\ infos' = infos - DeletedInfos
    /\ phase' = "unloaded"

(* Process exit, with or without JNI_OnUnload before it: each static     *)
(* map's destructor ~HashMap calls done().  After JNI_OnUnload the array *)
(* it reads was already deleted; its slots below _n read as the first    *)
(* done() left them.                                                     *)
Exit ==
    /\ phase \in {"loaded", "unloaded"}
    /\ Done(StaticMaps)
    /\ UNCHANGED infos
    /\ phase' = "exited"

Next ==
    \/ \E r \in RecIds, s \in Sizes : TransferToAggMap(r, s)
    \/ Drain
    \/ \E id \in ThreadIds, reg \in BOOLEAN : RegisterThread(id, reg)
    \/ \E p \in Pids : GetProcessProcessorLoad(p)
    \/ OnUnload
    \/ Exit

Spec == Init /\ [][Next]_vars

---------------------------------------------------------------------------
(* Properties *)

(* Every block a static map owns is deleted exactly once: JNI_OnUnload   *)
(* (doneUnallocation and the platform done()) and the static destructor *)
(* never both delete a map's array _e, and when the process has exited  *)
(* no element created by an insert, the drain's copy or a registration  *)
(* is left undeleted.                                                   *)
FreedExactlyOnce ==
    /\ \A m \in Maps : arrFreed[m] <= 1
    /\ phase = "exited" => elts = 0
=============================================================================
