# TLA+ models of the spassMeter native data gatherer

This directory holds TLA+ models of the native part of spassMeter, under
`src/gearsBridge`, and the TLC configurations that check them. The native
library answers one JNI call per metric: CPU, memory, network, battery and
per-process figures. Some of these are *rates*, computed from the difference
between the current cumulative counters and the ones saved at the previous
call. The saved state lives in process-wide globals and in the open-addressing
`HashMap` of `hashmap.h`. The library has no threads of its own. Every entry
point runs on whichever JVM thread calls it, and no entry point takes a lock,
except the unallocation tracker.

## 1. The system: parts and how they interact

| Part (spec.md name) | Code | State it keeps |
|---|---|---|
| Entity State Store | `hashmap.h` (`HashMap<K,V>`), `std::map` on win32 | `_capacity`, `_grow_limit`, `_n`, the slot array `_e` |
| Rate Computer, process CPU load | `jni/data_gatherer_posix.cpp` `_getProcessProcessorLoad`; `data_gatherer_win32.cc` `_calcProcessCPULoad` | globals `prevSysKernel/prevSysUser`, map `prevProcInfo` pid → `ProcessInfo{prevProcKernel, prevProcUser, lastLoad}` |
| Rate Computer, system CPU load | win32 `_calcCpuLoad` | `ftSys*`, `lastCpuLoad`, `firstRunLoad` |
| Network probe | win32 `queryData`, `createNetworkCounter` | adapter counter vector, `NetworkQuery`, `lastBandwidth/lastUtilization/lastUsage` |
| Lifecycle Manager | `init`/`done` per platform, `initializeCom`, `JNI_OnLoad/JNI_OnUnload` | COM pointers `locator`, `service`, `pRefresher`, `pEnum`; the maps above |
| Unallocation tracking | `unallocationinfo.cc`, `jni/unallocationinfo_common.cpp` | `unallocationInfoMap` tag → packed (size, recId); `aggregatedUnallocationMap` recId → bytes; `unallocationLock`, `freeLock`; the cached `unallocatedMethod` id; in a JVMTI build, the object tags and the `jvmti` environment |
| Query Facade | `de_uni_hildesheim_sse_system_DataGatherer.cc` | none (forwarders) |
| Stateless probes | screen, memory, volume, battery, process IO/time/memory | none |

The parts interact as follows:
- A facade call such as `getProcessProcessorLoad(pid)` runs the Rate Computer on the caller's thread.
- The Rate Computer reads the Platform Probe (`/proc/<pid>/stat` and `/proc/stat`, or `GetProcessTimes` and `GetSystemTimes`). It then reads and updates its Entity State Store entry and the shared globals.
- Allocation instrumentation in the JVM calls the unallocation functions from arbitrary threads. A drain thread calls `transferAggregatedUnallocationToJava`.
- `JNI_OnUnload` runs `doneUnallocation()` and `done()`. After that, the static destructors of every `HashMap` run `done()` once more.

### What is hard in this code
- **Interleavings.** Callers are concurrent and unlocked. Each call is lookup-or-create, then sample, then a read-compute-write of shared state. Spec §5 asks for a lock here and the code has none.
- **Rate-window state.** The rate state is only partly per-entity: the system-tick window is one global pair for all pids.
- **Failure paths.** Read failures happen between creating an entry and saving its first sample.
- **Numeric edges.** Unsigned wrap-around, division by a zero window, and a NaN-only filter on win32.
- **The HashMap.** `remove()` leaves a hole in a probe chain and never decrements `_n`. `done()` does not reset its fields, so it is unsafe to call twice.
- **Unallocation.** Two locks are taken one after the other, with a window between them. `createTagInfo` packs 32-bit fields with sign extension.

### Properties wanted, per part
- **HashMap.** `findp` answers as a map would (refinement). A probe always ends.
- **Process load.** The stored lastLoad is finite. The result is in 0–100%. The window never runs backwards.
- **Unallocation.** Every unallocated byte is handed to Java exactly once under the recId it was allocated for. The tracker behaves as the producer/consumer counter of spec §9.
- **System load (win32).** Every result and the saved `lastCpuLoad` are finite percentages.
- **Network selection.** The reported triple is the busiest adapter's, or the last one when no adapter yields data.
- **Lifecycle.** `done()` may be called twice without releasing anything twice, and nothing the maps own survives the exit (spec §8, line 36).
- **COM variant.** A query's aggregate is the sum, maximum or mean of the values read. The estimated maximum network speed covers the current speed.

## 2. Modules

### `AbstractMap` — what a map promises
Variable `map : Keys -> Vals ∪ {Absent}` with actions `Put`, `Delete` and `Clear`.
No map entry: it is the abstract side of the refinement below.

### `HashMap` — `hashmap.h`
State: `capacity` (`_capacity`), `n` (`_n`), and `slot` (`_e`, each slot `Empty` or an element `[k, v]`).
- `_grow_limit` is always `(int)(0.8*_capacity)-1`, so it is the operator `GrowLimit`.
- `Bucket` is `bucket()`: the recursive `ProbeFrom` starts at `hc & (cap-1)` and steps by `((hc>>6)&(cap-1))|1`. Its `fuel` argument turns the code's endless loop on a full table into the value `NoSlot`.
- `Rehash` is the loop of `increase()`. It moves elements in slot order into the table being filled.

Actions:
- `Insert` is `insert()`, including its `check_capacity()`/`increase()`.
- `UpdateFound` is the callers' `*findp(k) = v`, as in `transferToAggMap`.
- `Remove` is `remove()`.
- `Clear` is `clear()`, which runs `done()` and then `increase()`.

`Abs == INSTANCE AbstractMap WITH map <- [k |-> Findp(k, NoVal)]` maps the table to the map its `findp()` calls show. `MapRefinement == Abs!Spec` is checked as a PROPERTY.

`MCHashMap` fixes the key sets:
- `StoreKeys = {0,8,16,24,128,136}`. All of them start in bucket 0 at capacity 8. Keys 128 and 136 also differ in their step (`hc>>6`), so collisions, steps 1 and 3, and re-bucketing at 16 all happen.

### `ProcessLoad` — process CPU load, posix and win32
The constant `Platform` selects the posix or the win32 code.

Environment state:
- `sysBusy` and `sysIdle`: the `/proc/stat` cpu counters.
- `procTicks[p]`: the process's user+kernel ticks.
- Each counter is a single sum. A delta of sums equals the sum of the deltas modulo `2^Width`, so the unsigned arithmetic of the code is preserved.

Store state:
- `prevSys`: the shared `prevSysKernel+prevSysUser`.
- `known[p]`: `prevProcInfo` has an entry for `p`.
- `prevProc[p]` and `lastLoad[p]`: fields of the `ProcessInfo`.

Per-thread locals: `pc`, `pid`, `firstCall`, `smpSys`, `smpProc`, `smpOk`, and `ret` (the return value).

A load `100*num/den` is the record `[num, den]`: `den = 0` is infinity (or NaN when `num = 0`).

Actions:
- `TickBusy(p)`, `TickOther` and `TickIdle` are the OS scheduler, bounded by `MaxTicks`.
- `ReusePid(p)`: the process holding pid `p` exits and a new process gets `p`, with its tick counts at 0. No code removes a `prevProcInfo` entry, so the old process's sample stays. This is a fault of the environment, bounded by `MaxReuses` (1 in `load_posix`, 0 in the violation runs, so their shortest traces stay the ones the findings describe).
- Each call is three actions of one thread, so other threads interleave between them:
  - `Lookup(t,p)`: `findp` and the insert of a zeroed `ProcessInfo`. This is lines 636–646 posix, 254–263 win32 (a `std::map` there, with the same find-or-create).
  - `Sample(t)`: the two reads. Either read may fail and leave zeros.
  - `Update(t)`: the whole rest of the function. It covers the validity guard (`Valid`: the sums on posix, both reads on win32), the deltas, `PosixNextLoad` or `Win32NextLoad`, the `lastLoad` update and the save of the sample. It is lines 671–704 posix, 266–314 win32.

`MCProcessLoad` declares the threads and pids as model values, with symmetry over the threads.

### `Unallocation` — `unallocationinfo.cc` and its JNI entry points
The Java side calls three entry points:
- `recordUnallocation0/2` when an object is allocated;
- `recordUnallocation4` when it is freed;
- `receiveUnallocations0` to drain the collected bytes.

In a JVMTI build (constant `Jvmti`), `recordUnallocation0` stores the packed info as the object's JVMTI tag instead, and the collector's `ObjectFree` event calls `ObjectFreeHandler`, which hands the tag to `freeUnallocationInfo`. `JNI_OnLoad` decides once whether there is an environment and whether the event is enabled: `OnLoadOutcomes` are the initial states, one per way its JVMTI set-up can end.

State:
- The tag table `unallocationInfoMap` is `INSTANCE HashMap` (`infoCap`, `infoN`, `infoSlot`). The tracker removes from it, so the concrete table matters.
- `aggregatedUnallocationMap` is `agg`, a function with a growing domain. It only sees findp, insert, in-place add and clear, and under those HashMap refines AbstractMap (run `hashmap_store`).
- Per object: `objState` and `local` (the info `unallocate` holds between its two locks).
- Per drain thread: `drainPc` and `tmp` (the copy being delivered).
- History variables: `delivered` (what the Java receiver got) and `freed` (the bytes whose unallocation was recorded).
- JVMTI: `jvmti` (`"null"` or `"live"`), `freeEvents` (the callback set and the event enabled), `objTag[o]` (0 when untagged).
- `unallocatedMethod`: the `jmethodID` cached by `initUnallocatedMethod`. The constant `CanFindReceiver` says whether its lookup succeeds; a failed lookup leaves it 0, and `callUnallocated` then calls nothing.

Each lock section is one atomic step. The two locks guard disjoint maps, so this gives exactly the exclusion the code has.

Actions:
- `Store` is `storeUnallocationInfoTag` (from `recordUnallocation2`).
- `RecordUnallocation0` is `storeUnallocationInfo`: `SetTag` when `jvmti` is set (nothing but a message when it is not), or `Store` with the identityHashCode in a build without JVMTI.
- `ObjectFreeHandler` is the `ObjectFree` event of a tagged object, only when `freeEvents` holds.
- `UnallocateTake` is `unallocate` up to the unlock of `unallocationLock`.
- `UnallocateFree` is `freeUnallocationInfo`.
- `TransferTake` is `initUnallocatedMethod` and the copy-and-clear under `freeLock`.
- `Deliver` is one `callUnallocated` of the loop (`CallUnallocated`).
- `DeliverDone` is the end of the loop.

`CreateTagInfo`, `GetSize` and `GetRecId` model the jint/jlong packing at width `HalfBits` (32 in the code, 4 in the runs). They cover truncation, sign extension, `|` from the community module `Bitwise`, and the arithmetic shift.

`UnallocationCounter` is what the tracker promises (spec §9): `Notify(o)` adds an object's bytes to a per-recId counter, and `Drain` hands the whole counter to the consumer and empties it. Counters are bags (`Bags`, `(+)`). `Unallocation` instantiates it with `notified` = the objects whose unallocation completed, `counted` = `agg`, and `handed` = `delivered` plus the drains' copies (`Handed`); `CounterRefinement == Counter!Spec` is checked as a PROPERTY. `UnallocationCounter` models the spec, not code, and has no map entry.

`MCUnallocation` sets up three layouts of objects and tags:
- distinct tags in distinct buckets;
- tags 0 and 8, which share a probe chain;
- two objects with tag 0, the tag `systemHashCode` returns for every object (see Findings).

### `Win32Gatherer` — the stateful win32 metrics of `data_gatherer_win32.cc`
The calls whose answers depend on earlier calls: `getCurrentSystemLoad` (`_calcCpuLoad`), the network metrics (`queryData` with the lazy `createNetworkCounter`), the processor-speed query (`comValue` with the lazy `initializeCom`), and `done()`.

State:
- `lib`: `"loaded"` until `done()` runs from `JNI_OnUnload`, then `"unloaded"`.
- COM: `comInits` (successful `CoInitializeEx` calls), `locator`, `service` (null or set).
- Network: `query` (`NetworkQuery`: `"none"`, `"null"` after a failed `PdhOpenQuery`, `"open"`, `"closed"`), `counters` (the `networkCounter` vector: per matched adapter whether `hBandwidth`/`hTotal` were added), `last` (`lastBandwidth/lastUtilization/lastUsage`).
- CPU: the system times `sysKernel/sysUser/sysIdle` (kernel time includes idle), the saved `ftSys*`, `firstRunLoad`, `lastCpuLoad`.
- Results: `netRet`, `cpuRet`. The history variables `roundUtils` (the utilities the last `queryData` computed) and `lastValidRet` (the triple of the last call that computed any) exist for the properties only.

A double is kept as a fraction `[num, den]`. `den = 0` is NaN when `num = 0` and +inf otherwise, and `Greater` is IEEE `>` on these (every comparison with NaN is false). The adapter data is abstracted: a bandwidth is drawn from `Bandwidths`, a total from `Totals`, each either read or failed (-1); which PDH instances match an IP-helper adapter is a nondeterministic subset.

Actions:
- `Tick`: the OS accumulates a kernel, user or idle tick, bounded by `MaxTicks`.
- `CalcCpuLoad`: all of `_calcCpuLoad` (`GetSystemTimes` may fail; first run returns 0; the NaN filter; the save of the times). The deltas go through `SubtractTime`, the `FILETIME` difference of `subtractTime`.
- `ComValue`: `comValue`, including `initializeCom`, whose failure after `CoInitializeEx` is one of its outcomes; bounded by `MaxComInits`.
- `QueryData`: all of `queryData`: the lazy `createNetworkCounter` (`CreateNetworkCounter`), `PdhCollectQueryData` and `GetIfTable` (a failure of either reads nothing), the loop over the counters (`SelectBusiest`, a `FoldLeft` of `Consider` over the counter sequence), the save and the fallback.
- `Done`: `done()`: release of the COM pointers, `CoUninitialize` when one was set, `PdhCloseQuery`, and the deletion of the counters.

`MCWin32Gatherer` uses two PDH instances, bandwidths `{0, 10}` and totals `{0, 1}`.

### `Lifecycle` — the memory of the static maps from load to exit
Three static maps are instances of `HashMap`: `aggregatedUnallocationMap` (`Agg`: `capacity`, `n`, `slot`), and the posix `threadInfo` (`Thr`) and `prevProcInfo` (`Proc`). The constant `Android` selects the Android build, in which posix `done()` (from `JNI_OnUnload`) also runs `done()` on `threadInfo` and `prevProcInfo`; elsewhere `threadInfo` is compiled out. The heap is abstracted to what ownership needs:
- `elts`: element blocks (`new Elt`) allocated by the maps or their copies and not deleted;
- `arrFreed[m]`: how often `delete _e` ran on map `m`'s current array;
- `phase`: `"loaded"`, `"unloaded"` after `JNI_OnUnload`, `"exited"` after the static destructor;
- `infos`: `ProcessInfo` objects allocated by `_getProcessProcessorLoad` and not deleted. On Android, `done()` deletes the value of every slot the map's iterator visits (`Iterated`, every non-empty slot below `_capacity`) before `prevProcInfo.done()` (`DeletedInfos`). Elsewhere they live until the process ends. No property is stated on `infos`: the iterator reaches every slot, unlike `done()`, and the run's trace is about the elements.

`DoneFrees` is the loop of `HashMap::done()`, which runs over `i < _n`, not over `_capacity`. `Done` deletes those elements and the array and resets nothing. `CopyAllocs` is the copy constructor (one `new Elt` per element).

Actions:
- `TransferToAggMap(r, s)`: `transferToAggMap`, an insert (a new element) or an add through `findp`.
- `Drain`: the memory part of `transferAggregatedUnallocationToJava`: the deep copy `tmp`, `clear()` of the map, `delete tmp`. Its locks and callbacks are in `Unallocation`.
- `RegisterThread(id, reg)`: Android `registerThread`: insert when `findp` misses, else `remove()`, which deletes nothing when the id cannot be found.
- `GetProcessProcessorLoad(p)`: `new ProcessInfo()` and its insert into `prevProcInfo` on a miss.
- `OnUnload`: `JNI_OnUnload`, whose `doneUnallocation()` calls `done()` on the aggregated map and whose `done()` (`PlatformDone`) on the Android maps.
- `Exit`: the process exit, where every static `~HashMap` (`StaticMaps`) calls `done()` again, with or without `JNI_OnUnload` before it.

`MCLifecycle` uses recIds `{0, 128}`: at capacity 8, key 128 probes to slot 3, above `_n = 2`, so the slots `done()` skips are reached. Thread ids `{1, 9}` share a probe chain: 1 takes slot 1 and 9 steps to slot 2, so removing 1 leaves 9 unfindable.

### `Win32ComGatherer` — the WMI variant `data_gatherer_win32_com.cc`
State:
- `lib`, `comInits`, `locator`, `service`: as in `Win32Gatherer`.
- `refresher` and `penum`: `pRefresher` and `pEnum`, set up lazily by `_getProcessCPULoad`.
- `lastQuery`: the record of the last metric call: the metric, whether every instance was read, the data `comQuery` left, the reference aggregate and the result. `loadRet` is the last process load.

Operators:
- `Calculate` is `calculate()`: the reset at `enumCount = 0`, then FIRST, MIN, MAX, SUM or AVERAGE at the property's width (`% 2^w`).
- `Enumerate`/`ComQuery`/`Averaged` are the instance loop of `comQuery`. A failed `Get` leaves the field as it was, which at first is any value of `Garbage` (the uninitialised stack).
- `Items` gives the eight queried metrics their items, and `ResultOf` what the caller returns from the data. For example, the volume use is `data[0]-data[1]` in uint64.
- `MaxNetSpeedOf` is `getMaxNetSpeed`: the reset of `maxNetSpeed`, then the chain of `estimateMaxSpeed` over the bases, as a `FoldLeft`.
- `ScanResults`, `ProcessorQueryResults` and `MyLoad` are the two WQL parts of `_getProcessCPULoad`. `AsInt` reads the all-ones DWORD as -1, and `MyLoad` is the IEEE double result.

Actions:
- `Query(m)`: one metric call, including `initializeCom`, whose outcomes are a failure or the set-up.
- `ProcessCpuLoad(pid)`: all of `_getProcessCPULoad`. It covers the lazy refresher (`RefresherSetup`, exits -2/-3/-4, never retried once `pRefresher` is set), `Refresh` (-5), `GetObjects` (0 objects), the handle and `ReadDWORD` reads (-6/-7) and the processor query.
- `Done`: `done()`, which releases the four pointers and calls `CoUninitialize` when any was set.

`MCWin32ComGatherer` scales the widths to 3/3/4/8 bits and the bases to 1, 2, 4. The property values are `{1, 3, 5}` (two 5s overflow 3 bits; a speed of 3 lies between the bases 2 and 4), the garbage `{0, 6}`, and the loads `{0, 50}`, with up to 2 instances and 2 processors.

## 3. Runs

| Run | cfg | Expect | Checks | Shows |
|---|---|---|---|---|
| hashmap_store | MCHashMap_store | pass | `TypeOK`, `ProbeTerminates`, `MapRefinement` | With insert/update/clear only (the use of prevProcInfo and the aggregated unallocation map), every probe ends and the table is a correct map through growth 8→16 and rehash. |
| load_posix | MCProcessLoad_posix | pass | `LastLoadFinite` | 2 threads, 2 pids, 3 ticks, 2-bit counters, one pid handed to a new process: whatever the interleaving, lastLoad stays finite. |
| load_shared_window | MCProcessLoad_shared_window | violation | `LoadAtMost100` | One thread, two pids: p1 saves, p1 runs, p2 saves, p1's next call divides p1's ticks since its save by the system ticks since p2's. The result is 200%. |
| load_concurrent_wrap | MCProcessLoad_concurrent_wrap | violation | `WindowForward` | Two threads, one pid: t2 samples, t1 samples later and saves, then t2 subtracts the newer saved sample from its older one. |
| unalloc_conservation | MCUnallocation_conservation | pass | `TypeOK`, `Conservation`, `DrainedEventually`, `CounterRefinement` | Three objects, two drain threads, every `JNI_OnLoad` outcome, JNI and JVMTI stores mixed: every unallocated byte is delivered, pending, in a drain's copy, or between the two locks of an `unallocate`, exactly once and under its own recId. Under the fairness below, every such byte reaches the Java receiver, and the tracker implements the spec §9 counter. |
| unalloc_hole | MCUnallocation_hole | violation | `Conservation` | Store tag 8, then tag 0 (slot 1). Unallocate 8, which empties slot 0. Unallocate 0: findp misses, so 1 byte is never reported. |
| unalloc_shared_tag | MCUnallocation_shared_tag | violation | `Conservation` | Two objects with tag 0: the merged info carries recId 1 only, and the first unallocation moves recId 0's byte to recId 1. |
| win32_calls | MCWin32Gatherer_calls | pass | `TypeOK`, `CpuLoadIsPercent`, `NetFallback` | Any sequence of system-load, network and processor-speed calls, with failing reads, a failed or partial counter creation and a final `done()`: the system load is always a finite percentage, and a network call that reads no adapter answers with the last triple read. |
| net_busiest | MCWin32Gatherer_busiest | violation | `NetBusiest` | Adapter 1 shows bandwidth 0 and total 0, so its utility is NaN. It is taken as the first adapter considered, and adapter 2 (utility 0) cannot beat a NaN: the call reports bandwidth 0 and utilization NaN. |
| lifecycle_double_done | MCLifecycle_double_done | violation | `FreedExactlyOnce` | Android build: `JNI_OnUnload` runs `done()` on the static maps, and the exit runs it again: an array is deleted twice. The same run also reaches the leak (with 0 and 128 inserted, `done()` frees only slot 0) and the `threadInfo` element that `remove()` cannot find. |
| com_calls | MCWin32ComGatherer_calls | pass | `TypeOK`, `AggregateIsReference`, `MaxNetSpeedCovers` | Any sequence of metric, process-load and `done()` calls with failing COM set-up, queries and reads: a fully read query folds to the reference sum, maximum or mean, and the estimated maximum network speed covers the current one unless it is beyond the last base. |
| load_win32_infinite | MCProcessLoad_win32_infinite | violation | `LastLoadFinite` | win32: two pids asked within one tick give the second a zero system window and a positive process delta, so +inf is stored. |

Each property of a passing run has a mutant in `PROJECT.json`: an operator defined before the mapped definition, which models a plausible bug. TLC finds the property violated when the mutant replaces the definition:
- `Grown`→`GrownNoFloor`: `clear()` makes 0 slots.
- `Rehash`→`RehashSameIndex`: no re-bucketing.
- `OrOne`→`NoOr`: the step without `| 1`, which is 0 for small keys, so `bucket()` spins.
- `PosixNextLoad`→`Win32NextLoad`: the `sysTotal > 0` guard is dropped.
- `GetRecId`→`GetRecIdHigh`: getters swapped.
- `Transferable`→`TransferableInverted`: `if (local == 0)`.
- `Grown`→`GrownNoFloor` under `unalloc_conservation`, which breaks the tag table's type.
- `ValidReading`→`ValidReadingEnabledOnly`: the `bandwidth >= 0 && total >= 0` test dropped, so a failed read (-1) becomes a negative utility.
- `NextCpuLoad`→`NextCpuLoadNoGuard`: no `isnan` test, so an empty window stores NaN in `lastCpuLoad`.
- `Saves`→`SavesAlways`: the `considered > 0` guard dropped, so a call that read nothing overwrites the last triple with zeros.
- `Transferable`→`TransferableInverted` under `unalloc_conservation` also breaks `DrainedEventually`.
- `Calculate`→`CalculateNoReset`: no reset at `enumCount = 0`, so the garbage is kept in the sum.
- `EstimateStart`→`EstimateStartKept`: `maxNetSpeed = 0` dropped, so the static maximum of the last call is kept and the chain stops early.
- `Done`→`DoneUninitAlways`: `CoUninitialize` without the test that a pointer was set.
- `InitUnallocatedMethod`→`InitUnallocatedMethodLost`: the lookup result never cached, so every `callUnallocated` is skipped and drained bytes vanish: `CounterRefinement` fails, since the counter was emptied but nothing was handed on.

### Bounds and why they are enough
- **HashMap.** Capacity 16. This covers the first growth, where rehash order matters, and the clear-then-grow cycle. Keys are chosen so that every probe chain collides at capacity 8.
- **Process load, ticks.** 3 ticks. This is enough for a save, a tick, a save by another pid and a tick.
- **Process load, pid reuse.** One reuse in `load_posix`: after it the reused pid's next call subtracts a larger saved count and the 2-bit difference wraps, which is the case `LastLoadFinite` must survive. The run takes about 2 minutes (9.2 million distinct states).
- **Process load, counter width.** 2 bits, so a backwards delta wraps within the bound. Only `WindowForward` is about wrap-around, and it is stated independently of the width: the window must not go backwards. `LoadAtMost100` in `load_shared_window` is violated without any wrap.
- **Win32Gatherer.** Two instances are the least for a selection between adapters. Bandwidth 0 and 10 with totals 0 and 1 give NaN, +inf, 0 and a positive finite utility. 2 ticks allow an empty and a non-empty window after the first call; 2 COM initializations allow a failed `initializeCom` followed by a retry. The calls run are unbounded otherwise. `CHECK_DEADLOCK FALSE`: after `done()` the library is unloaded and no call can come, which is the real end of a run.
- **Unallocation.** Three objects and two drain threads; `Jvmti = TRUE`, so every `JNI_OnLoad` outcome (no environment, no event, all set) is an initial state, and `recordUnallocation0` and `recordUnallocation2` interleave. `CanFindReceiver = TRUE`: with a failed lookup every drain loses its bytes, which is listed as a hazard.
- **Lifecycle.** Capacity 8, two recIds, thread ids `{1, 9}`, one pid, sizes `{1}`, values up to 2. One key above `_n` is enough for the leak and one unload for the double `done()`. `CHECK_DEADLOCK FALSE`: after the exit nothing can happen.
- **COM variant.** Widths of 3, 3, 4 and 8 bits let a sum of two values overflow, and the DWORD sentinel read as -1. Three bases at factor 2 let the estimate stop at the first, a middle or no base. `CHECK_DEADLOCK FALSE` for the same reason as `Win32Gatherer`.
- **Threads and pids.** Two threads and two pids is the least that shows both cross-pid and same-pid interference.

### Fairness
Only `unalloc_conservation`, for `DrainedEventually`, assumes fairness. It assumes weak fairness of:
- `UnallocateFree(o)`: a thread that has left `unallocationLock` goes on to `freeLock`. This is the next statement of a running call, and no lock is held across it.
- The drain steps `TransferTake`, `Deliver` and `DeliverDone`. Once a drain has begun, its loop runs to the end. That the receiver calls `receiveUnallocations0` again and again is an assumption about the Java side (its polling receiver), not something this code guarantees.

Everything else is safety. The library has no scheduler of its own: whether a call ever comes is up to the JVM callers.

## 4. Findings
All eight are recorded in `PROJECT.json`:
- the double `done()` of the static HashMaps (`JNI_OnUnload`, then `~HashMap`; on Android all three modelled maps), and the leak of elements above `_n`;
- the shared system window;
- the unlocked read-compute-write;
- the win32 +inf process load;
- the NaN/+inf utility of a zero-bandwidth adapter, which wins or blocks the busiest-adapter selection;
- lost unallocations through the `remove()` hole, which ends the probe chain of every key stored after the removed one;
- recId misattribution on shared identityHashCodes;
- `systemHashCode` looks up the static `System.identityHashCode` with `GetMethodID` (`unallocationinfo_common.cpp:15`). The lookup never succeeds, so it returns 0 and every object of a non-JVMTI build gets tag 0. The shared-tag misattribution then happens for any two live objects, and the sizes of all of them add up in one 32-bit size field.

The HashMap bug and the three unallocation bugs are bugs against what a map and a byte counter promise. The rest are divergences from spec.md §3, §4.1, §4.2, §5 and §8.

## 5. Not modelled, and why
- **String and I/O code.** This includes `/proc` parsing, WMI queries, PDH/IP-helper adapter name matching (`normalizeNwName`, `GetAdapterName`), screen/volume/battery reads and JNI marshalling. These are data conversions with no state between calls. A model of them would say nothing a unit test does not.
- **In `data_gatherer_win32_com.cc`:** `init()`, `calcCpuLoad`, `_calcProcessCPULoad` and `testWQL`, which no entry point calls. Its crashes (the NULL `apEnumAccess[0]`, `Release` of an uninitialised enumerator) are hazards, not states.
- **`unallocationInfoMap` in `Lifecycle`.** It goes through the same `HashMap::done()` twice as the three maps modelled.
- **JVMTI disposal and `clearUnallocatedJni`.** `JNI_OnUnload` disposes the environment while an `ObjectFree` callback may run; after that nothing in the model could happen. It is a hazard.
- **The legacy `GetSystemTimesImpl` path** of `Win32Gatherer`, which calls a NULL function pointer when `GetSystemTimes` is missing; it is a crash, a hazard.
- **`unallocationinfo_detail.cc`**, a variant without the locks, which the build does not compile.
- **The share of code mapped.** What is left unmapped is almost all stateless: parsing and formatting, WMI/PDH/IP-helper calls whose results are abstracted to small sets, JNI argument marshalling, and code no entry point reaches (`init()`, `calcCpuLoad` of the COM variant, the detail variant). Mapping it would take definitions that restate I/O, not behaviour. The map covers about 27% of the source lines; the state the entry points keep between calls is modelled, apart from what this section lists, and the rest stays unmapped rather than restated. This also holds for the Gears JavaScript binding (`js_data_gatherer.cc`), which only copies one `gatherData` result into a JavaScript object, and for the `locutor.cc` test main.
- **The `_n` drift of `remove()`.** It costs memory and probe length. `unalloc_hole` shows what `remove()` does to lookups.
- **Concurrent win32 calls.** `Win32Gatherer` makes each call one step. `_calcCpuLoad` and `queryData` have the same unlocked read-compute-write as the process load, which `load_concurrent_wrap` shows; they are hazards in `PROJECT.json`.
- **The processor-speed value.** `getCurrentProcessorSpeed` can return an uninitialized `ui32Result`; the WMI result is data the model abstracts.
- **The race inside the hash table itself.** Two threads running `insert()` concurrently is a data race, which is undefined behaviour. `ProcessLoad` makes lookup-or-create one step, so it under-approximates the races of the real code. Even so, the violations above already appear.
- **posix data read.** The posix non-Android build reads `table.cstime` (children's system time) as the process kernel time. This is a data-selection matter, not a behaviour a model checker would distinguish.

## 6. Plan (in order of importance)
1. **COM variant.** A property on the range of the process load (the negative and NaN results are hazards today), and the `initializeCom` race as two steps.
2. **Network selection and system load.** Concurrent calls of `_calcCpuLoad`/`queryData` as separate read and write steps, and the posix `getCurrentSystemLoad`.
3. **Unallocation.** `CanFindReceiver = FALSE` and the JVMTI disposal race with `ObjectFree`.
4. **HashMap completeness.** `operator=` shares element pointers with its source; no code uses it.
