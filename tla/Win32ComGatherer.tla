------------------------- MODULE Win32ComGatherer -------------------------
(***************************************************************************)
(* The WMI build of the Windows gatherer,                                  *)
(* src/gearsBridge/data_gatherer_win32_com.cc.  Its process-wide state is  *)
(* the COM pointers locator and service (set up lazily by initializeCom),  *)
(* pRefresher and pEnum (set up lazily by _getProcessCPULoad), and the     *)
(* balance of CoInitializeEx calls; done() releases them.  The metrics     *)
(* (processor speed, system load, volumes, network speed) are one call of  *)
(* comValue() each: a WQL query whose instances are folded into a          *)
(* ComValueData per property by calculate(), after which the caller turns  *)
(* the data into its result.                                               *)
(*                                                                         *)
(* Each call is one step: the code takes no lock, and the steps here are   *)
(* those of callers that do not overlap.  A WQL answer is a sequence of    *)
(* instances, each property value read or failed; an uninitialised        *)
(* ComValueData field or DWORD holds any value of Garbage.  Integer widths *)
(* and getMaxNetSpeed's bases are constants, scaled in MCWin32ComGatherer. *)
(* The functions no entry point calls (init, calcCpuLoad,                  *)
(* _calcProcessCPULoad, testWQL) are not modelled.                         *)
(***************************************************************************)
EXTENDS Integers, Sequences, FiniteSets, FiniteSetsExt, Functions, SequencesExt

CONSTANTS
    Values,       \* values a WMI property of a metric query can hold
    Garbage,      \* values of an uninitialised ComValueData field
    MaxInstances, \* bound on the instances a WQL query enumerates
    Bits,         \* [{"u16", "u32", "u64", "dword"} -> Nat]: integer widths
    FirstBase, BaseFactor, BaseSteps,  \* getMaxNetSpeed: 10000, 10 and 8
    Pids,         \* process ids getProcessProcessorLoad is asked for
    Processors,   \* bound on the processors Win32_Processor returns
    Loads,        \* LoadPercentage and PercentProcessorTime values
    MaxComInits   \* bound on the CoInitializeEx calls that succeed

ASSUME /\ Values \subseteq Nat /\ Garbage \subseteq Nat /\ Loads \subseteq 0 .. 100
       /\ 100 < 2 ^ (Bits["dword"] - 1)   \* a percentage is a positive int
       /\ MaxInstances \in Nat /\ Processors \in Nat \ {0}
       /\ Processors * 100 < 2 ^ 16   \* the uint16 processor-load sums never wrap

VARIABLES
    lib,          \* "loaded", or "unloaded" once done() has run
    comInits,     \* CoInitializeEx calls that succeeded, less CoUninitialize calls
    locator, service, refresher, penum,  \* "null", "live" or "released"
    lastQuery,    \* history: the last metric call (see QueryRecord)
    loadRet       \* history: the last result of _getProcessCPULoad

comVars == <<comInits, locator, service, refresher, penum>>
vars == <<lib, comVars, lastQuery, loadRet>>

---------------------------------------------------------------------------
(* comValue() and calculate(). *)

FUNCTION_FIRST_VALUE == 0
FUNCTION_MINIMIZE == -1
FUNCTION_MAXIMIZE == 1
FUNCTION_SUM == 2
FUNCTION_AVERAGE == 3

Fail == -1              \* object->Get() of the property failed (not in Nat)

(* A ComValueData without its result: the function and the result type. *)
Item(function, type) == [fn |-> function, ty |-> type]

(* The modulus of the item's unsigned result type. *)
Width(it) == 2 ^ Bits[it.ty]

(* Mutant: result starts from oldVal on the first instance too. *)
CalculateNoReset(oldVal, newVal, function, enumCount, w) ==
    LET result == oldVal
    IN  CASE function = FUNCTION_FIRST_VALUE -> newVal
          [] function = FUNCTION_MAXIMIZE ->
               IF enumCount = 0 \/ newVal > oldVal THEN newVal ELSE result
          [] function = FUNCTION_MINIMIZE ->
               IF enumCount = 0 \/ newVal < oldVal THEN newVal ELSE result
          [] function \in {FUNCTION_SUM, FUNCTION_AVERAGE} -> (result + newVal) % w
          [] OTHER -> result

(* calculate<T>(): 0 on the first instance, else oldVal; then the first  *)
(* value, the larger, the smaller, or the sum in T.                      *)
Calculate(oldVal, newVal, function, enumCount, w) ==
    LET result == IF enumCount = 0 THEN 0 ELSE oldVal
    IN  CASE function = FUNCTION_FIRST_VALUE -> newVal
          [] function = FUNCTION_MAXIMIZE ->
               IF enumCount = 0 \/ newVal > oldVal THEN newVal ELSE result
          [] function = FUNCTION_MINIMIZE ->
               IF enumCount = 0 \/ newVal < oldVal THEN newVal ELSE result
          [] function \in {FUNCTION_SUM, FUNCTION_AVERAGE} -> (result + newVal) % w
          [] OTHER -> result

(* One property of one instance: a first-value item is read only on the *)
(* first instance, and a failed Get leaves the field as it was.  The     *)
(* VARIANT is read as the field's type (uiVal, (uint32)uintVal).         *)
ReadItem(it, old, v, enumCount) ==
    IF /\ it.fn # FUNCTION_FIRST_VALUE \/ enumCount = 0
       /\ v # Fail
    THEN Calculate(old, v % Width(it), it.fn, enumCount, Width(it))
    ELSE old

(* The while (enumerator) loop: one iteration per instance Next returns. *)
RECURSIVE Enumerate(_, _, _, _)
Enumerate(items, data, insts, enumCount) ==
    IF enumCount = Len(insts) THEN data
    ELSE Enumerate(items,
                   [i \in DOMAIN items |->
                      ReadItem(items[i], data[i], insts[enumCount + 1][i], enumCount)],
                   insts, enumCount + 1)

(* if (hasAverage > 0 && enumCount > 0): divide every average by the   *)
(* number of instances, in the field's type.                            *)
Averaged(items, data, enumCount) ==
    [i \in DOMAIN items |->
       IF items[i].fn = FUNCTION_AVERAGE /\ enumCount > 0
       THEN data[i] \div enumCount ELSE data[i]]

(* comValue() with service set: ExecQuery fails and data stays as it     *)
(* was, or the instances are folded in.                                  *)
ComQuery(items, data, queryOk, insts) ==
    IF queryOk THEN Averaged(items, Enumerate(items, data, insts, 0), Len(insts))
               ELSE data

(* The WQL answers to a query for the properties of items. *)
Answers(items) ==
    UNION {[1 .. k -> [DOMAIN items -> Values \cup {Fail}]] : k \in 0 .. MaxInstances}

---------------------------------------------------------------------------
(* The metrics. *)

(* estimateMaxSpeed(): the base, if no estimate yet and the speed is below it. *)
EstimateMaxSpeed(curSpeed, base, estimatedMax) ==
    IF estimatedMax <= 0 /\ curSpeed < base THEN base ELSE estimatedMax

(* base = 10000, then base *= 10 after each of the eight calls. *)
Bases == [k \in 1 .. BaseSteps |-> FirstBase * BaseFactor ^ (k - 1)]

(* Mutant: the estimate starts from the MaxSpeed read. *)
EstimateStartKept(maxNetSpeed) == maxNetSpeed

(* maxNetSpeed = 0 before the chain. *)
EstimateStart(maxNetSpeed) == 0

(* getMaxNetSpeed(): a MaxSpeed below the current Speed is replaced by  *)
(* the first base above the speed, or 0 if there is none.              *)
MaxNetSpeedOf(maxNetSpeed, netSpeed) ==
    IF maxNetSpeed < netSpeed
    THEN FoldLeft(LAMBDA est, b : EstimateMaxSpeed(netSpeed, b, est),
                  EstimateStart(maxNetSpeed), Bases)
    ELSE maxNetSpeed

(* The ComValueData array each metric passes to comValue(). *)
Items ==
    [MaxProcessorSpeed     |-> <<Item(FUNCTION_SUM, "u32")>>,
     CurrentProcessorSpeed |-> <<Item(FUNCTION_AVERAGE, "u32")>>,
     CurrentSystemLoad     |-> <<Item(FUNCTION_AVERAGE, "u16")>>,
     VolumeCapacity        |-> <<Item(FUNCTION_SUM, "u64")>>,
     CurrentVolumeAvail    |-> <<Item(FUNCTION_SUM, "u64")>>,
     CurrentVolumeUse      |-> <<Item(FUNCTION_SUM, "u64"), Item(FUNCTION_SUM, "u64")>>,
     CurrentNetSpeed       |-> <<Item(FUNCTION_MAXIMIZE, "u64")>>,
     MaxNetSpeed           |-> <<Item(FUNCTION_MAXIMIZE, "u64"),
                                 Item(FUNCTION_MAXIMIZE, "u64")>>]

Metrics == DOMAIN Items

(* What each metric returns from the data comValue() left. *)
ResultOf(m, data) ==
    CASE m = "CurrentVolumeUse" -> (data[1] - data[2]) % 2 ^ Bits["u64"]
      [] m = "MaxNetSpeed"      -> MaxNetSpeedOf(data[1], data[2])
      [] OTHER                  -> data[1]

---------------------------------------------------------------------------
(* initializeCom(): the <<comInits, locator, service>> it can leave, as in *)
(* data_gatherer_win32.cc.                                                 *)
InitializeCom ==
    IF service # "null" \/ locator # "null"
    THEN {<<comInits, locator, service>>}
    ELSE {<<comInits, "null", "null">>, <<comInits + 1, "null", "null">>,
          <<comInits + 1, "live", "null">>, <<comInits + 1, "live", "live">>}

(* The lazy refresher set-up of _getProcessCPULoad when pRefresher is     *)
(* NULL: <<pRefresher, pEnum, result>>.  CoCreateInstance fails (-2);     *)
(* QueryInterface (-3) or AddEnum (-4) fails after pRefresher was set; or *)
(* both are set (result still -1, not an exit).                           *)
RefresherSetup ==
    {<<"null", "null", -2>>, <<"live", "null", -3>>, <<"live", "null", -4>>,
     <<"live", "live", -1>>}

(* DWORD dwPercentProcessorTime = -1: all ones. *)
AllOnes == 2 ^ Bits["dword"] - 1

(* (int) of a DWORD: two's complement. *)
AsInt(dword) == IF dword >= 2 ^ (Bits["dword"] - 1) THEN dword - 2 ^ Bits["dword"]
                                                   ELSE dword

(* What the loop over the refreshed objects ends with: ReadDWORD of an id *)
(* or of the pid's percentage fails (-7, exit), or every object was read  *)
(* and dwPercentProcessorTime holds the pid's value, or is still all ones *)
(* when no object has the pid.                                            *)
ScanOutcomes == [read : {FALSE}, pct : {AllOnes}]
                \cup [read : {TRUE}, pct : Loads \cup {AllOnes}]

(* A double as num/den, IEEE 754 division by 0 included: x/0 is +inf or *)
(* -inf by the sign of x, 0/0 is NaN.                                    *)
Double(num, den) == [num |-> num, den |-> den]

(* The end of _getProcessCPULoad: this processor's load, the others' sum *)
(* and procNr from the Win32_Processor query, and the process's percent. *)
MyLoad(thisLoad, otherLoad, procNr, percent) ==
    IF procNr = 1 \/ otherLoad = 0
    THEN Double(thisLoad * AsInt(percent), 100)
    ELSE LET sysLoad == (thisLoad + otherLoad) \div procNr   \* int division
         IN  Double(thisLoad * AsInt(percent), sysLoad)

(* The Win32_Processor loop: the loads of the processor the thread runs *)
(* on and of the others (a failed Get adds nothing), and procNr.        *)
ProcessorLoads(loads, processorNr) ==
    LET idx == {k \in DOMAIN loads : loads[k] # Fail}
    IN  <<FoldFunctionOnSet(+, 0, loads, {j \in idx : j - 1 = processorNr}),
          FoldFunctionOnSet(+, 0, loads, {j \in idx : j - 1 # processorNr}),
          Len(loads)>>

ProcessorAnswers ==
    UNION {[1 .. k -> Loads \cup {Fail}] : k \in 0 .. Processors}

---------------------------------------------------------------------------
NoQuery == [m |-> "none", allRead |-> FALSE, data |-> <<>>, ref |-> <<>>, ret |-> 0]

Init ==
    /\ lib = "loaded"
    /\ comInits = 0
    /\ locator = "null" /\ service = "null"
    /\ refresher = "null" /\ penum = "null"
    /\ lastQuery = NoQuery
    /\ loadRet = Double(0, 1)

(* The value a property takes over all instances, read independently of *)
(* the loop: the first, the largest, the smallest, the sum in the type,  *)
(* or that sum divided by the number of instances.                       *)
Reference(it, insts, i) ==
    LET vs  == [k \in DOMAIN insts |-> insts[k][i] % Width(it)]
        sum == FoldFunction(+, 0, vs) % Width(it)
    IN  CASE it.fn = FUNCTION_FIRST_VALUE -> vs[1]
          [] it.fn = FUNCTION_MAXIMIZE    -> Max(Range(vs))
          [] it.fn = FUNCTION_MINIMIZE    -> Min(Range(vs))
          [] it.fn = FUNCTION_SUM         -> sum
          [] it.fn = FUNCTION_AVERAGE     -> sum \div Len(vs)

(* What comValue() leaves and the call returns, as a history record: the *)
(* data after the query (through service if live), whether every         *)
(* instance answered every property, and the reference aggregate then.   *)
QueryRecord(m, live, data0, queryOk, insts) ==
    LET items == Items[m]
        data  == IF live THEN ComQuery(items, data0, queryOk, insts) ELSE data0
        read  == /\ live /\ queryOk /\ insts # <<>>
                 /\ \A k \in DOMAIN insts, i \in DOMAIN items : insts[k][i] # Fail
    IN  [m |-> m, allRead |-> read, data |-> data,
         ref |-> IF read THEN [i \in DOMAIN items |-> Reference(items[i], insts, i)]
                         ELSE <<>>,
         ret |-> ResultOf(m, data)]

(* A metric call m: initializeCom(), the WQL query through service if it *)
(* is set, and the metric's result.  data starts uninitialised.          *)
Query(m) ==
    /\ lib = "loaded"
    /\ \E c \in InitializeCom :
         /\ c[1] <= MaxComInits
         /\ comInits' = c[1] /\ locator' = c[2] /\ service' = c[3]
         /\ lastQuery' \in {QueryRecord(m, c[3] = "live", data0, queryOk, insts) :
                               data0 \in [DOMAIN Items[m] -> Garbage],
                               queryOk \in BOOLEAN, insts \in Answers(Items[m])}
    /\ UNCHANGED <<lib, refresher, penum, loadRet>>

(* The results of the processor query and the final computation, for the *)
(* percentage the scan left.                                             *)
ProcessorQueryResults(percent) ==
    {LET pl == ProcessorLoads(loads, processorNr)
     IN  MyLoad(pl[1], pl[2], pl[3], percent) :
        loads \in ProcessorAnswers, processorNr \in 0 .. Processors - 1}

(* With pRefresher and pEnum set: Refresh fails (-5); GetObjects returns *)
(* nothing, or its second call fails (0); GetPropertyHandle fails (-6);  *)
(* a ReadDWORD fails (-7); or the loop ends and the processor query runs *)
(* with the pid's percentage, or with all ones if no object has the pid. *)
ScanResults ==
    {Double(-5, 1), Double(0, 1), Double(-6, 1)}
    \cup UNION {IF ~scan.read THEN {Double(-7, 1)} ELSE ProcessorQueryResults(scan.pct) :
                scan \in ScanOutcomes}

(* getCurrentProcessProcessorLoad / getProcessProcessorLoad ->            *)
(* _getProcessCPULoad(pid): initializeCom(); exit with -1 if service is 0; *)
(* set up the refresher if pRefresher is NULL (exits -2, -3, -4); scan if  *)
(* pRefresher and pEnum are set; then, since a DWORD is always >= 0, the  *)
(* processor query, even when the scan was skipped.  The pid only decides *)
(* which object matches, which the scan outcomes leave open.              *)
ProcessCpuLoad(pid) ==
    /\ lib = "loaded"
    /\ \E c \in InitializeCom,
          setup \in IF refresher = "null" THEN RefresherSetup
                                          ELSE {<<refresher, penum, -1>>} :
         LET svc   == c[3]
             scans == setup[1] = "live" /\ setup[2] = "live"
         IN  /\ c[1] <= MaxComInits
             /\ comInits' = c[1] /\ locator' = c[2] /\ service' = svc
             /\ refresher' = IF svc = "live" THEN setup[1] ELSE refresher
             /\ penum' = IF svc = "live" THEN setup[2] ELSE penum
             /\ loadRet' \in
                  CASE svc # "live"              -> {Double(-1, 1)}
                    [] setup[3] \in {-2, -3, -4} -> {Double(setup[3], 1)}
                    [] scans                     -> ScanResults
                    [] OTHER                     -> ProcessorQueryResults(AllOnes)
    /\ UNCHANGED <<lib, lastQuery>>

(* Released() on a pointer that is not 0, which done() leaves set. *)
Released(p) == IF p = "live" THEN "released" ELSE p

(* Mutant: CoUninitialize() whether or not a pointer was set. *)
DoneUninitAlways ==
    /\ lib = "loaded"
    /\ comInits' = comInits - 1
    /\ locator' = Released(locator) /\ service' = Released(service)
    /\ refresher' = Released(refresher) /\ penum' = Released(penum)
    /\ lib' = "unloaded"
    /\ UNCHANGED <<lastQuery, loadRet>>

(* JNI_OnUnload -> done(): Release() every pointer that is not 0 and     *)
(* CoUninitialize() once if any was.                                     *)
Done ==
    /\ lib = "loaded"
    /\ LET comUsed == "live" \in {locator, service, refresher, penum}
       IN  comInits' = IF comUsed THEN comInits - 1 ELSE comInits
    /\ locator' = Released(locator) /\ service' = Released(service)
    /\ refresher' = Released(refresher) /\ penum' = Released(penum)
    /\ lib' = "unloaded"
    /\ UNCHANGED <<lastQuery, loadRet>>

Next ==
    \/ \E m \in Metrics : Query(m)
    \/ \E pid \in Pids : ProcessCpuLoad(pid)
    \/ Done

Spec == Init /\ [][Next]_vars

---------------------------------------------------------------------------
(* Properties *)

Pointer == {"null", "live", "released"}

(* The singletons hold values of the types of the code. *)
TypeOK ==
    /\ lib \in {"loaded", "unloaded"}
    /\ comInits \in 0 .. MaxComInits
    /\ {locator, service, refresher, penum} \subseteq Pointer
    /\ lastQuery.m \in Metrics \cup {"none"}
    /\ lastQuery.ret \in Nat

(* When every instance of a query answered every property, comValue()    *)
(* leaves in each ComValueData the aggregate over all instances (first,  *)
(* maximum, sum in the field's type, or its average), whatever the       *)
(* uninitialised field held before: calculate() must drop it on the      *)
(* first instance, and the average must divide by the instance count.    *)
AggregateIsReference == lastQuery.allRead => lastQuery.data = lastQuery.ref

(* getMaxNetSpeed() never reports a maximum below the current speed of   *)
(* the adapters it read, except 0 when that speed is beyond the largest  *)
(* base of the estimate chain.                                           *)
MaxNetSpeedCovers ==
    lastQuery.m = "MaxNetSpeed" /\ lastQuery.allRead =>
        \/ lastQuery.ret >= lastQuery.ref[2]
        \/ lastQuery.ret = 0 /\ lastQuery.ref[2] >= Bases[BaseSteps]
=============================================================================
