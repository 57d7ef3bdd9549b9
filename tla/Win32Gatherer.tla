--------------------------- MODULE Win32Gatherer ---------------------------
(***************************************************************************)
(* The process-wide singletons of src/gearsBridge/data_gatherer_win32.cc   *)
(* and the calls that use them:                                            *)
(*   - the WMI connection (locator, service), set up lazily by             *)
(*     initializeCom() from comValue(), used by getCurrentProcessorSpeed;  *)
(*   - the network query (NetworkQuery, networkCounter, last values), set up *)
(*     lazily by createNetworkCounter() from queryData(), which the three  *)
(*     network metrics call;                                               *)
(*   - the system CPU load window (ftSys*, firstRunLoad, lastCpuLoad) of   *)
(*     _calcCpuLoad(), called by getCurrentSystemLoad;                     *)
(*   - done(), run once by JNI_OnUnload, which releases them.              *)
(* Every call is one step, as for callers that do not overlap; the code    *)
(* takes no lock.  The prevProcInfo part of done() belongs to the process *)
(* load store of ProcessLoad.tla.  init() is not called by the JNI layer.  *)
(***************************************************************************)
EXTENDS Integers, Sequences, SequencesExt

CONSTANTS
    Instances,    \* adapter instances PdhExpandCounterPath lists, in its order
    Bandwidths,   \* values the "Current Bandwidth" counter can show (bit/s)
    Totals,       \* values the "Bytes Total/sec" counter can show
    MaxTicks,     \* bound on the busy (kernel + user) ticks of the system
    MaxComInits   \* bound on the CoInitializeEx calls that succeed

ASSUME Instances \subseteq Nat /\ Bandwidths \subseteq Nat /\ Totals \subseteq Nat

VARIABLES
    lib,          \* "loaded", or "unloaded" once done() has run
    comInits,     \* CoInitializeEx calls that succeeded, less CoUninitialize calls
    locator,      \* IWbemLocator *locator: "null", "live" or "released"
    service,      \* IWbemServices *service: likewise
    query,        \* HQUERY NetworkQuery: "null", "open" or "closed"
    counters,     \* networkCounter: <<[id, hB, hT]>>, hB/hT = handle is not 0
    last,         \* lastBandwidth, lastUtilization, lastUsage
    netRet,       \* history: the triple the last queryData() chose its result from
    roundUtils,   \* history: utilizations of the adapters read validly in that call
    lastValidRet, \* history: netRet of the last call with a valid adapter reading
    sysKernel, sysUser, sysIdle,  \* what GetSystemTimes reports
    ftSys,        \* ftSysKernel, ftSysUser, ftSysIdle
    firstRunLoad, lastCpuLoad,
    cpuRet        \* history: the result of the last _calcCpuLoad()

comVars == <<comInits, locator, service>>
netVars == <<query, counters, last, netRet, roundUtils, lastValidRet>>
sysVars == <<sysKernel, sysUser, sysIdle>>
cpuVars == <<ftSys, firstRunLoad, lastCpuLoad, cpuRet>>
vars == <<lib, comVars, netVars, sysVars, cpuVars>>

---------------------------------------------------------------------------
(* Doubles.  A quotient num/den of naturals, with IEEE 754 division by 0: *)
(* 0/0 is NaN and x/0 is +inf for x > 0.                                  *)
Zero == [num |-> 0, den |-> 1]
IsNaN(r) == r.num = 0 /\ r.den = 0
Finite(r) == r.den # 0

(* a > b on doubles: false when either is NaN. *)
Greater(a, b) ==
    CASE IsNaN(a) \/ IsNaN(b) -> FALSE
      [] ~Finite(a)           -> Finite(b)
      [] ~Finite(b)           -> FALSE
      [] OTHER                -> a.num * b.den > b.num * a.den

(* utility = (total * 8 / bandwidth) * 100 *)
Utility(bandwidth, total) == [num |-> total * 8 * 100, den |-> bandwidth]

NoReading == -1      \* bandwidth/total stay -1 when a counter cannot be read

Triple(bw, util, usage) == [bw |-> bw, util |-> util, usage |-> usage]
ZeroTriple == Triple(0, Zero, 0)

Counter == [id : Instances, hB : BOOLEAN, hT : BOOLEAN]

(* What one query round reads for an adapter: isAdapterEnabled() and the *)
(* two formatted counter values (NoReading when status or CStatus is bad); *)
(* the values of a disabled adapter are not read.                         *)
Reading == {[en |-> FALSE, bw |-> NoReading, tot |-> NoReading]}
           \cup [en : {TRUE}, bw : {NoReading} \cup Bandwidths,
                 tot : {NoReading} \cup Totals]

---------------------------------------------------------------------------
(* createNetworkCounter(false) with NetworkQuery null: the pairs           *)
(* <<NetworkQuery, networkCounter>> it can leave.  PdhOpenQuery fails; or  *)
(* a name lookup, PdhMakeCounterPath or PdhExpandCounterPath fails after   *)
(* the query is open; or networkCounter is rebuilt from the instances      *)
(* GetAdapterName matches, in enumeration order, each PdhAddCounter        *)
(* leaving its handle 0 on failure.                                         *)
CreateNetworkCounter(cs) ==
    LET Rebuilt(s, hb, ht) ==
            [i \in 1 .. Len(s) |-> [id |-> s[i], hB |-> s[i] \in hb, hT |-> s[i] \in ht]]
    IN  {<<"null", cs>>, <<"open", cs>>}
        \cup UNION {{<<"open", Rebuilt(SetToSortSeq(matched, <), hb, ht)>> :
                        hb \in SUBSET matched, ht \in SUBSET matched} :
                     matched \in SUBSET Instances}

(* The values of a counter pair this round: -1 unless its handle is set. *)
BwOf(c, rd) == IF c.hB THEN rd[c.id].bw ELSE NoReading
TotOf(c, rd) == IF c.hT THEN rd[c.id].tot ELSE NoReading

(* Mutant: the bandwidth >= 0 && total >= 0 test dropped. *)
ValidReadingEnabledOnly(c, rd) == rd[c.id].en

(* isAdapterEnabled() and both values read: bandwidth >= 0 && total >= 0. *)
ValidReading(c, rd) == rd[c.id].en /\ BwOf(c, rd) >= 0 /\ TotOf(c, rd) >= 0

NoneSelected == [considered |-> 0, sel |-> ZeroTriple]

(* One iteration of queryData()'s loop over networkCounter. *)
Consider(acc, c, rd) ==
    LET u == Utility(BwOf(c, rd), TotOf(c, rd))
    IN  IF ValidReading(c, rd)
        THEN [considered |-> acc.considered + 1,
              sel |-> IF acc.considered = 0 \/ Greater(u, acc.sel.util)
                      THEN Triple(BwOf(c, rd), u, TotOf(c, rd))
                      ELSE acc.sel]
        ELSE acc

(* The loop: considered and maxBandwidth/maxUtilization/maxUsage. *)
SelectBusiest(cs, rd) == FoldLeft(LAMBDA acc, c : Consider(acc, c, rd), NoneSelected, cs)

(* Mutant: the last values saved whether or not an adapter was read. *)
SavesAlways(ok, considered) == ok

(* if (considered > 0) inside if (Status == ERROR_SUCCESS) *)
Saves(ok, considered) == ok /\ considered > 0

---------------------------------------------------------------------------
(* subtractTime(): the FILETIMEs as 64-bit counts, subtracted.  The      *)
(* GetSystemTimes counts only grow and are saved after each read, so the *)
(* ULONGLONG difference never wraps here.                                *)
SubtractTime(a, b) == a - b

(* Mutant: the isnan() test dropped. *)
NextCpuLoadNoGuard(rate, last0) == rate

(* if (isnan(usage)) usage = lastCpuLoad; else lastCpuLoad = usage; *)
NextCpuLoad(rate, last0) == IF IsNaN(rate) THEN last0 ELSE rate

(* initializeCom(): the <<comInits, locator, service>> it can leave.  It  *)
(* returns at once when either pointer is set; otherwise CoInitializeEx  *)
(* fails, or it succeeds and CoInitializeSecurity or CoCreateInstance     *)
(* fails (locator stays 0), or ConnectServer fails (service = 0).         *)
InitializeCom ==
    IF service # "null" \/ locator # "null"
    THEN {<<comInits, locator, service>>}
    ELSE {<<comInits, "null", "null">>, <<comInits + 1, "null", "null">>,
          <<comInits + 1, "live", "null">>, <<comInits + 1, "live", "live">>}

(* Release() on a non-null pointer, which done() leaves set. *)
Released(p) == IF p = "live" THEN "released" ELSE p

---------------------------------------------------------------------------
Init ==
    /\ lib = "loaded"
    /\ comInits = 0 /\ locator = "null" /\ service = "null"
    /\ query = "null" /\ counters = <<>> /\ last = ZeroTriple
    /\ netRet = ZeroTriple /\ roundUtils = {} /\ lastValidRet = ZeroTriple
    /\ sysKernel = 0 /\ sysUser = 0 /\ sysIdle = 0
    /\ ftSys = [kernel |-> 0, user |-> 0, idle |-> 0]
    /\ firstRunLoad = TRUE /\ lastCpuLoad = Zero /\ cpuRet = Zero

(* The system runs: kernel, user or idle time passes; idle time is part *)
(* of the kernel time GetSystemTimes reports.                           *)
Tick ==
    /\ lib = "loaded"
    /\ sysKernel + sysUser < MaxTicks
    /\ \/ sysKernel' = sysKernel + 1 /\ UNCHANGED <<sysUser, sysIdle>>
       \/ sysUser' = sysUser + 1 /\ UNCHANGED <<sysKernel, sysIdle>>
       \/ sysKernel' = sysKernel + 1 /\ sysIdle' = sysIdle + 1 /\ UNCHANGED sysUser
    /\ UNCHANGED <<lib, comVars, netVars, cpuVars>>

(* getCurrentProcessorSpeed -> comValue(): initializeCom(), then a WMI   *)
(* query through service if it is not 0; the query's result is data.    *)
ComValue ==
    /\ lib = "loaded"
    /\ \E o \in InitializeCom :
         /\ o[1] <= MaxComInits
         /\ comInits' = o[1] /\ locator' = o[2] /\ service' = o[3]
    /\ UNCHANGED <<lib, netVars, sysVars, cpuVars>>

(* getCurrentNetSpeed / getMaxNetSpeed / getNetUtilization -> queryData(): *)
(* create the counters if NetworkQuery is null, collect, read every       *)
(* enabled adapter, keep the busiest, save it as the last values if one  *)
(* was read, else answer from the last values.  A failed GetIfTable reads *)
(* as no adapter enabled.  The function argument only picks one value.   *)
QueryData ==
    /\ lib = "loaded"
    /\ \E created \in IF query = "null" THEN CreateNetworkCounter(counters)
                                        ELSE {<<query, counters>>},
          collectOk \in BOOLEAN, rd \in [Instances -> Reading] :
         LET cs      == created[2]
             ok      == created[1] = "open" /\ collectOk
             acc     == IF ok THEN SelectBusiest(cs, rd) ELSE NoneSelected
             newLast == IF Saves(ok, acc.considered) THEN acc.sel ELSE last
             ret     == IF acc.considered = 0 THEN newLast ELSE acc.sel
             utils   == {Utility(BwOf(cs[i], rd), TotOf(cs[i], rd)) :
                           i \in {j \in 1 .. Len(cs) : ok /\ ValidReading(cs[j], rd)}}
         IN  /\ query' = created[1]
             /\ counters' = cs
             /\ last' = newLast
             /\ netRet' = ret
             /\ roundUtils' = utils
             /\ lastValidRet' = IF utils # {} THEN ret ELSE lastValidRet
    /\ UNCHANGED <<lib, comVars, sysVars, cpuVars>>

(* getCurrentSystemLoad -> _calcCpuLoad(): if GetSystemTimes succeeds,    *)
(* compute 100 * (busy / total) over the window since the saved times     *)
(* (not on the first run), save the times, and on the first run answer 0. *)
CalcCpuLoad ==
    /\ lib = "loaded"
    /\ \E ok \in BOOLEAN :
         IF ~ok
         THEN /\ cpuRet' = Zero
              /\ UNCHANGED <<ftSys, firstRunLoad, lastCpuLoad>>
         ELSE LET kd    == SubtractTime(sysKernel, ftSys.kernel)
                  ud    == SubtractTime(sysUser, ftSys.user)
                  id    == SubtractTime(sysIdle, ftSys.idle)
                  rate  == [num |-> 100 * (kd + ud - id), den |-> kd + ud]
                  usage == IF firstRunLoad THEN Zero ELSE NextCpuLoad(rate, lastCpuLoad)
              IN  /\ lastCpuLoad' = usage
                  /\ cpuRet' = usage
                  /\ ftSys' = [kernel |-> sysKernel, user |-> sysUser, idle |-> sysIdle]
                  /\ firstRunLoad' = FALSE
    /\ UNCHANGED <<lib, comVars, netVars, sysVars>>

(* JNI_OnUnload -> done(): Release() every non-null COM pointer and       *)
(* CoUninitialize() once if any was, close NetworkQuery if it is not null, *)
(* free the counters and clear networkCounter.  No pointer is reset.       *)
Done ==
    /\ lib = "loaded"
    /\ LET comUsed == locator # "null" \/ service # "null"
       IN  /\ locator' = Released(locator)
           /\ service' = Released(service)
           /\ comInits' = IF comUsed THEN comInits - 1 ELSE comInits
    /\ query' = IF query = "open" THEN "closed" ELSE query
    /\ counters' = <<>>
    /\ lib' = "unloaded"
    /\ UNCHANGED <<last, netRet, roundUtils, lastValidRet, sysVars, cpuVars>>

Next == Tick \/ ComValue \/ QueryData \/ CalcCpuLoad \/ Done

Spec == Init /\ [][Next]_vars

---------------------------------------------------------------------------
(* Properties *)

Triples == [bw : Bandwidths \cup {0}, util : [num : Nat, den : Nat],
            usage : Totals \cup {0}]

(* The singletons hold values of the types of the code. *)
TypeOK ==
    /\ lib \in {"loaded", "unloaded"}
    /\ comInits \in 0 .. MaxComInits
    /\ locator \in {"null", "live", "released"} /\ service \in {"null", "live", "released"}
    /\ query \in {"null", "open", "closed"}
    /\ counters \in Seq(Counter)
    /\ last \in Triples /\ netRet \in Triples /\ lastValidRet \in Triples
    /\ firstRunLoad \in BOOLEAN

(* _calcCpuLoad() keeps lastCpuLoad, and returns, a finite percentage      *)
(* between 0 and 100, whatever the order of ticks, failed reads and calls: *)
(* the first run and an empty window fall back to a saved value.           *)
CpuLoadIsPercent ==
    \A r \in {lastCpuLoad, cpuRet} : Finite(r) /\ 0 <= r.num /\ r.num <= 100 * r.den

(* When no adapter can be read in a call of queryData() (collect or       *)
(* GetIfTable fails, every adapter is disabled or unreadable, or the      *)
(* counters could not be created), it answers with the triple of the last *)
(* call that read an adapter, not with zeros (spec 4.1, network).          *)
NetFallback == roundUtils = {} => netRet = lastValidRet

(* queryData() reports the busiest adapter: when some adapter read this   *)
(* call has a finite utilization, the reported one is finite and no       *)
(* smaller than any of them (spec 4.1 and the busiest-wins test of 8).    *)
NetBusiest ==
    \A u \in roundUtils :
        Finite(u) => Finite(netRet.util) /\ ~Greater(u, netRet.util)
=============================================================================
