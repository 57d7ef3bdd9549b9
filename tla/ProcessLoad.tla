---------------------------- MODULE ProcessLoad ----------------------------
(***************************************************************************)
(* The per-process CPU load rate computer: _getProcessProcessorLoad of     *)
(* src/gearsBridge/jni/data_gatherer_posix.cpp and _calcProcessCPULoad of  *)
(* src/gearsBridge/data_gatherer_win32.cc, called by getProcessProcessor-  *)
(* Load(pid) and getCurrentProcessProcessorLoad() from any number of JVM   *)
(* threads at once, with no lock.                                          *)
(*                                                                         *)
(* A call has three steps, each a separate action so that calls of other  *)
(* threads interleave between them:                                        *)
(*   Lookup  find the pid's ProcessInfo in prevProcInfo, or create one;    *)
(*   Sample  read the process ticks and the system ticks;                  *)
(*   Update  compute the load from the deltas against prevSys* (one pair   *)
(*           of globals for all pids) and info->prevProc*, and save the    *)
(*           sample.                                                       *)
(* The HashMap behind prevProcInfo is modelled by HashMap.tla; here it is  *)
(* the partial function "known", and a lookup-or-create is one step.       *)
(* No code removes an entry: when a process exits and its pid is given  *)
(* to a new process (ReusePid), the entry keeps the old process's       *)
(* sample.                                                              *)
(*                                                                         *)
(* Ticks are user+kernel sums: deltas of sums equal sums of deltas modulo  *)
(* 2^Width, so one counter per entity keeps the unsigned wrap-around of    *)
(* the code.  A load 100 * num / den is kept as the pair [num, den].       *)
(***************************************************************************)
EXTENDS Integers

CONSTANTS
    Threads,    \* JVM threads calling the load functions
    Pids,       \* processes whose load is asked for
    Platform,   \* "posix" or "win32"
    MaxTicks,   \* bound on the system ticks elapsed, to keep the model finite
    Width,      \* bit width of the unsigned tick counters
    MaxReuses   \* bound on the pids given to a new process after an exit

ASSUME Platform \in {"posix", "win32"}
ASSUME MaxTicks \in Nat /\ Width \in Nat /\ MaxTicks < 2 ^ Width /\ MaxReuses \in Nat

Modulus == 2 ^ Width
Counter == 0 .. Modulus - 1

VARIABLES
    sysBusy,    \* system user+kernel ticks (/proc/stat cpu, GetSystemTimes)
    sysIdle,    \* system idle ticks
    procTicks,  \* procTicks[p]: user+kernel ticks of the process holding pid p
    reuses,     \* pids handed to a new process so far
    prevSys,    \* prevSysKernel + prevSysUser, shared by all pids
    known,      \* known[p]: prevProcInfo holds an entry for p
    prevProc,   \* info->prevProcKernel + info->prevProcUser
    lastLoad,   \* info->lastLoad
    pc,         \* pc[t]: "idle", "sample" or "update"
    pid,        \* the pid thread t asked for
    firstCall,  \* local firstCall of thread t
    smpSys,     \* system ticks thread t read, [busy, idle]
    smpProc,    \* process ticks thread t read
    smpOk,      \* both reads of thread t succeeded
    ret         \* the load the last call of thread t returned

envVars    == <<sysBusy, sysIdle, procTicks, reuses>>
storeVars  == <<prevSys, known, prevProc, lastLoad>>
threadVars == <<pc, pid, firstCall, smpSys, smpProc, smpOk, ret>>
vars == <<envVars, storeVars, threadVars>>

Load == [num : Counter, den : Counter]
Zero == [num |-> 0, den |-> 1]

(* Unsigned subtraction of two tick counters. *)
Delta(a, b) == (a - b) % Modulus

(* 100.0 * num / den is NaN, respectively infinite. *)
IsNaN(r) == r.num = 0 /\ r.den = 0
NonFinite(r) == r.den = 0

(* The system ticks a platform's load is relative to: busy ticks on     *)
(* posix (cpu user + kernel), all ticks on win32 (kernel time includes  *)
(* idle time).                                                          *)
SysTicks(s) == IF Platform = "posix" THEN s.busy ELSE s.busy + s.idle

(* A later call computes a rate: only when this is not the first call    *)
(* for the pid and the samples are usable.                               *)
Computes(first, valid) == valid /\ ~first

(* win32: result = 100.0 * procTotal / sysTotal; a NaN is replaced by   *)
(* lastLoad, an infinity is kept.                                       *)
Win32NextLoad(rate, last) == IF IsNaN(rate) THEN last ELSE rate

(* posix: only for sysTotal > 0, and a NaN or infinity is replaced by    *)
(* lastLoad.                                                            *)
PosixNextLoad(rate, last) ==
    IF rate.den > 0 THEN (IF NonFinite(rate) THEN last ELSE rate) ELSE last

---------------------------------------------------------------------------
Init ==
    /\ sysBusy = 0 /\ sysIdle = 0
    /\ procTicks = [p \in Pids |-> 0]
    /\ reuses = 0
    /\ prevSys = 0
    /\ known = [p \in Pids |-> FALSE]
    /\ prevProc = [p \in Pids |-> 0]
    /\ lastLoad = [p \in Pids |-> Zero]
    /\ pc = [t \in Threads |-> "idle"]
    /\ pid = [t \in Threads |-> CHOOSE p \in Pids : TRUE]
    /\ firstCall = [t \in Threads |-> FALSE]
    /\ smpSys = [t \in Threads |-> [busy |-> 0, idle |-> 0]]
    /\ smpProc = [t \in Threads |-> 0]
    /\ smpOk = [t \in Threads |-> FALSE]
    /\ ret = [t \in Threads |-> Zero]

(* The system runs for one tick: process p, another process or the     *)
(* kernel, or the idle task.                                            *)
TickBusy(p) ==
    /\ sysBusy + sysIdle < MaxTicks
    /\ sysBusy' = sysBusy + 1
    /\ procTicks' = [procTicks EXCEPT ![p] = @ + 1]
    /\ UNCHANGED <<sysIdle, reuses, storeVars, threadVars>>

TickOther ==
    /\ sysBusy + sysIdle < MaxTicks
    /\ sysBusy' = sysBusy + 1
    /\ UNCHANGED <<sysIdle, procTicks, reuses, storeVars, threadVars>>

TickIdle ==
    /\ sysBusy + sysIdle < MaxTicks
    /\ sysIdle' = sysIdle + 1
    /\ UNCHANGED <<sysBusy, procTicks, reuses, storeVars, threadVars>>

(* The process holding pid p exits and the system gives p to a new       *)
(* process, whose tick counts start at 0.  Nothing in the library hears  *)
(* of it: prevProcInfo keeps p's entry, with the old process's sample.   *)
ReusePid(p) ==
    /\ reuses < MaxReuses
    /\ procTicks[p] > 0
    /\ procTicks' = [procTicks EXCEPT ![p] = 0]
    /\ reuses' = reuses + 1
    /\ UNCHANGED <<sysBusy, sysIdle, storeVars, threadVars>>

(* prevProcInfo.findp(pid), and on a miss new ProcessInfo() (all fields *)
(* zero) inserted; win32: prevProcInfo.find(id) and prevProcInfo[id].   *)
Lookup(t, p) ==
    /\ pc[t] = "idle"
    /\ firstCall' = [firstCall EXCEPT ![t] = ~known[p]]
    /\ known' = [known EXCEPT ![p] = TRUE]
    /\ prevProc' = IF known[p] THEN prevProc ELSE [prevProc EXCEPT ![p] = 0]
    /\ lastLoad' = IF known[p] THEN lastLoad ELSE [lastLoad EXCEPT ![p] = Zero]
    /\ pid' = [pid EXCEPT ![t] = p]
    /\ pc' = [pc EXCEPT ![t] = "sample"]
    /\ UNCHANGED <<envVars, prevSys, smpSys, smpProc, smpOk, ret>>

(* posix: get_proc_stats / fscanf of /proc/<pid>/stat, then fscanf of    *)
(* /proc/stat; a failed read leaves the locals at 0.  win32:             *)
(* GetSystemTimesImpl and GetProcessTimes, either of which may fail.     *)
Sample(t) ==
    /\ pc[t] = "sample"
    /\ \E okSys, okProc \in BOOLEAN :
         /\ smpSys' = [smpSys EXCEPT ![t] =
                         IF okSys THEN [busy |-> sysBusy, idle |-> sysIdle]
                                  ELSE [busy |-> 0, idle |-> 0]]
         /\ smpProc' = [smpProc EXCEPT ![t] =
                          IF okProc THEN procTicks[pid[t]] ELSE 0]
         /\ smpOk' = [smpOk EXCEPT ![t] = okSys /\ okProc]
    /\ pc' = [pc EXCEPT ![t] = "update"]
    /\ UNCHANGED <<envVars, storeVars, pid, firstCall, ret>>

(* The samples are used: posix when (sysUser + sysIdle + sysKernel) > 0 *)
(* and (procUser + procKernel) > 0; win32 when both reads succeeded.    *)
Valid(t) ==
    IF Platform = "posix"
    THEN smpSys[t].busy + smpSys[t].idle > 0 /\ smpProc[t] > 0
    ELSE smpOk[t]

(* The rest of the call: the deltas, the result, lastLoad, and the save *)
(* of the sample into prevSys and info->prevProc (lines 671-704 posix,  *)
(* 266-314 win32).                                                      *)
Update(t) ==
    LET p       == pid[t]
        valid   == Valid(t)
        sysNow  == SysTicks(smpSys[t])
        rate    == [num |-> Delta(smpProc[t], prevProc[p]),
                    den |-> Delta(sysNow, prevSys)]
        next    == IF Platform = "posix" THEN PosixNextLoad(rate, lastLoad[p])
                                         ELSE Win32NextLoad(rate, lastLoad[p])
        result  == IF Computes(firstCall[t], valid) THEN next ELSE Zero
    IN  /\ pc[t] = "update"
        /\ ret' = [ret EXCEPT ![t] = result]
        /\ lastLoad' = [lastLoad EXCEPT ![p] =
                          IF ~valid THEN @
                          ELSE IF firstCall[t] THEN Zero
                          ELSE next]
        /\ prevSys' = IF valid THEN sysNow ELSE prevSys
        /\ prevProc' = [prevProc EXCEPT ![p] = IF valid THEN smpProc[t] ELSE @]
        /\ pc' = [pc EXCEPT ![t] = "idle"]
        /\ UNCHANGED <<envVars, known, pid, firstCall, smpSys, smpProc, smpOk>>

Next ==
    \/ \E p \in Pids : TickBusy(p)
    \/ TickOther
    \/ TickIdle
    \/ \E p \in Pids : ReusePid(p)
    \/ \E t \in Threads, p \in Pids : Lookup(t, p)
    \/ \E t \in Threads : Sample(t)
    \/ \E t \in Threads : Update(t)

Spec == Init /\ [][Next]_vars

---------------------------------------------------------------------------
(* Properties *)

(* The lastLoad a ProcessInfo keeps, which later calls return when the  *)
(* system ticks did not advance or the ratio is not a number, is finite: *)
(* the guards around info->lastLoad = result never store a division by  *)
(* a zero tick window, whatever the interleaving of the callers.        *)
LastLoadFinite == \A p \in Pids : known[p] => lastLoad[p].den > 0

(* Every load a call returns is a percentage between 0 and 100: the     *)
(* process ticks of the window are no more than the system ticks of it. *)
LoadAtMost100 == \A t \in Threads : ret[t].den > 0 /\ ret[t].num <= ret[t].den

(* A call that computes a rate subtracts a saved sample that is no newer *)
(* than its own: the unsigned differences sysTotal and procTotal never   *)
(* wrap around, also when another caller saved its sample in between.   *)
WindowForward ==
    \A t \in Threads :
        (pc[t] = "update" /\ Computes(firstCall[t], Valid(t)))
            => /\ SysTicks(smpSys[t]) >= prevSys
               /\ smpProc[t] >= prevProc[pid[t]]
=============================================================================
