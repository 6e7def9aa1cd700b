----------------------------- MODULE MalRuntime -----------------------------
(***************************************************************************)
(* The MAL runtime profiler of mal_runtime.c: the bookkeeping the          *)
(* interpreter does around every instruction it executes.                  *)
(*                                                                         *)
(* Several dataflow threads execute instructions of one MAL block on one   *)
(* stack, each with its own RuntimeProfile record.  runtimeProfileBegin    *)
(* stamps the instruction's profiler entry under mal_delayLock.            *)
(* runtimeProfileExit first updates the stack's memory footprint (no lock) *)
(* and then, under mal_contextLock, counts the execution and its ticks.    *)
(* One instruction runs on one thread at a time.                           *)
(*                                                                         *)
(* GDKusec() is the variable `now`, which every call moves forward.  A BAT *)
(* is a model value with a size in bytes and a kind (view, persistent or   *)
(* transient); BATdescriptor/BBPreleaseref are a fix count per BAT.  The   *)
(* wall-clock fields, timers and the profiler event stream are left out.   *)
(* rbytes/wbytes are kept: a view has both a head and a tail parent, and   *)
(* headsize + tailsize of a BAT is its Size.                               *)
(***************************************************************************)
EXTENDS Integers, FiniteSets

CONSTANTS
  Threads,      \* dataflow workers sharing the block and the stack
  Pcs,          \* instructions of the block (stkpc)
  Traced,       \* instructions with mb->profiler[pc].trace set
  Bats,         \* BAT ids
  Views,        \* BATs that are views
  Persistent,   \* BATs that are persistent
  Ret,          \* [Pcs -> Bats]: the BAT an instruction returns
  Arg,          \* [Pcs -> Bats]: the BAT it reads
  Size,         \* [Bats -> Nat]: heap and hash bytes of a BAT
  MB,           \* bytes per footprint unit (1024*1024)
  PROFILING,    \* malProfileMode
  FOOTPRINT,    \* cntxt->flags & footprintFlag
  MaxExecs      \* bound on the number of instruction executions

ASSUME Traced \subseteq Pcs /\ Views \cup Persistent \subseteq Bats

VARIABLES
  prof,       \* [Threads -> [ppc, newclk]]: each thread's RuntimeProfile
  profiler,   \* [Pcs -> [clk, ticks, counter, totalticks]]: mb->profiler
  stkclk,     \* stk->clk, shared by the threads
  tmpspace,   \* stk->tmpspace, the footprint in MB
  fixes,      \* [Bats -> Nat]: fixes taken by BATdescriptor and not released
  now,        \* GDKusec()
  st,         \* [Threads -> "idle" | "exec" | "fpwrite" | "profile"]
  cur,        \* [Threads -> Pcs \cup {NoPc}]: the instruction being executed
  loaded,     \* [Threads -> Nat]: tmpspace as read for `+=` (line 197)
  execs,      \* executions begun
  done,       \* history: [Pcs -> Nat] executions completed
  spent,      \* history: [Pcs -> Nat] GDKusec() from begin to exit, summed
  began,      \* history: [Threads -> Nat] GDKusec() at the begin
  added       \* history: the footprint units updateFootPrint computed

vars == <<prof, profiler, stkclk, tmpspace, fixes, now, st, cur, loaded, execs,
          done, spent, began, added>>

NoPc == 0

\* runtimeProfileInit (37-53): ppc -2, or -1 when profiling is on.
RuntimeProfileInit == [ppc |-> IF PROFILING THEN -1 ELSE -2, newclk |-> 0]

Init ==
  /\ prof = [t \in Threads |-> RuntimeProfileInit]
  /\ profiler = [p \in Pcs |-> [clk |-> 0, ticks |-> 0, counter |-> 0, totalticks |-> 0,
                                rbytes |-> 0, wbytes |-> 0]]
  /\ stkclk = 0
  /\ tmpspace = 0
  /\ fixes = [b \in Bats |-> 0]
  /\ now = 1
  /\ st = [t \in Threads |-> "idle"]
  /\ cur = [t \in Threads |-> NoPc]
  /\ loaded = [t \in Threads |-> 0]
  /\ execs = 0
  /\ done = [p \in Pcs |-> 0]
  /\ spent = [p \in Pcs |-> 0]
  /\ began = [t \in Threads |-> 0]
  /\ added = 0

(***************************************************************************)
(* runtimeProfileBegin (55-81): stamp prof->newclk and stk->clk; for a    *)
(* traced instruction, under mal_delayLock, remember it in prof->ppc and   *)
(* reset its entry, with clk set to the start time.  One step: what it    *)
(* writes is the thread's own record and the entry of its instruction,     *)
(* apart from the single store to stk->clk.                                *)
(***************************************************************************)
Begin(t, p) ==
  /\ st[t] = "idle" /\ execs < MaxExecs
  /\ \A u \in Threads : cur[u] # p
  /\ IF PROFILING
       THEN /\ prof' = [prof EXCEPT ![t] = [ppc |-> IF p \in Traced THEN p ELSE @.ppc,
                                            newclk |-> now]]
            /\ stkclk' = now
            /\ profiler' = IF p \in Traced
                             THEN [profiler EXCEPT ![p].clk = now, ![p].ticks = 0]
                             ELSE profiler
       ELSE UNCHANGED <<prof, stkclk, profiler>>
  /\ now' = now + 1
  /\ st' = [st EXCEPT ![t] = "exec"]
  /\ cur' = [cur EXCEPT ![t] = p]
  /\ began' = [began EXCEPT ![t] = now]
  /\ execs' = execs + 1
  /\ UNCHANGED <<tmpspace, fixes, loaded, done, spent, added>>

\* The alias test of lines 93-97: the result is one of the arguments.
IsAlias(p) == Ret[p] = Arg[p]

(***************************************************************************)
(* updateFootPrint (172-196) for result b, up to the load of              *)
(* stk->tmpspace.  BATdescriptor fixes b; a view or a persistent BAT       *)
(* returns at line 186 with the fix still held; otherwise the heap sizes   *)
(* are summed, the fix released and tmpspace loaded for the `+=` of 197.   *)
(***************************************************************************)
UpdateFootPrint(t, b) ==
  IF b \in Views \cup Persistent
    THEN /\ fixes' = [fixes EXCEPT ![b] = @ + 1]
         /\ st' = [st EXCEPT ![t] = "profile"]
         /\ UNCHANGED <<loaded, added>>
    ELSE /\ loaded' = [loaded EXCEPT ![t] = tmpspace]
         /\ added' = added + Size[b] \div MB
         /\ st' = [st EXCEPT ![t] = "fpwrite"]
         /\ UNCHANGED fixes

\* runtimeProfileExit, footprint part (87-99): with the footprint flag on,
\* a result that is none of the arguments goes to updateFootPrint.
ExitFootprint(t) ==
  /\ st[t] = "exec"
  /\ IF FOOTPRINT /\ ~IsAlias(cur[t])
       THEN UpdateFootPrint(t, Ret[cur[t]])
       ELSE /\ st' = [st EXCEPT ![t] = "profile"]
            /\ UNCHANGED <<fixes, loaded, added>>
  /\ UNCHANGED <<prof, profiler, stkclk, tmpspace, now, cur, execs, done, spent, began>>

\* The store of `stk->tmpspace += total/1024/1024` (197), without a lock.
FootprintStore(t) ==
  /\ st[t] = "fpwrite"
  /\ tmpspace' = loaded[t] + Size[Ret[cur[t]]] \div MB
  /\ st' = [st EXCEPT ![t] = "profile"]
  /\ UNCHANGED <<prof, profiler, stkclk, fixes, now, cur, loaded, execs, done, spent, began, added>>

\* Variant: the elapsed time is taken from the shared stk->clk.
StartClockShared(t) == stkclk

\* The start time the ticks are measured from: prof->newclk (109).
StartClock(t) == prof[t].newclk

\* Variant: prof->ppc is left pointing at the instruction.
ResetPpcKeep(ppc) == ppc

\* Variant: prof->ppc is cleared to 0 instead of -1.
ResetPpcZero(ppc) == 0

\* prof->ppc = -1 after the exit is recorded (117).
ResetPpc(ppc) == -1

(***************************************************************************)
(* getVolume (128-157): with rd = 0 the results of the instruction, with   *)
(* rd # 0 its arguments.  A BAT is charged its size unless it is a view;   *)
(* an argument that is a view is charged too when it is read (rd) and the  *)
(* result, argument 0, is not a view.                                      *)
(***************************************************************************)
GetVolume(p, rd) ==
  LET isview == Ret[p] \in Views
      b      == IF rd = 0 THEN Ret[p] ELSE Arg[p]
  IN  IF (rd # 0 /\ ~isview) \/ b \notin Views THEN Size[b] ELSE 0

(***************************************************************************)
(* runtimeProfileExit, profiler part (102-119), atomic under               *)
(* mal_contextLock: if prof->ppc names a traced entry with a start time,   *)
(* count the execution and its ticks in that entry, store the volumes of   *)
(* the exiting instruction pci (113-114, rd = 0 into rbytes, rd = 1 into   *)
(* wbytes) and clear prof->ppc.                                            *)
(***************************************************************************)
ExitProfile(t) ==
  /\ st[t] = "profile"
  /\ LET pc    == prof[t].ppc
         ticks == now - StartClock(t)
     IN  IF PROFILING /\ pc >= 0 /\ pc \in Traced /\ profiler[pc].clk # 0
           THEN /\ profiler' = [profiler EXCEPT
                                  ![pc].counter = @ + 1,
                                  ![pc].ticks = ticks,
                                  ![pc].totalticks = @ + ticks,
                                  ![pc].clk = @ + @,
                                  ![pc].rbytes = GetVolume(cur[t], 0),
                                  ![pc].wbytes = GetVolume(cur[t], 1)]
                /\ prof' = [prof EXCEPT ![t].ppc = ResetPpc(pc)]
           ELSE UNCHANGED <<profiler, prof>>
  /\ now' = now + 1
  /\ st' = [st EXCEPT ![t] = "idle"]
  /\ cur' = [cur EXCEPT ![t] = NoPc]
  /\ done' = [done EXCEPT ![cur[t]] = @ + 1]
  /\ spent' = [spent EXCEPT ![cur[t]] = @ + (now - began[t])]
  /\ UNCHANGED <<stkclk, tmpspace, fixes, loaded, execs, began, added>>

Next ==
  \E t \in Threads :
    \/ \E p \in Pcs : Begin(t, p)
    \/ ExitFootprint(t)
    \/ FootprintStore(t)
    \/ ExitProfile(t)

Spec == Init /\ [][Next]_vars /\ \A t \in Threads : WF_vars(ExitFootprint(t) \/ FootprintStore(t) \/ ExitProfile(t))

-----------------------------------------------------------------------------
RtTypeOK ==
  /\ prof \in [Threads -> [ppc : {-2, -1} \cup Pcs, newclk : Nat]]
  /\ profiler \in [Pcs -> [clk : Nat, ticks : Nat, counter : Nat, totalticks : Nat,
                         rbytes : Nat, wbytes : Nat]]
  /\ st \in [Threads -> {"idle", "exec", "fpwrite", "profile"}]
  /\ cur \in [Threads -> Pcs \cup {NoPc}]
  /\ \A t \in Threads : (st[t] = "idle") <=> (cur[t] = NoPc)
  /\ fixes \in [Bats -> Nat] /\ tmpspace \in Nat

(***************************************************************************)
(* With profiling on, the counter of a traced instruction equals the       *)
(* number of its executions that have completed: runtimeProfileExit       *)
(* charges an execution to prof->ppc, which must name the instruction      *)
(* this thread began last, never an earlier one.                           *)
(***************************************************************************)
CountsTraced ==
  PROFILING => \A p \in Traced : profiler[p].counter = done[p]

(***************************************************************************)
(* With profiling on, the total ticks of a traced instruction are the sum  *)
(* of the GDKusec() intervals from each of its begins to its exit, also    *)
(* when other threads begin instructions in between.                       *)
(***************************************************************************)
TicksAccounted ==
  PROFILING => \A p \in Traced : profiler[p].totalticks = spent[p]

(***************************************************************************)
(* When no thread is in updateFootPrint, stk->tmpspace is the sum of the   *)
(* footprints updateFootPrint computed: no update of line 197 is lost.     *)
(***************************************************************************)
FootprintExact ==
  (\A t \in Threads : st[t] # "fpwrite") => tmpspace = added

(***************************************************************************)
(* A thread that is idle holds no fix: every BATdescriptor in              *)
(* updateFootPrint is matched by a BBPreleaseref.                          *)
(***************************************************************************)
FixesReleased ==
  (\A t \in Threads : st[t] = "idle") => \A b \in Bats : fixes[b] = 0

(***************************************************************************)
(* With profiling on, a traced instruction that has run records in rbytes  *)
(* the bytes it read, its arguments (getVolume with rd set), and in wbytes *)
(* the bytes it wrote, its results: "the maximal amount of bytes           *)
(* read/written" of the comment at line 121.                               *)
(***************************************************************************)
VolumesByDirection ==
  PROFILING =>
    \A p \in Traced : profiler[p].counter > 0 =>
      /\ profiler[p].rbytes = GetVolume(p, 1)
      /\ profiler[p].wbytes = GetVolume(p, 0)

=============================================================================
