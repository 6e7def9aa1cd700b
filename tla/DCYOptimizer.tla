---------------------------- MODULE DCYOptimizer ----------------------------
(***************************************************************************)
(* OPTdatacyclotronImplementation (176-414) of opt_datacyclotron.c over    *)
(* the registry of DCYCatalog.                                             *)
(*                                                                         *)
(* The pass rewrites every sql.bind of a registered column into one        *)
(* instruction per partition: datacyclotron.copy (the default build) or    *)
(* datacyclotron.bind (built with BIND_DATACYCLOTRON_OPT, the constant     *)
(* the variable bindOpt), remembers the partition handles in newArg[v][k], and emits   *)
(* datacyclotron.unpin for each of them before the end of the function.    *)
(* With bindOpt the partitions are pinned and packed by mat.new at the    *)
(* first use of v instead of at the bind.                                  *)
(*                                                                         *)
(* The pass keeps a pointer regs[v] to the entry it found and reads        *)
(* reg->partitions again at the first use and at the exit.  The catalog    *)
(* is a global list that the MAL calls datacyclotron.addReg etc. change;   *)
(* with RegistryDuringPass those calls may run between two iterations of   *)
(* the pass, as they can from another client.                              *)
(*                                                                         *)
(* Instructions are records: op, the variables it returns (rets), the      *)
(* variables it reads (args), and for a bind its key (col, acc).  The      *)
(* constant strings and bun bounds pushed as arguments are left out; the   *)
(* hlb/hub properties set on the partition variables and on the mat.new    *)
(* result are kept in `hprops`.  A partition's f_bun/l_bun move with its   *)
(* part_id in the registry, so they are FBun/LBun of the id.               *)
(***************************************************************************)
EXTENDS DCYCatalog

CONSTANTS
  Builds,              \* the builds checked: TRUE for BIND_DATACYCLOTRON_OPT
  MaxInstrs,           \* instructions between the signature and the end
  DCYREGS,             \* initial size and growth step of used/regs/newArg
  SLACK,               \* the headroom of the growth test (1000, line 217)
  NEWARG_WIDTH,        \* the row width of newArg (1000, line 184)
  AllocFailures,       \* subset of {"init", "grow"}: allocations that fail
  RegistryDuringPass,  \* registry calls may interleave with the pass
  FBun, LBun           \* [PartIds -> Nat]: the bun range a partition covers

VARIABLES
  bindOpt,  \* the build: BIND_DATACYCLOTRON_OPT defined, fixed per behaviour
  phase,    \* "load" (before the call), "pass", "out", "done"
  old,      \* the block the pass was called on (old[], limit)
  prog,     \* mb->stmt as built so far
  i,        \* the loop index into old
  used,     \* used[v]: 0, 1 (partitions bound), 2 (pinned, bindOpt)
  regs,     \* regs[v]: identity of the entry found for v, 0 for NULL
  newArg,   \* newArg[v]: the partition handles written, in order
  vtop,     \* mb->vtop
  numRegs,  \* num_regs, the size of used/regs/newArg
  errors,
  actions,
  hprops,   \* the hlb/hub properties varSetProp gave a variable
  maxHgh    \* the function-local max_hgh, kept across iterations

optVars == <<bindOpt, phase, old, prog, i, used, regs, newArg, vtop, numRegs, errors, actions,
             hprops, maxHgh>>
vars == <<regVars, optVars>>

OrigVars == 1 .. MaxInstrs

Instr(op, rets, args) ==
  [op |-> op, rets |-> rets, args |-> args, col |-> "", acc |-> 0]
Bind(v, c, a) == [op |-> "bind", rets |-> <<v>>, args |-> << >>, col |-> c, acc |-> a]

(***************************************************************************)
(* The blocks the pass is called on: a signature, MaxInstrs instructions   *)
(* of which the k-th defines variable k, and the end.  An instruction is a *)
(* sql.bind of a key or another instruction reading one or two earlier    *)
(* variables.                                                              *)
(***************************************************************************)
InstrChoices(k) ==
  {Bind(k, c, a) : c \in Names, a \in Accesses}
  \cup {Instr("use", <<k>>, <<j>>) : j \in 1 .. k - 1}
  \cup {Instr("use", <<k>>, <<j1, j2>>) : j1 \in 1 .. k - 1, j2 \in 1 .. k - 1}

OldBlocks ==
  { <<Instr("sig", << >>, << >>)>> \o body \o <<Instr("end", << >>, << >>)>> :
      body \in {b \in [1 .. MaxInstrs -> UNION {InstrChoices(k) : k \in 1 .. MaxInstrs}] :
                  \A k \in 1 .. MaxInstrs : b[k] \in InstrChoices(k)} }

Init ==
  /\ RegInit
  /\ bindOpt \in Builds
  /\ phase = "load"
  /\ old \in OldBlocks
  /\ prog = old
  /\ i = 0
  /\ used = [v \in OrigVars |-> 0]
  /\ regs = [v \in OrigVars |-> 0]
  /\ newArg = [v \in OrigVars |-> << >>]
  /\ vtop = MaxInstrs + 1
  /\ numRegs = 0
  /\ errors = FALSE
  /\ actions = 0
  /\ hprops = << >>
  /\ maxHgh = Garbage

-----------------------------------------------------------------------------
\* The entry regs[v] points to, read through the pointer; freed when absent.
Freed(id) == SelectInSeq(catalog, LAMBDA e : e.id = id) = 0
LiveN(id) == catalog[SelectInSeq(catalog, LAMBDA e : e.id = id)].n

NonNeg(n) == IF n > 0 THEN n ELSE 0

\* newArg[j][k] (k from 1); a slot never written holds garbage.
Handle(j, k) == IF k <= Len(newArg[j]) THEN newArg[j][k] ELSE Garbage

(***************************************************************************)
(* The call (189-212): no catalog means no work; a failed allocation of    *)
(* used/newArg/regs (or tpes) leaves through `out` before the block is     *)
(* touched; otherwise a new block starts with the signature.               *)
(***************************************************************************)
Start ==
  /\ fault = "none" /\ phase = "load"
  /\ \/ /\ catalog = << >>
        /\ phase' = "done"
        /\ UNCHANGED <<prog, i, numRegs>>
     \/ /\ catalog # << >> /\ "init" \in AllocFailures
        /\ phase' = "done"
        /\ UNCHANGED <<prog, i, numRegs>>
     \/ /\ catalog # << >>
        /\ phase' = "pass"
        /\ prog' = <<old[1]>>
        /\ i' = 2
        /\ numRegs' = DCYREGS
  /\ UNCHANGED <<regVars, bindOpt, old, used, regs, newArg, vtop, errors, actions, hprops, maxHgh>>

\* The growth test at the top of every iteration (217).
MustGrowRegs == numRegs <= vtop + SLACK

\* A failed GDKrealloc of the arrays (219-231): leave through `out`.
GrowFails ==
  /\ fault = "none" /\ phase = "pass" /\ i <= Len(old)
  /\ MustGrowRegs /\ "grow" \in AllocFailures
  /\ errors' = TRUE
  /\ phase' = "out"
  /\ UNCHANGED <<regVars, bindOpt, old, prog, i, used, regs, newArg, vtop, numRegs, actions, hprops, maxHgh>>

Iteration ==
  /\ fault = "none" /\ phase = "pass" /\ i <= Len(old)
  /\ numRegs' = IF MustGrowRegs THEN numRegs + DCYREGS ELSE numRegs
  /\ i' = i + 1
  /\ UNCHANGED <<catalog, calls, nextId, last, bindOpt, old, errors>>

(***************************************************************************)
(* The default build (250-308): per partition a copy returning a fresh     *)
(* BAT variable z and a fresh handle (three newTmpVariable calls, the      *)
(* first one overwritten), then mat.new packing the z's into v.            *)
(***************************************************************************)
Copies(base, n) ==
  [k \in 1 .. n |-> Instr("copy", <<base + 3 * k - 2, base + 3 * k - 1>>, << >>)]

\* Variant: the handle is taken one temporary too far.
CopyHandlesOffByOne(base, n) == [k \in 1 .. n |-> base + 3 * k]

CopyHandles(base, n) == [k \in 1 .. n |-> base + 3 * k - 1]

\* Variant: mat.new is pushed before the partitions it packs.
CopyPlanMatFirst(v, base, n) ==
  <<Instr("mat", <<v>>, [j \in 1 .. n |-> base + 3 * j - 2])>> \o Copies(base, n)

\* The copies, then mat.new of their BATs into v (304-307).
CopyPlan(v, base, n) ==
  Copies(base, n) \o <<Instr("mat", <<v>>, [j \in 1 .. n |-> base + 3 * j - 2])>>

\* BIND_DATACYCLOTRON_OPT (259-287): per partition a bind returning a handle.
DBinds(base, n) == [k \in 1 .. n |-> Instr("dbind", <<base + k - 1>>, << >>)]

\* Variant: the handle recorded is one past the bind's result.
DBindHandlesOffByOne(base, n) == [k \in 1 .. n |-> base + k]

DBindHandles(base, n) == [k \in 1 .. n |-> base + k - 1]

\* The bound of partition id `id` under f; a slot never written is garbage.
Bnd(f, id) == IF id \in PartIds THEN f[id] ELSE Garbage

\* low/hgh of each partition the entry has (f_bun[k], l_bun[k], k = 0 ..).
PartBounds(e) ==
  [k \in 1 .. NonNeg(e.n) |-> [hlb |-> Bnd(FBun, e.ids[k - 1]),
                               hub |-> Bnd(LBun, e.ids[k - 1])]]

\* Variant: max_hgh keeps the first partition's hgh (the test of 297 lost).
MaxHubFirst(bs) == bs[1].hub

\* max_hgh after the loop: set at k = 0, raised by every larger hgh (293-298).
MaxHub(bs) == FoldLeft(LAMBDA m, b : IF m < b.hub THEN b.hub ELSE m, bs[1].hub, bs)

\* The properties of the mat.new result: hlb from the first partition, hub
\* from max_hgh, which keeps its earlier value when there is no partition.
MatProps(bs, m) ==
  IF bs = << >> THEN [hub |-> m] ELSE [hlb |-> bs[1].hlb, hub |-> MaxHub(bs)]

NextMax(bs, m) == IF bs = << >> THEN m ELSE MaxHub(bs)

\* hlb/hub of each partition variable zs[k] (300-302, 346-348).
PartProps(zs, bs) == [x \in ToSet(zs) |-> bs[CHOOSE k \in DOMAIN zs : zs[k] = x]]

(***************************************************************************)
(* A sql.bind (237-312).  regs[v] is set from findRegist.  An unregistered *)
(* column keeps its bind.  For a registered one, k runs over               *)
(* reg->partitions, each handle goes to newArg[v][k], and used[v] is set   *)
(* inside the loop.  A handle index past the row of newArg overflows it.   *)
(***************************************************************************)
BindStep ==
  /\ Iteration
  /\ old[i].op = "bind"
  /\ LET p == old[i]
         v == p.rets[1]
         k == FindRegist(p.col, p.acc)
         n == IF k = 0 THEN 0 ELSE catalog[k].n
     IN  /\ regs' = [regs EXCEPT ![v] = IF k = 0 THEN 0 ELSE catalog[k].id]
         /\ actions' = actions + 1
         /\ IF k = 0
              THEN /\ prog' = Append(prog, p)
                   /\ UNCHANGED <<used, newArg, vtop, hprops, maxHgh>>
              ELSE /\ used' = [used EXCEPT ![v] = IF n > 0 THEN 1 ELSE @]
                   /\ IF bindOpt
                        THEN /\ prog' = prog \o DBinds(vtop, n)
                             /\ vtop' = vtop + NonNeg(n)
                             /\ newArg' = [newArg EXCEPT ![v] = DBindHandles(vtop, n)]
                             /\ UNCHANGED <<hprops, maxHgh>>
                        ELSE /\ prog' = prog \o CopyPlan(v, vtop, n)
                             /\ vtop' = vtop + 3 * NonNeg(n)
                             /\ newArg' = [newArg EXCEPT ![v] = CopyHandles(vtop, n)]
                             /\ LET bs == PartBounds(catalog[k])
                                    zs == [j \in DOMAIN bs |-> vtop + 3 * j - 2]
                                IN  /\ hprops' = (v :> MatProps(bs, maxHgh))
                                                 @@ PartProps(zs, bs) @@ hprops
                                    /\ maxHgh' = NextMax(bs, maxHgh)
         /\ fault' = IF n > NEWARG_WIDTH THEN "newarg_overflow" ELSE fault
         /\ phase' = phase

(***************************************************************************)
(* BIND_DATACYCLOTRON_OPT, other instructions (314-355): every argument    *)
(* with used == 1 is marked 2 and gets, per partition the entry has now,   *)
(* a pin of newArg[j][k] into a fresh variable, then mat.new into j.       *)
(***************************************************************************)
PinBlock(j, base) ==
  LET n == LiveN(regs[j])
  IN  [k \in 1 .. n |-> Instr("pin", <<base + k - 1>>, <<Handle(j, k)>>)]
      \o <<Instr("mat", <<j>>, [k \in 1 .. n |-> base + k - 1])>>

\* The arguments with used == 1, each at its first occurrence.
FirstUses(args) ==
  LET at == SelectSeq([x \in 1 .. Len(args) |-> x],
                      LAMBDA x : used[args[x]] = 1 /\ \A y \in 1 .. x - 1 : args[y] # args[x])
  IN  [m \in 1 .. Len(at) |-> args[at[m]]]

RECURSIVE PinAll(_, _)
PinAll(js, base) ==
  IF js = << >> THEN << >>
  ELSE PinBlock(Head(js), base) \o PinAll(Tail(js), base + NonNeg(LiveN(regs[Head(js)])))

RECURSIVE PinCount(_)
PinCount(js) == IF js = << >> THEN 0 ELSE NonNeg(LiveN(regs[Head(js)])) + PinCount(Tail(js))

\* The hlb/hub the pins of PinAll set (326-352), with max_hgh threaded
\* through the variables in order.
RECURSIVE PinProps(_, _, _)
PinProps(js, base, m) ==
  IF js = << >> THEN [props |-> << >>, max |-> m]
  ELSE LET j  == Head(js)
           bs == PartBounds(catalog[SelectInSeq(catalog, LAMBDA e : e.id = regs[j])])
           zs == [k \in DOMAIN bs |-> base + k - 1]
           r  == PinProps(Tail(js), base + Len(bs), NextMax(bs, m))
       IN  [props |-> (j :> MatProps(bs, m)) @@ PartProps(zs, bs) @@ r.props,
            max |-> r.max]

\* Variant: the mark is not set, so a later use pins the partitions again.
MarkPinnedNever(u, js) == u

\* used[j] = 2 for the arguments just pinned (317).
MarkPinned(u, js) == [v \in DOMAIN u |-> IF v \in ToSet(js) THEN 2 ELSE u[v]]

\* Variant: the two #ifdef branches of the exit test swapped.
ExitVarsSwapped(u, mark) == SelectSeq([j \in OrigVars |-> j], LAMBDA j : u[j] = 3 - mark)

\* The variables the exit unpins: used[j] == mark, in ascending order (357-363).
ExitVars(u, mark) == SelectSeq([j \in OrigVars |-> j], LAMBDA j : u[j] = mark)

\* The unpins of the exit (356-369), for variables in ascending order.
RECURSIVE UnpinAll(_)
UnpinAll(js) ==
  IF js = << >> THEN << >>
  ELSE [k \in 1 .. LiveN(regs[Head(js)]) |-> Instr("unpin", << >>, <<Handle(Head(js), k)>>)]
       \o UnpinAll(Tail(js))

(***************************************************************************)
(* Any other instruction (313-371): with bindOpt, pin what its arguments  *)
(* need; at the end of the function, unpin every handle of every variable  *)
(* with used == 2 (bindOpt) or used == 1, for the partitions the entry    *)
(* has now; then keep the instruction.  A pointer regs[j] to an entry      *)
(* dropped since the bind is a use after free.                             *)
(***************************************************************************)
OtherStep ==
  /\ Iteration
  /\ old[i].op \in {"use", "end"}
  /\ LET p     == old[i]
         js    == IF bindOpt THEN FirstUses(p.args) ELSE << >>
         used1 == MarkPinned(used, js)
         mark  == IF bindOpt THEN 2 ELSE 1
         exits == IF p.op = "end" THEN ExitVars(used1, mark) ELSE << >>
         uaf   == \E j \in ToSet(js) \cup ToSet(exits) : Freed(regs[j])
     IN  IF uaf
           THEN /\ fault' = "use_after_free"
                /\ UNCHANGED <<prog, used, vtop, hprops, maxHgh>>
           ELSE /\ prog' = prog \o PinAll(js, vtop) \o UnpinAll(exits) \o <<p>>
                /\ vtop' = vtop + PinCount(js)
                /\ used' = used1
                /\ fault' = fault
                /\ LET r == PinProps(js, vtop, maxHgh)
                   IN  /\ hprops' = r.props @@ hprops
                       /\ maxHgh' = r.max
  /\ UNCHANGED <<bindOpt, phase, regs, newArg, actions>>

LoopEnd ==
  /\ fault = "none" /\ phase = "pass" /\ i > Len(old)
  /\ phase' = "out"
  /\ UNCHANGED <<regVars, bindOpt, old, prog, i, used, regs, newArg, vtop, numRegs, errors, actions,
                 hprops, maxHgh>>

\* Variant: the old statements are not put back.
RestoreStmtsNone(blk) == blk

\* mb->stmt = old, mb->stop = oldtop (392-394).
RestoreStmts(blk) == old

(***************************************************************************)
(* `out` (375-413): after an error the new block is dropped and the old    *)
(* one restored, and the pass reports no actions.                          *)
(***************************************************************************)
Finish ==
  /\ fault = "none" /\ phase = "out"
  /\ phase' = "done"
  /\ prog' = IF errors THEN RestoreStmts(prog) ELSE prog
  /\ actions' = IF errors THEN 0 ELSE actions
  /\ UNCHANGED <<regVars, bindOpt, old, i, used, regs, newArg, vtop, numRegs, errors, hprops, maxHgh>>

\* A registry call: before the pass, or between two of its iterations.
RegStep ==
  /\ phase = "load" \/ (RegistryDuringPass /\ phase = "pass")
  /\ RegNext
  /\ UNCHANGED optVars

OptNext == Start \/ GrowFails \/ BindStep \/ OtherStep \/ LoopEnd \/ Finish

Next == RegStep \/ OptNext

Spec == Init /\ [][Next]_vars /\ WF_vars(OptNext)

-----------------------------------------------------------------------------
Ops == {"sig", "bind", "use", "end", "copy", "dbind", "pin", "mat", "unpin"}

OptTypeOK ==
  /\ bindOpt \in BOOLEAN
  /\ phase \in {"load", "pass", "out", "done"}
  /\ \A q \in DOMAIN prog : prog[q].op \in Ops
  /\ used \in [OrigVars -> 0 .. 2]
  /\ regs \in [OrigVars -> 0 .. nextId - 1]
  /\ \A v \in OrigVars : ToSet(newArg[v]) \subseteq MaxInstrs + 1 .. vtop - 1
  /\ numRegs \in Nat /\ errors \in BOOLEAN /\ actions \in Nat

\* The variables the instructions before position q of the new block return.
DefinedBefore(q) == UNION {ToSet(prog[r].rets) : r \in 1 .. q - 1}

\* The operands of the instructions of the new block with operation op.
OperandsOf(op) ==
  LET s == SelectSeq(prog, LAMBDA x : x.op = op) IN [m \in DOMAIN s |-> s[m].args[1]]

\* What the plan acquires: the copied handles, or the pinned ones.
Acquired ==
  IF bindOpt THEN OperandsOf("pin")
  ELSE LET s == SelectSeq(prog, LAMBDA x : x.op = "copy")
       IN  [m \in DOMAIN s |-> s[m].rets[2]]

Finished == phase = "done" /\ fault = "none"

\* Every variable an instruction of the new block reads is returned before it.
WellFormed == \A q \in DOMAIN prog : ToSet(prog[q].args) \subseteq DefinedBefore(q)

(***************************************************************************)
(* The default build rewrites into a well-formed block: every variable an  *)
(* instruction reads is returned by an instruction before it.  This covers *)
(* the mat.new that replaces a bind, the handles the unpins read, and the  *)
(* uses of the bound variable.                                             *)
(***************************************************************************)
DefBeforeUse == (Finished /\ ~bindOpt) => WellFormed

(***************************************************************************)
(* The same for the BIND_DATACYCLOTRON_OPT build, where the bind of a      *)
(* registered column is dropped and its variable is defined by the        *)
(* mat.new at its first use.                                               *)
(***************************************************************************)
BindOptDefBeforeUse == (Finished /\ bindOpt) => WellFormed

(***************************************************************************)
(* Every partition the rewritten block acquires (copy, or pin with         *)
(* bindOpt) is unpinned exactly once before the end, and nothing else is  *)
(* unpinned: the unpins the exit emits from newArg and the entry's count   *)
(* match the handles the bind and the first use emitted.                   *)
(***************************************************************************)
UnpinsMatch ==
  (Finished /\ ~errors) => ToBag(OperandsOf("unpin")) = ToBag(Acquired)

(***************************************************************************)
(* A pass that reports no actions leaves the block as it was: in           *)
(* particular a failed growth of the arrays rolls back every instruction   *)
(* the pass had emitted.                                                   *)
(***************************************************************************)
NoActionsNoChange == (Finished /\ actions = 0) => prog = old

(***************************************************************************)
(* The handles of a column fit in its row of newArg (int[1000]): the       *)
(* registry does not bound the number of partitions of an entry.          *)
(***************************************************************************)
NewArgInBounds == fault # "newarg_overflow"

(***************************************************************************)
(* The hub of every mat.new result bounds each partition it packs: max_hgh *)
(* is the largest l_bun of the column's partitions, in both builds.        *)
(***************************************************************************)
MatHubCovers ==
  \A q \in DOMAIN prog :
    prog[q].op = "mat" =>
      \A a \in ToSet(prog[q].args) :
        a \in DOMAIN hprops => hprops[a].hub <= hprops[prog[q].rets[1]].hub

(***************************************************************************)
(* The hlb of every mat.new result is at most the low bound of each        *)
(* partition it packs: the code takes f_bun[0], which is the smallest only *)
(* when the partitions were registered in ascending order.                 *)
(***************************************************************************)
MatHlbCovers ==
  \A q \in DOMAIN prog :
    prog[q].op = "mat" =>
      \A a \in ToSet(prog[q].args) :
        a \in DOMAIN hprops => hprops[prog[q].rets[1]].hlb <= hprops[a].hlb

(***************************************************************************)
(* The hub of a mat.new result is the bound of one of its own partitions:  *)
(* a column with no partitions must not get the max_hgh of an earlier      *)
(* column or an uninitialised one.                                         *)
(***************************************************************************)
MatHubOwn ==
  \A q \in DOMAIN prog :
    prog[q].op = "mat" =>
      \E a \in ToSet(prog[q].args) :
        a \in DOMAIN hprops /\ hprops[a].hub = hprops[prog[q].rets[1]].hub

=============================================================================
