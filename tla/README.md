# TLA+ models of MonetDB: join paths, the data cyclotron, the MAL runtime profiler and Pathfinder's name tracing and MIL trees

This directory holds TLA+ models of five parts of MonetDB, with TLC
configurations that check them:

- the join-path optimizer and executor in
  `src/MonetDB5/optimizer/opt_joinpath.c`;
- the data cyclotron registry and optimizer in
  `src/MonetDB5/optimizer/opt_datacyclotron.c`;
- the per-instruction profiling of the MAL interpreter in
  `src/MonetDB5/mal/mal_runtime.c`;
- the column-name tracing property of the Pathfinder algebra in
  `src/pathfinder/compiler/algebra/prop/prop_trace_names.c`;
- the MIL tree constructors of Pathfinder's MIL back end in
  `src/pathfinder/compiler/mil/mil.c`.

`PROJECT.json` maps every definition to the lines it models. It also lists
the runs, mutants, findings and hazards.

## The system

`opt_joinpath.c` has four cooperating parts.

| Part | Code | What it does |
|---|---|---|
| Path fuser | `OPTjoinPathImplementation` (152-297) | Rewrites a MAL block. Walks the old instructions and builds a new block. A `join`/`leftjoin`/`semijoin` whose argument is the single-use result of a join of the same family absorbs that join's arguments and becomes a `joinPath`/`leftjoinPath`/`semijoinPath`. |
| Subpath deduplicator | `OPTjoinSubPath` (51-150) | Runs when the fuser changed something. Counts adjacent argument pairs of join paths, materialises a pair that occurs more than once as one plain join, and splices its result into the paths. |
| Cost heuristic | `ALGjoinCost` (321-426) | Estimates the cost of joining two BATs. The base estimate comes from counts and key properties. A discount comes from dense/ordered properties and operand size. |
| Greedy executor | `ALGjoinPath` (534-577), `ALGjoinPathBody` (428-532) | Runs a join path at run time. Binds and type-checks the operands, then repeatedly joins the cheapest adjacent pair. A pair whose join fails is postponed. Reference counts are maintained on every path. |

The optimizer parts run at compile time, one pass over one block. The
executor runs one call on one thread, and calls the cost heuristic for every
adjacent pair on every round. The join path the optimizer emits is the
instruction the executor evaluates. The contract between the two is that a
path denotes the left-to-right chain of pairwise joins of its arguments.

`opt_datacyclotron.c` has two parts that share one global list.

| Part | Code | What it does |
|---|---|---|
| Registry | `addRegist`, `removePartRegist`, `dropRegist`, `findRegist` (63-162) | The global list `catalog` holds one entry per (schema, table, column, access). Each entry has a growable array of partition ids. MAL calls such as `datacyclotron.addReg` (`addRegWrap`) change the list. |
| Optimizer | `OPTdatacyclotronImplementation` (176-414) | Rewrites a block. Each `sql.bind` of a registered column becomes one `datacyclotron.copy` per partition plus a `mat.new`. In a build with `BIND_DATACYCLOTRON_OPT`, it becomes one `datacyclotron.bind` per partition instead, with pins and `mat.new` at the first use. Before the end of the function it adds one `unpin` per partition. |

The optimizer keeps pointers to registry entries (`regs[v]`). It reads their
partition count at the bind, again at the first use, and again at the exit.
Nothing locks the list, so a registry call from another client can run
between those reads.

`mal_runtime.c` is called by the interpreter around every instruction.
`runtimeProfileInit` sets up a thread's `RuntimeProfile`. `runtimeProfileBegin`
stamps `prof->newclk` and the shared `stk->clk`. For a traced instruction it
also resets the profiler entry and records the pc in `prof->ppc`, under
`mal_delayLock`. `runtimeProfileExit` first calls `updateFootPrint` for each
result that is not an alias of an argument; that adds the result's size in MB
to `stk->tmpspace` with no lock. Then, under `mal_contextLock`, it charges the
execution and its ticks to `prof->ppc` and resets `ppc` to -1. With dataflow
execution several threads run instructions of one block on one stack, each
with its own `RuntimeProfile`.

`prop_trace_names.c` answers, for a logical algebra plan (a DAG whose
operators have at most two children), which column of a `goal` operator each
column of a `start` operator is a copy of. `PFprop_trace_names` counts the
incoming edges of every node (`PFprop_infer_refctr`), resets every node's
name-pair list (`reset_fun`), and calls `map_names` on the start with the
identity pairs. `map_names` appends the parent's pairs to the node's list,
decrements its count, and only the last parent to arrive goes on: it stops at
the goal, and otherwise rewrites the list by the operator's kind and passes it
to its children. A column generated by the operator is marked `att_NULL`
(`diff_np`); a projection renames; a binary operator splits the list by the
children's schemas; fragment and function-call edges carry nothing. The
goal's list is then pruned to one pair per original name, `att_NULL` where
two paths disagree, and read out in the order of the start columns.

`mil.c` builds the MIL program that Pathfinder's MIL generator emits. Every
`PFmil_*` constructor allocates one node through `leaf` (kind set, all
`MIL_MAXCHILD` children NULL) and fills its children through `wire1`..`wire8`
or, for `PFmil_step`, by assigning all twelve. A few constructors also set the
semantic value (`PFmil_key`, `PFmil_access`, literals, variables) or assert
the kind of a child (`PFmil_assgn`, `PFmil_declare`, `PFmil_new`,
`PFmil_cast`). `PFmil_seq_` turns a list of statements into a right-nested
chain of `m_seq` nodes. `PFmil_var_str` gives a variable its printed name,
`a0000`..`a9999` for identifiers past the reserved ones.

The other source files are listed in `PROJECT.json` as components that are not
modelled yet (see below).

## Modules

| Module | Models | State and actions |
|---|---|---|
| `CostModel` | `ALGjoinCost` | Pure operators. `Product` is the BUN multiplication with its wrap (`% 2^BUNBits`) and the BUN_MAX cap. `BaseEstimate` is lines 350-363. `Strategies` is the 14 discount tests in code order. `Discount` takes the first test that holds. `JoinCost` is the quotient. |
| `MCCostModel` | one call of `ALGjoinCost` | `Init` chooses the operands and the flag. `Estimate` returns the cost. The properties compare that cost with the cost for larger counts. |
| `JoinPathExecutor` | `ALGjoinPath` + `ALGjoinPathBody` | Variables: `joins`, `postpone`, `postponed` and `held` (references owned, per BAT id), plus history variables `cover` (which arguments each operand stands for) and `attempts`. Actions: `AllocJoins`, `Bind` (unknown BAT / type mismatch / bound), `StartBody`, `JoinFails`, `JoinSucceeds`, `Finish`. `AccessResults` says whether `BATsetaccess` may return NULL (in `JoinSucceeds`, line 503, and in `Finish`, line 530). `Call` is the refinement mapping to `JoinPathCall`. `SelectPair` is the selection loop as a fold, with the code's condition verbatim. The join kernels are a black box: a join fails, or returns a fresh BAT with any descriptor of `ResultDescs`. |
| `JoinPathCall` | what one join-path call promises | Variables: `nargs`, `st`, `covers` (the argument positions the result joins) and `owned` (references left behind). Two actions: `Return` (the join of 1..nargs in order, one fresh reference) and `Raise` (no reference). |
| `MCJoinPathExecutor` | instantiation | Descriptors chosen so that every pair position can be the cheapest. |
| `OptJoinPath` | both optimizer phases | Variables: `old`, `prog` (mb->stmt), `i`, `pcOf` (pc[]), `varcnt`, `vtype`, `actions`, `cands` (candidate[]), `vtop`, plus history variables `prog0` and `vtype0`. Each iteration of each of the two rewrite loops is one action (`FuseStep`, `SubStep`). The loops that only read (use counting, candidate collection) are operators (`UseCount`, `Candidates`). Entry and exit are actions (`Start`, `FuseDone`, `SubStart`, `SubDone`). Each allocation that can fail is a named site enabled by the constant `AllocFailures`. The input blocks are every well-typed block of `MaxInstrs` instructions over the inputs, generated by the recursive `Blocks`. |
| `MCOptJoinPath` | instantiation | Input types: all oid, a mixed oid/void/int set, and a semijoin set. |
| `DCYCatalog` | the registry | Variables: `catalog` (a sequence of entries, head first, each with an identity, key, access, count `n`, capacity `cap` and `ids` array), `fault` (the memory error a call committed), `calls`, `nextId`, and the history variable `last`. Actions: `AddRegist`, `RemovePartRegist`, `DropRegist`. `FindRegist` compares keys with a case fold (`Fold`, as `strcasecmp` does). `DropSearch` compares them exactly (`strcmp`). An uninitialised slot holds `Garbage`. |
| `MCDCYCatalog` | instantiation | Two spellings of one key (`"C"`, `"c"`) and a second key. |
| `DCYClients` | the registry shared by clients | Extends `DCYCatalog` with `pending`, the `addRegist` each client is inside. `addRegist` is two steps: `AddLookup` (the `findRegist` of line 67, keeping the found entry's identity) and `AddStore` (`AddStoreTo`, lines 68-94, the same operator the atomic `AddRegist` uses). `OtherCall` is a `removePartRegist` or `dropRegist`. An entry found and then dropped by another client is written after its free (`use_after_free`). |
| `MCDCYClients` | instantiation | Two clients and the keys of `MCDCYCatalog`. |
| `DCYOptimizer` | the optimizer composed with the registry | Extends `DCYCatalog`. Variables: `old`, `prog`, `i`, `used`, `regs`, `newArg`, `vtop`, `numRegs`, `errors`, `actions`, `phase`. One loop iteration is one action: `BindStep`, `OtherStep`, or `GrowFails` when the array growth fails. `Start` and `Finish` model entry and the `out` label. `RegStep` is a registry call, made before the pass or, with `RegistryDuringPass`, between two iterations. `BIND_OPT` selects the build. `hprops` holds the `hlb`/`hub` properties the default build's bind and the `BIND_OPT` build's pins set on each partition variable and on the `mat.new` result (`PartBounds`, `MaxHub`, `MatProps`, `PartProps`, `PinProps`). `maxHgh` is the function-local `max_hgh`, which keeps its value from one variable to the next and starts uninitialised (`Garbage`). |
| `MCDCYOptimizer` | instantiation | Two keys compared exactly, blocks of 3 instructions, and bun ranges `FBun`/`LBun` that give partition p the range [4p, 4p+4). |
| `MalRuntime` | `mal_runtime.c` | Variables: `prof` (per thread), `profiler` (per pc), `stkclk`, `tmpspace`, `fixes` (BAT fixes held), `now` (GDKusec), the thread's step `st` and instruction `cur`, `loaded` (tmpspace as loaded for `+=`), `execs`, and history variables `done`, `spent`, `began`, `added`. Actions: `Begin`, `ExitFootprint` (the alias test of lines 87-99, then `UpdateFootPrint`, which is `updateFootPrint` up to the load of `tmpspace`), `FootprintStore` (the store of line 197), `ExitProfile` (lines 101-120 under the lock, with the `rbytes`/`wbytes` that `GetVolume` computes as `getVolume` does: the sizes of the results or of the arguments, and a view counted only when it is read and the result is no view). |
| `MCMalRuntime` | instantiation | Four instructions: two traced, one returning a view, one returning its argument. |
| `TraceNames` | `prop_trace_names.c` | Variables: `plan` (a DAG of `N` operators, node 1 the start, children numbered above their parent), `goal`, `phase`, `pairs` (the goal's name pairs after `map_names`) and `result`. One action, `TraceNamesCall`, the whole call. `map_names` is the mutually recursive `MapNames`/`Dispatch`/`Descend`, threading a record of every node's `name_pairs`, `l_name_pairs` and reference count, so the order in which parents arrive is the code's depth-first order. `DiffNp`, `ProjectPairs`, `SidePairs`, `SemijoinPairs` and `BasePairs` are the list rewrites of the switch; `Dedup` is the pruning loop with its swap-with-top removal; `NewList` the read-out. `Plans` generates every well-formed plan of the eleven kind families (`KindCases`), and `Src`/`Expected` are the reference: the sources of a column followed along every path. |
| `MCTraceNames` | instantiation | Columns and kinds are given in the configs. |
| `MilTree` | `mil.c` | Variables: `heap` (every node built so far, as kind, semantic value and child slots, a child being the index of an earlier node or `NULL`), `seqs` (each `PFmil_seq` call with its statements and the root it returned), `printed` (the names `PFmil_var_str` gave to variable nodes) and `aborted` (a failed assertion). One action per constructor family: `NewLeaf`, `NewVar`, `NewType`, `NewWire` (any plain `wireN` constructor, with the arity tables `StmtBatWires` .. `CollectionTijahWires` taken from the source), `NewAssign`, `NewTyped`, `NewFlagged`, `NewOrdered`, `NewStep`, `NewSeq` (the recursive `SeqBuild`), and `PrintVar`. `VarStr` is the `snprintf` into a 6-byte buffer, digits included. With `NDEBUG` the asserts are compiled out. |
| `MCMilTree` | instantiation | Identifiers on both sides of the 4-digit boundary. |

`Denote` (in `OptJoinPath`) gives the meaning of a variable: an input, an
operation applied to what its arguments denote, or a join family applied to
its operand chain, with nested joins of the same family flattened. It is the
reference against which both rewrites are checked.

## Runs

These are the runs `PROJECT.json` lists; each passing property has a mutant.

| Run | Expect | What it shows |
|---|---|---|
| `cost_nowrap` | pass | Over every descriptor with counts 0..BUN_MAX (5-bit BUNs, BUN_MAX = 14) and every flag, a larger count never lowers the estimate, while lc*rc does not wrap. The discount order is monotone. |
| `executor` | pass | Up to 3 operands, mixed types, every flag, any failure pattern, `BATsetaccess` returning NULL or not. Only neighbours are joined (`ChainCovered`). At most n(n-1)/2 pairwise joins run (`AttemptsBound`). Every call returns (`Termination`). |
| `executor_refs` | pass | With type-compatible operands, the references held equal the live operands at every step (`RefsBalanced`), and every behaviour of the executor is a behaviour of `JoinPathCall` under the mapping `Call` (`ImplementsCall`), its fairness included: each call returns the in-order join of all its operands with exactly one reference, or raises holding none. |
| `opt` | pass | Blocks of 3 instructions (join, leftjoin, semijoin, other) over 2 inputs. Allocation failures in three places. Meaning is preserved, definitions come before uses, `actions` is zero exactly when nothing changed, and a pair shared by two paths is materialised once. |
| `opt_types` | pass | Join/leftjoin chains over oid/void/int with every failure site. The hardwired result type equals the original type. |
| `opt_rollback` | violation | The pc[]/varcnt[] allocation failure returns with the block emptied (finding). |
| `dcy_drop_case` | violation | Dropping a key registered with a different case dereferences NULL (finding). |
| `dcy_opt` | pass | Both builds, both allocation failures, registry calls before the pass. No counted slot is uninitialised, the default build defines every variable before use, every partition is unpinned once, a pass with no actions leaves the block unchanged, and the `hub` of every `mat.new` result is at least the `hub` of each partition it packs (`MatHubCovers`). Partitions 0 and 1 have distinct bun ranges. |
| `trace` | pass | Every plan of up to 3 operators over 3 columns and all eleven kind families, with injective projections and a goal that dominates the nodes below it. The traced column equals the reference for every start column (`TraceMatchesReference`), and the pruning keeps one pair per original name, `att_NULL` exactly where the current names disagree (`PruneExact`). |
| `trace_dup` | violation | A projection copying one column to two names over a generator of that column: `diff_np` nulls only the first pair, and the second is traced to a goal column it is not a copy of (finding). |
| `mil` | pass | Any sequence of up to 3 constructor calls (leaves, a typed node, wires of arity 1, 2 and 3, `key`/`access`, sorts, `step`, assignments, sequences of up to 3 statements, name printing) in a debug build. Every child points to an earlier node and the unused slots are NULL (`MilTypeOK`); flattening a `PFmil_seq` result gives its statements in order (`SeqFlattens`); distinct variable identifiers never print the same name (`VarNamesDistinct`). |
| `runtime` | pass | Two threads interleave begin/exit over traced, untraced, aliasing and view-returning instructions. Each traced instruction's counter equals its completed executions (`CountsTraced`), and its total ticks equal the sum of its own begin-to-exit intervals (`TicksAccounted`). |

Further configurations reproduce the hazards `PROJECT.json` lists with a
note. Each checks one property that TLC finds violated:

| Config | Module | Property | What TLC finds |
|---|---|---|---|
| `cost_overflow.cfg` | `MCCostModel` | `CostMonotone` | With wrapping allowed, a larger operand yields a smaller estimate: the code multiplies before it compares with BUN_MAX. |
| `executor_access.cfg` | `MCJoinPathExecutor` | `RefsBalanced` | A NULL from `BATsetaccess` after a successful join leaves the join result referenced when the call returns. |
| `dcy_concurrent.cfg` | `MCDCYOptimizer` | `UnpinsMatch` | A registry call between the bind and the exit unbalances the unpins. |
| `trace_bypass.cfg` | `MCTraceNames` | `TraceMatchesReference` | With a goal that a path bypasses, the node below it never reaches refcount zero and the bypassing path's columns are dropped. |
| `executor_postpone.cfg` | `MCJoinPathExecutor` | `FailsOnlyWhenAllPostponed` | The failed pair is retried at once, and its second failure aborts the call while operands remain unpostponed. |
| `opt_semijoin_type.cfg` | `MCOptJoinPath` | `TypePreserved` | A fused semijoin path gets the tail type of the last argument. |
| `opt_dedup_refs.cfg` | `MCOptJoinPath` | `SharedJoinReferencedByAll` | The breakout leaves counted occurrences unreplaced. |
| `dcy_writes_oob.cfg` | `MCDCYCatalog` | `WritesInBounds` | Removing from an empty entry makes the count negative, and the next add writes before the array. |
| `dcy_remove.cfg` | `MCDCYCatalog` | `PartitionRemoved` | `removePartRegist` treats the id as an index and removes the wrong partition. |
| `dcy_bind_undefined.cfg` | `MCDCYOptimizer` | `BindOptDefBeforeUse` | In the `BIND_DATACYCLOTRON_OPT` build, a column with no partitions loses its bind. |
| `dcy_newarg.cfg` | `MCDCYOptimizer` | `NewArgInBounds` | More partitions than a `newArg` row holds overflow the row. |
| `runtime_footprint.cfg` | `MCMalRuntime` | `FootprintExact` | Two threads load `stk->tmpspace` before either stores, and one footprint is lost. |
| `runtime_fixes.cfg` | `MCMalRuntime` | `FixesReleased` | An instruction returning a view leaves its BAT fixed. |
| `runtime_volume.cfg` | `MCMalRuntime` | `VolumesByDirection` | Lines 113-114 store `getVolume(.., 0)`, the volume of the results, as `rbytes`, and `getVolume(.., 1)`, the volume read from the arguments, as `wbytes`. This is the reverse of what the names say, and of how `rd` is used inside `getVolume` (a view counts in full only when `rd` is set). |
| `dcy_hlb_order.cfg` | `MCDCYOptimizer` | `MatHlbCovers` | The `hlb` of a `mat.new` result is the `f_bun` of slot 0 (294). With partition 1 registered before partition 0, it is 4, above partition 0's lower bound of 0. |
| `dcy_hub_stale.cfg` | `MCDCYOptimizer` | `MatHubOwn` | A registered column whose partitions were all removed gets a `mat.new` with no arguments. Its `hub` is `max_hgh`, which is never set in that case: uninitialised, or left over from an earlier column. |
| `executor_bind_leak.cfg` | `MCJoinPathExecutor` | `RefsBalanced` | A type mismatch at bind time throws with the BAT just fixed still referenced, a code bug at line 554. |
| `dcy_race.cfg` | `MCDCYClients` | `UniqueEntries` | Two clients' `addRegist` of a new key both find no entry and both push one. `UniqueEntries` is not in `dcy_opt`: with atomic registry calls it would only restate the lookup of line 67. |
| `mil_varname.cfg` | `MCMilTree` | `VarNamesDistinct` | In an `NDEBUG` build, identifier RES+10000 is truncated to `a1000`, the name of RES+1000. |

Every property of a passing run has a mutant in `PROJECT.json`. A mutant is a
variant of one mapped definition, written next to it as `...OffByOne`,
`...Never`, `...After` and so on. TLC finds the property violated when the
definition is replaced by its variant.

## Bounds

- **Cost model.** 5-bit BUNs give counts 0..14 and products up to 196. This
  is enough for products to wrap, and for every discount test to hold on some
  inputs and fail on others (`SMALL_OPERAND` = 4 splits the counts).
- **Executor.** Three operands are the fewest for which a non-first pair can
  be selected, an operand is shifted, and a failure leaves an operand
  unpostponed. Two result descriptors with different costs let both pair
  orders occur after a join. `MaxAttempts` lies above the bound the code can
  reach, so it only cuts mutants.
- **Optimizer.** Two inputs and three instructions give chains of three
  joins (a path of three arguments absorbing a join). They also give
  overlapping pairs, and every kind and failure site, and two paths sharing a
  pair.

- **Data cyclotron.** `DCYPARTITIONS` = 2 with 5 calls means an entry can
  fill its array and grow, and can lose all its partitions and then go
  negative. The optimizer runs use 3 calls and blocks of 3 instructions. That
  is enough for two binds of one column, a use with repeated arguments, a
  zero-partition entry and a growth failure. `SLACK` and `NEWARG_WIDTH` stand
  for the code's 1000 and are scaled to 3. `DCYREGS` = 8 makes the arrays grow
  after the first registered bind. `dcy_newarg` uses a width of 1, so that two
  partitions overflow a row. `dcy_opt` uses partition ids 0 and 1 with different
  bun ranges, so a column can pack two partitions registered in either
  order, and lose them all, with a second column's `max_hgh` before it.
- **Runtime.** Two threads and four executions let one thread begin while
  the other is between begin and exit, in every combination of traced and
  untraced. They also let a thread run a traced and then an untraced
  instruction, which is when a stale `ppc` would be charged, and let two
  threads be inside `updateFootPrint` at once. `MB` = 2, with sizes 3 and 4,
  makes the division truncate.

- **Trace names.** Three operators are the fewest for a shared node (a
  union or join of two paths to one leaf), a projection or generator above a
  leaf, and a binary operator above a unary one; three columns let a
  projection rename one column while keeping another and a generator
  overwrite one of several. There are 30,820 plan/goal pairs. Four operators
  take minutes only to enumerate the plans, so the bound stays at three.

- **MIL trees.** Three nodes are enough for a node with two earlier
  children, a `PFmil_seq` of up to three statements (two `m_seq` nodes), and
  a variable printed before and after other nodes. `RES` = 2 stands for the
  reserved identifiers. The identifiers 0, 1, RES, RES+1, RES+100, RES+1000
  and RES+9999 cover every digit count of the 4-digit name, and the
  configuration with the `NDEBUG` build adds RES+10000, the first
  identifier the buffer truncates. Three wire kinds of arities 1, 2 and 3
  stand for all of them: `Wire` does not depend on the kind.

## Refinement

`JoinPathCall` is the specification of a join-path call as its caller sees
it. `JoinPathExecutor` defines `Call == INSTANCE JoinPathCall WITH ...`:
`nargs` is the number of arguments, `st` is "call" until the executor is
in "done" or "error", `covers` is the flattened `cover` of the one remaining
operand, and `owned` is `held` once the call has ended and no reference
before. `executor_refs` checks `ImplementsCall == Call!Spec` as a property.
This includes the abstract fairness, so every executor behaviour must end in
`Return` or `Raise`.

## Fairness

`Spec` in `JoinPathExecutor`, `OptJoinPath` and `JoinPathCall` uses `WF_vars(Next)`. Each models one
synchronous call on one thread, with no waiting and no other actor (spec
section 5). Whenever a step is possible, the call takes it. `Termination` is
checked under that fairness. The optimizer stops in phase "done" and the
executor in "done" or "error", so the configs set `CHECK_DEADLOCK FALSE`.
`DCYOptimizer` has `WF` on the optimizer's own steps only: the pass is one
call. Registry calls are bounded by `MaxCalls` and are not assumed to
happen. Both data cyclotron modules stop when the calls or the pass are
done, or after a memory fault, which models a crash.

`TraceNames` has no fairness and no liveness property: the whole call is
one step, and the run stops after it (`CHECK_DEADLOCK FALSE`).

`DCYClients` has no fairness and no liveness property: it is used only to
reproduce the `addRegist` race, a safety violation.

`MilTree` has no fairness and no liveness property: constructor calls are
made by the generator only when it needs them, and the run stops at
`MaxNodes` (`CHECK_DEADLOCK FALSE`).

`MalRuntime` has weak fairness per thread on its exit steps: an
instruction that began finishes. It has none on `Begin`: the interpreter may
stop issuing instructions. The run stops after `MaxExecs` executions, so it
sets `CHECK_DEADLOCK FALSE`.

## Not modelled (yet), and the plan

- **Data cyclotron, not yet modelled.** Registry calls are atomic in
  `DCYCatalog` and `DCYOptimizer`. Only `DCYClients` splits `addRegist`, and
  no property about use after free is checked there. `f_bun`/`l_bun` are
  taken as a function of the partition id (`FBun`/`LBun`), which holds when
  every `addRegist` of a partition passes the same bun range; the code moves
  them together with `part_id`. The unchecked `newMalBlkStmt` of line 211 is
  assumed to succeed (only the `GDKrealloc` failures are modelled), and no
  variable index is compared with `num_regs`, as the arrays grow by one
  `DCYREGS` step per iteration as lines 217-235 do. The exit loop (357-361) is
  scanned over the block's original variables only: the temporaries it adds
  keep `used` = 0. `DCYbind`, `DCYpin`, `DCYunpin` and `DCYcopy` only throw
  `PROGRAM_NYI`.
- **MAL runtime profiler.** `displayVolume` only formats and prints. The
  timers, the wall-clock fields and the event stream are left out. `BATcount`
  and `headsize`/`tailsize` are abstracted to one `Size` per BAT. The `clk += clk` of line 111 is kept but no property states
  what `clk` should hold.
- **Executor.** The unchecked `GDKzalloc` of `postpone[]` (434) is a NULL
  dereference, not a state the model can continue from. Whether
  `BATsetaccess` releases its argument when it fails is defined outside
  `src/`; the model assumes it does not, which is why `executor_access` is a
  configuration, not a finding.
- **Trace names.** The twig constructors (`twig`, `fcns`, `docnode`,
  `element`, `textnode`, `attribute`, `content`, 310-383) take a
  `twig_iter` argument the other operators never use, and the recursion
  operators only raise a fatal error; `la_internal_op` is rejected. The
  generators whose `res` differs only in the field it is read from are one
  family (`attach`). Plans of more than three operators are out of reach.
  This also keeps out a behaviour of `la_fcns`. It visits both children in
  its case (318-319) and, unlike the other constructors, leaves with
  `break`, so lines 445-446 visit them again. Each of those visits
  decrements the child's reference count. A plan that shows this needs a
  `twig` above an `fcns` above two constructors over a shared input: at
  least five operators, out of reach for the plan enumeration.
- **Type-check typo** (line 258). It only rejects fusions, so a run comparing
  against a corrected check is planned.
- **MIL trees.** Literal payloads, comment text and the reserved variable
  names are abstract values: only identity matters to the properties.
  `milprint.c`, which walks the tree, is not in `src/`. `MIL_MAXCHILD` is
  defined in `mil.h`, not in `src/`, and taken as 12, the number of children
  `PFmil_step` writes.
- `opt_profiler.h` is one prototype, with no state. `properties.c` reads and
  writes a key=value file; that is I/O and string parsing. `SQLExecute.c`
  changes only the ODBC statement's `State` and its row descriptor, and every
  step that decides them (`mapi_execute`, `mapi_get_field_count`,
  `setODBCDescRecCount`, the statement functions that reset `State`) is
  defined outside `src/`. A model would only restate assumed behaviour. All
  three are listed with reasons in `PROJECT.json`.
- The join kernels, BAT storage and the BBP are outside `src/`. The model
  represents them by their contract: a join may fail, and a reference count
  per BAT id.
