----------------------------- MODULE OptJoinPath ----------------------------
(***************************************************************************)
(* The join-path optimizer OPTjoinPathImplementation of opt_joinpath.c and *)
(* its second phase OPTjoinSubPath.                                        *)
(*                                                                         *)
(* A MAL block is a sequence of instructions [fn, ret, args]; index 1 is  *)
(* the function signature (the code's mb->stmt[0]), whose arguments are    *)
(* the block inputs.  Every other instruction assigns one variable.  The   *)
(* first phase walks the old block and builds a new one, replacing a join  *)
(* by a join path when an argument is the single-use result of a join of  *)
(* the same kind.  The second phase, run when the first changed anything,  *)
(* materialises an argument pair that occurs more than once in join paths *)
(* as one join and makes the paths refer to its result.                    *)
(*                                                                         *)
(* Each loop iteration over the old block is one step; the loops that only *)
(* read (use counts, candidate collection) are operators.  Allocations     *)
(* that can fail are named by site and enabled by AllocFailures.           *)
(***************************************************************************)
EXTENDS Integers, FiniteSets, SequencesExt

CONSTANTS
  BaseVars,      \* the block inputs, numbered 1 .. Cardinality(BaseVars)
  MaxInstrs,     \* instructions after the signature
  Kinds,         \* instruction kinds an input block uses
  Types,         \* atom types of heads and tails
  BaseType,      \* [BaseVars -> [h : Types, t : Types]]
  AllocFailures  \* allocation sites that may fail

AllocSites == {"fuserBlock", "fuserMaps", "subCandidates", "subBlock"}

ASSUME BaseVars = 1 .. Cardinality(BaseVars)
ASSUME MaxInstrs \in Nat
ASSUME Kinds \subseteq {"join", "leftjoin", "semijoin", "other"}
ASSUME AllocFailures \subseteq AllocSites

JoinFns == {"join", "leftjoin", "semijoin"}
PathFns == {"joinPath", "leftjoinPath", "semijoinPath"}

\* The family of an algebra join: which fns a join of that kind absorbs.
Family(fn) ==
  CASE fn \in {"join", "joinPath"}         -> "join"
    [] fn \in {"leftjoin", "leftjoinPath"} -> "leftjoin"
    [] fn \in {"semijoin", "semijoinPath"} -> "semijoin"
    [] OTHER                               -> fn

PathOf(fn)  == CASE fn = "join" -> "joinPath" [] fn = "leftjoin" -> "leftjoinPath"
                 [] OTHER -> "semijoinPath"
PlainOf(fn) == Family(fn)

RetVar == 0   \* the result variable of the signature
AnyType == [h |-> "any", t |-> "any"]   \* newTmpVariable(mb, TYPE_any)

Signature == [fn |-> "function", ret |-> RetVar,
              args |-> [k \in BaseVars |-> k]]

(***************************************************************************)
(* Input blocks: instruction k assigns variable |BaseVars| + k from        *)
(* earlier variables; joins take two arguments, other operations one.      *)
(* MAL type resolution gives a join the head of its left and the tail of   *)
(* its right argument, a semijoin the type of its left argument, other     *)
(* operations the type of their argument; a block is admitted only when    *)
(* its joins are type-correct as the run-time check of ALGjoinPath sees it.*)
(***************************************************************************)
Chains(tail, head) ==
  \/ tail = head
  \/ tail = "void" /\ head = "oid"
  \/ tail = "oid" /\ head = "void"

ResultType(fn, ts) ==
  CASE fn \in {"join", "leftjoin"} -> [h |-> ts[1].h, t |-> ts[2].t]
    [] OTHER                       -> ts[1]

WellTyped(fn, ts) ==
  CASE fn \in {"join", "leftjoin"} -> Chains(ts[1].t, ts[2].h)
    [] fn = "semijoin"             -> Chains(ts[1].h, ts[2].h)
    [] OTHER                       -> TRUE

NB == Cardinality(BaseVars)

RECURSIVE Blocks(_, _)
\* Blocks extending the instruction sequence body (typed by vt) to n instructions.
Blocks(body, vt) ==
  IF Len(body) = MaxInstrs THEN {<<body, vt>>}
  ELSE LET v     == NB + Len(body) + 1
           vars  == 1 .. v - 1
           shapes == {[fn |-> f, ret |-> v, args |-> a] :
                        f \in Kinds \cap JoinFns, a \in vars \X vars}
                     \cup {[fn |-> f, ret |-> v, args |-> <<a>>] :
                             f \in Kinds \ JoinFns, a \in vars}
           ok    == {s \in shapes : WellTyped(s.fn, [k \in DOMAIN s.args |-> vt[s.args[k]]])}
       IN  UNION {Blocks(Append(body, s),
                         vt @@ (v :> ResultType(s.fn, [k \in DOMAIN s.args |-> vt[s.args[k]]])))
                  : s \in ok}

InputBlocks == { <<Cons(Signature, b[1]), b[2]>> : b \in Blocks(<<>>, BaseType) }

VARIABLES
  prog0,    \* the block the optimizer was called with (history)
  vtype0,   \* the variable types it was called with (history)
  inlined,  \* the signature's result variable carries inlineProp
  phase,    \* "start", "fuse", "sub", "subloop", "done"
  old,      \* the block being walked (old[] in the code)
  prog,     \* mb->stmt: the block being built
  i,        \* loop index into old
  pcOf,     \* pc[]: index in prog of the last assignment of a variable
  varcnt,   \* varcnt[]: uses of a variable as an argument in old
  vtype,    \* variable types
  actions,  \* the actions counter of the pass
  cands,    \* the candidate[] array of OPTjoinSubPath
  vtop      \* next fresh variable

vars == <<prog0, vtype0, inlined, phase, old, prog, i, pcOf, varcnt, vtype, actions,
          cands, vtop>>

NoCand == 0   \* candidate[k].p == 0: not materialised yet

Init ==
  /\ \E b \in InputBlocks : prog0 = b[1] /\ vtype = b[2]
  /\ vtype0 = vtype
  /\ inlined \in BOOLEAN
  /\ phase = "start"
  /\ old = prog0
  /\ prog = prog0
  /\ i = 1
  /\ pcOf = <<>>
  /\ varcnt = <<>>
  /\ actions = 0
  /\ cands = <<>>
  /\ vtop = NB + MaxInstrs + 1

(***************************************************************************)
(* Entry of OPTjoinPathImplementation: leave inlined functions alone;      *)
(* newMalBlkStmt replaces mb->stmt by an empty block; then the pc[] and    *)
(* varcnt[] arrays are allocated and the argument uses of old counted.     *)
(***************************************************************************)
Vars == 0 .. NB + MaxInstrs

Occurrences(v, s) == Cardinality({j \in DOMAIN s : s[j] = v})

UseCount(blk) ==
  [v \in Vars |-> FoldSeq(LAMBDA ins, n : n + Occurrences(v, ins.args), 0, blk)]

Finished ==
  /\ phase' = "done"
  /\ UNCHANGED <<old, i, pcOf, varcnt, cands, vtop>>

Start ==
  /\ phase = "start"
  /\ \/ /\ inlined
        /\ Finished
        /\ UNCHANGED <<prog, vtype, actions>>
     \/ /\ ~inlined
        /\ "fuserBlock" \in AllocFailures
        /\ Finished
        /\ UNCHANGED <<prog, vtype, actions>>
     \/ /\ ~inlined
        /\ "fuserMaps" \in AllocFailures
        /\ prog' = <<>>
        /\ Finished
        /\ UNCHANGED <<vtype, actions>>
     \/ /\ ~inlined
        /\ phase' = "fuse"
        /\ prog' = <<>>
        /\ varcnt' = UseCount(old)
        /\ UNCHANGED <<old, i, pcOf, vtype, actions, cands, vtop>>
  /\ UNCHANGED <<prog0, vtype0, inlined>>

(***************************************************************************)
(* One iteration of the first phase for p = old[i].  For a join, q is p    *)
(* with every argument whose last assignment r is a join of the same      *)
(* family, used only once, replaced by r's arguments.  An unassigned      *)
(* variable has pc[] = 0, which names the signature.  q is kept when it   *)
(* grew and passes the type check; its result gets the type               *)
(* bat[head of first argument, tail of last argument].                    *)
(***************************************************************************)
LastAssign(v) == prog[IF v \in DOMAIN pcOf THEN pcOf[v] ELSE 1]

\* Variant: r's kind is not compared with p's.
AbsorbsAnyJoin(p, a) ==
  LET r == LastAssign(a)
  IN  varcnt[a] <= 1 /\ r.fn \in JoinFns \cup PathFns

Absorbs(p, a) ==
  LET r == LastAssign(a)
  IN  varcnt[a] <= 1 /\ r.fn \in JoinFns \cup PathFns /\ Family(r.fn) = p.fn

Expanded(p) ==
  FlattenSeq([j \in DOMAIN p.args |->
                IF Absorbs(p, p.args[j]) THEN LastAssign(p.args[j]).args
                ELSE <<p.args[j]>>])

\* The final type check, as written: the void/oid exemptions compare the
\* tail of argument j with the head of argument j, not of argument j + 1.
TypeCheckFails(qa) ==
  \E j \in 1 .. Len(qa) - 1 :
    LET tj == vtype[qa[j]]
        hn == vtype[qa[j + 1]].h
    IN  /\ tj.t # hn
        /\ ~(tj.t = "oid" /\ tj.h = "void")
        /\ ~(tj.t = "void" /\ tj.h = "oid")

FusedFn(fn, n) ==
  IF (fn \in {"join", "leftjoin"} /\ n + 1 > 3) \/ (fn = "semijoin" /\ n + 1 > 2)
  THEN PathOf(fn) ELSE fn

\* Variant: pc[] records mb->stop instead of mb->stop - 1.
EmitOffByOne(ins) ==
  /\ prog' = Append(prog, ins)
  /\ pcOf' = (ins.ret :> Len(prog)) @@ pcOf

\* pushInstruction and pc[] of the result in one go.
Emit(ins) ==
  /\ prog' = Append(prog, ins)
  /\ pcOf' = (ins.ret :> Len(prog) + 1) @@ pcOf

\* Variant: "q->argc < p->argc" for "q->argc <= p->argc".
GrewOrSame(qa, p) == Len(qa) >= Len(p.args)

\* q is kept only when its argument list grew.
Grew(qa, p) == Len(qa) > Len(p.args)

\* Variant: the tail is taken from the argument before the last.
FixTypeOffByOne(qa) == [h |-> vtype[qa[1]].h, t |-> vtype[qa[Len(qa) - 1]].t]

\* The hardwired result type bat[head of first, tail of last argument].
FixType(qa) == [h |-> vtype[qa[1]].h, t |-> vtype[qa[Len(qa)]].t]

FuseStep ==
  /\ phase = "fuse"
  /\ i <= Len(old)
  /\ LET p  == old[i]
         qa == Expanded(p)
     IN  IF p.fn \in JoinFns /\ Grew(qa, p) /\ ~TypeCheckFails(qa)
         THEN /\ Emit([fn |-> FusedFn(p.fn, Len(qa)), ret |-> p.ret, args |-> qa])
              /\ vtype' = [vtype EXCEPT ![p.ret] = FixType(qa)]
              /\ actions' = actions + 1
         ELSE /\ Emit(p)
              /\ UNCHANGED <<vtype, actions>>
  /\ i' = i + 1
  /\ UNCHANGED <<prog0, vtype0, inlined, phase, old, varcnt, cands, vtop>>

\* After the loop: the second phase runs only when the first changed code.
FuseDone ==
  /\ phase = "fuse"
  /\ i > Len(old)
  /\ IF actions > 0
     THEN /\ phase' = "sub"
          /\ UNCHANGED <<old, i, pcOf, varcnt, cands, vtop>>
     ELSE Finished
  /\ UNCHANGED <<prog0, vtype0, inlined, prog, vtype, actions>>

(***************************************************************************)
(* OPTjoinSubPath, candidate collection: for every adjacent argument pair  *)
(* of a join path, in program order, find the candidate with the same      *)
(* (lvar, rvar, fcn) and count it, or add one while top < mb->stop.        *)
(***************************************************************************)
PairsOf(blk) ==
  FlattenSeq([k \in DOMAIN blk |->
    IF blk[k].fn \in PathFns
    THEN [j \in 1 .. Len(blk[k].args) - 1 |->
            [lvar |-> blk[k].args[j], rvar |-> blk[k].args[j + 1], fcn |-> blk[k].fn]]
    ELSE <<>>])

SameKey(c, x) == c.lvar = x.lvar /\ c.rvar = x.rvar /\ c.fcn = x.fcn

Candidates(blk) ==
  LET add(c, x) ==
        LET found == {k \in DOMAIN c : SameKey(c[k], x)}
        IN  IF found # {} THEN [c EXCEPT ![CHOOSE k \in found : TRUE].cnt = @ + 1]
            ELSE IF Len(c) < Len(blk)
            THEN Append(c, [lvar |-> x.lvar, rvar |-> x.rvar, fcn |-> x.fcn,
                            cnt |-> 1, p |-> NoCand])
            ELSE c
  IN  FoldLeft(add, <<>>, PairsOf(blk))

(***************************************************************************)
(* Entry of OPTjoinSubPath on the block the first phase built: allocate    *)
(* candidate[], collect, give up when there is none, then newMalBlkStmt.   *)
(***************************************************************************)
SubStart ==
  /\ phase = "sub"
  /\ LET c == Candidates(prog)
     IN  \/ /\ "subCandidates" \in AllocFailures
            /\ Finished
         \/ /\ c = <<>>
            /\ Finished
         \/ /\ c # <<>>
            /\ "subBlock" \in AllocFailures
            /\ Finished
         \/ /\ c # <<>>
            /\ phase' = "subloop"
            /\ old' = prog
            /\ i' = 1
            /\ cands' = c
            /\ UNCHANGED <<pcOf, varcnt, vtop>>
  /\ prog' = IF phase' = "subloop" THEN <<>> ELSE prog
  /\ UNCHANGED <<prog0, vtype0, inlined, vtype, actions>>

\* Variant: getArg(p, j) = x without the delArgument(p, j).
SpliceNoDelete(s, j, x) == ReplaceAt(s, j, x)

\* delArgument(p, j); getArg(p, j) = x: the pair j, j + 1 becomes x.
Splice(s, j, x) == ReplaceAt(RemoveAt(s, j + 1), j, x)

\* Candidate k is a repeated pair at argument position j of p.
Repeated(k, p, j) ==
  /\ cands[k].lvar = p.args[j] /\ cands[k].rvar = p.args[j + 1]
  /\ cands[k].fcn = p.fn /\ cands[k].cnt > 1

\* Variant: the candidate[k].p == 0 test is missing.
UnmaterialisedAlways(k) == TRUE

\* candidate[k].p == 0: the pair's join has not been created yet.
Unmaterialised(k) == cands[k].p = NoCand

\* Variant: p is pushed before the join it now refers to.
InjectedAfter(new, q, p2) == IF new THEN <<p2, q>> ELSE <<p2>>

\* newStmt appends q at once; breakout pushes p afterwards.
Injected(new, q, p2) == IF new THEN <<q, p2>> ELSE <<p2>>

(***************************************************************************)
(* One iteration of the second phase for p = old[i]: at the first argument *)
(* position j holding a repeated pair, the pair's join is created with     *)
(* newStmt (appended to the block) the first time it is needed, the pair   *)
(* in p becomes its result, a path left with two arguments becomes a plain *)
(* join, and the scan of p stops ("goto breakout").                        *)
(***************************************************************************)
SubStep ==
  /\ phase = "subloop"
  /\ i <= Len(old)
  /\ LET p    == old[i]
         hits == IF p.fn \in PathFns
                 THEN {j \in 1 .. Len(p.args) - 1 : \E k \in DOMAIN cands : Repeated(k, p, j)}
                 ELSE {}
     IN  IF hits = {}
         THEN /\ prog' = Append(prog, p)
              /\ UNCHANGED <<vtype, actions, cands, vtop>>
         ELSE LET j    == CHOOSE x \in hits : \A y \in hits : x <= y
                  k    == CHOOSE x \in DOMAIN cands : Repeated(x, p, j)
                  new  == Unmaterialised(k)
                  jv   == IF new THEN vtop ELSE cands[k].p
                  q    == [fn |-> PlainOf(p.fn), ret |-> vtop,
                           args |-> <<cands[k].lvar, cands[k].rvar>>]
                  pa   == Splice(p.args, j, jv)
                  p2   == [p EXCEPT !.args = pa,
                                    !.fn = IF Len(pa) = 2 THEN PlainOf(p.fn) ELSE p.fn]
              IN  /\ prog' = prog \o Injected(new, q, p2)
                  /\ cands' = [cands EXCEPT ![k].p = jv]
                  /\ vtop' = IF new THEN vtop + 1 ELSE vtop
                  /\ vtype' = IF new THEN (vtop :> AnyType) @@ vtype ELSE vtype
                  /\ actions' = actions + 1
  /\ i' = i + 1
  /\ UNCHANGED <<prog0, vtype0, inlined, phase, old, pcOf, varcnt>>

SubDone ==
  /\ phase = "subloop"
  /\ i > Len(old)
  /\ Finished
  /\ UNCHANGED <<prog0, vtype0, inlined, prog, vtype, actions>>

Next ==
  \/ Start
  \/ FuseStep
  \/ FuseDone
  \/ SubStart
  \/ SubStep
  \/ SubDone

Spec == Init /\ [][Next]_vars /\ WF_vars(Next)

-----------------------------------------------------------------------------
FreshVars == NB + MaxInstrs + 1 .. vtop - 1
Instrs    == [fn : JoinFns \cup PathFns \cup {"other", "function"},
              ret : Vars \cup FreshVars, args : Seq(Vars \cup FreshVars)]

TypeOK ==
  /\ phase \in {"start", "fuse", "sub", "subloop", "done"}
  /\ prog \in Seq(Instrs) /\ old \in Seq(Instrs)
  /\ i \in 1 .. Len(old) + 1
  /\ DOMAIN pcOf \subseteq Vars
  /\ phase = "fuse" => pcOf \in [DOMAIN pcOf -> DOMAIN prog]
  /\ vtype \in [(Vars \ {RetVar}) \cup FreshVars -> [h : Types \cup {"any"}, t : Types \cup {"any"}]]
  /\ actions \in Nat
  /\ \A k \in DOMAIN cands : cands[k].cnt >= 1 /\ cands[k].p \in FreshVars \cup {NoCand}

Defined(blk) == {blk[k].ret : k \in DOMAIN blk} \ {RetVar}

(***************************************************************************)
(* What a variable denotes: an input, another operation applied to what   *)
(* its arguments denote, or a join of one family applied to the operand   *)
(* chain it stands for, nested joins of the same family flattened (a join *)
(* chain is associative, which is what licenses both phases).             *)
(***************************************************************************)
RECURSIVE Denote(_, _)
Denote(blk, v) ==
  LET ks == {k \in DOMAIN blk : blk[k].ret = v}
  IN  IF ks = {} \/ v = RetVar THEN <<"input", v>>
      ELSE LET p     == blk[CHOOSE k \in ks : TRUE]
               f     == Family(p.fn)
               parts == [j \in DOMAIN p.args |-> Denote(blk, p.args[j])]
           IN  IF p.fn \in JoinFns \cup PathFns
               THEN <<f, FlattenSeq([j \in DOMAIN parts |->
                           IF parts[j][1] = f THEN parts[j][2] ELSE <<parts[j]>>])>>
               ELSE <<p.fn, parts>>

(***************************************************************************)
(* Semantic equivalence (spec section 8): when the pass returns, every     *)
(* variable of the original block still exists and denotes the same join  *)
(* chain, after both the fusion and the subpath rewrite, also when an      *)
(* allocation failed part-way (spec section 7: commit fully or restore).   *)
(***************************************************************************)
SemanticsPreserved ==
  phase = "done" =>
    \A v \in Defined(prog0) : Denote(prog, v) = Denote(prog0, v)

(***************************************************************************)
(* Single assignment (spec section 3): in the block being built every      *)
(* argument is an input or assigned by an earlier instruction, also for    *)
(* the joins the subpath phase inserts and the paths that refer to them.  *)
(***************************************************************************)
DefBeforeUse ==
  \A k \in DOMAIN prog : \A a \in Range(prog[k].args) :
    a \in BaseVars \/ \E m \in 1 .. k - 1 : prog[m].ret = a

(***************************************************************************)
(* The actions count the pipeline reads (spec section 6): zero exactly     *)
(* when the block comes back unchanged.                                    *)
(***************************************************************************)
NoOpIffZeroActions ==
  phase = "done" => ((actions = 0) <=> (prog = prog0))

(***************************************************************************)
(* A repeated pair is materialised at most once (spec section 8): no two   *)
(* joins the subpath phase inserted compute the same pair of the same kind.*)
(***************************************************************************)
SharedJoinOnce ==
  \A k, m \in DOMAIN prog :
    (k # m /\ prog[k].ret \in FreshVars /\ prog[m].ret \in FreshVars)
      => <<prog[k].fn, prog[k].args>> # <<prog[m].fn, prog[m].args>>

(***************************************************************************)
(* Spec section 8: a pair occurring k > 1 times in join paths yields one   *)
(* join referenced k times.                                                *)
(***************************************************************************)
SharedJoinReferencedByAll ==
  phase = "done" =>
    \A k \in DOMAIN cands :
      cands[k].p # NoCand =>
        FoldSeq(LAMBDA ins, n : n + Occurrences(cands[k].p, ins.args), 0, prog)
          = cands[k].cnt

(***************************************************************************)
(* Every variable of the original block keeps its type (the pass fixes the *)
(* type of a fused result with bat[head of first, tail of last argument]). *)
(***************************************************************************)
TypePreserved ==
  phase = "done" => \A v \in Defined(prog0) : vtype[v] = vtype0[v]

=============================================================================
