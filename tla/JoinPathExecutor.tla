-------------------------- MODULE JoinPathExecutor --------------------------
(***************************************************************************)
(* The run-time evaluation of a join-path instruction: ALGjoinPath binds   *)
(* the BAT arguments, ALGjoinPathBody joins adjacent pairs, cheapest       *)
(* first, postponing a pair whose join failed, until one BAT is left.      *)
(*                                                                         *)
(* Positions are 1-based here: the code's joins[0] is joins[1].  A handle  *)
(* is a BAT id; held[h] counts the references this invocation owns on h   *)
(* (BATdescriptor and a join result add one, BBPreleaseref and BBPdecref   *)
(* remove one, BBPkeepref hands the result's reference to the stack).     *)
(* The pairwise join kernels are a black box that either fails or returns *)
(* a fresh BAT with any descriptor of ResultDescs.                         *)
(***************************************************************************)
EXTENDS CostModel, FiniteSets, SequencesExt

CONSTANTS
  Bats,         \* ids of the persistent BATs the arguments can name
  Missing,      \* an argument whose BAT id does not resolve
  MaxArgs,      \* bound on the number of join-path operands
  InputDescs,   \* descriptors a bound argument BAT can have
  ResultDescs,  \* descriptors a pairwise join result can have
  MaxAttempts,  \* bound on pairwise joins, above what the code can reach
  AccessResults \* what BATsetaccess(b, BAT_READ) can return: "ok", "null"

ASSUME Bats \subseteq Nat \ {0} /\ Missing \notin Nat
ASSUME MaxArgs \in Nat \ {0} /\ MaxAttempts \in Nat

\* Fresh BAT ids for join results start above every argument BAT.
FirstResult == 1 + (CHOOSE b \in Bats : \A c \in Bats : b >= c)
Handles     == Bats \cup (FirstResult .. FirstResult + MaxArgs)

VARIABLES
  args,      \* the BAT ids of the instruction's arguments
  flag,      \* 0 leftjoinPath, 1 joinPath, 2 semijoinPath
  desc,      \* descriptor of every BAT that exists
  pc,        \* "alloc", "bind", "join", "done" or "error"
  i,         \* next argument to bind
  joins,     \* the joins[] array, joins[1..top]
  postpone,  \* postpone[k] marks joins[k] as postponed
  postponed, \* number of postponed operands counted after a failure
  held,      \* references owned by this invocation, per BAT id
  nextBat,   \* id the next join result gets
  result,    \* the BAT returned to the stack, 0 if none
  attempts,  \* pairwise joins executed so far (history)
  cover      \* cover[k]: argument positions joins[k] stands for (history)

vars == <<args, flag, desc, pc, i, joins, postpone, postponed, held,
          nextBat, result, attempts, cover>>

top == Len(joins)

\* The type compatibility ALGjoinPath requires between neighbours.
Chains(tail, head) ==
  \/ tail = head
  \/ tail = "void" /\ head = "oid"
  \/ tail = "oid" /\ head = "void"

\* held after BBPreleaseref of every entry of the sequence hs.
Release(hs) ==
  [h \in DOMAIN held |-> held[h] - Cardinality({k \in DOMAIN hs : hs[k] = h})]

Init ==
  /\ \E n \in 1 .. MaxArgs : args \in [1 .. n -> Bats \cup {Missing}]
  /\ flag \in Flags
  /\ desc \in [Bats -> InputDescs]
  /\ pc = "alloc"
  /\ i = 1
  /\ joins = <<>>
  /\ postpone = <<>>
  /\ postponed = 0
  /\ held = [h \in Handles |-> 0]
  /\ nextBat = FirstResult
  /\ result = 0
  /\ attempts = 0
  /\ cover = <<>>

(***************************************************************************)
(* ALGjoinPath: the joins[] array is GDKmalloc'ed before anything is      *)
(* bound; if that fails the call throws MAL_MALLOC_FAIL.                   *)
(***************************************************************************)
AllocJoins ==
  /\ pc = "alloc"
  /\ \/ pc' = "bind"
     \/ pc' = "error"
  /\ UNCHANGED <<args, flag, desc, i, joins, postpone, postponed, held,
                 nextBat, result, attempts, cover>>

\* Leaving ALGjoinPath with an exception after releasing joins[1..top].
Throw(hs) ==
  /\ held' = Release(hs)
  /\ pc' = "error"

(***************************************************************************)
(* One iteration of the binding loop of ALGjoinPath for argument i.        *)
(* BATdescriptor fixes the BAT; a neighbour of the wrong type sets b to    *)
(* NULL without releasing the fix it just took.                            *)
(***************************************************************************)
Bind ==
  /\ pc = "bind"
  /\ i <= Len(args)
  /\ LET bid == args[i]
         fixed == [held EXCEPT ![bid] = @ + 1]
     IN  \/ /\ bid = Missing
            /\ Throw(joins)
            /\ UNCHANGED i
         \/ /\ bid # Missing
            /\ top > 0
            /\ ~Chains(desc[joins[top]].ttype, desc[bid].htype)
            /\ held' = [Release(joins) EXCEPT ![bid] = @ + 1]
            /\ pc' = "error"
            /\ UNCHANGED i
         \/ /\ bid # Missing
            /\ top > 0 => Chains(desc[joins[top]].ttype, desc[bid].htype)
            /\ held' = fixed
            /\ i' = i + 1
            /\ UNCHANGED pc
  /\ joins' = IF pc' = "bind" THEN Append(joins, args[i]) ELSE joins
  /\ cover' = IF pc' = "bind" THEN Append(cover, <<i>>) ELSE cover
  /\ UNCHANGED <<args, flag, desc, postpone, postponed, nextBat, result,
                 attempts>>

\* All arguments bound: ALGjoinPathBody starts with a zeroed postpone[].
StartBody ==
  /\ pc = "bind"
  /\ i > Len(args)
  /\ pc' = "join"
  /\ postpone' = [k \in 1 .. top |-> FALSE]
  /\ UNCHANGED <<args, flag, desc, i, joins, postponed, held, nextBat,
                 result, attempts, cover>>

\* Variant: top-- without the shift loop, dropping the last entry instead.
SpliceNoShift(s, j, x) == SubSeq(ReplaceAt(s, j, x), 1, Len(s) - 1)

\* joins[j] := b; top--; the entries after j + 1 shift down by one.
Splice(s, j, x) == ReplaceAt(RemoveAt(s, j + 1), j, x)

Cost(k) == JoinCost(desc[joins[k]], desc[joins[k + 1]], flag)

(***************************************************************************)
(* The pair selection of ALGjoinPathBody: start with pair 1, take a later  *)
(* pair when it is strictly cheaper and not doubly postponed, unless       *)
(* postponed < top.                                                        *)
(***************************************************************************)
SelectPair ==
  LET better(acc, k) ==
        IF /\ Cost(k) < acc.estimate
           /\ (~(postpone[k] /\ postpone[k + 1]) \/ postponed < top)
        THEN [j |-> k, estimate |-> Cost(k)]
        ELSE acc
  IN  FoldLeft(better, [j |-> 1, estimate |-> Cost(1)],
               [k \in 1 .. top - 2 |-> k + 1]).j

\* The kernel the switch on flag calls for pair j.
Kernel(j) ==
  IF flag = 0 /\ j = 1 THEN "leftjoin"
  ELSE IF flag = 2 THEN "semijoin"
  ELSE "join"

(***************************************************************************)
(* The chosen join fails.  A pair that was already doubly postponed, or a  *)
(* list in which every operand is now postponed, ends the call: every      *)
(* remaining operand is released.  Otherwise the loop retries.             *)
(***************************************************************************)
\* Variant: the abort on a pair that failed before is missing.
DoublyPostponedNever(j) == FALSE

DoublyPostponed(j) == postpone[j] /\ postpone[j + 1]

PostponedCount(pp) == Cardinality({k \in 1 .. top : pp[k]})

JoinFails ==
  /\ pc = "join"
  /\ top > 1
  /\ attempts < MaxAttempts
  /\ LET j    == SelectPair
         pp   == [postpone EXCEPT ![j] = TRUE, ![j + 1] = TRUE]
         npp  == PostponedCount(pp)
     IN  IF DoublyPostponed(j)
         THEN /\ Throw(joins)
              /\ UNCHANGED <<postpone, postponed>>
         ELSE /\ postpone' = pp
              /\ postponed' = npp
              /\ IF npp = top
                 THEN Throw(joins)
                 ELSE UNCHANGED <<held, pc>>
  /\ attempts' = attempts + 1
  /\ UNCHANGED <<args, flag, desc, i, joins, nextBat, result, cover>>

(***************************************************************************)
(* The chosen join succeeds with a fresh BAT b: the postpone marks are     *)
(* cleared and b is made read-only.  If BATsetaccess returns NULL the      *)
(* call releases the operands and returns, and b, which it owns, is not    *)
(* released (516-520).  Otherwise both operands are BBPdecref'ed and b     *)
(* takes their place.                                                      *)
(***************************************************************************)
\* Variant: only the left operand is BBPdecref'ed.
ConsumedLeftOnly(j) == <<joins[j]>>

\* Variant: the right operand is BBPdecref'ed after the shift loop moved
\* joins[j + 2] into its slot.
ConsumedAfterShift(j) == <<joins[j], joins[IF j + 2 <= top THEN j + 2 ELSE j + 1]>>

Consumed(j) == <<joins[j], joins[j + 1]>>

JoinSucceeds ==
  /\ pc = "join"
  /\ top > 1
  /\ attempts < MaxAttempts
  /\ \E d \in ResultDescs, acc \in AccessResults :
       LET j == SelectPair
           b == nextBat
       IN  /\ desc' = desc @@ (b :> d)
           /\ nextBat' = nextBat + 1
           /\ postpone' = [k \in 1 .. top |-> FALSE]
           /\ postponed' = 0
           /\ IF acc = "null"
              THEN /\ held' = [Release(joins) EXCEPT ![b] = 1]
                   /\ pc' = "error"
                   /\ UNCHANGED <<joins, cover>>
              ELSE /\ held' = [Release(Consumed(j)) EXCEPT ![b] = 1]
                   /\ joins' = Splice(joins, j, b)
                   /\ cover' = Splice(cover, j, cover[j] \o cover[j + 1])
                   /\ UNCHANGED pc
  /\ attempts' = attempts + 1
  /\ UNCHANGED <<args, flag, i, result>>

\* One operand left: ALGjoinPathBody makes it read-only (530) and
\* ALGjoinPath BBPkeepref's it into the result variable; if BATsetaccess
\* returns NULL, ALGjoinPath throws and the operand keeps its reference.
Finish ==
  /\ pc = "join"
  /\ top = 1
  /\ \E acc \in AccessResults :
       IF acc = "null"
       THEN /\ pc' = "error"
            /\ UNCHANGED result
       ELSE /\ result' = joins[1]
            /\ pc' = "done"
  /\ UNCHANGED <<args, flag, desc, i, joins, postpone, postponed, held,
                 nextBat, attempts, cover>>

Next ==
  \/ AllocJoins
  \/ Bind
  \/ StartBody
  \/ JoinFails
  \/ JoinSucceeds
  \/ Finish

\* One call on one thread: every step it can take, it takes.
Spec == Init /\ [][Next]_vars /\ WF_vars(Next)

-----------------------------------------------------------------------------
TypeOK ==
  /\ args \in Seq(Bats \cup {Missing}) /\ Len(args) \in 1 .. MaxArgs
  /\ flag \in Flags
  /\ pc \in {"alloc", "bind", "join", "done", "error"}
  /\ i \in 1 .. Len(args) + 1
  /\ joins \in Seq(DOMAIN desc) /\ top <= Len(args)
  /\ postpone \in Seq(BOOLEAN)
  /\ postponed \in 0 .. MaxArgs
  /\ held \in [Handles -> Nat]
  /\ result \in DOMAIN desc \cup {0}
  /\ attempts \in 0 .. MaxAttempts

\* The handles this invocation should own: the operands while it runs, the
\* result once it has been handed to the stack, nothing after an error.
Live ==
  CASE pc \in {"bind", "join"} -> joins
    [] pc = "done"             -> <<result>>
    [] OTHER                   -> <<>>

Occurrences(h, s) == Cardinality({k \in DOMAIN s : s[k] = h})

(***************************************************************************)
(* Reference symmetry (spec sections 3, 5, 7): at every step the           *)
(* references the call holds are exactly one per live operand, so every    *)
(* exit path -- bind error, unknown BAT, join failure, success -- releases *)
(* every BAT it fixed, and never releases one twice.                       *)
(***************************************************************************)
RefsBalanced == \A h \in Handles : held[h] = Occurrences(h, Live)

(***************************************************************************)
(* The greedy order only ever joins neighbours: the operands, read left to *)
(* right, stand for the arguments 1 .. n in order, so the single BAT left  *)
(* at the end is the join of the whole path.                               *)
(***************************************************************************)
ChainCovered ==
  pc \in {"join", "done"} =>
    FlattenSeq(cover) = [k \in 1 .. Len(args) |-> k]

(***************************************************************************)
(* Termination within budget (spec section 8): a failure that does not end *)
(* the call postpones at least one operand not postponed before, and the   *)
(* call ends once all are, so reducing t operands to t - 1 costs at most   *)
(* t - 1 pairwise joins and a path of n operands at most n * (n - 1) / 2.  *)
(***************************************************************************)
AttemptsBound == attempts <= (Len(args) * (Len(args) - 1)) \div 2

\* Every call returns: a result or an exception.
Termination == <>(pc \in {"done", "error"})

(***************************************************************************)
(* The refinement: seen from its caller, ALGjoinPath is a JoinPathCall.    *)
(* Until it returns, the caller sees the call in progress and no           *)
(* reference; at "done" it sees the chain the result covers and the        *)
(* references held, at "error" the references held.                        *)
(***************************************************************************)
Call == INSTANCE JoinPathCall WITH
          nargs  <- Len(args),
          st     <- IF pc \in {"done", "error"} THEN pc ELSE "call",
          covers <- IF pc = "done" THEN FlattenSeq(cover) ELSE << >>,
          owned  <- IF pc \in {"done", "error"} THEN held ELSE [h \in Handles |-> 0]

(***************************************************************************)
(* ALGjoinPath implements JoinPathCall: every call ends, with the join of  *)
(* the whole path and one reference to it, or with an exception and no     *)
(* reference left on any argument or intermediate BAT.                     *)
(***************************************************************************)
ImplementsCall == Call!Spec

(***************************************************************************)
(* Spec section 4.5 and 7: a failed pairwise join ends the whole call only *)
(* when every remaining operand is postponed.                              *)
(***************************************************************************)
FailsOnlyWhenAllPostponed ==
  (pc = "error" /\ postpone # <<>>) => \A k \in 1 .. top : postpone[k]

=============================================================================
