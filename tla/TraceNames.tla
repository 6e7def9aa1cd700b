----------------------------- MODULE TraceNames -----------------------------
(***************************************************************************)
(* PFprop_trace_names of prop_trace_names.c: follow a list of columns from *)
(* a start operator down a Pathfinder algebra DAG until a goal operator,   *)
(* and report, for each column, the goal column it is a copy of, or        *)
(* att_NULL.                                                               *)
(*                                                                         *)
(* A plan is a function from node ids 1..N to operator records; node 1 is *)
(* the start and the children of node k are nodes above k, so every plan   *)
(* is a DAG in which a node can have several parents.  The operator kinds  *)
(* stand for the groups of cases of map_names that treat the name pairs  *)
(* alike (see KindCases).  The worker map_names mutates per-node name-pair *)
(* arrays and reference counts; it is the RECURSIVE operator MapNames,     *)
(* which threads a record `s` of all of them through its recursive calls.  *)
(***************************************************************************)
EXTENDS Integers, Sequences, SequencesExt, FiniteSets

CONSTANTS
  Cols,          \* column names (PFalg_att_t)
  N,             \* number of operators in a plan
  Kinds,         \* operator kinds the plans are built from
  InjectiveProj, \* whether a projection may not copy one column twice
  GoalDominates  \* whether every path to a node below the goal passes it

AttNull == "att_NULL"
Nodes == 1 .. N
NoProj == [c \in {} |-> AttNull]

\* An operator: kind, children (0 for none), result column, projection
\* list (new -> old), semijoin right column, and the schema of a leaf.
Op(kind, l, r, res, proj, att2, cols) ==
  [kind |-> kind, l |-> l, r |-> r, res |-> res, proj |-> proj,
   att2 |-> att2, cols |-> cols]

(***************************************************************************)
(* Where each kind comes from in the switch of map_names (119-441).        *)
(*   select:   serialize, select, distinct, type_assert, ... (119-133)     *)
(*   union:    disjunion, intersect, difference (124-126)                  *)
(*   lit:      lit_tbl, empty_tbl, ref_tbl (135-148)                       *)
(*   attach:   attach and every operator that generates one column res    *)
(*             (150-152, 250-308, 385-389, 432-436)                        *)
(*   step:     step/step_join/doc_access..: a generator over (fragment,    *)
(*             relation) children (291-296)                                *)
(*   frag:     fragment, frag_union, empty_frag (391-399)                  *)
(*   project:  project (154-182)                                           *)
(*   cross:    cross, eqjoin, thetajoin; semijoin (184-248)                *)
(*   funcall:  fun_call, fun_param, fun_frag_param (425-430)               *)
(*   trace:    cond_err, trace, trace_msg, trace_map (401-410)             *)
(***************************************************************************)
KindCases == {"select", "union", "lit", "attach", "step", "frag", "project",
              "cross", "semijoin", "funcall", "trace"}

RECURSIVE Schema(_, _)
Schema(P, n) ==
  LET o == P[n] IN
  CASE o.kind \in {"lit", "funcall"}                   -> o.cols
    [] o.kind = "frag"                                 -> {}
    [] o.kind \in {"select", "union", "semijoin", "trace"} -> Schema(P, o.l)
    [] o.kind = "attach"                               -> Schema(P, o.l) \cup {o.res}
    [] o.kind = "step"                                 -> Schema(P, o.r) \cup {o.res}
    [] o.kind = "project"                              -> DOMAIN o.proj
    [] o.kind = "cross"                                -> Schema(P, o.l) \cup Schema(P, o.r)

Projections(S) ==
  { f \in UNION {[D -> S] : D \in SUBSET Cols \ {{}}} :
      InjectiveProj => \A x, y \in DOMAIN f : x # y => f[x] # f[y] }

\* The well-formed operators at node k over the plan P of nodes k+1..N.
OpChoices(P, k) ==
  LET B    == k + 1 .. N
      Sch  == [n \in B |-> Schema(P, n)]
      Rel  == {n \in B : P[n].kind # "frag"}
      Sets == SUBSET Cols \ {{}}
      all  ==
        {Op("lit", 0, 0, AttNull, NoProj, AttNull, s) : s \in Sets}
        \cup {Op("frag", 0, 0, AttNull, NoProj, AttNull, {})}
        \cup {Op("select", l, 0, AttNull, NoProj, AttNull, {}) : l \in Rel}
        \cup {Op("union", l, r, AttNull, NoProj, AttNull, {}) :
                <<l, r>> \in {x \in Rel \X Rel : Sch[x[1]] = Sch[x[2]]}}
        \cup {Op("attach", l, 0, c, NoProj, AttNull, {}) :
                <<l, c>> \in {x \in Rel \X Cols : x[2] \notin Sch[x[1]]}}
        \cup {Op("step", f, r, c, NoProj, AttNull, {}) :
                <<f, r, c>> \in {x \in B \X Rel \X Cols :
                                   P[x[1]].kind = "frag" /\ x[3] \notin Sch[x[2]]}}
        \cup UNION {{Op("project", l, 0, AttNull, f, AttNull, {}) : f \in Projections(Sch[l])} :
                      l \in Rel}
        \cup {Op("cross", l, r, AttNull, NoProj, AttNull, {}) :
                <<l, r>> \in {x \in Rel \X Rel : Sch[x[1]] \cap Sch[x[2]] = {}}}
        \cup UNION {{Op("semijoin", l, r, AttNull, NoProj, a, {}) : a \in Sch[r]} :
                      <<l, r>> \in Rel \X Rel}
        \cup {Op("funcall", l, 0, AttNull, NoProj, AttNull, s) : <<l, s>> \in Rel \X Sets}
        \cup {Op("trace", l, r, AttNull, NoProj, AttNull, {}) : <<l, r>> \in Rel \X Rel}
  IN  {o \in all : o.kind \in Kinds}

RECURSIVE PlansFrom(_)
PlansFrom(k) ==
  IF k > N THEN {[n \in {} |-> Op("lit", 0, 0, AttNull, NoProj, AttNull, {})]}
  ELSE UNION {{[n \in k .. N |-> IF n = k THEN o ELSE P[n]] : o \in OpChoices(P, k)} :
                P \in PlansFrom(k + 1)}

Children(P, n) == {c \in {P[n].l, P[n].r} : c # 0}

\* Every operator is a descendant of the start operator 1, whose schema is
\* not empty.
Plans ==
  {P \in PlansFrom(1) :
     /\ \A k \in 2 .. N : \E m \in 1 .. k - 1 : k \in Children(P, m)
     /\ Schema(P, 1) # {}}

(***************************************************************************)
(* PFprop_infer_refctr (501): the number of incoming edges of each node    *)
(* of the DAG below start, an edge counted once per child slot.            *)
(***************************************************************************)
Refctr(P, n) ==
  Cardinality({m \in Nodes : P[m].l = n}) + Cardinality({m \in Nodes : P[m].r = n})

\* A name pair: the original (start) name and the current name.
Pair(ori, cur) == [ori |-> ori, cur |-> cur]

\* Variant: the pair found is left as it is.
DiffNpNone(np, cur) == np

(***************************************************************************)
(* diff_np (65-75): mark as invalid the first pair whose current name is   *)
(* `cur`, and stop.                                                        *)
(***************************************************************************)
DiffNp(np, cur) ==
  LET i == SelectInSeq(np, LAMBDA p : p.cur = cur)
  IN  IF i = 0 THEN np ELSE [np EXCEPT ![i].cur = AttNull]

\* Variant: the pair is added with its current name as original (ORI/CUR
\* swapped).
BasePairsSwapped(np) == [i \in DOMAIN np |-> Pair(np[i].cur, AttNull)]

\* lit_tbl/empty_tbl/ref_tbl (135-148): every pair reaches the goal invalid.
BasePairs(np) == [i \in DOMAIN np |-> Pair(np[i].ori, AttNull)]

(***************************************************************************)
(* project (154-182): keep the invalid pairs, rename a pair whose current  *)
(* name is a new name of the projection to its old name, and drop the     *)
(* pairs the projection does not mention.                                  *)
(***************************************************************************)
ProjectPairs(np, proj) ==
  LET kept == SelectSeq(np, LAMBDA p : p.cur = AttNull \/ p.cur \in DOMAIN proj)
  IN  [i \in DOMAIN kept |->
         IF kept[i].cur = AttNull THEN kept[i] ELSE Pair(kept[i].ori, proj[kept[i].cur])]

\* The pairs a join passes to a child with schema S: invalid ones and those
\* whose current name is a column of S (195-211, 227-244).
SidePairs(np, S) == SelectSeq(np, LAMBDA p : p.cur = AttNull \/ p.cur \in S)

\* The semijoin's right pairs (216-223): the first pair naming att2.
SemijoinPairs(np, att2) ==
  LET i == SelectInSeq(np, LAMBDA p : p.cur = att2)
  IN  IF i = 0 THEN << >> ELSE << np[i] >>

(***************************************************************************)
(* map_names (80-447).  `s` holds, per node, name_pairs (np), l_name_pairs *)
(* (lnp) and the reference count (ref).  The parent's pairs are appended   *)
(* (except at fragment operators), the count is decremented, and only the  *)
(* last parent to arrive, if the node is not the goal, runs the switch.    *)
(***************************************************************************)
RECURSIVE MapNames(_, _, _, _, _), Dispatch(_, _, _, _), Descend(_, _, _, _, _)

MapNames(P, G, s, n, par) ==
  LET np == IF P[n].kind = "frag" THEN s.np[n] ELSE s.np[n] \o par
      s1 == [s EXCEPT !.np[n] = np, !.ref[n] = @ - 1]
  IN  IF s1.ref[n] > 0 \/ n = G THEN s1 ELSE Dispatch(P, G, s1, n)

\* The calls at the end of map_names (445-446): left, then right child,
\* each given the node's own name_pairs.
Descend(P, G, s, n, np) ==
  LET s2 == IF P[n].l # 0 THEN MapNames(P, G, s, P[n].l, np) ELSE s
  IN  IF P[n].r # 0 THEN MapNames(P, G, s2, P[n].r, s2.np[n]) ELSE s2

\* The switch of map_names (117-441) on the node's kind.
Dispatch(P, G, s, n) ==
  LET o  == P[n]
      np == s.np[n]
  IN  CASE o.kind \in {"select", "union"} ->
             Descend(P, G, s, n, np)
        [] o.kind = "lit" ->
             [s EXCEPT !.np[G] = @ \o BasePairs(np)]
        [] o.kind \in {"attach", "step"} ->
             LET np2 == DiffNp(np, o.res)
             IN  Descend(P, G, [s EXCEPT !.np[n] = np2], n, np2)
        [] o.kind \in {"frag", "funcall"} ->
             Descend(P, G, [s EXCEPT !.np[n] = << >>], n, << >>)
        [] o.kind = "project" ->
             LET lp == s.lnp[n] \o ProjectPairs(np, o.proj)
             IN  MapNames(P, G, [s EXCEPT !.lnp[n] = lp], o.l, lp)
        [] o.kind \in {"cross", "semijoin"} ->
             LET lp == s.lnp[n] \o SidePairs(np, Schema(P, o.l))
                 s2 == MapNames(P, G, [s EXCEPT !.lnp[n] = lp], o.l, lp)
                 rp == IF o.kind = "semijoin" THEN SemijoinPairs(np, o.att2)
                       ELSE SidePairs(np, Schema(P, o.r))
                 s3 == MapNames(P, G, [s2 EXCEPT !.lnp[n] = rp], o.r, rp)
             IN  [s3 EXCEPT !.lnp[n] = << >>]
        [] o.kind = "trace" ->
             LET s2 == MapNames(P, G, s, o.l, np)
             IN  MapNames(P, G, [s2 EXCEPT !.np[n] = << >>], o.r, << >>)

\* Variant: after removing entry j the loop moves on to j+1, skipping the
\* entry moved into j.
RECURSIVE DedupSkip(_, _, _)
DedupSkip(l, i, j) ==
  IF i > Len(l) THEN l
  ELSE IF j > Len(l) THEN DedupSkip(l, i + 1, i + 2)
  ELSE IF l[i].ori = l[j].ori
    THEN LET l1 == IF l[i].cur # l[j].cur THEN [l EXCEPT ![i].cur = AttNull] ELSE l
         IN  DedupSkip(SubSeq([l1 EXCEPT ![j] = l1[Len(l1)]], 1, Len(l1) - 1), i, j + 1)
  ELSE DedupSkip(l, i, j + 1)

(***************************************************************************)
(* The pruning loop of PFprop_trace_names (519-537): for each i, each      *)
(* later entry j with the same original name makes entry i invalid if its  *)
(* current name differs, and is removed by moving the top entry into j,    *)
(* which is then examined again (j--).                                     *)
(***************************************************************************)
RECURSIVE Dedup(_, _, _)
Dedup(l, i, j) ==
  IF i > Len(l) THEN l
  ELSE IF j > Len(l) THEN Dedup(l, i + 1, i + 2)
  ELSE IF l[i].ori = l[j].ori
    THEN LET l1 == IF l[i].cur # l[j].cur THEN [l EXCEPT ![i].cur = AttNull] ELSE l
         IN  Dedup(SubSeq([l1 EXCEPT ![j] = l1[Len(l1)]], 1, Len(l1) - 1), i, j)
  ELSE Dedup(l, i, j + 1)

\* The start list: the columns of the start operator, in a fixed order.
StartList(P) == SetToSeq(Schema(P, 1))

\* The goal's name_pairs after map_names(start, goal, map_list) (497-517),
\* every node's lists reset first (reset_fun, 473-485).
GoalPairs(P, G) ==
  LET list == StartList(P)
      s0   == [np |-> [n \in Nodes |-> << >>], lnp |-> [n \in Nodes |-> << >>],
               ref |-> [n \in Nodes |-> Refctr(P, n)]]
  IN  MapNames(P, G, s0, 1, [i \in DOMAIN list |-> Pair(list[i], list[i])]).np[G]

\* The returned list (539-553): the current name of the first pair with the
\* same original name, att_NULL when there is none.
NewList(P, l) ==
  LET list == StartList(P)
  IN  [i \in DOMAIN list |->
         LET j == SelectInSeq(l, LAMBDA p : p.ori = list[i])
         IN  IF j = 0 THEN AttNull ELSE l[j].cur]

RECURSIVE Below(_, _)
\* The operators below node n.
Below(P, n) == UNION {{c} \cup Below(P, c) : c \in Children(P, n)}

\* Every parent of an operator below the goal is the goal or below it.
Dominates(P, G) ==
  \A m \in Nodes, d \in Below(P, G) : d \in Children(P, m) => m \in {G} \cup Below(P, G)

-----------------------------------------------------------------------------
(***************************************************************************)
(* One call of PFprop_trace_names on a plan and a goal: `pairs` is the     *)
(* goal's name-pair list map_names leaves, `result` the returned list.     *)
(***************************************************************************)
VARIABLES plan, goal, phase, pairs, result

vars == <<plan, goal, phase, pairs, result>>

Init ==
  /\ plan \in Plans
  /\ goal \in {g \in Nodes : GoalDominates => Dominates(plan, g)}
  /\ phase = "start"
  /\ pairs = << >>
  /\ result = << >>

TraceNamesCall ==
  /\ phase = "start"
  /\ pairs' = GoalPairs(plan, goal)
  /\ result' = NewList(plan, Dedup(pairs', 1, 2))
  /\ phase' = "done"
  /\ UNCHANGED <<plan, goal>>

Next == TraceNamesCall

Spec == Init /\ [][Next]_vars

-----------------------------------------------------------------------------
(***************************************************************************)
(* The reference: the sources of value v (a column, or AttNull for a      *)
(* column generated on the way) at node n, followed along every path to   *)
(* the goal.  A generated column and a base table give AttNull; fragment, *)
(* function-call and trace-message edges are not followed.                 *)
(***************************************************************************)
RECURSIVE Src(_, _, _, _)
Src(P, G, n, v) ==
  LET o == P[n] IN
  IF n = G THEN {v}
  ELSE CASE o.kind = "lit" -> {AttNull}
         [] o.kind \in {"frag", "funcall"} -> {}
         [] o.kind \in {"select", "trace"} -> Src(P, G, o.l, v)
         [] o.kind = "union" -> Src(P, G, o.l, v) \cup Src(P, G, o.r, v)
         [] o.kind \in {"attach", "step"} ->
              LET w == IF v = o.res THEN AttNull ELSE v
              IN  UNION {Src(P, G, c, w) : c \in Children(P, n)}
         [] o.kind = "project" ->
              Src(P, G, o.l, IF v = AttNull THEN AttNull ELSE o.proj[v])
         [] o.kind = "cross" ->
              (IF v = AttNull \/ v \in Schema(P, o.l) THEN Src(P, G, o.l, v) ELSE {})
              \cup (IF v = AttNull \/ v \in Schema(P, o.r) THEN Src(P, G, o.r, v) ELSE {})
         [] o.kind = "semijoin" ->
              Src(P, G, o.l, v) \cup (IF v = o.att2 THEN Src(P, G, o.r, v) ELSE {})

\* The column of the goal that column c of the start operator is a copy of.
Expected(P, G, c) ==
  LET S == Src(P, G, 1, c)
  IN  IF \E g \in Cols : S = {g} THEN CHOOSE g \in Cols : S = {g} ELSE AttNull

TraceTypeOK ==
  /\ phase \in {"start", "done"}
  /\ pairs \in Seq([ori : Cols, cur : Cols \cup {AttNull}])
  /\ result \in Seq(Cols \cup {AttNull})

(***************************************************************************)
(* PFprop_trace_names maps every column of the start operator to the goal  *)
(* column it is a copy of along every path of the DAG, and to att_NULL     *)
(* when some path generates it or reaches a base table, or paths disagree. *)
(***************************************************************************)
TraceMatchesReference ==
  phase = "done" =>
    \A i \in DOMAIN result : result[i] = Expected(plan, goal, StartList(plan)[i])

(***************************************************************************)
(* The pruning loop keeps one pair per original name, valid exactly when   *)
(* all pairs with that original name agree on the current name.            *)
(***************************************************************************)
PruneExact ==
  phase = "done" =>
    LET d    == Dedup(pairs, 1, 2)
        Curs(o) == {pairs[i].cur : i \in {k \in DOMAIN pairs : pairs[k].ori = o}}
    IN  /\ \A i, j \in DOMAIN d : i # j => d[i].ori # d[j].ori
        /\ \A i \in DOMAIN d :
             Curs(d[i].ori) = IF d[i].cur = AttNull THEN Curs(d[i].ori) ELSE {d[i].cur}
        /\ \A i \in DOMAIN d :
             Cardinality(Curs(d[i].ori)) > 1 => d[i].cur = AttNull
        /\ {d[i].ori : i \in DOMAIN d} = {pairs[i].ori : i \in DOMAIN pairs}
=============================================================================
