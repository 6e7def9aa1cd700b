------------------------------ MODULE MilTree ------------------------------
(***************************************************************************)
(* The MIL tree constructors of Pathfinder (mil.c): the code generator     *)
(* builds a MIL program bottom-up, every constructor allocating one node   *)
(* whose children are nodes built before, and milprint prints variables by *)
(* the names PFmil_var_str gives them.                                     *)
(*                                                                         *)
(* The heap is a sequence of nodes; a node is referred to by its index and *)
(* NULL is 0.  A node's kind is the name of the constructor that built it  *)
(* (the m_ kind it passes to leaf/wireN), except where the constructor     *)
(* chooses the kind.  Semantic values of literals and comments are one     *)
(* abstract value; variable identifiers, type names, key flags and access  *)
(* modes are kept.  A string PFmil_var_str returns is a sequence of        *)
(* characters, digits as numbers.                                          *)
(***************************************************************************)
EXTENDS Integers, Sequences, SequencesExt, TLC

CONSTANTS
  MIL_MAXCHILD,  \* child slots of a node (mil.h)
  RES,           \* PF_MIL_RES_VAR_COUNT: identifiers below it are reserved
  Idents,        \* identifiers the generator hands to PFmil_var
  Types,         \* MIL types for PFmil_type
  UsedLeaves,    \* leaf constructors the generator calls
  UsedWires,     \* plain wire constructors the generator calls
  MaxNodes,      \* bound on the heap
  MaxSeq,        \* bound on the statements of one PFmil_seq call
  NDEBUG         \* asserts compiled out

NULL == 0
Garbage == -1
NoSem == "sem"
ChildSlots == 0 .. MIL_MAXCHILD - 1

\* The constructors that are a single leaf (...) call (189-282, 398-418,
\* 1430-1453, 1640-1652); the literals keep their value in sem.
LeafCtors == {"lit_int", "lit_lng", "lit_str", "lit_oid", "lit_dbl", "lit_bit",
              "nop", "nil", "usec", "new_ws", "comment"}

(***************************************************************************)
(* The constructors that are a single `return wireN (m_kind, ...)`, with   *)
(* their N, in the order of the file.                                      *)
(***************************************************************************)
StmtBatWires ==
  "if" :> 3 @@ "while" :> 2 @@ "seqbase" :> 2 @@ "seqbase_lookup" :> 1 @@
  "order" :> 1 @@ "select" :> 2 @@ "select2" :> 3 @@ "uselect" :> 2 @@ "exist" :> 2
InsertMarkJoinWires ==
  "insert" :> 3 @@ "binsert" :> 2 @@ "bappend" :> 2 @@ "project" :> 2 @@
  "mark" :> 2 @@ "hmark" :> 2 @@ "tmark" :> 2 @@ "mark_grp" :> 2 @@ "fetch" :> 2 @@
  "cross" :> 2 @@ "join" :> 2 @@ "leftjoin" :> 2 @@ "outerjoin" :> 2
ThetaSetWires ==
  "leftfetchjoin" :> 2 @@ "thetajoin" :> 4 @@ "unq2_thetajoin" :> 3 @@
  "unq1_thetajoin" :> 5 @@ "zip_nodes" :> 6 @@ "reverse" :> 1 @@ "mirror" :> 1 @@
  "kunique" :> 1 @@ "tunique" :> 1 @@ "kunion" :> 2 @@ "kdiff" :> 2 @@
  "kintersect" :> 2 @@ "sintersect" :> 2 @@ "mc_intersect" :> 1 @@ "merged_union" :> 1
GroupAggrWires ==
  "multi_merged_union" :> 1 @@ "arg" :> 2 @@ "copy" :> 1 @@ "ctgroup" :> 1 @@
  "ctmap" :> 1 @@ "ctextend" :> 1 @@ "ctderive" :> 2 @@ "enumerate" :> 2 @@
  "count" :> 1 @@ "gcount" :> 1 @@ "egcount" :> 2 @@ "avg" :> 1 @@ "gavg" :> 1
ArithWires ==
  "max" :> 1 @@ "gmax" :> 1 @@ "min" :> 1 @@ "gmin" :> 1 @@ "sum" :> 1 @@
  "gsum" :> 1 @@ "egsum" :> 2 @@ "add" :> 2 @@ "madd" :> 2 @@ "sub" :> 2 @@
  "msub" :> 2 @@ "mmult" :> 2 @@ "div" :> 2 @@ "mdiv" :> 2
CompareWires ==
  "mmod" :> 2 @@ "mmax" :> 2 @@ "mabs" :> 1 @@ "mceil" :> 1 @@ "mfloor" :> 1 @@
  "mround_up" :> 1 @@ "gt" :> 2 @@ "eq" :> 2 @@ "meq" :> 2 @@ "mgt" :> 2 @@
  "mge" :> 2 @@ "mlt" :> 2 @@ "mle" :> 2 @@ "mne" :> 2 @@ "not" :> 1 @@ "mnot" :> 1
BoolStringWires ==
  "mneg" :> 1 @@ "mand" :> 2 @@ "mor" :> 2 @@ "isnil" :> 1 @@ "misnil" :> 1 @@
  "mifthenelse" :> 3 @@ "msearch" :> 2 @@ "mstring" :> 2 @@ "mstring2" :> 3 @@
  "mstarts_with" :> 2 @@ "mends_with" :> 2 @@ "mlength" :> 1 @@ "mtoUpper" :> 1 @@
  "mtoLower" :> 1 @@ "mtranslate" :> 3 @@ "mnorm_space" :> 1 @@ "mpcre_match" :> 2 @@
  "mpcre_match_flag" :> 3 @@ "mpcre_replace" :> 4 @@ "bat" :> 1
WorkingSetWires ==
  "catch" :> 2 @@ "error" :> 1 @@ "destroy_ws" :> 1 @@ "mposjoin" :> 3 @@
  "mvaljoin" :> 3 @@ "merge_adjacent" :> 4 @@ "string_join" :> 2 @@
  "assert_order" :> 1 @@ "chk_order" :> 1 @@ "materialize" :> 2 @@
  "get_fragment" :> 1 @@ "set_kind" :> 2 @@ "sc_desc" :> 4 @@ "doc_tbl" :> 2 @@
  "attribute" :> 3 @@ "element" :> 8
ConstructorWires ==
  "empty_element" :> 2 @@ "textnode" :> 2 @@ "add_qname" :> 4 @@ "add_qnames" :> 4 @@
  "add_content" :> 3 @@ "check_qnames" :> 1 @@ "print" :> 1 @@ "col_name" :> 2 @@
  "ser" :> 1 @@ "trace" :> 1 @@ "module" :> 1 @@ "upd" :> 1 @@ "docmgmt" :> 1 @@
  "ws_collection_root" :> 2 @@ "ws_documents" :> 2 @@ "ws_documents_str" :> 3 @@
  "ws_docname" :> 4
CollectionTijahWires ==
  "ws_collections" :> 2 @@ "ws_docavailable" :> 2 @@ "tj_tokenize" :> 1 @@
  "tj_ft_index_info" :> 3 @@ "tj_pfop" :> 4 @@ "tj_query_score" :> 4 @@
  "tj_query_nodes" :> 3 @@ "tj_query_handler" :> 7 @@ "tj_add_fti_tape" :> 6 @@
  "tj_docmgmt_tape" :> 6

Wires ==
  StmtBatWires @@ InsertMarkJoinWires @@ ThetaSetWires @@ GroupAggrWires @@
  ArithWires @@ CompareWires @@ BoolStringWires @@ WorkingSetWires @@
  ConstructorWires @@ CollectionTijahWires

ASSUME UsedLeaves \subseteq LeafCtors /\ UsedWires \subseteq DOMAIN Wires

VARIABLES
  heap,     \* the nodes built so far, in allocation order
  printed,  \* [var node -> string]: what PFmil_var_str returned for it
  seqs,     \* history: the PFmil_seq calls, [root, stmts]
  aborted   \* an assert failed

vars == <<heap, printed, seqs, aborted>>

Refs == 1 .. Len(heap)

\* Variant: the clearing loop stops one slot short.
LeafLastUncleared(k, sem) ==
  [kind |-> k, sem |-> sem,
   child |-> [i \in ChildSlots |-> IF i < MIL_MAXCHILD - 1 THEN NULL ELSE Garbage]]

\* leaf (54-64): a node of kind k with every child slot NULL.
Leaf(k, sem) == [kind |-> k, sem |-> sem, child |-> [i \in ChildSlots |-> NULL]]

\* wire1 .. wire8 (76-185): leaf (k) with child[i] = n(i+1) for the first
\* Len(cs) slots; PFmil_step (1485-1506) does the same for 12 children.
Wire(k, cs) ==
  [Leaf(k, NoSem) EXCEPT !.child = [i \in ChildSlots |-> IF i < Len(cs) THEN cs[i + 1] ELSE @[i]]]

\* The decimal digits of n, most significant first.
RECURSIVE Digits(_)
Digits(n) == IF n < 10 THEN << n >> ELSE Digits(n \div 10) \o << n % 10 >>

\* %04u: at least four digits, padded with zeros on the left.
Pad4(d) == [i \in 1 .. 4 - Len(d) |-> 0] \o d

\* snprintf (res, len, ...) keeps at most len - 1 characters.
Snprintf(s, len) == SubSeq(s, 1, IF Len(s) < len THEN Len(s) ELSE len - 1)

\* Variant: the buffer is sized by sizeof ("a000").
VarStrShort(n) ==
  IF n < RES THEN << "reserved", n >> ELSE Snprintf(<< "a" >> \o Pad4(Digits(n - RES)), 5)

(***************************************************************************)
(* PFmil_var_str (290-395): a reserved identifier has its own fixed name;  *)
(* any other is printed as a%04u of name - PF_MIL_RES_VAR_COUNT into a     *)
(* buffer of sizeof ("a0000") = 6 bytes.                                   *)
(***************************************************************************)
VarStr(n) ==
  IF n < RES THEN << "reserved", n >> ELSE Snprintf(<< "a" >> \o Pad4(Digits(n - RES)), 6)

\* assert (name < 10000) of line 384.
VarStrAssert(n) == n < RES \/ n - RES < 10000

\* Variant: the chain puts the rest of the statements first.
RECURSIVE SeqBuildSwapped(_, _)
SeqBuildSwapped(h, stmts) ==
  IF Len(stmts) = 1 THEN << h, stmts[1] >>
  ELSE LET r == SeqBuildSwapped(h, Tail(stmts))
       IN  << Append(r[1], Wire("m_seq", << r[2], stmts[1] >>)), Len(r[1]) + 1 >>

(***************************************************************************)
(* PFmil_seq_ (486-497): one statement is returned as it is; otherwise the *)
(* rest is chained first (the argument is evaluated before wire2           *)
(* allocates) and an m_seq node joins the first statement to it.  Returns  *)
(* the heap and the root.                                                  *)
(***************************************************************************)
RECURSIVE SeqBuild(_, _)
SeqBuild(h, stmts) ==
  IF Len(stmts) = 1 THEN << h, stmts[1] >>
  ELSE LET r == SeqBuild(h, Tail(stmts))
       IN  << Append(r[1], Wire("m_seq", << stmts[1], r[2] >>)), Len(r[1]) + 1 >>

Init ==
  /\ heap = << >>
  /\ printed = << >>
  /\ seqs = {}
  /\ aborted = FALSE

\* One constructor call that allocates one node.
Alloc(n) ==
  /\ ~aborted /\ Len(heap) < MaxNodes
  /\ heap' = Append(heap, n)
  /\ UNCHANGED <<printed, seqs, aborted>>

\* The literal, keyword and comment constructors.
NewLeaf == \E c \in UsedLeaves : Alloc(Leaf(c, NoSem))

\* PFmil_var (282-287).
NewVar == \E n \in Idents : Alloc(Leaf("var", n))

\* PFmil_type (416-423).
NewType == \E t \in Types : Alloc(Leaf("type", t))

\* A plain wireN constructor with its N children.
NewWire == \E c \in UsedWires : \E cs \in [1 .. Wires[c] -> Refs] : Alloc(Wire(c, cs))

\* PFmil_assgn (451-457) and PFmil_declare (1620-1625): the first child
\* must be a variable.
NewAssign ==
  \/ \E v, e \in Refs : /\ NDEBUG \/ heap[v].kind = "var"
                        /\ Alloc(Wire("assgn", << v, e >>))
  \/ \E v \in Refs : /\ NDEBUG \/ heap[v].kind = "var"
                     /\ Alloc(Wire("declare", << v >>))

\* PFmil_new (461-468), PFmil_cast and PFmil_mcast (1054-1070): the
\* type arguments must be type nodes.
NewTyped ==
  \/ \E h, t \in Refs : /\ NDEBUG \/ (heap[h].kind = "type" /\ heap[t].kind = "type")
                        /\ Alloc(Wire("new", << h, t >>))
  \/ \E c \in {"cast", "mcast"}, t, e \in Refs :
       /\ NDEBUG \/ heap[t].kind = "type"
       /\ Alloc(Wire(c, << t, e >>))

\* PFmil_key (515-522) and PFmil_access (666-673): one child and a flag.
NewFlagged ==
  \/ \E b \in Refs, k \in BOOLEAN : Alloc([Wire("key", << b >>) EXCEPT !.sem = k])
  \/ \E b \in Refs, r \in {"BAT_READ", "BAT_APPEND", "BAT_WRITE"} :
       Alloc([Wire("access", << b >>) EXCEPT !.sem = r])

\* PFmil_sort (882-888) and PFmil_ctrefine (921-927): dir_desc picks the
\* _rev kind.
NewOrdered ==
  \/ \E a \in Refs, d \in BOOLEAN :
       Alloc(Wire(IF d THEN "sort_rev" ELSE "sort", << a >>))
  \/ \E a, b \in Refs, d \in BOOLEAN :
       Alloc(Wire(IF d THEN "ctrefine_rev" ELSE "ctrefine", << a, b >>))

\* PFmil_step (1485-1506): twelve children, the axis and one argument for
\* the rest.
NewStep ==
  \E axis, arg \in Refs :
    Alloc(Wire("step", [i \in 1 .. 12 |-> IF i = 1 THEN axis ELSE arg]))

\* PFmil_seq (486-497): count > 0 statements chained by count - 1 nodes.
NewSeq ==
  /\ ~aborted
  /\ \E k \in 1 .. MaxSeq : \E stmts \in [1 .. k -> Refs] :
       LET r == SeqBuild(heap, stmts) IN
       /\ Len(heap) + k - 1 <= MaxNodes
       /\ heap' = r[1]
       /\ seqs' = seqs \cup {[root |-> r[2], stmts |-> stmts]}
  /\ UNCHANGED <<printed, aborted>>

\* milprint asks PFmil_var_str for the name of a variable node.
PrintVar ==
  /\ ~aborted
  /\ \E i \in Refs \ DOMAIN printed :
       /\ heap[i].kind = "var"
       /\ IF NDEBUG \/ VarStrAssert(heap[i].sem)
            THEN /\ printed' = printed @@ (i :> VarStr(heap[i].sem))
                 /\ UNCHANGED aborted
            ELSE /\ aborted' = TRUE
                 /\ UNCHANGED printed
  /\ UNCHANGED <<heap, seqs>>

Next ==
  \/ NewLeaf \/ NewVar \/ NewType \/ NewWire \/ NewAssign \/ NewTyped
  \/ NewFlagged \/ NewOrdered \/ NewStep \/ NewSeq \/ PrintVar

Spec == Init /\ [][Next]_vars

-----------------------------------------------------------------------------

MilTypeOK ==
  /\ \A i \in Refs : heap[i].child \in [ChildSlots -> {NULL} \cup 1 .. i - 1]
  /\ DOMAIN printed \subseteq Refs
  /\ aborted \in BOOLEAN

\* The statements a node stands for: an m_seq node its two children's,
\* any other node itself.
RECURSIVE Flatten(_, _)
Flatten(h, n) ==
  IF h[n].kind = "m_seq" THEN Flatten(h, h[n].child[0]) \o Flatten(h, h[n].child[1])
  ELSE << n >>

(***************************************************************************)
(* The chain PFmil_seq builds stands for exactly the statements it was     *)
(* given, in the given order, also when some of them are chains themselves *)
(* or the same node twice.                                                 *)
(***************************************************************************)
SeqFlattens ==
  \A c \in seqs :
    Flatten(heap, c.root) = FoldLeft(LAMBDA acc, n : acc \o Flatten(heap, n), << >>, c.stmts)

(***************************************************************************)
(* PFmil_var_str gives different variables different names: two variable  *)
(* nodes milprint printed with different identifiers print differently.    *)
(***************************************************************************)
VarNamesDistinct ==
  \A i, j \in DOMAIN printed :
    heap[i].sem # heap[j].sem => printed[i] # printed[j]

====
