----------------------------- MODULE DCYCatalog -----------------------------
(***************************************************************************)
(* The data cyclotron registry of opt_datacyclotron.c: the global list     *)
(* `catalog` of DCYcatalog entries, one per bound column and access mode,  *)
(* each with an array of partition ids, and the calls that change it:      *)
(* addRegist, removePartRegist and dropRegist.  findRegist is an operator. *)
(*                                                                         *)
(* The key (schema, table, column) is one name: the three strings are      *)
(* compared the same way everywhere, so one string per key is enough to    *)
(* tell the comparisons apart.  Fold maps a spelling to its case-folded    *)
(* form, which is what strcasecmp compares.  The f_bun and l_bun arrays    *)
(* are written and shifted at the same index as part_id and are left out.  *)
(* An entry has an identity `id` (its address) so that a pointer to it     *)
(* can be held across calls.                                               *)
(***************************************************************************)
EXTENDS Integers, Sequences, SequencesExt

CONSTANTS
  Names,          \* spellings of a column key
  Fold,           \* [Names -> folded spelling], the strcasecmp equivalence
  Accesses,       \* access modes (the int acc)
  PartIds,        \* partition ids callers pass to addRegist/removePartRegist
  DCYPARTITIONS,  \* array growth step of an entry
  MaxCalls        \* bound on the number of registry calls

ASSUME DCYPARTITIONS \in Nat \ {0}
ASSUME PartIds \subseteq Nat

VARIABLES
  catalog,   \* the list, head first: catalog[1] is the global `catalog`
  fault,     \* "none", or the memory error the last call committed
  calls,     \* registry calls made so far
  nextId,    \* the next entry identity GDKmalloc hands out
  last       \* history: the last registry call and its arguments

regVars == <<catalog, fault, calls, nextId, last>>

\* The contents of a GDKmalloc'ed int that was never written.
Garbage == -1

Faults == {"none", "oob_write", "null_deref", "use_after_free", "newarg_overflow"}

NoCall == [op |-> "none", col |-> CHOOSE n \in Names : TRUE,
           acc |-> CHOOSE a \in Accesses : TRUE, part |-> 0]

RegInit ==
  /\ catalog = << >>
  /\ fault = "none"
  /\ calls = 0
  /\ nextId = 1
  /\ last = NoCall

(***************************************************************************)
(* findRegist (146-162): the first entry, from the head, whose key equals  *)
(* the given one under strcasecmp and whose access mode is equal; 0 when   *)
(* there is none (NULL).                                                   *)
(***************************************************************************)
FindRegist(col, acc) ==
  SelectInSeq(catalog, LAMBDA e : Fold[e.col] = Fold[col] /\ e.acc = acc)

\* The search loop of dropRegist (119-129): the same, with strcmp.
DropSearch(col, acc) ==
  SelectInSeq(catalog, LAMBDA e : e.col = col /\ e.acc = acc)

\* A fresh entry (68-79): no partitions, DCYPARTITIONS uninitialised slots.
NewEntry(col, acc) ==
  [id |-> nextId, col |-> col, acc |-> acc, n |-> 0, cap |-> DCYPARTITIONS,
   ids |-> [i \in 0 .. DCYPARTITIONS - 1 |-> Garbage]]

\* Variant: the grown array is a fresh allocation; nothing is copied.
GrowFresh(e) ==
  [e EXCEPT !.cap = e.n + DCYPARTITIONS,
            !.ids = [i \in 0 .. e.n + DCYPARTITIONS - 1 |-> Garbage]]

\* Variant: the array is resized to `partitions` slots, without the step.
GrowNoSlack(e) ==
  [e EXCEPT !.cap = e.n, !.ids = [i \in 0 .. e.n - 1 |-> e.ids[i]]]

(***************************************************************************)
(* GDKrealloc to partitions + DCYPARTITIONS slots (83): the old contents   *)
(* are kept up to the smaller of the two sizes, the rest is garbage.       *)
(***************************************************************************)
Grow(e) ==
  [e EXCEPT !.cap = e.n + DCYPARTITIONS,
            !.ids = [i \in 0 .. e.n + DCYPARTITIONS - 1 |->
                       IF i < e.cap THEN e.ids[i] ELSE Garbage]]

\* The test of line 82.  C's % and TLA+'s % agree on being zero.
MustGrow(e) == e.n # 0 /\ e.n % DCYPARTITIONS = 0

RegCall(op, col, acc, part) ==
  /\ fault = "none"
  /\ calls < MaxCalls
  /\ calls' = calls + 1
  /\ last' = [op |-> op, col |-> col, acc |-> acc, part |-> part]

\* The identity of the entry findRegist returns, 0 for NULL: the pointer
\* addRegist holds from its lookup (67) to its stores.
FoundId(col, acc) ==
  LET k == FindRegist(col, acc) IN IF k = 0 THEN 0 ELSE catalog[k].id

(***************************************************************************)
(* addRegist after the lookup of line 67, with `found` the entry the       *)
(* lookup returned (0: none): allocate an entry and push it on the head of *)
(* the list, or take the found one; grow its array when it is full; store  *)
(* the partition at index `partitions` and count it.  Nothing checks that  *)
(* index: a negative count writes before the array, and the count is      *)
(* still incremented.  An entry found but no longer in the list was freed  *)
(* by dropRegist, and the stores write freed memory.                       *)
(***************************************************************************)
AddStoreTo(col, acc, part, found) ==
  LET live == SelectInSeq(catalog, LAMBDA e : e.id = found)
      cat1 == IF found = 0 THEN <<NewEntry(col, acc)>> \o catalog ELSE catalog
      k    == IF found = 0 THEN 1 ELSE live
      e    == IF MustGrow(cat1[k]) THEN Grow(cat1[k]) ELSE cat1[k]
  IN  IF found # 0 /\ live = 0
        THEN /\ fault' = "use_after_free"
             /\ UNCHANGED <<catalog, nextId>>
        ELSE /\ nextId' = IF found = 0 THEN nextId + 1 ELSE nextId
             /\ IF e.n \in 0 .. e.cap - 1
                  THEN /\ catalog' = [cat1 EXCEPT ![k] =
                                       [e EXCEPT !.ids[e.n] = part, !.n = @ + 1]]
                       /\ fault' = fault
                  ELSE /\ catalog' = [cat1 EXCEPT ![k] = [e EXCEPT !.n = @ + 1]]
                       /\ fault' = "oob_write"

\* addRegist (63-94) as one call: the lookup and the stores with nothing
\* in between.
AddRegist(col, acc, part) ==
  /\ RegCall("add", col, acc, part)
  /\ AddStoreTo(col, acc, part, FoundId(col, acc))

(***************************************************************************)
(* removePartRegist (96-113): if the entry exists, shift the slots after   *)
(* index `part` one down and decrement the count, with no check that the   *)
(* count is positive.  `part` is used as an index into part_id.            *)
(***************************************************************************)
Shifted(ids, part, n) ==
  [i \in DOMAIN ids |-> IF part <= i /\ i < n - 1 THEN ids[i + 1] ELSE ids[i]]

RemovePartRegist(col, acc, part) ==
  /\ RegCall("remove", col, acc, part)
  /\ LET k == FindRegist(col, acc)
     IN  catalog' =
           IF k = 0 THEN catalog
           ELSE LET e == catalog[k]
                IN  [catalog EXCEPT ![k].ids = Shifted(e.ids, part, e.n),
                                    ![k].n = e.n - 1]
  /\ UNCHANGED <<fault, nextId>>

(***************************************************************************)
(* dropRegist (115-144): find the entry with strcmp and unlink and free    *)
(* it.  When the search runs off the list, reg is NULL and line 132 or 134 *)
(* dereferences it.                                                        *)
(***************************************************************************)
DropRegist(col, acc) ==
  /\ RegCall("drop", col, acc, 0)
  /\ LET k == DropSearch(col, acc)
     IN  IF k = 0 THEN /\ fault' = "null_deref"
                       /\ catalog' = catalog
                  ELSE /\ catalog' = RemoveAt(catalog, k)
                       /\ fault' = fault
  /\ nextId' = nextId

RegNext ==
  \E col \in Names, acc \in Accesses :
    \/ \E part \in PartIds : AddRegist(col, acc, part)
    \/ \E part \in PartIds : RemovePartRegist(col, acc, part)
    \/ DropRegist(col, acc)

RegSpec == RegInit /\ [][RegNext]_regVars

-----------------------------------------------------------------------------
\* An entry: its count never exceeds the slots of its array.
Entries ==
  { e \in [id : Nat, col : Names, acc : Accesses, n : Int, cap : Nat,
           ids : UNION {[0 .. c - 1 -> PartIds \cup {Garbage}] :
                          c \in 0 .. MaxCalls + DCYPARTITIONS}] :
      DOMAIN e.ids = 0 .. e.cap - 1 /\ e.n <= e.cap }

RegTypeOK ==
  /\ catalog \in Seq(Entries)
  /\ fault \in Faults
  /\ calls \in 0 .. MaxCalls
  /\ nextId \in Nat \ {0}
  /\ last.op \in {"none", "add", "remove", "drop"}

\* The partition ids an entry holds: its first n slots.
Held(e) == [i \in 1 .. e.n |-> e.ids[i - 1]]

(***************************************************************************)
(* Every key is registered once: no two entries are equal under the        *)
(* comparison findRegist uses.  addRegist tests findRegist (67) and pushes *)
(* a new entry (68-75) in two steps under no lock; with clients whose     *)
(* calls interleave (DCYClients) both may push an entry for one new key.   *)
(***************************************************************************)
UniqueEntries ==
  \A j, k \in DOMAIN catalog :
    j # k => ~(Fold[catalog[j].col] = Fold[catalog[k].col]
               /\ catalog[j].acc = catalog[k].acc)

(***************************************************************************)
(* Every counted partition slot of every entry holds an id some addRegist  *)
(* stored: growing the array (GDKrealloc) and the shift of                 *)
(* removePartRegist never expose an uninitialised slot.                    *)
(***************************************************************************)
NoGarbageRead ==
  \A k \in DOMAIN catalog : \A i \in 1 .. catalog[k].n :
    i - 1 < catalog[k].cap /\ Held(catalog[k])[i] # Garbage

(***************************************************************************)
(* addRegist stores within the array: the index `partitions` is a slot of  *)
(* part_id.  A removePartRegist on an entry without partitions makes the   *)
(* count negative, and the next addRegist writes before the array.         *)
(***************************************************************************)
WritesInBounds == fault # "oob_write"

(***************************************************************************)
(* dropRegist of a key that findRegist finds does not dereference NULL:    *)
(* the two searches agree on which keys are registered.                    *)
(***************************************************************************)
DropOfFoundKey ==
  (last.op = "drop" /\ fault = "null_deref") => FindRegist(last.col, last.acc) = 0

(***************************************************************************)
(* removePartRegist(.., part) of a registered key removes partition `part` *)
(* once and keeps every other partition of the entry, and removes nothing  *)
(* when the entry does not hold `part`.                                    *)
(***************************************************************************)
PartitionRemoved ==
  [][ (last'.op = "remove" /\ FindRegist(last'.col, last'.acc) # 0) =>
        LET k == FindRegist(last'.col, last'.acc)
            before == ToBag(Held(catalog[k]))
            after  == ToBag(Held(catalog'[k]))
        IN  after = before (-) SetToBag({last'.part}) ]_regVars

=============================================================================
