------------------------- MODULE MCJoinPathExecutor -------------------------
(***************************************************************************)
(* Instantiates JoinPathExecutor for TLC: two argument BATs, paths of up   *)
(* to three operands, descriptors whose costs differ so that every pair    *)
(* position gets selected.                                                 *)
(***************************************************************************)
EXTENDS JoinPathExecutor

Desc(c, hk, hd, ho, tk, td, to, ht, tt) ==
  [count |-> c, hkey |-> hk, hdense |-> hd, hordered |-> ho,
   tkey |-> tk, tdense |-> td, tordered |-> to, htype |-> ht, ttype |-> tt]

\* A large unsorted BAT, a small BAT with a dense head, a BAT whose tail
\* is a key.  With Types = {"oid", "int"} the first has an int tail.
MCInputDescs ==
  { Desc(12, FALSE, FALSE, FALSE, FALSE, FALSE, FALSE, "oid",
         CHOOSE t \in Types : \A u \in Types : u = "oid" \/ t # "oid"),
    Desc(2, TRUE, TRUE, TRUE, FALSE, FALSE, FALSE, "oid", "oid"),
    Desc(8, FALSE, FALSE, FALSE, TRUE, FALSE, FALSE, "oid", "oid") }

MCResultDescs ==
  { Desc(3, FALSE, FALSE, FALSE, FALSE, FALSE, FALSE, "oid", "oid"),
    Desc(10, FALSE, FALSE, FALSE, TRUE, FALSE, TRUE, "oid", "oid") }

MCMaxAttempts == 2 * (MaxArgs - 1) + 1

=============================================================================
