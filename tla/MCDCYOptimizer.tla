--------------------------- MODULE MCDCYOptimizer ---------------------------
(***************************************************************************)
(* The data cyclotron pass, in both builds, over a registry filled by up   *)
(* to MaxCalls calls.  Two spellings of one key ("C", "c") and a second    *)
(* key ("d"), one access mode.  Partition ids own consecutive bun ranges.  *)
(***************************************************************************)
EXTENDS DCYOptimizer

MCFold == [n \in Names |-> IF n = "d" THEN "d" ELSE "c"]

\* Partition p covers the buns [4 * p, 4 * p + 4).
MCFBun == [p \in PartIds |-> 4 * p]
MCLBun == [p \in PartIds |-> 4 * p + 4]

=============================================================================
