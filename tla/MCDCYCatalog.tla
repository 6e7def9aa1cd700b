---------------------------- MODULE MCDCYCatalog ----------------------------
(***************************************************************************)
(* The registry alone: any sequence of MaxCalls registry calls.  Two       *)
(* spellings of one key ("C" and "c") and a second key ("d").              *)
(***************************************************************************)
EXTENDS DCYCatalog

MCFold == [n \in Names |-> IF n = "d" THEN "d" ELSE "c"]

=============================================================================
