---------------------------- MODULE MCDCYClients ----------------------------
(***************************************************************************)
(* Two clients sharing the registry, over two spellings of one key and a  *)
(* second key.                                                             *)
(***************************************************************************)
EXTENDS DCYClients

MCFoldClients == [n \in Names |-> IF n = "d" THEN "d" ELSE "c"]

=============================================================================
