---------------------------- MODULE MCMalRuntime ----------------------------
(* Four instructions on two dataflow threads: pc 1 and 2 traced, 3 and 4   *)
(* not; pc 1 and 2 return transient BATs, pc 3 a view and pc 4 its         *)
(* argument (an alias).  Sizes are in bytes with MB = 2, so that the      *)
(* division truncates.                                                     *)
EXTENDS MalRuntime

MCRet  == [p \in 1 .. 4 |-> CASE p = 1 -> "t1" [] p = 2 -> "t2" [] p = 3 -> "v" [] p = 4 -> "t2"]
MCArg  == [p \in 1 .. 4 |-> CASE p = 1 -> "v" [] p = 2 -> "t1" [] p = 3 -> "t2" [] p = 4 -> "t2"]
MCSize == [b \in {"t1", "t2", "v"} |-> CASE b = "t1" -> 3 [] b = "t2" -> 4 [] b = "v" -> 2]
=============================================================================
