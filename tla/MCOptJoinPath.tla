---------------------------- MODULE MCOptJoinPath ----------------------------
(***************************************************************************)
(* Instantiates OptJoinPath for TLC: small blocks over two or three        *)
(* inputs, every shape of up to three or four instructions enumerated.     *)
(***************************************************************************)
EXTENDS OptJoinPath

\* All inputs are oid-headed BATs with an oid tail.
MCBaseTypeOid == [v \in BaseVars |-> [h |-> "oid", t |-> "oid"]]

\* Inputs 1 and 2 chain through oid and void; input 2 has an int tail.
MCBaseTypeMixed ==
  [v \in BaseVars |->
     CASE v = 1 -> [h |-> "oid", t |-> "oid"]
       [] v = 2 -> [h |-> "void", t |-> "int"]
       [] OTHER -> [h |-> "int", t |-> "oid"]]

\* Input 2 has an int tail: a semijoin keeps the oid tail of its left side.
MCBaseTypeSemi ==
  [v \in BaseVars |-> IF v = 1 THEN [h |-> "oid", t |-> "oid"]
                                ELSE [h |-> "oid", t |-> "int"]]

=============================================================================
