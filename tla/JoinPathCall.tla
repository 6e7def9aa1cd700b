---------------------------- MODULE JoinPathCall ----------------------------
(***************************************************************************)
(* What one call of a join-path instruction promises its caller, without   *)
(* the greedy order, the postponing and the pairwise kernels: the call     *)
(* either returns one BAT, the join of all n operands in argument order,   *)
(* holding one reference to it and to nothing else, or raises an error     *)
(* holding no reference at all; and it does one of the two.               *)
(***************************************************************************)
EXTENDS Naturals, Sequences

CONSTANTS
  MaxArgs,  \* bound on the number of operands
  Handles   \* BAT ids

VARIABLES
  nargs,    \* the number of operands of the call
  st,       \* "call", "done" or "error"
  covers,   \* the argument positions the returned BAT joins, in order
  owned     \* [Handles -> Nat]: references the call leaves behind

vars == <<nargs, st, covers, owned>>

NoRefs == [h \in Handles |-> 0]

Init ==
  /\ nargs \in 1 .. MaxArgs
  /\ st = "call"
  /\ covers = << >>
  /\ owned = NoRefs

\* The call returns the join of operands 1 .. nargs as one fresh reference.
Return ==
  /\ st = "call"
  /\ st' = "done"
  /\ covers' = [k \in 1 .. nargs |-> k]
  /\ \E r \in Handles : owned' = [NoRefs EXCEPT ![r] = 1]
  /\ UNCHANGED nargs

\* The call raises an exception and keeps nothing.
Raise ==
  /\ st = "call"
  /\ st' = "error"
  /\ UNCHANGED <<nargs, covers, owned>>

Next == Return \/ Raise

Spec == Init /\ [][Next]_vars /\ WF_vars(Next)
=============================================================================
