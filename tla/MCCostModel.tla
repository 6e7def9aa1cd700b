---------------------------- MODULE MCCostModel ----------------------------
(***************************************************************************)
(* One call of ALGjoinCost(cntxt, l, r, flag) as a state machine: the      *)
(* arguments are chosen in Init, the Estimate step returns the cost.       *)
(* The properties compare that cost with the cost of neighbouring inputs.  *)
(***************************************************************************)
EXTENDS CostModel

VARIABLES l, r, flag, cost

vars == <<l, r, flag, cost>>

NoCost == -1

\* The head flags of the left operand and the tail flags of the right one
\* are never read by the heuristic; they are fixed to keep the inputs small.
LeftOperands ==
  { b \in Descriptors(Counts) : ~b.hkey /\ ~b.hdense /\ ~b.hordered }
RightOperands ==
  { b \in Descriptors(Counts) : ~b.tkey /\ ~b.tdense /\ ~b.tordered }

Init ==
  /\ l \in LeftOperands
  /\ r \in RightOperands
  /\ flag \in Flags
  /\ cost = NoCost

Estimate ==
  /\ cost = NoCost
  /\ cost' = JoinCost(l, r, flag)
  /\ UNCHANGED <<l, r, flag>>

Next == Estimate

Spec == Init /\ [][Next]_vars

TypeOK ==
  /\ l \in LeftOperands
  /\ r \in RightOperands
  /\ flag \in Flags
  /\ cost \in Counts \cup {NoCost}

WithCounts(b, c) == [b EXCEPT !.count = c]

\* The product of the two counts fits in a BUN: no wrap-around.
NoWrap(lc, rc) == lc * rc < 2^BUNBits

(***************************************************************************)
(* Cost monotonicity (spec section 8): with the flags of both operands and *)
(* the join flag fixed, a larger left or right count never yields a lower  *)
(* estimate from ALGjoinCost.  This relies on the order of the discount    *)
(* strategies: a strategy that stops applying as a count grows must be     *)
(* followed only by strategies with a divisor no larger than its own.      *)
(***************************************************************************)
CostMonotone ==
  cost # NoCost =>
    \A lc2 \in l.count .. BUN_MAX, rc2 \in r.count .. BUN_MAX :
      JoinCost(WithCounts(l, lc2), WithCounts(r, rc2), flag) >= cost

(***************************************************************************)
(* The same monotonicity, for counts whose product does not overflow the   *)
(* BUN multiplication lc * rc in ALGjoinCost.                              *)
(***************************************************************************)
CostMonotoneNoWrap ==
  cost # NoCost =>
    \A lc2 \in l.count .. BUN_MAX, rc2 \in r.count .. BUN_MAX :
      NoWrap(lc2, rc2) =>
        JoinCost(WithCounts(l, lc2), WithCounts(r, rc2), flag) >= cost

=============================================================================
