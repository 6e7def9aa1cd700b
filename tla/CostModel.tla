----------------------------- MODULE CostModel -----------------------------
(***************************************************************************)
(* The join cost heuristic ALGjoinCost of opt_joinpath.c.                  *)
(*                                                                         *)
(* An operand is a BAT descriptor: its count and the six physical property *)
(* flags the heuristic reads (key, dense and ordered for head and tail),   *)
(* plus the head and tail types the executor checks when binding.          *)
(* BUN arithmetic keeps its width: BUN is an unsigned integer of BUNBits   *)
(* bits, so the product lc * rc wraps modulo 2^BUNBits before it is        *)
(* compared with BUN_MAX.                                                  *)
(***************************************************************************)
EXTENDS Integers, Sequences

CONSTANTS
  BUNBits,        \* width of BUN (32 or 64 in the build, scaled down here)
  SMALL_OPERAND,  \* the cache-fit threshold, 1024 elements in the code
  Types           \* atom types a head or tail can have

ASSUME BUNBits \in Nat /\ BUNBits >= 3
ASSUME SMALL_OPERAND \in Nat \ {0}

\* BUN_NONE is INT_MAX or LLONG_MAX of the BUN width, BUN_MAX one below it.
BUN_NONE == 2^(BUNBits - 1) - 1
BUN_MAX  == BUN_NONE - 1

\* Unsigned BUN multiplication: the product wraps around at 2^BUNBits.
BUNmul(a, b) == (a * b) % (2^BUNBits)

Counts == 0 .. BUN_MAX

\* Property flags that can occur together on a real BAT: a dense column is
\* a run of consecutive oids, hence also ordered and key.
Consistent(b) ==
  /\ b.hdense => b.hordered /\ b.hkey
  /\ b.tdense => b.tordered /\ b.tkey

Descriptors(counts) ==
  { b \in [count : counts,
           hkey : BOOLEAN, tkey : BOOLEAN,
           hdense : BOOLEAN, tdense : BOOLEAN,
           hordered : BOOLEAN, tordered : BOOLEAN,
           htype : Types, ttype : Types] : Consistent(b) }

(***************************************************************************)
(* The join flag: 0 for leftjoin paths, 1 for join paths, 2 for semijoin   *)
(* paths.  A flag of 0 forbids the "reversed" strategies that would reorder*)
(* the left operand.                                                       *)
(***************************************************************************)
Flags == 0 .. 2

\* Variant: the product is used without the comparison with BUN_MAX.
ProductUnclamped(lc, rc) == BUNmul(lc, rc)

\* lc * rc, capped at BUN_MAX after the (wrapping) multiplication.
Product(lc, rc) == IF BUNmul(lc, rc) >= BUN_MAX THEN BUN_MAX ELSE BUNmul(lc, rc)

\* First use logical properties to estimate an upper bound of the result.
BaseEstimate(l, r) ==
  LET lc == l.count
      rc == r.count
  IN  IF l.tkey /\ r.hkey THEN IF lc < rc THEN lc ELSE rc
      ELSE IF l.tkey THEN rc
      ELSE IF r.hkey THEN lc
      ELSE Product(lc, rc)

(***************************************************************************)
(* Then use physical properties to rank costs: the strategies in the       *)
(* order the code tests them, each with the divisor it applies.  The first *)
(* strategy whose condition holds decides the divisor.                     *)
(***************************************************************************)
Strategies(l, r, flag) ==
  LET lc == l.count
      rc == r.count
      small(c) == c <= SMALL_OPERAND
      noleft == flag # 0
  IN <<
    [ok |-> l.tdense /\ r.hdense,                          by |-> 7],
    [ok |-> l.tordered /\ r.hdense,                        by |-> 6],
    [ok |-> l.tdense /\ r.hordered /\ noleft,              by |-> 6],
    [ok |-> r.hdense /\ small(rc),                         by |-> 5],
    [ok |-> l.tdense /\ small(lc) /\ noleft,               by |-> 5],
    [ok |-> l.tordered /\ r.hordered,                      by |-> 4],
    [ok |-> r.hordered /\ small(rc),                       by |-> 3],
    [ok |-> l.tordered /\ small(lc) /\ noleft,             by |-> 3],
    [ok |-> (r.hordered /\ small(lc)) \/ (l.tordered /\ small(rc)),
                                                           by |-> 3],
    [ok |-> small(rc),                                     by |-> 3],
    [ok |-> small(lc) /\ noleft,                           by |-> 3],
    [ok |-> r.hdense,                                      by |-> 2],
    [ok |-> l.tdense /\ noleft,                            by |-> 2],
    [ok |-> TRUE,                                          by |-> 1] >>

\* The divisor of the first strategy of s whose condition holds.
FirstDivisor(s) ==
  LET first == CHOOSE i \in DOMAIN s :
                 s[i].ok /\ \A k \in 1 .. (i - 1) : ~s[k].ok
  IN  s[first].by

\* Variant: the binary-lookup test (divisor 3) precedes the mergejoin test.
DiscountReordered(l, r, flag) ==
  LET s == Strategies(l, r, flag)
  IN  FirstDivisor([s EXCEPT ![6] = s[7], ![7] = s[6]])

Discount(l, r, flag) == FirstDivisor(Strategies(l, r, flag))

JoinCost(l, r, flag) == BaseEstimate(l, r) \div Discount(l, r, flag)

=============================================================================
