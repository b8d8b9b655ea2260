---------------------------- MODULE DifferenceBound --------------------------
(***************************************************************************)
(* db_t: a bound on a difference of clocks, < value or <= value, packed in *)
(* one integer whose order is the order of the bounds.  Infinity is the    *)
(* bound < InfValue.                                                       *)
(***************************************************************************)
EXTENDS Integers

CONSTANT InfValue      \* INF_VALUE

ASSUME InfValueAssumption == InfValue \in Nat \ {0}

LT == 0
LE == 1

Db(cmp, value) == 2 * value + cmp

Value(b) == b \div 2
Comparator(b) == b % 2

LE_ZERO == Db(LE, 0)
LT_ZERO == Db(LT, 0)
LT_INFINITY == Db(LT, InfValue)
MINUS_INF_VALUE == -InfValue

(* db does not throw.                                                      *)
InRange(b) == Value(b) \in MINUS_INF_VALUE .. InfValue

LeastBound(b, c) == IF b < c THEN b ELSE c

Sum(b, c) ==
  IF LT_INFINITY \in {b, c} THEN LT_INFINITY
  ELSE Db(LeastBound(Comparator(b), Comparator(c)), Value(b) + Value(c))

Add(b, value) == IF b = LT_INFINITY THEN LT_INFINITY ELSE b + 2 * value
=============================================================================
