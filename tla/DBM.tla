---------------------------------- MODULE DBM --------------------------------
(***************************************************************************)
(* The operations of dbm.cc on difference bound matrices, as functions of  *)
(* the matrix they overwrite.  Row i, column j bounds clock i - clock j;   *)
(* clock 0 is the constant 0.  The operations keep matrices tight, that is *)
(* closed under the triangle inequality; an empty zone is recognised by    *)
(* its entry (0, 0).                                                       *)
(***************************************************************************)
EXTENDS DifferenceBound, Sequences, FiniteSets

CONSTANT Dim           \* dim, the number of clocks with clock 0

ASSUME DimAssumption == Dim \in Nat \ {0}

Clock0 == 0 .. Dim - 1
Clock == Clock0 \ {0}

Matrix == [Clock0 -> [Clock0 -> Int]]

(* A map of bounds of clocks; -InfValue: no bound, and clock 0 is at 0.    *)
BoundOf(m, i) == IF i = 0 THEN 0 ELSE m[i]
NoBound == MINUS_INF_VALUE

-----------------------------------------------------------------------------
(* Construction and predicates.                                            *)
UniversalPositive ==
  [i \in Clock0 |-> [j \in Clock0 |-> IF i = j \/ i = 0 THEN LE_ZERO ELSE LT_INFINITY]]

Zero == [i \in Clock0 |-> [j \in Clock0 |-> LE_ZERO]]

IsConsistent(d) == \A i \in Clock0 : d[i][i] = LE_ZERO
IsEmpty0(d) == d[0][0] < LE_ZERO
IsPositive(d) == \A x \in Clock0 : d[0][x] <= LE_ZERO
IsTight(d) == \A i, j, k \in Clock0 : Sum(d[i][k], d[k][j]) >= d[i][j]

IsEqual(d, e) == \A i, j \in Clock0 : d[i][j] = e[i][j]
IsLe(d, e) == \A i, j \in Clock0 : d[i][j] <= e[i][j]

-----------------------------------------------------------------------------
(* Tightening.  The entries that one round relaxes do not depend on one    *)
(* another as long as the diagonal is not negative, and the matrix of an   *)
(* empty zone has no other use than its mark.                              *)
MarkEmpty(d) ==
  [i \in Clock0 |-> [j \in Clock0 |-> IF i = 0 /\ j = 0 THEN LT_ZERO ELSE d[i][j]]]

MarkedIfEmpty(d) ==
  IF \E i \in Clock0 : d[i][i] < LE_ZERO THEN MarkEmpty(d) ELSE d

(* tighten(dbm, dim): Floyd and Warshall's algorithm, left as soon as the  *)
(* zone is found empty.                                                    *)
Tighten(d) ==
  LET through(e, k) ==
        [i \in Clock0 |-> [j \in Clock0 |->
          IF i = k THEN e[i][j] ELSE LeastBound(Sum(e[i][k], e[k][j]), e[i][j])]]
      after[n \in 0 .. Dim] ==
        IF n = 0 THEN d
        ELSE LET e == after[n - 1]
             IN IF IsEmpty0(e) THEN e ELSE MarkedIfEmpty(through(e, n - 1))
  IN after[Dim]

(* tighten(dbm, dim, x, y): the same after (x, y) alone has decreased; the *)
(* paths to y through x, then the paths from y.                            *)
TightenBy(d, x, y) ==
  LET toY == [i \in Clock0 |->
                IF i = x THEN d[x][y] ELSE LeastBound(Sum(d[i][x], d[x][y]), d[i][y])]
  IN IF d[x][y] = LT_INFINITY THEN d
     ELSE MarkedIfEmpty(
            [i \in Clock0 |-> [j \in Clock0 |->
              LET fromY == IF j = y THEN toY[y] ELSE d[y][j]
                  ij == IF j = y THEN toY[i] ELSE d[i][j]
              IN LeastBound(ij, Sum(toY[i], fromY))]])

-----------------------------------------------------------------------------
(* Constraints and resets.                                                 *)
Constrained(d, x, y, b) ==
  IF b >= d[x][y] THEN d ELSE TightenBy([d EXCEPT ![x][y] = b], x, y)

Intersected(d, e) ==
  Tighten([i \in Clock0 |-> [j \in Clock0 |-> LeastBound(d[i][j], e[i][j])]])

(* Row and column x of the matrix become those that are given.             *)
Replaced(d, x, row, column) ==
  [i \in Clock0 |-> [j \in Clock0 |->
    IF i = x /\ j = x THEN LE_ZERO
    ELSE IF i = x THEN row[j]
    ELSE IF j = x THEN column[i]
    ELSE d[i][j]]]

(* reset_to_value: x := value.                                             *)
ResetToValue(d, x, value) ==
  Replaced(d, x, [j \in Clock0 |-> Sum(Db(LE, value), d[0][j])],
                 [i \in Clock0 |-> Sum(d[i][0], Db(LE, -value))])

(* reset_to_clock and the loop of reset_to_sum: x := y + value.            *)
Shifted(d, x, y, value) ==
  Replaced(d, x, [j \in Clock0 |-> Add(d[y][j], value)],
                 [i \in Clock0 |-> Add(d[i][y], -value)])

ResetToClock(d, x, y) == Shifted(d, x, y, 0)
ResetToSum(d, x, y, value) == Shifted(d, x, y, value)

(* reset_to_subtraction: clocks stay positive, so some valuations go.      *)
ResetToSubtraction(d, x, y, value) ==
  Intersected(Shifted(d, x, y, value), UniversalPositive)

Reset(d, x, y, value) ==
  IF y = 0 THEN ResetToValue(d, x, value)
  ELSE IF value = 0 THEN ResetToClock(d, x, y)
  ELSE IF value > 0 THEN ResetToSum(d, x, y, value)
  ELSE ResetToSubtraction(d, x, y, value)

(* Mutant: the differences of clocks are forgotten as well. *)
OpenUpAll(d) ==
  [i \in Clock0 |-> [j \in Clock0 |->
    IF i # 0 /\ i # j THEN LT_INFINITY ELSE d[i][j]]]

(* open_up: time elapses.                                                  *)
OpenUp(d) == [i \in Clock0 |-> IF i = 0 THEN d[0] ELSE [d[i] EXCEPT ![0] = LT_INFINITY]]

-----------------------------------------------------------------------------
(* Extrapolation with respect to bounds l and u: extra_lu and              *)
(* extra_lu_plus; extra_m and extra_m_plus are the same with l = u = m.    *)
TightenIfModified(d, e) == IF e = d THEN d ELSE Tighten(e)

LowerBound(u, j, ifnone) ==
  IF BoundOf(u, j) = NoBound THEN ifnone ELSE Db(LT, -BoundOf(u, j))

ExtraLU(d, l, u) ==
  LET entry(i, j) ==
        CASE i = 0 /\ j # 0 /\ d[0][j] # LE_ZERO /\ -Value(d[0][j]) > BoundOf(u, j)
               -> LowerBound(u, j, LE_ZERO)
          [] i # 0 /\ i # j /\ d[i][j] # LT_INFINITY /\ Value(d[i][j]) > BoundOf(l, i)
               -> LT_INFINITY
          [] i # 0 /\ i # j /\ d[i][j] # LT_INFINITY /\ Value(d[i][j]) <= BoundOf(l, i)
               /\ -Value(d[i][j]) > BoundOf(u, j)
               -> LowerBound(u, j, LT_INFINITY)
          [] OTHER -> d[i][j]
  IN TightenIfModified(d, [i \in Clock0 |-> [j \in Clock0 |-> entry(i, j)]])

(* Mutant: the bounds of the clocks are swapped. *)
ExtraLUPlusSwapped(d, l, u) ==
  LET entry(i, j) ==
        CASE i = j -> d[i][j]
          [] i = 0 /\ j # 0 -> IF -Value(d[0][j]) > BoundOf(l, j)
                               THEN LowerBound(l, j, LE_ZERO) ELSE d[0][j]
          [] OTHER -> IF -Value(d[0][i]) > BoundOf(u, i)
                         \/ Value(d[i][j]) > BoundOf(u, i)
                         \/ -Value(d[0][j]) > BoundOf(l, j)
                      THEN LT_INFINITY ELSE d[i][j]
  IN TightenIfModified(d, [i \in Clock0 |-> [j \in Clock0 |-> entry(i, j)]])

ExtraLUPlus(d, l, u) ==
  LET entry(i, j) ==
        CASE i = j -> d[i][j]
          [] i = 0 /\ j # 0 -> IF -Value(d[0][j]) > BoundOf(u, j)
                               THEN LowerBound(u, j, LE_ZERO) ELSE d[0][j]
          [] OTHER -> IF -Value(d[0][i]) > BoundOf(l, i)
                         \/ Value(d[i][j]) > BoundOf(l, i)
                         \/ -Value(d[0][j]) > BoundOf(u, j)
                      THEN LT_INFINITY ELSE d[i][j]
  IN TightenIfModified(d, [i \in Clock0 |-> [j \in Clock0 |-> entry(i, j)]])

ExtraM(d, m) == ExtraLU(d, m, m)
ExtraMPlus(d, m) == ExtraLUPlus(d, m, m)

(* Mutant: the third condition compares with <= -L(y). *)
IsALULeWeak(d, e, l, u) ==
  ~ \E x, y \in Clock0 :
      /\ x # y /\ BoundOf(u, x) # NoBound /\ BoundOf(l, y) # NoBound
      /\ d[0][x] >= Db(LE, -BoundOf(u, x))
      /\ e[y][x] < d[y][x]
      /\ Sum(e[y][x], Db(LE, -BoundOf(l, y))) < d[0][x]

(* is_alu_le: the zone of d is included in the abstraction of e.           *)
IsALULe(d, e, l, u) ==
  ~ \E x, y \in Clock0 :
      /\ x # y /\ BoundOf(u, x) # NoBound /\ BoundOf(l, y) # NoBound
      /\ d[0][x] >= Db(LE, -BoundOf(u, x))
      /\ e[y][x] < d[y][x]
      /\ Sum(e[y][x], Db(LT, -BoundOf(l, y))) < d[0][x]
=============================================================================
