----------------------------- MODULE ZoneOperations --------------------------
(***************************************************************************)
(* The zone of a symbolic state under the operations that the semantics,   *)
(* the extrapolations and the covering tests apply to its matrix dbm.  An  *)
(* empty zone is dropped: no operation is applied to it.                   *)
(***************************************************************************)
EXTENDS Valuations

CONSTANTS
  MaxBound,  \* bound: the finite bounds in dbm are not larger
  Constant,  \* the integers of constraints and resets
  LUBounds,  \* pairs [l, u] of maps of lower and upper bounds
  Stored     \* matrices of other symbolic states, kept in nodes

VARIABLE dbm

Within(d, m) ==
  \A i, j \in Clock0 : d[i][j] = LT_INFINITY \/ Value(d[i][j]) \in -m .. m

Bounded(d) == Within(d, MaxBound)

(* Bounds stay below infinity when they are added: db::sum does not throw.  *)
(* Constants are not larger than MaxBound, the bounds of stored matrices,   *)
(* zones that other paths have reached, not larger than the sum of two, and *)
(* a bound of a clock is natural or none.                                   *)
ASSUME BoundsAssumption ==
  /\ MaxBound \in Nat /\ 2 * ((Dim + 1) * MaxBound) < InfValue
  /\ Constant \subseteq -MaxBound .. MaxBound
  /\ LUBounds \subseteq [l : [Clock -> Int], u : [Clock -> Nat \cup {NoBound}]]
  /\ \A e \in Stored :
       /\ e \in Matrix /\ Within(e, 2 * MaxBound)
       /\ IsConsistent(e) /\ IsPositive(e) /\ IsTight(e)

(* Zones are compared at every other point of the grid, and witnesses are   *)
(* looked for at each one up to the largest that a bound leads to.          *)
ASSUME GridAssumption ==
  /\ Unit \in Nat \ {0} /\ Unit % 2 = 0
  /\ \A c \in Coarse :
       /\ c \in Nat /\ c % 2 = 0
       /\ 0 .. c + Unit * MaxBound + 1 \subseteq Fine
  /\ Fine \subseteq Nat

Becomes(d) == ~IsEmpty0(dbm) /\ Bounded(d) /\ dbm' = d

Init == dbm \in {Zero, UniversalPositive}

Constrain(x, y, b) == Becomes(Constrained(dbm, x, y, b))
ResetClock(x, y, value) == Becomes(Reset(dbm, x, y, value))
Elapse == Becomes(OpenUp(dbm))
Intersect(e) == Becomes(Intersected(dbm, e))
ExtrapolateM(m) == Becomes(ExtraM(dbm, m))
ExtrapolateMPlus(m) == Becomes(ExtraMPlus(dbm, m))
ExtrapolateLU(l, u) == Becomes(ExtraLU(dbm, l, u))
ExtrapolateLUPlus(l, u) == Becomes(ExtraLUPlus(dbm, l, u))

Bound == {Db(cmp, value) : cmp \in {LT, LE}, value \in Constant}

(* A clock is not reset to a negative value: reset_to_value asserts it.    *)
Resets == {r \in Clock \X Clock0 \X Constant : r[2] = 0 => r[3] >= 0}

Next ==
  \/ \E x, y \in Clock0, b \in Bound : x # y /\ Constrain(x, y, b)
  \/ \E r \in Resets : ResetClock(r[1], r[2], r[3])
  \/ Elapse
  \/ \E e \in Stored : Intersect(e)
  \/ \E m \in {b.u : b \in LUBounds} : ExtrapolateM(m) \/ ExtrapolateMPlus(m)
  \/ \E b \in LUBounds : ExtrapolateLU(b.l, b.u) \/ ExtrapolateLUPlus(b.l, b.u)

Spec == Init /\ [][Next]_dbm

-----------------------------------------------------------------------------
Zone(d) == {v \in Valuation : In(v, d)}

StoredZone == [e \in Stored |-> Zone(e)]

StoredAbstraction ==
  [e \in Stored |->
    [b \in LUBounds |-> {v \in Valuation : InALU(v, e, b.l, b.u)}]]

(* The matrix at hand is in normal form: the operations that go over rows  *)
(* and columns once leave it tight, positive, with a zero diagonal and no  *)
(* bound outside the range of db, or marked as empty.                      *)
TypeOK ==
  /\ dbm \in Matrix
  /\ \A i, j \in Clock0 : InRange(dbm[i][j])
  /\ IsEmpty0(dbm) \/ (IsConsistent(dbm) /\ IsPositive(dbm) /\ IsTight(dbm))

ConstraintsExact(zone) ==
  /\ \A x, y \in Clock0, b \in Bound :
       Zone(Constrained(dbm, x, y, b)) = {v \in zone : Meets(v, x, y, b)}
  /\ \A e \in Stored : Zone(Intersected(dbm, e)) = zone \cap StoredZone[e]

ResetsExact ==
  \A r \in Resets :
    Zone(Reset(dbm, r[1], r[2], r[3]))
      = {v \in Valuation : InReset(v, dbm, r[1], r[2], r[3])}

DelaysExact == Zone(OpenUp(dbm)) = {v \in Valuation : InFuture(v, dbm)}

(* Constraints, resets, delays and intersections of matrices compute the   *)
(* sets of valuations that they name, empty ones included, and leave the   *)
(* matrix in normal form.                                                  *)
OperationsExact ==
  /\ TypeOK
  /\ ~IsEmpty0(dbm) => ConstraintsExact(Zone(dbm)) /\ ResetsExact /\ DelaysExact

(* An extrapolated zone is larger than the zone and within its abstraction *)
(* a_LU: it adds only valuations that some valuation of the zone           *)
(* simulates, which keeps reachability of locations exact.                 *)
ExtrapolationsSound ==
  ~IsEmpty0(dbm) =>
    \A b \in LUBounds :
      \A larger \in {ExtraLU(dbm, b.l, b.u), ExtraLUPlus(dbm, b.l, b.u)} :
        \A v \in Valuation :
          IF In(v, dbm) THEN In(v, larger)
          ELSE In(v, larger) => InALU(v, dbm, b.l, b.u)

(* The tests that decide whether a node is covered compare sets of         *)
(* valuations: equality, inclusion, and inclusion in the abstraction a_LU  *)
(* of the other zone, without computing that abstraction.                  *)
InclusionsExact ==
  ~IsEmpty0(dbm) =>
    LET zone == Zone(dbm) IN
      \A e \in Stored :
        /\ IsEqual(dbm, e) <=> zone = StoredZone[e]
        /\ IsLe(dbm, e) <=> zone \subseteq StoredZone[e]
        /\ \A b \in LUBounds :
             IsALULe(dbm, e, b.l, b.u) <=> zone \subseteq StoredAbstraction[e][b]
=============================================================================
