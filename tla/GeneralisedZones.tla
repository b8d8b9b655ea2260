----------------------------- MODULE GeneralisedZones --------------------------
(***************************************************************************)
(* The zone of a symbolic state of a generalised timed automaton: the      *)
(* operations eca_* of dbm.cc, and the zone under those of them that       *)
(* eca_gen2_semantics_t applies to its matrix.  Clocks of the past are at  *)
(* infinity while they are undefined; clocks of the future are negative,   *)
(* and at minus infinity when undefined; the others are normal.  The index *)
(* that the program keeps for its clock tmp, which no constraint is about, *)
(* has no row here.  What the matrices mean is sets of valuations on a     *)
(* grid, as in Valuations.                                                 *)
(***************************************************************************)
EXTENDS DifferenceBound, SequencesExt

CONSTANTS History, Prophecy, Normal     \* clocks, numbered from 1

Other == History \cup Prophecy \cup Normal
Clock0 == {0} \cup Other

LE_INFINITY == Db(LE, InfValue)
LE_MINUS_INFINITY == Db(LE, MINUS_INF_VALUE)

eca_sum(b, c) ==
  IF LE_INFINITY \in {b, c} THEN LE_INFINITY
  ELSE IF LE_MINUS_INFINITY \in {b, c} THEN LE_MINUS_INFINITY
  ELSE Sum(b, c)

-------------------------------------------------------------------------------
(* Construction and predicates.                                            *)
eca_universal ==
  [i \in Clock0 |-> [j \in Clock0 |->
    CASE i = 0 -> IF j \in Prophecy THEN LE_INFINITY ELSE LE_ZERO
      [] i # 0 /\ i = j -> IF i \in Normal THEN LE_ZERO ELSE LE_INFINITY
      [] i \in Normal /\ i # j -> IF j \in Prophecy THEN LE_INFINITY ELSE LT_INFINITY
      [] i \in History /\ i # j -> LE_INFINITY
      [] i \in Prophecy /\ i # j -> IF j \in Prophecy THEN LE_INFINITY
                                    ELSE IF j \in Normal THEN LT_INFINITY ELSE LE_ZERO]]

eca_zero ==
  [i \in Clock0 |-> [j \in Clock0 |->
    CASE j \in Prophecy \/ i \in History -> LE_INFINITY
      [] j \in History /\ i \notin History -> LE_MINUS_INFINITY
      [] OTHER -> LE_ZERO]]

eca_is_consistent(d) ==
  /\ \A x \in History \cup Normal : d[0][x] <= LE_ZERO /\ d[x][0] >= LE_ZERO
  /\ \A x \in Prophecy : d[0][x] >= LE_ZERO /\ d[x][0] <= LE_ZERO
  /\ d[0][0] = LE_ZERO
  /\ \A x \in Normal : d[x][x] = LE_ZERO

eca_is_final_dbm(d) == \A x \in Prophecy : d[0][x] = LE_INFINITY
eca_is_tight(d) == \A i, j, k \in Clock0 : eca_sum(d[i][k], d[k][j]) >= d[i][j]
is_empty_0(d) == d[0][0] < LE_ZERO

-------------------------------------------------------------------------------
(* Tightening.                                                             *)
Order == SetToSortSeq(Other, <)

Checked(d, i) == IF d[i][i] < LE_ZERO THEN [d EXCEPT ![0][0] = LT_ZERO] ELSE d

(* A path of length two: from row i, through k, to each clock of js.       *)
Path(i, k, js) == [row |-> i, through |-> k, to |-> js]

Relaxed(d, p) ==
  IF is_empty_0(d) THEN d
  ELSE Checked([d EXCEPT ![p.row] = [j \in Clock0 |->
                  IF j \in p.to
                    THEN LeastBound(eca_sum(d[p.row][p.through], d[p.through][j]), d[p.row][j])
                    ELSE d[p.row][j]]], p.row)

(* The order of the loops: row 0, the paths through 0, the paths to 0, and *)
(* then row by row the paths between the clocks.                           *)
Between(js) ==
  FlattenSeq([i \in DOMAIN Order |->
    [k \in 1 .. Len(Order) - 1 |-> Path(Order[i], RemoveAt(Order, i)[k], js)]])

Paths == [k \in DOMAIN Order |-> Path(0, Order[k], Clock0)]
         \o [i \in DOMAIN Order |-> Path(Order[i], 0, Clock0)]
         \o Between({0}) \o Between(Other)

(* The value of d, which is evaluated here once.                           *)
Evaluated(d) == CHOOSE e \in {d} : e = d

eca_tighten(d) ==
  LET after[n \in 0 .. Len(Paths)] == IF n = 0 THEN Evaluated(d) ELSE Relaxed(after[n - 1], Paths[n])
  IN after[Len(Paths)]

(* After (x, y) alone has decreased: row by row, the path to y through x,  *)
(* then the paths from y.                                                  *)
TightenedRow(d, x, y, i) ==
  LET iy == IF i = x THEN d[i][y] ELSE LeastBound(eca_sum(d[i][x], d[x][y]), d[i][y])
      row == [j \in Clock0 |-> LeastBound(IF j = y THEN iy ELSE d[i][j], eca_sum(iy, d[y][j]))]
  IN IF is_empty_0(d) THEN d ELSE Checked([d EXCEPT ![i] = row], i)

eca_tighten_by(d, x, y) ==
  LET after[n \in 0 .. Len(Order)] ==
        TightenedRow(IF n = 0 THEN Evaluated(d) ELSE after[n - 1], x, y, IF n = 0 THEN 0 ELSE Order[n])
  IN IF d[x][y] = LE_INFINITY THEN d ELSE after[Len(Order)]

-------------------------------------------------------------------------------
(* A difference that is bounded makes its clocks defined.                  *)
Standardised(d, x, y) ==
  LET defined(i, j) ==
        \/ i = 0 /\ j \in {x, y} \cap Prophecy /\ \E k \in Other \ {j} : d[k][j] # LE_INFINITY
        \/ j = 0 /\ i \in {x, y} \ Prophecy /\ \E k \in Other \ {i} : d[i][k] # LE_INFINITY
  IN IF 0 \in {x, y} THEN d
     ELSE [i \in Clock0 |-> [j \in Clock0 |->
             IF d[i][j] = LE_INFINITY /\ defined(i, j) THEN LT_INFINITY ELSE d[i][j]]]

eca_constrain(d, x, y, b) ==
  IF b >= d[x][y] THEN d
  ELSE eca_tighten_by(Standardised([d EXCEPT ![x][y] = b], x, y), x, y)

eca_intersection(d, e) ==
  eca_tighten([i \in Clock0 |-> [j \in Clock0 |-> LeastBound(d[i][j], e[i][j])]])

(* A history or normal clock becomes 0.                                    *)
eca_reset(d, x) ==
  [i \in Clock0 |-> [j \in Clock0 |->
    IF x \notin {i, j} THEN d[i][j]
    ELSE IF {i, j} \subseteq {0, x} THEN LE_ZERO
    ELSE IF i = x THEN d[0][j] ELSE d[i][0]]]

(* A prophecy clock takes any value.                                       *)
eca_release(d, x) ==
  [i \in Clock0 |-> [j \in Clock0 |->
    IF j = x THEN LE_INFINITY
    ELSE IF i = x THEN IF j = 0 THEN LE_ZERO ELSE d[0][j] ELSE d[i][j]]]

eca_open_up(d) ==
  LET opened == [i \in Clock0 |-> [j \in Clock0 |->
        CASE j = 0 /\ i \in History /\ d[i][0] < LT_INFINITY -> LT_INFINITY
          [] j = 0 /\ i \in Normal -> LT_INFINITY
          [] j = 0 /\ i \in Prophecy /\ d[i][0] # LE_MINUS_INFINITY -> LE_ZERO
          [] OTHER -> d[i][j]]]
  IN IF History \cup Prophecy = {} THEN opened ELSE eca_tighten(opened)

-------------------------------------------------------------------------------
(* The covering test under constraints: gs are the diagonal ones, in their *)
(* order, and gdf the others, x - 0 (below) or 0 - y (beyond) their bound. *)
Condition1(d, e, u) ==
  e[0][u.x] < d[0][u.x] =>
    /\ u.x \notin Prophecy
    /\ Sum(d[0][u.x], u.b) < LE_ZERO
    /\ ~(u.x \in History /\ u.b = LT_INFINITY /\ e[0][u.x] = LE_MINUS_INFINITY)

(* Mutant: the bound from below is compared with the wrong matrix.         *)
Condition2Swapped(d, e, l) ==
  e[l.y][0] < d[l.y][0] =>
    /\ l.y \notin Prophecy
    /\ Sum(d[l.y][0], l.b) >= LE_ZERO
    /\ ~(l.y \in History /\ l.b = LE_MINUS_INFINITY /\ d[l.y][0] = LE_INFINITY)

Condition2(d, e, l) ==
  e[l.y][0] < d[l.y][0] =>
    /\ l.y \notin Prophecy
    /\ Sum(e[l.y][0], l.b) >= LE_ZERO
    /\ ~(l.y \in History /\ l.b = LE_MINUS_INFINITY /\ d[l.y][0] = LE_INFINITY)

Infinite == {LE_MINUS_INFINITY, LT_INFINITY, LE_INFINITY}

Condition3(d, e, u, l) ==
  u.x # l.y /\ e[l.y][u.x] < d[l.y][u.x] /\ e[l.y][u.x] \notin Infinite =>
    \/ Sum(d[0][u.x], u.b) < LE_ZERO
    \/ Sum(e[l.y][u.x], l.b) >= d[0][u.x]

IsFinite(c) == Value(c.b) \notin {InfValue, MINUS_INF_VALUE}

is_eca_g_le_nd(d, e, gdf) ==
  LET upper == {c \in gdf : c.y = 0}
      lower == gdf \ upper
  IN /\ \A u \in upper : Condition1(d, e, u)
     /\ \A l \in lower : Condition2(d, e, l)
     /\ \A u \in upper, l \in lower : IsFinite(u) /\ IsFinite(l) => Condition3(d, e, u, l)

(* The matrices of the valuations of d that do not satisfy a constraint:   *)
(* the difference exceeds the bound, or both clocks are undefined.         *)
Negations(d, c) ==
  LET beyond == eca_constrain(d, c.y, c.x, Db(1 - Comparator(c.b), -Value(c.b)))
      undefined(z, x) == IF is_empty_0(z) THEN z
                         ELSE IF x \in Prophecy THEN eca_constrain(z, x, 0, LE_MINUS_INFINITY)
                         ELSE eca_constrain(z, 0, x, LE_MINUS_INFINITY)
  IN IF Cardinality({c.x, c.y} \cap Prophecy) = 1 THEN {beyond}
     ELSE IF c.b = LE_INFINITY THEN {}
     ELSE {beyond, undefined(undefined(d, c.x), c.y)}

RECURSIVE is_eca_g_le_star(_, _, _, _)
is_eca_g_le_star(d, e, gs, gdf) ==
  IF gs = <<>> THEN is_eca_g_le_nd(d, e, gdf)
  ELSE LET c == Last(gs)
           copy(z) == eca_intersection(eca_universal, z)
           within(z) == eca_constrain(copy(z), c.x, c.y, c.b)
       IN /\ \A z \in Negations(Evaluated(copy(d)), c) :
               is_empty_0(z) \/ is_eca_g_le_star(z, e, Front(gs), gdf)
          /\ \A z \in {within(d)} :
               is_empty_0(z) \/ \E w \in {within(e)} :
                 ~is_empty_0(w) /\ is_eca_g_le_star(z, w, Front(gs), gdf)

is_eca_g_le(d, e, gs, gdf) ==
  is_empty_0(d) \/ (~is_empty_0(e) /\ is_eca_g_le_star(d, e, gs, gdf))

-------------------------------------------------------------------------------
(* The zone under the operations of the semantics.                         *)
CONSTANTS
  Unit, Coarse, Fine,   \* the grid, as in Valuations
  Instants,             \* delays at which constraints are compared
  Bounds,               \* the bounds of constraints
  MaxSteps              \* bound: the number of operations

VARIABLES
  dbm,
  op,                   \* the last operation
  steps

vars == <<dbm, op, steps>>

Operation(kind, x, y, b) == [kind |-> kind, x |-> x, y |-> y, b |-> b]

Init == dbm = eca_zero /\ op = Operation("initial", 0, 0, LE_ZERO) /\ steps = 0

Becomes(d, o) ==
  /\ steps < MaxSteps /\ ~is_empty_0(dbm)
  /\ dbm' \in {d} /\ op' = o /\ steps' = steps + 1

(* Differences of clocks are compared to integers only.                    *)
Constraints ==
  {c \in [x : Clock0, y : Clock0, b : Bounds] :
     /\ c.x # c.y
     /\ 0 \notin {c.x, c.y} => c.b \notin {LT_INFINITY, LE_MINUS_INFINITY}}

Constrain(c) ==
  /\ c.b < dbm[c.x][c.y]
  /\ Becomes(eca_constrain(dbm, c.x, c.y, c.b), Operation("constrain", c.x, c.y, c.b))

ResetClock(x) == Becomes(eca_reset(dbm, x), Operation("reset", x, 0, LE_ZERO))
Release(x) == Becomes(eca_release(dbm, x), Operation("release", x, 0, LE_ZERO))
Elapse == Becomes(eca_open_up(dbm), Operation("elapse", 0, 0, LE_ZERO))

Next ==
  \/ \E c \in Constraints : Constrain(c)
  \/ \E x \in History \cup Normal : ResetClock(x)
  \/ \E x \in Prophecy : Release(x)
  \/ Elapse

Spec == Init /\ [][Next]_vars

-------------------------------------------------------------------------------
(* Valuations.                                                             *)
Undefined == 1000 * Unit

Values(x, grid) ==
  CASE x \in Normal -> grid
    [] x \in History -> grid \cup {Undefined}
    [] x \in Prophecy -> {-n : n \in grid \cup {Undefined}}

Parts(xs, grid) ==
  {[x \in xs |-> IF x \in Prophecy THEN -n[x] ELSE n[x]] :
     n \in {m \in [xs -> grid \cup {Undefined}] : \A x \in xs \cap Normal : m[x] # Undefined}}

(* The clocks of the past as in one valuation, those of the future as in   *)
(* another.                                                                *)
Valuation(past, future) ==
  [x \in Clock0 |-> IF x = 0 THEN 0 ELSE IF x \in Prophecy THEN future[x] ELSE past[x]]

Valued(grid) == {Valuation(n, n) : n \in Parts(Other, grid)}
Valuations == Valued(Coarse)

(* Two undefined clocks are infinitely far apart, whichever comes first.   *)
Difference(a, b) ==
  IF a = Undefined \/ b = -Undefined THEN Undefined
  ELSE IF a = -Undefined \/ b = Undefined THEN -Undefined
  ELSE a - b

Meets(v, x, y, b) ==
  LET difference == Difference(v[x], v[y])
  IN CASE b = LE_INFINITY -> TRUE
       [] b = LT_INFINITY -> difference # Undefined
       [] b = LE_MINUS_INFINITY -> difference = -Undefined
       [] OTHER -> difference < Unit * Value(b) + Comparator(b)

In(v, d) == ~is_empty_0(d) /\ \A x, y \in Clock0 : Meets(v, x, y, d[x][y])

Shifted(v, t) == [x \in Clock0 |-> IF x = 0 \/ v[x] \in {Undefined, -Undefined} THEN v[x] ELSE v[x] + t]

(* v is reached by the operation o from a valuation of the zone of d.      *)
Reached(v, o, d) ==
  CASE o.kind = "constrain" -> In(v, d) /\ Meets(v, o.x, o.y, o.b)
    [] o.kind = "reset" -> v[o.x] = 0 /\ \E w \in Values(o.x, Fine) : In([v EXCEPT ![o.x] = w], d)
    [] o.kind = "release" -> \E w \in Values(o.x, Fine) : In([v EXCEPT ![o.x] = w], d)
    [] o.kind = "elapse" ->
         \E t \in Fine : (\A x \in Other \ Prophecy : v[x] >= t) /\ In(Shifted(v, -t), d)

(* An operation leads to the valuations that it leads to from those of the *)
(* zone, and to a tight and consistent matrix, unless there are none.      *)
StepExact ==
  /\ \A v \in Valuations : In(v, dbm') <=> Reached(v, op', dbm)
  /\ is_empty_0(dbm') \/ (eca_is_tight(dbm') /\ eca_is_consistent(dbm'))

(* The assertion at the end of eca_constrain: the matrix is empty, or it   *)
(* is tight.                                                               *)
TightAfterConstrain == op.kind = "constrain" => is_empty_0(dbm) \/ eca_is_tight(dbm)

-------------------------------------------------------------------------------
(* What a covering test promises.                                          *)
Alike(future, grid) == {Valuation(past, future) : past \in Parts(Other \ Prophecy, grid)}

(* The constraints of g that v passes, now or after a delay.               *)
Passed(v, g) ==
  {p \in (g.gdf \cup ToSet(g.gs)) \X Instants : Meets(Shifted(v, p[2]), p[1].x, p[1].y, p[1].b)}

Offered(e, g, future) == {Passed(w, g) : w \in {u \in Alike(future, Fine) : In(u, e)}}

Dominated(offered, g, vs) == {v \in vs : \E passed \in offered : Passed(v, g) \subseteq passed}

(* The valuations such that one in the zone of e, which agrees with them   *)
(* on the clocks of the future, passes every constraint that they pass.    *)
SimulatedBy(e, g) ==
  UNION {Dominated(Offered(e, g, future), g, Alike(future, Coarse)) : future \in Parts(Prophecy, Coarse)}
===============================================================================
