------------------------------- MODULE ClockBounds ---------------------------
(***************************************************************************)
(* compute_clockbounds: bounds L and U of the clocks in every location of  *)
(* the processes, for the extrapolations and the inclusion test a_LU.      *)
(* They are the least solution of a system of inequations on differences,  *)
(* which df_solver_t keeps as two difference bound matrices with one       *)
(* variable for each clock in each location.                               *)
(***************************************************************************)
EXTENDS Integers, Sequences, FiniteSetsExt, SequencesExt

CONSTANTS
  LocNumber,    \* locations of all the processes, from 0
  ClockNumber,  \* clocks, from 0
  LocPid,       \* the process of each location
  InfValue,     \* see DifferenceBound
  Systems,      \* the systems of processes under analysis
  Unit,         \* grid steps in a time unit, for the valuations of properties
  Values        \* the clock values on the grid that the properties consider

D == INSTANCE DBM WITH Dim <- 1 + LocNumber * ClockNumber

Location == 0 .. LocNumber - 1
ClockId == 0 .. ClockNumber - 1

NO_BOUND == -InfValue

VARIABLES
  system,       \* the system under analysis
  locations,    \* locations whose invariant is not yet visited
  edges,        \* edges that are not yet visited
  solver,       \* the matrices L and U, and whether there is a solution
  maps          \* the result: local and global maps

vars == <<system, locations, edges, solver, maps>>

-----------------------------------------------------------------------------
(* df_solver_t.                                                            *)
index(l, x) == 1 + l * ClockNumber + x

Clear ==
  LET unbounded == [i \in D!Clock0 |-> [j \in D!Clock0 |->
                      IF i = j THEN D!LE_ZERO ELSE D!LT_INFINITY]]
  IN [L |-> unbounded, U |-> unbounded, hasSolution |-> TRUE]

(* var i - var j <= c in one of the matrices.  The choice has TLC evaluate *)
(* the matrix once, and not again at each use.                             *)
Inequation(m, i, j, c) == CHOOSE d \in {D!Constrained(m, i, j, D!Db(D!LE, c))} : d = d

ConstrainL(s, i, j, c) ==
  LET m == Inequation(s.L, i, j, c)
  IN [s EXCEPT !.L = m, !.hasSolution = @ /\ ~D!IsEmpty0(m)]

ConstrainU(s, i, j, c) ==
  LET m == Inequation(s.U, i, j, c)
  IN [s EXCEPT !.U = m, !.hasSolution = @ /\ ~D!IsEmpty0(m)]

AddLowerBoundGuard(s, l, x, c) == ConstrainL(s, 0, index(l, x), -c)
AddUpperBoundGuard(s, l, x, c) == ConstrainU(s, 0, index(l, x), -c)

(* Mutant: the locations of the other processes are not considered. *)
AddAssignmentHere(s, l1, l2, x, y, c) ==
  ConstrainU(ConstrainL(s, index(l2, x), index(l1, y), c), index(l2, x), index(l1, y), c)

(* x := y + c from l1 to l2, and in the locations of the other processes.  *)
AddAssignment(s, l1, l2, x, y, c) ==
  LET atLocation(m, t) ==
        ConstrainU(ConstrainL(t, index(m, x), index(l1, y), c), index(m, x), index(l1, y), c)
  IN FoldSet(atLocation, s, {l2} \cup {m \in Location : LocPid[m] # LocPid[l1]})

AddNoAssignment(s, l1, l2, x) ==
  ConstrainU(ConstrainL(s, index(l2, x), index(l1, x), 0), index(l2, x), index(l1, x), 0)

-----------------------------------------------------------------------------
(* df_solver_updater_t.  A constraint compares each clock of an lvalue     *)
(* with a bound; an assignment gives each clock of "to" (several when the  *)
(* cell of an array is not known) the value of one of "from", plus c.      *)
VisitConstraint(l, g, s) ==
  LET upper(x, t) == AddUpperBoundGuard(t, l, x, g.bound)
      lower(x, t) == AddLowerBoundGuard(t, l, x, g.bound)
      withUpper == IF g.op \in {"LT", "LE", "EQ"} THEN FoldSet(upper, s, g.clocks) ELSE s
  IN IF g.op \in {"GT", "GE", "EQ"} THEN FoldSet(lower, withUpper, g.clocks) ELSE withUpper

(* The arguments of a plain copy are passed in the order source location,  *)
(* left clock, target location, right clock.                               *)
VisitAssignment(e, a, s) ==
  LET copy(p, t) == AddAssignment(t, e.src, p[1], e.tgt, p[2], 0)
      sum(p, t) == AddAssignment(t, e.src, e.tgt, p[1], p[2], a.value)
  IN CASE a.kind = "int" -> s
       [] a.kind = "copy" -> FoldSet(copy, s, a.to \X a.from)
       [] a.kind = "sum" -> FoldSet(sum, s, a.to \X a.from)

(* Mutant: an assigned array cell counts as an assignment to all of them. *)
PossiblyAssigned(statement) == UNION {statement[i].to : i \in DOMAIN statement}

(* assigned_clocks_extractor_t: clocks whose number is known.              *)
SurelyAssigned(statement) ==
  UNION {statement[i].to : i \in {k \in DOMAIN statement : Cardinality(statement[k].to) = 1}}

AddLocationConstraints(s, l) ==
  FoldSet(LAMBDA g, t : VisitConstraint(l, g, t), s, system.invariant[l])

AddEdgeConstraints(s, e) ==
  LET guarded == FoldSet(LAMBDA g, t : VisitConstraint(e.src, g, t), s, e.guard)
      assigned == FoldLeft(LAMBDA t, a : VisitAssignment(e, a, t), guarded, e.statement)
  IN FoldSet(LAMBDA x, t : AddNoAssignment(t, e.src, e.tgt, x), assigned,
             ClockId \ SurelyAssigned(e.statement))

-----------------------------------------------------------------------------
(* The maps: no bound, or the bound of the matrix.                         *)
BoundIn(m, l, x) ==
  LET b == m[0][index(l, x)] IN IF b = D!LT_INFINITY THEN NO_BOUND ELSE -D!Value(b)

(* map_t: for each clock a bound or none; its update with the maps of some *)
(* locations.                                                              *)
map_t == [ClockId -> Int]
NoBounds == [x \in ClockId |-> NO_BOUND]
UpdatedBy(map, local, ls) == [x \in ClockId |-> Max({map[x]} \cup {local[l][x] : l \in ls})]

(* Maps of bounds L and U, or of their maximum M, for each location or for *)
(* all, as they are constructed.                                           *)
local_lu_map ==
  [L |-> [l \in Location |-> NoBounds], U |-> [l \in Location |-> NoBounds]]
global_lu_map == [L |-> NoBounds, U |-> NoBounds]
local_m_map == [l \in Location |-> NoBounds]
global_m_map == NoBounds

clockbounds ==
  [localLU |-> local_lu_map, globalLU |-> global_lu_map, localM |-> local_m_map, globalM |-> global_m_map]

(* The types of the maps.                                                  *)
local_lu_map_t == [L : [Location -> map_t], U : [Location -> map_t]]
global_lu_map_t == [L : map_t, U : map_t]
local_m_map_t == [Location -> map_t]
global_m_map_t == map_t

clockbounds_t ==
  [localLU : local_lu_map_t, globalLU : global_lu_map_t, localM : local_m_map_t, globalM : global_m_map_t]

(* fill_local_lu_map and the others, from the solver.                      *)
LocalMap(m) == [l \in Location |-> [x \in ClockId |-> BoundIn(m, l, x)]]

LocalLU(map, s) == [map EXCEPT !.L = LocalMap(s.L), !.U = LocalMap(s.U)]
GlobalLU(map, s) ==
  [map EXCEPT !.L = UpdatedBy(@, LocalMap(s.L), Location), !.U = UpdatedBy(@, LocalMap(s.U), Location)]

LocalM(map, s) ==
  [l \in DOMAIN map |-> [x \in ClockId |-> Max({BoundIn(s.L, l, x), BoundIn(s.U, l, x)})]]
GlobalM(map, s) == UpdatedBy(map, LocalM(local_m_map, s), Location)

FilledMaps(s) ==
  [clockbounds EXCEPT !.globalLU = GlobalLU(@, s), !.localLU = LocalLU(@, s),
                      !.globalM = GlobalM(@, s), !.localM = LocalM(@, s)]

NoMaps == [localLU |-> <<>>]

(* The bounds in a tuple of locations, one of each process.                *)
local_lu_bounds(map, vloc) ==
  [L |-> UpdatedBy(NoBounds, map.L, vloc), U |-> UpdatedBy(NoBounds, map.U, vloc)]
local_m_bounds(map, vloc) == UpdatedBy(NoBounds, map, vloc)

-----------------------------------------------------------------------------
Init ==
  /\ system \in Systems
  /\ locations = Location
  /\ edges = system.edges
  /\ solver = Clear
  /\ maps = NoMaps

VisitLocation(l) ==
  /\ locations' = locations \ {l}
  /\ solver' = AddLocationConstraints(solver, l)
  /\ UNCHANGED <<system, edges, maps>>

VisitEdge(e) ==
  /\ locations = {}
  /\ edges' = edges \ {e}
  /\ solver' = AddEdgeConstraints(solver, e)
  /\ UNCHANGED <<system, locations, maps>>

Fill ==
  /\ locations = {} /\ edges = {} /\ solver.hasSolution /\ maps = NoMaps
  /\ maps' = FilledMaps(solver)
  /\ UNCHANGED <<system, locations, edges, solver>>

Next ==
  \/ \E l \in locations : l = Min(locations) /\ VisitLocation(l)
  \/ \E e \in edges : VisitEdge(e)
  \/ Fill

Spec == Init /\ [][Next]_vars

-----------------------------------------------------------------------------
(* What the bounds are for.                                                *)
Valuation == [ClockId -> Values]

VLoc ==
  {ls \in SUBSET Location :
     \A p \in {LocPid[l] : l \in Location} :
       Cardinality({l \in ls : LocPid[l] = p}) = 1}

(* w passes the lower guards up to l and the upper guards up to u that v   *)
(* passes, now and after any delay.                                        *)
Simulates(w, v, l, u) ==
  \A x \in ClockId :
    \/ w[x] = v[x]
    \/ w[x] < v[x] /\ (l[x] = NO_BOUND \/ w[x] > Unit * l[x])
    \/ w[x] > v[x] /\ (u[x] = NO_BOUND \/ v[x] > Unit * u[x])

Holds(v, x, op, bound) ==
  CASE op = "LT" -> v[x] < Unit * bound
    [] op = "LE" -> v[x] <= Unit * bound
    [] op = "EQ" -> v[x] = Unit * bound
    [] op = "GE" -> v[x] >= Unit * bound
    [] op = "GT" -> v[x] > Unit * bound

Preserved(v, w, constraints) ==
  \A g \in constraints : \A x \in g.clocks :
    Holds(v, x, g.op, g.bound) => Holds(w, x, g.op, g.bound)

(* Executions of a statement: which clocks the lvalues denote.             *)
Executions(statement) ==
  {r \in [DOMAIN statement -> ClockId \X ClockId] :
     \A i \in DOMAIN statement :
       r[i][1] \in statement[i].to
       /\ (statement[i].kind = "int" \/ r[i][2] \in statement[i].from)}

Executed(v, statement, r) ==
  FoldLeftDomain(
    LAMBDA now, i : [now EXCEPT ![r[i][1]] =
      IF statement[i].kind = "int" THEN Unit * statement[i].value
      ELSE now[r[i][2]] + Unit * statement[i].value],
    v, statement)

TypeOK ==
  /\ system \in Systems
  /\ locations \subseteq Location /\ edges \subseteq system.edges
  /\ solver.L \in D!Matrix /\ solver.U \in D!Matrix
  /\ solver.hasSolution => D!IsConsistent(solver.L) /\ D!IsTight(solver.L)
                           /\ D!IsConsistent(solver.U) /\ D!IsTight(solver.U)
  /\ maps \in clockbounds_t \/ maps = NoMaps

(* The preorder of the local bounds is a simulation: two states that it    *)
(* relates pass the same invariants and guards, and their successors by    *)
(* any edge are related by the bounds of the target, in every combination  *)
(* of locations of the processes.  The preorder is transitive and compares *)
(* clock by clock, so that it is enough to change one clock.               *)
BoundsSimulate ==
  maps # NoMaps =>
    \A vloc \in VLoc :
      LET l == local_lu_bounds(maps.localLU, vloc).L
          u == local_lu_bounds(maps.localLU, vloc).U
      IN \A v \in Valuation, x \in ClockId : \A w \in {[v EXCEPT ![x] = b] : b \in Values} :
           Simulates(w, v, l, u) =>
             /\ \A loc \in vloc : Preserved(v, w, system.invariant[loc])
             /\ \A e \in {f \in system.edges : f.src \in vloc} :
                  LET target == (vloc \ {e.src}) \cup {e.tgt}
                      tl == local_lu_bounds(maps.localLU, target).L
                      tu == local_lu_bounds(maps.localLU, target).U
                  IN /\ Preserved(v, w, e.guard)
                     /\ \A r \in Executions(e.statement) :
                          Simulates(Executed(w, e.statement, r),
                                    Executed(v, e.statement, r), tl, tu)

(* The least solution of the inequations, by iteration.  The constants of  *)
(* the guards of a location are demanded there, and what is demanded of a  *)
(* clock after an edge is demanded before it of the clock that it copies.  *)
ConstantsOf(l, x, ops) ==
  {g.bound : g \in {h \in system.invariant[l]
                         \cup UNION {e.guard : e \in {f \in system.edges : f.src = l}} :
                      h.op \in ops /\ x \in h.clocks}}

Copies(e) ==
  LET written == {e.tgt} \cup {m \in Location : LocPid[m] # LocPid[e.src]}
      sums == {a \in ToSet(e.statement) : a.kind # "int"}
      kept == {x \in ClockId : \A a \in ToSet(e.statement) : a.to # {x}}
  IN UNION {[of : {e.src} \X a.from, to : written \X a.to, c : {a.value}] : a \in sums}
     \cup {[of |-> <<e.src, x>>, to |-> <<e.tgt, x>>, c |-> 0] : x \in kept}

Relaxed(need, copies) ==
  [p \in Location \X ClockId |->
    Max({need[p]} \cup {need[d.to] - d.c : d \in {k \in copies : k.of = p /\ need[k.to] # NO_BOUND}})]

AllCopies == UNION {Copies(e) : e \in system.edges}

Rounds(start) ==
  FoldLeft(LAMBDA need, n : CHOOSE r \in {Relaxed(need, AllCopies)} : r = r,
           start, [n \in 1 .. LocNumber * ClockNumber |-> n])

LeastBounds(ops) ==
  Rounds([p \in Location \X ClockId |-> Max(ConstantsOf(p[1], p[2], ops) \cup {NO_BOUND})])

(* There are bounds unless the edges can decrease a clock again and again, *)
(* and then they are the least ones that the inequations allow: a larger   *)
(* bound anywhere splits zones for nothing.  The matrices are tight.       *)
BoundsLeast ==
  /\ TypeOK
  /\ locations = {} /\ edges = {} =>
    LET potential == Rounds([p \in Location \X ClockId |-> 0])
        ls == LeastBounds({"GT", "GE", "EQ"})
        us == LeastBounds({"LT", "LE", "EQ"})
    IN /\ solver.hasSolution <=> Relaxed(potential, AllCopies) = potential
       /\ maps # NoMaps =>
            \A l \in Location, x \in ClockId :
              /\ maps.localLU.L[l][x] = ls[<<l, x>>] /\ maps.localLU.U[l][x] = us[<<l, x>>]
              /\ maps.localM[l][x] = Max({ls[<<l, x>>], us[<<l, x>>]})
              /\ maps.globalM[x] = Max({maps.globalLU.L[x], maps.globalLU.U[x]})
==============================================================================
