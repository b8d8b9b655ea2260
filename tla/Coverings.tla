------------------------------- MODULE Coverings -------------------------------
(***************************************************************************)
(* The zone graphs that the algorithms of tck-reach explore, and the       *)
(* covering tests that their graphs drop nodes with.  Some nodes are       *)
(* stored; then a node covered by another one is expanded along a path,    *)
(* and the covering node along the same edges: the exploration that drops  *)
(* the covered node relies on this.                                        *)
(***************************************************************************)
EXTENDS ZoneGraph

CONSTANTS
  Runs,            \* pairs of an algorithm and a system
  Unbounded,       \* UNBOUNDED_SPREAD
  Stored           \* the length of the paths to the stored nodes

VARIABLES
  algorithm,
  refclocks,       \* of the system, for concur19
  stored,          \* nodes that have been reached; then the two that are compared
  lower, upper     \* the covered and the covering node, then where paths lead

coveringVars == <<system, algorithm, maps, refclocks, stored, lower, upper, steps>>

-------------------------------------------------------------------------------
(* The constraints of the locations of a system, for gsim.                 *)
TypedConstraint(c) ==
  LET op(closed, strict) == IF Comparator(c.b) = LE THEN closed ELSE strict
  IN IF c.x = 0
     THEN [x |-> c.y - 1, y |-> -1, op |-> op("GE", "GT"), bound |-> -Value(c.b)]
     ELSE [x |-> c.x - 1, y |-> c.y - 1, op |-> op("LE", "LT"), bound |-> Value(c.b)]

TypedSystem(s) ==
  LET typed(cs) == [i \in DOMAIN cs |-> TypedConstraint(cs[i])]
      updates(rs) == [i \in DOMAIN rs |-> [x |-> rs[i].x - 1, z |-> rs[i].y - 1, d |-> rs[i].value]]
  IN [invariant |-> [l \in DOMAIN s.locations |-> ToSet(typed(s.locations[l].invariant.clocks))],
      edges |-> [i \in DOMAIN s.edges |->
        [src |-> s.edges[i].src, tgt |-> s.edges[i].tgt, guard |-> typed(s.edges[i].guard.clocks),
         update |-> updates(s.edges[i].statement.resets)]]]

C(t) == INSTANCE ConstraintMap WITH
          ClockNumber <- Dim - 1, Unit <- 1, Values <- {}, system <- t,
          amap <- <<>>, edge <- 0, stabilized <- TRUE, done <- TRUE

(* compute_amap: rounds over the edges, until no number of constraints     *)
(* changes.                                                                *)
compute_amap(s) ==
  LET t == CHOOSE u \in {TypedSystem(s)} : u = u
      visit(r, e) == LET v == C(t)!Visited(r.map, e) IN [map |-> v.map, same |-> r.same /\ v.same]
      RECURSIVE fixpoint(_)
      fixpoint(map) ==
        LET round == FoldLeft(LAMBDA r, e : visit(r, e), [map |-> map, same |-> TRUE], t.edges)
        IN IF round.same THEN round.map ELSE fixpoint(round.map)
  IN fixpoint(C(t)!Atoms(t))

(* The constraints of a tuple of locations, diagonal ones in a sequence.   *)
G(constraints) == SetToSeq({phi \in constraints : phi.y # -1})
Gdf(constraints) == {phi \in constraints : phi.y = -1}

-------------------------------------------------------------------------------
(* G-simulation between zones.  The constraints have clocks from 0, so the *)
(* clock of a simple one is the next in the matrix.                        *)
is_g_le_nd(d, e, gdf) ==
  LET uppers == {phi \in gdf : phi.op \in {"LE", "LT"}}
      lowers == gdf \ uppers
      cmp(phi) == IF phi.op \in {"LT", "GT"} THEN LT ELSE LE
      clock(phi) == phi.x + 1
      within(phi) == Sum(d[0][clock(phi)], Db(cmp(phi), phi.bound)) >= LE_ZERO
  IN /\ \A phi \in uppers : within(phi) => e[0][clock(phi)] >= d[0][clock(phi)]
     /\ \A phi \in lowers :
          Sum(e[clock(phi)][0], Db(cmp(phi), -phi.bound)) < LE_ZERO =>
            e[clock(phi)][0] >= d[clock(phi)][0]
     /\ \A phi \in uppers, psi \in lowers :
          LET x == clock(phi)
              y == clock(psi)
          IN x # y /\ within(phi) /\ Sum(e[y][x], Db(cmp(psi), -psi.bound)) < d[0][x] =>
               e[y][x] >= d[y][x]

(* The diagonal constraints one after the other: the part of the zone      *)
(* where the last one is false, and the part where it is true.  The clocks *)
(* of the constraint index the matrix as they are, and its negation keeps  *)
(* their order and the bound.                                              *)
RECURSIVE is_g_le(_, _, _, _), is_g_le_star(_, _, _, _)

is_g_le_star(d, e, g, gdf) ==
  g # <<>> =>
  LET phi == Last(g)
      flipped == phi.op \in {"GE", "GT"}
      x == IF flipped THEN phi.y ELSE phi.x
      y == IF flipped THEN phi.x ELSE phi.y
      bound == IF flipped THEN -phi.bound ELSE phi.bound
      with(m, cmp) == Constrained(m, x, y, Db(cmp, bound))
      closed == phi.op \in {"LE", "GE"}
      negated == with(d, IF closed THEN LT ELSE LE)
      true(m) == with(m, IF closed THEN LE ELSE LT)
  IN /\ IsEmpty0(negated) \/ is_g_le_star(negated, e, Front(g), gdf)
     /\ is_g_le(true(d), true(e), Front(g), gdf)

is_g_le(d, e, g, gdf) ==
  ~IsEmpty0(d) =>
  ~IsEmpty0(e) /\ is_g_le_nd(d, e, gdf) /\ is_g_le_star(d, e, g, gdf)

-------------------------------------------------------------------------------
(* The algorithms of tck-reach: what they explore and how they compare.    *)
Local == INSTANCE ReferenceZoneGraph WITH
  ClockNumber <- Dim - 1, ReferenceVariants <- {}, Coarse <- {}, Past <- {}, Waits <- {},
  exact_status <- status, exact_node <- node

(* The zone graph that each one runs on.                                   *)
covreach_graph == <<"elapsed", "extra_lu_plus_local">>
alu_graph == <<"elapsed", "none">>
gsim_graph == <<"elapsed", "none">>
concur19_graph == <<"process", "elapsed", Unbounded>>

GraphOf ==
  [covreach |-> covreach_graph, alu |-> alu_graph, gsim |-> gsim_graph, concur19 |-> concur19_graph]

(* Bounds of clocks, or the constraints for gsim.                          *)
Bounded(a, s) ==
  IF a = "gsim" THEN compute_amap(s)
  ELSE LET solved == CHOOSE m \in {Solved(s)} : m = m IN CB(BoundSystem(s))!FilledMaps(solved)

InitialNode(vloc) ==
  IF algorithm = "concur19" THEN Local!refzg_initial(system, refclocks, GraphOf[algorithm], vloc)
  ELSE zg_initial(system, maps, GraphOf[algorithm], vloc)

NextNode(n, es) ==
  IF algorithm = "concur19" THEN Local!refzg_next(system, refclocks, GraphOf[algorithm], n, es)
  ELSE zg_next(system, maps, GraphOf[algorithm], n, es)

(* Zones.  An empty one is covered by any other, and covers none else.     *)
zone_covers(z1, z2, covers) == IsEmpty0(z1) \/ (~IsEmpty0(z2) /\ covers)
zone_le(z1, z2) == zone_covers(z1, z2, IsLe(z1, z2))
zone_alu_le(z1, z2, lu) == zone_covers(z1, z2, IsALULe(z1, z2, lu.l, lu.u))
zone_g_le(z1, z2, phis) == zone_covers(z1, z2, is_g_le(z1, z2, G(phis), Gdf(phis)))
zone_sync_alu_le(z1, z2, lu) == Local!R(refclocks)!is_sync_alu_le(z1, z2, lu.l, lu.u)

(* node_le_t: the second node covers the first one.  Bounds are those at   *)
(* the locations of the second one.                                        *)
LU(n) == local_lu_extrapolation(maps, n.vloc)

covreach_le(n1, n2) == zone_le(n1.zone, n2.zone)
alu_le(n1, n2) == zone_alu_le(n1.zone, n2.zone, LU(n2))
gsim_le(n1, n2) == zone_g_le(n1.zone, n2.zone, C(<<>>)!bounds(maps, ToSet(n2.vloc)))
concur19_le(n1, n2) == zone_sync_alu_le(n1.zone, n2.zone, LU(n2))

node_le(test, n1, n2) ==
  /\ n1.vloc = n2.vloc /\ n1.intval = n2.intval
  /\ CASE test = "covreach" -> covreach_le(n1, n2)
       [] test = "alu" -> alu_le(n1, n2)
       [] test = "gsim" -> gsim_le(n1, n2)
       [] test = "concur19" -> concur19_le(n1, n2)

-------------------------------------------------------------------------------
Nobody == <<>>

(* The successors of the nodes by their edges.                             *)
Successors ==
  [n \in stored |-> [es \in ToSet(outgoing_edges(system, n.vloc)) |-> NextNode(n, es)]]

CoverInit ==
  /\ \E run \in Runs : algorithm = run[1] /\ system = run[2]
  /\ maps = CHOOSE m \in {Bounded(algorithm, system)} : m = m
  /\ refclocks \in {IF algorithm = "concur19" THEN Local!process_reference_clocks(system) ELSE Nobody}
  /\ stored = {r.node : r \in {q \in {InitialNode(v) : v \in initial_edges(system)} : q.status = "OK"}}
  /\ lower = Nobody /\ upper = Nobody
  /\ steps = 0

(* The nodes stored so far are expanded.                                   *)
Expand(next) ==
  /\ steps < Stored
  /\ LET results == UNION {Range(next[n]) : n \in stored}
     IN stored' = stored \cup {r.node : r \in {q \in results : q.status = "OK"}}
  /\ steps' = steps + 1
  /\ UNCHANGED <<system, algorithm, maps, refclocks, lower, upper>>

(* A node is found covered.                                                *)
Cover ==
  /\ steps = Stored
  /\ \E n1, n2 \in stored :
       /\ n1 # n2 /\ node_le(algorithm, n1, n2)
       /\ lower' = n1 /\ upper' = n2 /\ stored' = {n1, n2}
  /\ steps' = Stored + 1
  /\ UNCHANGED <<system, algorithm, maps, refclocks>>

(* Both follow the same edges.                                             *)
FollowBoth(next) ==
  /\ steps > Stored /\ steps < MaxSteps /\ upper # Nobody
  /\ \E es \in DOMAIN next[lower] :
       LET covered == next[lower][es]
           covering == next[upper][es]
       IN /\ covered.status = "OK" /\ lower' = covered.node
          /\ upper' = IF covering.status = "OK" THEN covering.node ELSE Nobody
  /\ stored' = {lower', upper'} \ {Nobody}
  /\ steps' = steps + 1
  /\ UNCHANGED <<system, algorithm, maps, refclocks>>

CoverNext ==
  \/ Cover
  \/ steps # Stored /\ steps < MaxSteps /\ \E next \in {Successors} : Expand(next) \/ FollowBoth(next)

(* Whatever path a covered node has, the node that covers it has the same, *)
(* and goes on covering it along the path.  Inclusion need not be kept by  *)
(* Extra_LU+, but the simulation that it respects is.                      *)
PathsCovered ==
  lower # Nobody =>
    /\ upper # Nobody
    /\ node_le(IF algorithm = "covreach" THEN "alu" ELSE algorithm, lower, upper)
===============================================================================
