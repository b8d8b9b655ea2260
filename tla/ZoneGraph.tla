------------------------------- MODULE ZoneGraph ------------------------------
(***************************************************************************)
(* The zone graph of a product of timed automata, under one of two         *)
(* semantics and one of the extrapolations.  A node is a tuple of          *)
(* locations, a valuation of the integer variables and a zone.             *)
(*                                                                         *)
(* The machine follows one path of the graph from an initial node, as the  *)
(* exploration algorithms do along each branch.                            *)
(***************************************************************************)
EXTENDS SynchronizedProduct, DBM

CONSTANTS
  Systems,
  LocNumber,       \* locations of every system, from 0
  LocPid,          \* the process of each location
  Variants,        \* pairs of a semantics and an extrapolation
  MaxSteps         \* the length of the paths

ASSUME VariantsAssumption ==
  Variants \subseteq {"standard", "elapsed"} \X
    {"none", "extra_m_global", "extra_m_local", "extra_m_plus_global", "extra_m_plus_local",
     "extra_lu_global", "extra_lu_local", "extra_lu_plus_global", "extra_lu_plus_local"}

VARIABLES
  system,
  maps,            \* the clock bounds of the system
  variant,         \* semantics and extrapolation
  status,          \* of the last step: "OK", or why it failed
  node,            \* vloc, intval and zone
  taken,           \* the edges of the last step
  steps

vars == <<system, maps, variant, status, node, taken, steps>>

-------------------------------------------------------------------------------
(* The bounds that the extrapolations use, computed once for a system.     *)
Clocks0(cs) == {c - 1 : c \in cs}

(* A clock constraint as the solver sees it; the bound on 0 - x is a lower *)
(* bound.                                                                  *)
BoundConstraint(c) ==
  IF c.y = 0
  THEN [op |-> IF Comparator(c.b) = LE THEN "LE" ELSE "LT", clocks |-> {c.x - 1},
        bound |-> Value(c.b)]
  ELSE [op |-> IF Comparator(c.b) = LE THEN "GE" ELSE "GT", clocks |-> {c.y - 1},
        bound |-> -Value(c.b)]

BoundAssignment(r) ==
  [kind |-> IF r.y = 0 THEN "int" ELSE IF r.value = 0 THEN "copy" ELSE "sum", to |-> {r.x - 1},
   from |-> {r.y - 1} \ {-1}, value |-> r.value]

BoundSystem(s) ==
  [invariant |-> [l \in DOMAIN s.locations |->
                    {BoundConstraint(c) : c \in ToSet(s.locations[l].invariant.clocks)}],
   edges |-> {[src |-> e.src, tgt |-> e.tgt,
               guard |-> {BoundConstraint(c) : c \in ToSet(e.guard.clocks)},
               statement |-> [i \in DOMAIN e.statement.resets |->
                                BoundAssignment(e.statement.resets[i])]] : e \in ToSet(s.edges)}]

CB(s) == INSTANCE ClockBounds WITH
           ClockNumber <- Dim - 1, Unit <- 1, Values <- {0}, Systems <- {},
           system <- s, locations <- {}, edges <- {}, solver <- <<>>, maps <- <<>>

(* compute_clockbounds.                                                    *)
Solved(s) ==
  LET b == BoundSystem(s)
      visited == FoldSet(LAMBDA l, t : CB(b)!AddLocationConstraints(t, l), CB(b)!Clear,
                         DOMAIN s.locations)
  IN FoldSet(LAMBDA e, t : CB(b)!AddEdgeConstraints(t, e), visited, b.edges)

-------------------------------------------------------------------------------
(* Extrapolations: the bounds of clocks 1 .. Dim - 1 in a tuple of         *)
(* locations, and the operation on the matrix.                             *)
OnClocks(m) == [x \in Clock |-> m[x - 1]]

global_m_extrapolation(m) == OnClocks(m.globalM)
local_m_extrapolation(m, vloc) == OnClocks(CB(<<>>)!local_m_bounds(m.localM, ToSet(vloc)))

global_lu_extrapolation(m) == [l |-> OnClocks(m.globalLU.L), u |-> OnClocks(m.globalLU.U)]
local_lu_extrapolation(m, vloc) ==
  LET b == CHOOSE r \in {CB(<<>>)!local_lu_bounds(m.localLU, ToSet(vloc))} : r = r
  IN [l |-> OnClocks(b.L), u |-> OnClocks(b.U)]

Extrapolated(d, kind, m, vloc) ==
  LET extra_lu(b) == ExtraLU(d, b.l, b.u)
      extra_lu_plus(b) == ExtraLUPlus(d, b.l, b.u)
  IN CASE kind = "none" -> d
       [] kind = "extra_m_global" -> ExtraM(d, global_m_extrapolation(m))
       [] kind = "extra_m_local" -> ExtraM(d, local_m_extrapolation(m, vloc))
       [] kind = "extra_m_plus_global" -> ExtraMPlus(d, global_m_extrapolation(m))
       [] kind = "extra_m_plus_local" -> ExtraMPlus(d, local_m_extrapolation(m, vloc))
       [] kind = "extra_lu_global" -> extra_lu(global_lu_extrapolation(m))
       [] kind = "extra_lu_local" -> extra_lu(local_lu_extrapolation(m, vloc))
       [] kind = "extra_lu_plus_global" -> extra_lu_plus(global_lu_extrapolation(m))
       [] kind = "extra_lu_plus_local" -> extra_lu_plus(local_lu_extrapolation(m, vloc))

-------------------------------------------------------------------------------
(* Semantics.  A zone and a status go through the operations until one     *)
(* leaves the zone empty.                                                  *)
Ok(zone) == [status |-> "OK", zone |-> zone]

(* An operation whose result may be an empty zone.                         *)
Leaving(zone, failure) ==
  LET after == CHOOSE z \in {zone} : z = z
  IN IF IsEmpty0(after) THEN Failed(failure) ELSE Ok(after)

Constraining(r, cs, failure) ==
  FoldLeft(LAMBDA s, c : IF s.status # "OK" THEN s
                         ELSE Leaving(Constrained(s.zone, c.x, c.y, c.b), failure),
           r, cs)

Resetting(r, rs) ==
  FoldLeft(LAMBDA s, a : IF s.status # "OK" THEN s ELSE Ok(Reset(s.zone, a.x, a.y, a.value)),
           r, rs)

(* A delay under an invariant, when it is allowed.                         *)
Elapsing(r, allowed, invariant, failure) ==
  IF r.status # "OK" \/ ~allowed THEN r ELSE Constraining(Ok(OpenUp(r.zone)), invariant, failure)

SRC == "CLOCKS_SRC_INVARIANT_VIOLATED"
GUARD == "CLOCKS_GUARD_VIOLATED"
TGT == "CLOCKS_TGT_INVARIANT_VIOLATED"

semantics_initial(semantics, allowed, invariant) ==
  LET zero == Constraining(Ok(Zero), invariant, SRC)
  IN IF semantics = "standard" THEN zero ELSE Elapsing(zero, allowed, invariant, SRC)

standard_next(zone, src_allowed, c) ==
  Constraining(
    Resetting(Constraining(Elapsing(Ok(zone), src_allowed, c.src_invariant, SRC), c.guard, GUARD),
              c.reset),
    c.tgt_invariant, TGT)

elapsed_next(zone, tgt_allowed, c) ==
  LET entered == Constraining(
                   Resetting(Constraining(Constraining(Ok(zone), c.src_invariant, SRC),
                                          c.guard, GUARD), c.reset),
                   c.tgt_invariant, TGT)
  IN Elapsing(entered, tgt_allowed, c.tgt_invariant, TGT)

(* A state of the zone graph: one of the automata, with a zone.            *)
zg_state(s, zone) == [vloc |-> s.vloc, intval |-> s.intval, zone |-> zone]

(* A node after a step of the automata and one of the zone.                *)
Built(t, r, kind, m) ==
  IF r.status # "OK" THEN r
  ELSE [status |-> "OK",
        node |-> zg_state(t.state, Extrapolated(r.zone, kind, m, t.state.vloc))]

zg_initial(s, m, var, vloc) ==
  LET t == ta_initial(s, vloc)
  IN IF t.status # "OK" THEN t
     ELSE Built(t, semantics_initial(var[1], delay_allowed(s, vloc), t.constraints.src_invariant),
                var[2], m)

zg_next(s, m, var, n, es) ==
  LET t == ta_next(s, n.vloc, n.intval, es)
  IN IF t.status # "OK" THEN t
     ELSE Built(t, IF var[1] = "standard"
                   THEN standard_next(n.zone, delay_allowed(s, n.vloc), t.constraints)
                   ELSE elapsed_next(n.zone, delay_allowed(s, t.state.vloc), t.constraints),
                var[2], m)

-------------------------------------------------------------------------------
Follow(r) == status' = r.status /\ node' = IF r.status = "OK" THEN r.node ELSE node

Init ==
  /\ system \in Systems /\ variant \in Variants
  /\ \E s \in {Solved(system)} :
       s.hasSolution /\ maps = CB(BoundSystem(system))!FilledMaps(s)
  /\ \E vloc \in initial_edges(system) :
       LET r == zg_initial(system, maps, variant, vloc)
       IN status = r.status /\ node = IF r.status = "OK" THEN r.node ELSE [vloc |-> vloc]
  /\ taken = <<>> /\ steps = 0

Step(es) ==
  /\ status = "OK" /\ steps < MaxSteps
  /\ Follow(zg_next(system, maps, variant, node, es))
  /\ taken' = es /\ steps' = steps + 1
  /\ UNCHANGED <<system, maps, variant>>

Next == status = "OK" /\ \E es \in ToSet(outgoing_edges(system, node.vloc)) : Step(es)

Spec == Init /\ [][Next]_vars
===============================================================================
