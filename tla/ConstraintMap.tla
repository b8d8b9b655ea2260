----------------------------- MODULE ConstraintMap ---------------------------
(***************************************************************************)
(* compute_amap: the sets G of constraints of every location for the       *)
(* G-simulation between zones of automata with diagonal constraints and    *)
(* updates.  G contains the guards and invariants, and what a constraint   *)
(* of the target of an edge demands before the edge.  Simple constraints   *)
(* (in Gdf) and diagonal ones (in G) are kept in one set here.             *)
(* compute_eca_amap does the same for generalised timed automata, whose    *)
(* edges are programs: blocks of guards and of clocks to reset or release. *)
(* The hidden clock tmp, which separates the blocks and whose constraints  *)
(* are dropped from the result, is left out.                               *)
(***************************************************************************)
EXTENDS Integers, Sequences, FiniteSetsExt, SequencesExt

CONSTANTS
  LocNumber,     \* locations, from 0
  ClockNumber,   \* clocks, from 0
  Systems,       \* the automata under analysis; generalised ones have a field prophecy
  InfValue,      \* INF_VALUE, a bound and a value of clocks
  Unit,          \* grid steps in a time unit, for the valuations of properties
  Values         \* the clock values on the grid that the properties consider

Location == 0 .. LocNumber - 1
ClockId == 0 .. ClockNumber - 1
NoClock == -1

VARIABLES
  system,        \* the automaton under analysis
  amap,          \* the constraints of each location
  edge,          \* the edge that is visited next; 0: the atoms are not yet added
  stabilized,    \* no size has changed in this round
  done

vars == <<system, amap, edge, stabilized, done>>

Generalised == "prophecy" \in DOMAIN system

-----------------------------------------------------------------------------
(* Constraints: x op bound when y = NoClock, otherwise x - y op bound.     *)
Constraint(x, y, op, bound) == [x |-> x, y |-> y, op |-> op, bound |-> bound]
IsSimple(phi) == phi.y = NoClock

lleq(op) == op \in {"LT", "LE"}
ggeq(op) == op \in {"GT", "GE"}

reverse_operator(op) ==
  CASE op = "LE" -> "GE" [] op = "LT" -> "GT" [] op = "GE" -> "LE" [] op = "GT" -> "LT"
    [] OTHER -> op

SameSide(phi, psi) ==
  /\ IsSimple(phi) /\ IsSimple(psi) /\ phi.x = psi.x
  /\ (lleq(phi.op) /\ lleq(psi.op)) \/ (ggeq(phi.op) /\ ggeq(psi.op))

(* is_G_greater, for one constraint of the set: phi makes psi redundant.   *)
Greater(phi, psi) ==
  /\ SameSide(phi, psi)
  /\ \/ phi.bound > psi.bound
     \/ phi.bound = psi.bound /\ (phi.op = psi.op \/ phi.op \in {"LE", "GT"})

(* Mutant: what the new constraint beats is kept. *)
AddedKeeping(set, phi) ==
  IF \E psi \in set : Greater(psi, phi) THEN set ELSE set \cup {phi}

(* is_G_lesser: the constraints that phi makes redundant are dropped.      *)
WithoutLesser(set, phi) == {psi \in set : ~Greater(phi, psi)}

(* A constraint other than an equality.                                    *)
AddedOne(set, phi) ==
  IF \E psi \in set : Greater(psi, phi) THEN set
  ELSE WithoutLesser(set, phi) \cup {phi}

(* add_constraint.                                                         *)
Added(set, phi) ==
  IF phi.op = "EQ"
  THEN AddedOne(AddedOne(set, [phi EXCEPT !.op = "LE"]), [phi EXCEPT !.op = "GE"])
  ELSE AddedOne(set, phi)

AddedAll(set, phis) == FoldSet(LAMBDA phi, s : Added(s, phi), set, phis)

-----------------------------------------------------------------------------
(* extract_updates: the last assignment of a clock, z + d or the constant  *)
(* d (z = NoClock); a clock that is not assigned keeps its value.          *)
ExtractUpdates(update, x) ==
  LET assigned == {i \in DOMAIN update : update[i].x = x}
  IN IF assigned = {} THEN [z |-> x, d |-> 0]
     ELSE [z |-> update[Max(assigned)].z, d |-> update[Max(assigned)].d]

(* up_inverse: the constraint before the update, with a bound that is not  *)
(* negative, if there is one.                                              *)
UpInverse(u1, u2, op, c) ==
  LET bound == c - u1.d + u2.d
      difference == u1.z # NoClock /\ u2.z # NoClock
      reversed == bound < 0 \/ (u1.z = NoClock /\ u2.z # NoClock)
      final == IF reversed THEN -bound ELSE bound
      newop == IF reversed THEN reverse_operator(op) ELSE op
  IN IF u1.z = u2.z \/ final < 0 THEN {}
     ELSE IF ~difference
     THEN {Constraint(IF u1.z = NoClock THEN u2.z ELSE u1.z, NoClock, newop, final)}
     ELSE IF bound >= 0 THEN {Constraint(u1.z, u2.z, newop, final)}
     ELSE {Constraint(u2.z, u1.z, newop, final)}

(* Mutant: the second clock of a difference is taken as it is before. *)
UpInverseOfFirst(phi, update) ==
  UpInverse(ExtractUpdates(update, phi.x), [z |-> phi.y, d |-> 0], phi.op, phi.bound)

ComputeUpInverse(phi, update) ==
  UpInverse(ExtractUpdates(update, phi.x),
            IF IsSimple(phi) THEN [z |-> NoClock, d |-> 0] ELSE ExtractUpdates(update, phi.y),
            phi.op, phi.bound)

(* guard_based_optimization: what the guard already tells of pre.          *)
GuardBasedOptimization(pre, guard) ==
  LET uppers == {i \in DOMAIN guard : IsSimple(guard[i]) /\ guard[i].x = pre.x /\ lleq(guard[i].op)}
      lower == {i \in uppers : guard[i].bound < pre.bound}
      decided(g) ==
        /\ ~IsSimple(g) /\ g.x = pre.x /\ g.y = pre.y
        /\ (lleq(g.op) /\ g.bound < pre.bound) \/ (ggeq(g.op) /\ pre.bound < g.bound)
  IN CASE IsSimple(pre) /\ lleq(pre.op) -> IF uppers = {} THEN {pre} ELSE {}
       [] IsSimple(pre) /\ ggeq(pre.op) ->
            IF lower = {} THEN {pre}
            ELSE {Constraint(pre.x, NoClock, "GE", guard[Max(lower)].bound)}
       [] OTHER -> IF lower # {} \/ (\E g \in ToSet(guard) : decided(g)) THEN {} ELSE {pre}

ComputePre(phi, e) ==
  UNION {GuardBasedOptimization(pre, e.guard) : pre \in ComputeUpInverse(phi, e.update)}

(* propagate_constraint for all the constraints of the target of an edge;  *)
(* on a loop they are collected before they are added.                     *)
Propagated(map, e) == AddedAll(map[e.src], UNION {ComputePre(phi, e) : phi \in map[e.tgt]})

-----------------------------------------------------------------------------
(* Generalised automata: is_G_greater_inf.  A bound that is infinite makes *)
(* no other one redundant, nor is made redundant.                          *)
GreaterInf(phi, psi) ==
  IF {InfValue, -InfValue} \cap {phi.bound, psi.bound} = {} THEN Greater(phi, psi)
  ELSE SameSide(phi, psi) /\ IF phi.bound = psi.bound THEN phi.op = psi.op
                             ELSE phi.bound > psi.bound
                                  /\ phi.bound # InfValue /\ psi.bound # -InfValue

WithoutLesserInf(set, phi) == {psi \in set : ~GreaterInf(phi, psi)}

(* add_constraint: simple constraints of prophecy clocks are not added,    *)
(* there are stronger ones from the start.                                 *)
GeneralisedAdded(set, phi) ==
  LET addedOne(s, psi) ==
        IF \E old \in s : old = psi \/ GreaterInf(old, psi) THEN s
        ELSE WithoutLesserInf(s, psi) \cup {psi}
  IN IF IsSimple(phi) /\ phi.x \in system.prophecy THEN set
     ELSE IF phi.op = "EQ"
     THEN addedOne(addedOne(set, [phi EXCEPT !.op = "LE"]), [phi EXCEPT !.op = "GE"])
     ELSE addedOne(set, phi)

GeneralisedAddedAll(set, phis) == FoldSet(LAMBDA phi, s : GeneralisedAdded(s, phi), set, phis)

(* up_inverse after an update of the clocks in "to": a reset and a release *)
(* are both stored as an assignment of 0.                                  *)
GeneralisedUpInverse(phi, to) ==
  LET first == phi.x \notin to
      second == ~IsSimple(phi) /\ phi.y \notin to
  IN CASE first /\ second -> {phi}
       [] first /\ ~second -> {Constraint(phi.x, NoClock, phi.op, phi.bound)}
       [] ~first /\ second -> {Constraint(phi.y, NoClock, reverse_operator(phi.op), -phi.bound)}
       [] OTHER -> {}

UpdatedBefore(blocks, k) == UNION {blocks[i].do : i \in 1 .. k - 1}

(* Mutant: only the block before the guard is considered. *)
GuardPreOfPreviousBlock(blocks) ==
  UNION {UNION {GeneralisedUpInverse(g, IF k = 1 THEN {} ELSE blocks[k - 1].do) :
                g \in blocks[k].guard} : k \in DOMAIN blocks}

(* compute_program_guard_pre: a guard is taken back through the updates of *)
(* all the blocks before it.                                               *)
ProgramGuardPre(blocks) ==
  UNION {UNION {GeneralisedUpInverse(g, UpdatedBefore(blocks, k)) : g \in blocks[k].guard} :
         k \in DOMAIN blocks}

GeneralisedPropagated(map, e) ==
  GeneralisedAddedAll(map[e.src],
    UNION {GeneralisedUpInverse(phi, UpdatedBefore(e.blocks, Len(e.blocks) + 1)) : phi \in map[e.tgt]})

-----------------------------------------------------------------------------
(* a_map_t: the map as it is constructed, and the constraints of a tuple   *)
(* of locations.                                                           *)
a_map == [l \in Location |-> {}]

bounds(map, vloc) == UNION {map[l] : l \in vloc}

is_a_map(map) ==
  \A l \in Location : \A phi \in map[l] :
    /\ phi.x \in ClockId /\ phi.y \in (ClockId \cup {NoClock}) \ {phi.x}
    /\ phi.op \in {"LT", "LE", "GE", "GT"}
    /\ phi.bound \in IF Generalised \/ ~IsSimple(phi) THEN Int ELSE Nat

-----------------------------------------------------------------------------
Init ==
  /\ system \in Systems
  /\ amap = a_map
  /\ edge = 0
  /\ stabilized = FALSE
  /\ done = FALSE

(* The atoms of invariants and guards.                                     *)
Atoms(s) ==
  [l \in Location |->
    AddedAll({}, s.invariant[l]
                   \cup UNION {ToSet(e.guard) : e \in {f \in ToSet(s.edges) : f.src = l}})]

(* compute_amap starts with them.                                          *)
AddAtoms ==
  /\ edge = 0 /\ ~Generalised
  /\ amap' = Atoms(system)
  /\ edge' = 1
  /\ stabilized' = TRUE
  /\ done' = (system.edges = <<>>)
  /\ UNCHANGED system

(* compute_eca_amap: prophecy clocks at most and at least 0 everywhere,    *)
(* invariants, and guards of all the blocks of edges.                      *)
AddGeneralisedAtoms ==
  /\ edge = 0 /\ Generalised
  /\ amap' = [l \in Location |->
       GeneralisedAddedAll(
         {Constraint(p, NoClock, op, 0) : p \in system.prophecy, op \in {"LE", "GE"}},
         system.invariant[l]
           \cup UNION {ProgramGuardPre(e.blocks) : e \in {f \in ToSet(system.edges) : f.src = l}})]
  /\ edge' = 1
  /\ stabilized' = TRUE
  /\ done' = (system.edges = <<>>)
  /\ UNCHANGED system

Size(set, simple) == Cardinality({phi \in set : IsSimple(phi) = simple})

(* The visit of an edge: the map after it, and whether the numbers of      *)
(* constraints have stayed the same.                                       *)
Visited(map, e) ==
  LET set == IF Generalised THEN GeneralisedPropagated(map, e) ELSE Propagated(map, e)
  IN [map |-> [map EXCEPT ![e.src] = set],
      same |-> \A simple \in BOOLEAN : Size(set, simple) = Size(map[e.src], simple)]

(* Mutant: a change in one round counts in all the later ones. *)
PropagateEdgeUnstable ==
  /\ edge > 0 /\ ~done
  /\ LET visited == Visited(amap, system.edges[edge])
         last == edge = Len(system.edges)
     IN /\ amap' = visited.map
        /\ edge' = IF last THEN 1 ELSE edge + 1
        /\ done' = (last /\ stabilized /\ visited.same)
        /\ stabilized' = (stabilized /\ visited.same)
  /\ UNCHANGED system

(* One edge of a round of find_fixpoint.  A round is the last one when the *)
(* numbers of constraints have not changed.                                *)
PropagateEdge ==
  /\ edge > 0 /\ ~done
  /\ LET visited == Visited(amap, system.edges[edge])
         last == edge = Len(system.edges)
     IN /\ amap' = visited.map
        /\ edge' = IF last THEN 1 ELSE edge + 1
        /\ done' = (last /\ stabilized /\ visited.same)
        /\ stabilized' = (last \/ (stabilized /\ visited.same))
  /\ UNCHANGED system

Next == AddAtoms \/ AddGeneralisedAtoms \/ PropagateEdge

Spec == Init /\ [][Next]_vars /\ WF_vars(Next)

-----------------------------------------------------------------------------
(* The automata that have constraints.  In a plain one a clock is compared *)
(* with a natural number.  In a generalised one a bound is infinite, or    *)
(* below infinity in grid steps too.                                       *)
IsBound(s, phi) ==
  IF "prophecy" \in DOMAIN s
  THEN \/ phi.bound \in {InfValue, -InfValue}
       \/ -InfValue < Unit * phi.bound /\ Unit * phi.bound < InfValue
  ELSE IsSimple(phi) => phi.bound \in Nat

AreAtoms(s, phis) ==
  /\ IsFiniteSet(phis)
  /\ \A phi \in phis :
       /\ phi \in [x : ClockId, y : ClockId \cup {NoClock},
                   op : {"LT", "LE", "EQ", "GE", "GT"}, bound : Int]
       /\ phi.x # phi.y /\ IsBound(s, phi)

IsUpdate(a) == a.x \in ClockId /\ a.z \in ClockId \cup {NoClock} /\ a.d \in Int

IsSequence(q) == q \in Seq(ToSet(q))

IsEdge(s, e) ==
  /\ e.src \in Location /\ e.tgt \in Location
  /\ IF "prophecy" \in DOMAIN s
     THEN /\ IsSequence(e.blocks)
          /\ \A k \in DOMAIN e.blocks : e.blocks[k].do \subseteq ClockId /\ AreAtoms(s, e.blocks[k].guard)
     ELSE /\ IsSequence(e.guard) /\ AreAtoms(s, ToSet(e.guard))
          /\ IsSequence(e.update) /\ \A i \in DOMAIN e.update : IsUpdate(e.update[i])

IsAutomaton(s) ==
  /\ \A l \in Location : AreAtoms(s, s.invariant[l])
  /\ IsSequence(s.edges) /\ \A i \in DOMAIN s.edges : IsEdge(s, s.edges[i])
  /\ "prophecy" \in DOMAIN s => s.prophecy \subseteq ClockId

(* Defined values of clocks are so small that differences are below        *)
(* infinity.                                                               *)
AutomataAssumption ==
  /\ LocNumber \in Nat /\ ClockNumber \in Nat
  /\ Unit \in Nat \ {0} /\ InfValue \in Nat \ {0}
  /\ Values \subseteq Nat /\ \A u \in Values : 2 * u < InfValue
  /\ \A s \in Systems : IsAutomaton(s)

-----------------------------------------------------------------------------
(* What the constraints are for.                                           *)
Valuation == [ClockId -> Values]

Infinite(b) == Generalised /\ b \in {InfValue, -InfValue}

(* The difference of clocks that may be undefined (infinite).              *)
Difference(a, b) ==
  IF ~Infinite(a) /\ ~Infinite(b) THEN a - b
  ELSE IF a = InfValue \/ b = -InfValue THEN InfValue
  ELSE -InfValue

Holds(v, phi) ==
  LET value == IF IsSimple(phi) THEN v[phi.x] ELSE Difference(v[phi.x], v[phi.y])
      bound == IF Infinite(phi.bound) THEN phi.bound ELSE Unit * phi.bound
  IN CASE phi.op = "LT" -> value < bound
       [] phi.op = "LE" -> value <= bound
       [] phi.op = "EQ" -> value = bound
       [] phi.op = "GE" -> value >= bound
       [] phi.op = "GT" -> value > bound

(* w satisfies phi whenever v does, now and after any delay of both.       *)
Simulates(w, v, phi) ==
  CASE ~IsSimple(phi) \/ Infinite(phi.bound) -> Holds(v, phi) => Holds(w, phi)
    [] IsSimple(phi) /\ ~Infinite(phi.bound) /\ lleq(phi.op) -> Holds(v, phi) => w[phi.x] <= v[phi.x]
    [] OTHER -> Holds(w, phi) \/ w[phi.x] >= v[phi.x]

SimulatesAll(w, v, set) == \A phi \in set : Simulates(w, v, phi)

(* Updates of a sequence without dependent assignments.                    *)
Updated(v, update) ==
  [x \in ClockId |->
    LET u == ExtractUpdates(update, x)
    IN (IF u.z = NoClock THEN 0 ELSE v[u.z]) + Unit * u.d]

(* Clocks of generalised automata: those of the past have values from 0 to *)
(* infinity, those of the future from minus infinity to 0.                 *)
GeneralisedValuation ==
  {v \in [ClockId -> UNION {{u, -u} : u \in Values \cup {InfValue}}] :
     \A x \in ClockId : IF x \in system.prophecy THEN v[x] <= 0 ELSE v[x] >= 0}

Stuck == <<>>

(* The program of an edge, with the values of the clocks that it releases. *)
Run(v, blocks, released) ==
  FoldLeftDomain(
    LAMBDA now, k :
      IF now = Stuck \/ (\E g \in blocks[k].guard : ~Holds(now, g)) THEN Stuck
      ELSE [x \in ClockId |->
             CASE x \notin blocks[k].do -> now[x]
               [] x \in blocks[k].do \ system.prophecy -> 0
               [] OTHER -> released[k]],
    v, blocks)

TypeOK ==
  /\ system \in Systems
  /\ edge \in {0, 1} \cup DOMAIN system.edges /\ stabilized \in BOOLEAN /\ done \in BOOLEAN
  /\ is_a_map(amap)

(* From valuations that the constraints of the source of e relate, the     *)
(* guard holds for both or for neither alone, and the updated valuations   *)
(* are related by the constraints of the target.                           *)
EdgeSound(e, source, target) ==
  \A v, w \in Valuation :
    /\ SimulatesAll(w, v, source)
    /\ \A g \in ToSet(e.guard) : Holds(v, g)
    => /\ \A g \in ToSet(e.guard) : Holds(w, g)
       /\ SimulatesAll(Updated(w, e.update), Updated(v, e.update), target)

(* The same for the program of an edge: whatever values it releases clocks *)
(* to, a run from the smaller valuation is a run from the larger one with  *)
(* the same values.                                                        *)
ProgramSound(e, source, target) ==
  LET releasing == {k \in DOMAIN e.blocks : e.blocks[k].do \cap system.prophecy # {}}
      releases == {-u : u \in Values \cup {InfValue}}
  IN \A v, w \in GeneralisedValuation :
       SimulatesAll(w, v, source) =>
         \A released \in [releasing -> releases] :
           LET after == Run(v, e.blocks, released)
               simulated == Run(w, e.blocks, released)
           IN after # Stuck => simulated # Stuck /\ SimulatesAll(simulated, after, target)

(* Once an edge is visited, the constraints of its source simulate those   *)
(* of its target, as they were before the visit, through its guard and     *)
(* updates or through its program.  The optimisation with the guard and    *)
(* the removal of dominated constraints lose nothing, although the guards  *)
(* of later blocks are met after resets and releases, and clocks may be    *)
(* undefined.                                                              *)
VisitSound ==
  edge > 0 /\ ~done =>
    LET e == system.edges[edge]
    IN IF Generalised THEN ProgramSound(e, amap'[e.src], amap[e.tgt])
       ELSE EdgeSound(e, amap'[e.src], amap[e.tgt])

(* Every visit of an edge is sound.                                        *)
PropagationSound == [][VisitSound]_vars

(* The map is well typed, and no constraint of a location is made          *)
(* redundant by another one.                                               *)
Irredundant ==
  /\ TypeOK
  /\ \A l \in Location : \A phi, psi \in amap[l] :
       Greater(phi, psi) /\ ~Infinite(phi.bound) /\ ~Infinite(psi.bound) => phi = psi
=============================================================================
