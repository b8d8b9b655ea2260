--------------------------- MODULE ReferenceZoneGraph --------------------------
(***************************************************************************)
(* The zone graph with reference clocks: each process has a local time,    *)
(* or all of them share one.  A node is a tuple of locations, a valuation  *)
(* of the integer variables and a matrix of reference and offset clocks.   *)
(***************************************************************************)
EXTENDS SynchronizedProduct, DifferenceBound

CONSTANTS
  Systems,
  ClockNumber,       \* clocks of every system, from 1; 0 is the constant 0
  Unbounded,         \* UNBOUNDED_SPREAD
  ReferenceVariants, \* triples: "single" or "process", "standard" or "elapsed",
                     \* and a spread
  MaxSteps           \* the length of the paths

VARIABLES
  system,
  refclocks,        \* its reference clocks
  variant,          \* reference clocks, semantics and spread
  status,           \* of the last step: "OK", or why it failed
  node,             \* vloc, intval and zone
  taken,            \* the edges of the last step
  steps

vars == <<system, refclocks, variant, status, node, taken, steps>>

-------------------------------------------------------------------------------
(* Reference clocks of a system.                                           *)
SystemClock == 1 .. ClockNumber

ClocksOf(constraints) == UNION {{c.x, c.y} : c \in ToSet(constraints)} \ {0}

(* variable_access, as far as clocks go.                                   *)
accessing_processes(s, x) ==
  {s.edges[e].pid : e \in {f \in DOMAIN s.edges :
      x \in ClocksOf(s.edges[f].guard.clocks) \cup ClocksOf(s.edges[f].statement.resets)}}
  \cup {s.locations[l].pid : l \in {m \in DOMAIN s.locations :
      x \in ClocksOf(s.locations[m].invariant.clocks)}}

(* The reference clocks that the processes name, numbered as they come.    *)
reference_clock_variables(names) ==
  LET order == SetToSortSeq(DOMAIN names, <)
      refs == FoldLeft(LAMBDA ns, p : IF names[p] \in ToSet(ns) THEN ns ELSE Append(ns, names[p]),
                       <<>>, order)
      id(name) == (CHOOSE i \in DOMAIN refs : refs[i] = name) - 1
  IN [refcount |-> Len(refs), size |-> Len(refs), refmap |-> [t \in 0 .. Len(refs) - 1 |-> t],
      procmap |-> [p \in DOMAIN names |-> id(names[p])]]

(* One more clock, of the reference clock of a process.                    *)
declare(r, p) == [r EXCEPT !.size = @ + 1, !.refmap = (r.size :> r.procmap[p]) @@ @]

(* One clock after the other, of its owner.                                *)
declare_all(r, owner) ==
  LET upto[x \in {0} \cup SystemClock] == IF x = 0 THEN r ELSE declare(upto[x - 1], owner[x])
  IN upto[ClockNumber]

single_reference_clocks(s) ==
  declare_all(reference_clock_variables([p \in Processes(s) |-> "0"]),
              [x \in SystemClock |-> Min(Processes(s))])

(* A clock that two processes use, or none, has no local time: the program *)
(* refuses such a system.                                                  *)
HasProcessClocks(s) == \A x \in SystemClock : Cardinality(accessing_processes(s, x)) = 1

process_reference_clocks(s) ==
  declare_all(reference_clock_variables([p \in Processes(s) |-> p]),
              [x \in SystemClock |-> CHOOSE p \in accessing_processes(s, x) : TRUE])

ReferenceClocks(s, kind) ==
  IF kind = "single" THEN single_reference_clocks(s) ELSE process_reference_clocks(s)

References(r) == 0 .. r.refcount - 1

R(r) == INSTANCE ReferenceDBM WITH Dim <- r.size, RefCount <- r.refcount, RefMap <- r.refmap

(* translate: constraints and resets over clocks become constraints and    *)
(* resets over offset clocks, 0 the reference clock of the other side.     *)
OffsetOf(r, x) == r.refcount + x - 1
Translated(r, x, y) == IF x = 0 THEN r.refmap[OffsetOf(r, y)] ELSE OffsetOf(r, x)

delay_allowed_for(s, r, vloc) ==
  References(r) \ {r.procmap[p] : p \in {q \in DOMAIN vloc :
                     s.locations[vloc[q]].urgent \/ s.locations[vloc[q]].committed}}

sync_refclocks(s, r, es) == {r.procmap[s.edges[es[i]].pid] : i \in DOMAIN es}

-------------------------------------------------------------------------------
(* Semantics.  A zone and a status go through the operations until one     *)
(* leaves the zone empty.                                                  *)
Ok(zone) == [status |-> "OK", zone |-> zone]

(* An operation whose result may be an empty zone.                         *)
Leaving(r, zone, failure) ==
  LET after == CHOOSE z \in {zone} : z = z
  IN IF after[0][0] < LE_ZERO THEN Failed(failure) ELSE Ok(after)

Constraining(r, z, cs, failure) ==
  FoldLeft(LAMBDA s, c :
             IF s.status # "OK" THEN s
             ELSE Leaving(r, R(r)!Constrained(s.zone, Translated(r, c.x, c.y), Translated(r, c.y, c.x), c.b),
                          failure),
           z, cs)

Spreading(r, z, spread, refs, failure) ==
  IF z.status # "OK" \/ spread = Unbounded THEN z
  ELSE Leaving(r, R(r)!bound_spread(z.zone, spread, refs), failure)

Synchronizing(r, z, refs) == Spreading(r, z, 0, refs, "CLOCKS_EMPTY_SYNC")

Resetting(r, z, rs) ==
  FoldLeft(LAMBDA s, a : IF s.status # "OK" THEN s
                         ELSE Ok(R(r)!ResetToReference(s.zone, OffsetOf(r, a.x))),
           z, rs)

Elapsing(r, z, allowed, invariant, failure) ==
  IF z.status # "OK" \/ allowed = {} THEN z
  ELSE Constraining(r, Ok(R(r)!asynchronous_open_up(z.zone, allowed)), invariant, failure)

SRC == "CLOCKS_SRC_INVARIANT_VIOLATED"
GUARD == "CLOCKS_GUARD_VIOLATED"
TGT == "CLOCKS_TGT_INVARIANT_VIOLATED"

ClockFailures == {SRC, GUARD, TGT, "CLOCKS_EMPTY_SYNC", "CLOCKS_EMPTY_SPREAD", "ZONE_EMPTY_SYNC"}

semantics_initial(r, semantics, allowed, invariant) ==
  LET zero == Constraining(r, Ok(R(r)!Zero), invariant, SRC)
  IN IF semantics = "standard" THEN zero ELSE Elapsing(r, zero, allowed, invariant, SRC)

(* Mutant: the local times meet before they advance.                       *)
standard_next_early(r, zone, src_allowed, sync, c) ==
  LET elapsed == Elapsing(r, Synchronizing(r, Ok(zone), sync), src_allowed, c.src_invariant, SRC)
      crossed == Constraining(r, elapsed, c.guard, GUARD)
  IN Constraining(r, Resetting(r, crossed, c.reset), c.tgt_invariant, TGT)

standard_next(r, zone, src_allowed, sync, c) ==
  LET elapsed == Elapsing(r, Ok(zone), src_allowed, c.src_invariant, SRC)
      crossed == Constraining(r, Synchronizing(r, elapsed, sync), c.guard, GUARD)
  IN Constraining(r, Resetting(r, crossed, c.reset), c.tgt_invariant, TGT)

elapsed_next(r, zone, sync, tgt_allowed, c) ==
  LET left == Synchronizing(r, Constraining(r, Ok(zone), c.src_invariant, SRC), sync)
      entered == Constraining(r, Resetting(r, Constraining(r, left, c.guard, GUARD), c.reset),
                              c.tgt_invariant, TGT)
  IN Elapsing(r, entered, tgt_allowed, c.tgt_invariant, TGT)

(* A state: one of the automata, with a matrix over reference clocks.      *)
refzg_state(s, zone) == [vloc |-> s.vloc, intval |-> s.intval, zone |-> zone]

(* A node after a step of the automata and one of the zone, kept if its    *)
(* local times are close enough and can be made equal.                     *)
Built(t, r, z, spread) ==
  LET close == Spreading(r, z, spread, References(r), "CLOCKS_EMPTY_SPREAD")
  IN IF close.status # "OK" THEN close
     ELSE IF ~R(r)!is_synchronizable(close.zone) THEN Failed("ZONE_EMPTY_SYNC")
     ELSE [status |-> "OK", node |-> refzg_state(t.state, close.zone)]

refzg_initial(s, r, var, vloc) ==
  LET t == ta_initial(s, vloc)
  IN IF t.status # "OK" THEN t
     ELSE Built(t, r, semantics_initial(r, var[2], delay_allowed_for(s, r, vloc),
                                        t.constraints.src_invariant), var[3])

refzg_next(s, r, var, n, es) ==
  LET t == ta_next(s, n.vloc, n.intval, es)
      sync == sync_refclocks(s, r, es)
  IN IF t.status # "OK" THEN t
     ELSE Built(t, r,
                IF var[2] = "standard"
                THEN standard_next(r, n.zone, delay_allowed_for(s, r, n.vloc), sync, t.constraints)
                ELSE elapsed_next(r, n.zone, sync, delay_allowed_for(s, r, t.state.vloc), t.constraints),
                var[3])

-------------------------------------------------------------------------------
Follow(r) == status' = r.status /\ node' = IF r.status = "OK" THEN r.node ELSE node

Init ==
  /\ system \in Systems
  /\ variant \in {v \in ReferenceVariants : v[1] = "process" => HasProcessClocks(system)}
  /\ refclocks \in {ReferenceClocks(system, variant[1])}
  /\ \E vloc \in initial_edges(system) :
       LET r == refzg_initial(system, refclocks, variant, vloc)
       IN status = r.status /\ node = IF r.status = "OK" THEN r.node ELSE [vloc |-> vloc]
  /\ taken = <<>> /\ steps = 0

Step(es) ==
  /\ status = "OK" /\ steps < MaxSteps
  /\ Follow(refzg_next(system, refclocks, variant, node, es))
  /\ taken' = es /\ steps' = steps + 1
  /\ UNCHANGED <<system, refclocks, variant>>

-------------------------------------------------------------------------------
(***************************************************************************)
(* Paths of the zone graph with reference clocks, next to the standard     *)
(* zone graph of the same system as long as it can follow.  And every step *)
(* is compared with the timed automata under local times.                  *)
(***************************************************************************)

CONSTANTS
  LocNumber, LocPid,  \* of the systems
  Coarse,             \* values of reference and offset clocks to compare at
  Past,               \* values of offset clocks among which witnesses are looked for
  Waits              \* delays of a local time

VARIABLES
  maps, exact_status, exact_node

G == INSTANCE ZoneGraph WITH
       Dim <- ClockNumber + 1, Variants <- {"standard", "elapsed"} \X {"none"}, variant <- <<variant[2], "none">>,
       status <- exact_status, node <- exact_node

bothVars == <<vars, maps, exact_status, exact_node>>

BothInit == Init /\ G!Init

Together(es) ==
  /\ Step(es)
  /\ IF exact_status = "OK" THEN G!Step(es) ELSE UNCHANGED <<maps, exact_status, exact_node>>

BothNext == status = "OK" /\ \E es \in ToSet(outgoing_edges(system, node.vloc)) : Together(es)

BothSpec == BothInit /\ [][BothNext]_bothVars

-------------------------------------------------------------------------------
(* Under a global time, the zone graph with reference clocks follows every *)
(* path of the standard zone graph and its zone has the same valuations at *)
(* least, when its local times are equal.  With a spread of 0, or with a   *)
(* single reference clock, it is the standard zone graph.                  *)
KeepsPaths ==
  /\ exact_status = "OK" =>
       /\ status = "OK"
       /\ node.vloc = exact_node.vloc /\ node.intval = exact_node.intval
       /\ R(refclocks)!IsTight(node.zone) /\ R(refclocks)!ref_is_positive(node.zone)
       /\ G!IsLe(exact_node.zone, R(refclocks)!to_dbm(R(refclocks)!synchronize(node.zone, References(refclocks))))
  /\ variant[3] = 0 \/ variant[1] = "single" =>
       /\ status = "OK" <=> exact_status = "OK"
       /\ status = "OK" => R(refclocks)!to_dbm(node.zone) = exact_node.zone

-------------------------------------------------------------------------------
(* The automata under local times.  Constraints are closed: integer        *)
(* valuations are enough.                                                  *)
Difference(v, x, y) == v[Translated(refclocks, x, y)] - v[Translated(refclocks, y, x)]
Meets(v, cs) == \A c \in ToSet(cs) : Difference(v, c.x, c.y) <= Value(c.b)

In(v, d) == \A i, j \in DOMAIN d : d[i][j] = LT_INFINITY \/ v[i] - v[j] <= Value(d[i][j])

Invariant(vloc) == FlattenSeq(SetToSeq({system.locations[vloc[p]].invariant.clocks : p \in DOMAIN vloc}))

(* Before delays[t] have passed in each local time t: time makes the       *)
(* reference clock go down, so that its clocks go up.                      *)
Earlier(v, delays) == [i \in DOMAIN v |-> IF i \in DOMAIN delays THEN v[i] + delays[i] ELSE v[i]]

WaitsOf(ts) == [ts -> Waits]

(* v was not reset, but for the offset clocks of xs, whose past is w.      *)
Pasts(v, xs) == {[i \in DOMAIN v |-> IF i \in xs THEN w[i] ELSE v[i]] : w \in [xs -> Past]}

Reached(v, n, es, to) ==
  LET guard == FlattenSeq([i \in DOMAIN es |-> system.edges[es[i]].guard.clocks])
      resets == {OffsetOf(refclocks, a.x) : a \in
                   UNION {ToSet(system.edges[es[i]].statement.resets) : i \in DOMAIN es}}
      sync == sync_refclocks(system, refclocks, es)
      crosses(u) == \A t, s \in sync : u[t] = u[s]
      entered(u) ==
        /\ Meets(u, Invariant(to))
        /\ \A x \in resets : u[x] = u[refclocks.refmap[x]]
        /\ crosses(u)
        /\ \E w \in Pasts(u, resets) :
             /\ Meets(w, guard) /\ Meets(w, Invariant(n.vloc))
             /\ IF variant[2] = "elapsed" THEN In(w, n.zone)
                ELSE \E ds \in WaitsOf(delay_allowed_for(system, refclocks, n.vloc)) : In(Earlier(w, ds), n.zone)
  IN /\ IF variant[2] = "standard" THEN entered(v)
        ELSE Meets(v, Invariant(to)) /\
             \E ds \in WaitsOf(delay_allowed_for(system, refclocks, to)) : entered(Earlier(v, ds))
     /\ variant[3] # Unbounded =>
          \A t, s \in References(refclocks) : v[t] - v[s] <= variant[3]

(* Adding the same amount to all the clocks changes nothing.               *)
Compared == {v \in [0 .. refclocks.size - 1 -> Coarse] : \E i \in DOMAIN v : v[i] = Min(Coarse)}

(* A step of the zone graph with reference clocks, whichever edges it      *)
(* takes, reaches exactly the valuations that executions under local times *)
(* reach; it fails only if none of these has equal local times.            *)
StepExact ==
  /\ status' = "OK" =>
       \A v \in Compared : In(v, node'.zone) <=> Reached(v, node, taken', node'.vloc)
  /\ status' \in ClockFailures =>
       \A v \in Compared :
         (\A t, s \in References(refclocks) : v[t] = v[s]) =>
            ~Reached(v, node, taken', Moved(system, node.vloc, taken'))

StepsExact == [][StepExact]_bothVars
===============================================================================
