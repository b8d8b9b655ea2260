------------------------------ MODULE MCZoneGraph -----------------------------
(***************************************************************************)
(* Two processes over two clocks and a variable of two values: a location  *)
(* with an invariant, an urgent one, a committed one; guards and resets to *)
(* a value and to another clock, alone and in synchronised edges.          *)
(*                                                                         *)
(* Two zone graphs of one system follow the same edges: one under a        *)
(* semantics and an extrapolation, the other under the standard semantics  *)
(* without extrapolation.  And every step of a zone graph without          *)
(* extrapolation is compared with the steps of the timed automata, on      *)
(* valuations of the clocks.  Behaviours of other kinds are those of zone  *)
(* graphs with reference clocks, of the matrices of generalised automata,  *)
(* and of nodes that cover each other in the algorithms.                   *)
(***************************************************************************)
EXTENDS ZoneGraph

CONSTANTS
  Coarse,     \* clock values at which zones and automata are compared
  Fine        \* clock values and delays among which witnesses are looked for

VARIABLES exact_status, exact_node

G == INSTANCE Valuations WITH Unit <- 1

Exact == INSTANCE ZoneGraph WITH
           variant <- <<"standard", "none">>, status <- exact_status, node <- exact_node

bothVars == <<vars, exact_status, exact_node>>

BothInit == Init /\ Exact!Init

BothSteps(es) == Step(es) /\ Exact!Step(es)

BothNext ==
  /\ status = "OK" /\ exact_status = "OK"
  /\ \E es \in ToSet(outgoing_edges(system, node.vloc)) : BothSteps(es)

BothSpec == BothInit /\ [][BothNext]_bothVars

-------------------------------------------------------------------------------
(* The automata, on valuations.  Constraints are closed, and differences   *)
(* of clocks with integer bounds have an integer solution when they have   *)
(* one at all: integer valuations are enough.                              *)
Meets(v, cs) == \A c \in ToSet(cs) : v[c.x] - v[c.y] <= Value(c.b)

After(v, resets) ==
  FoldLeft(LAMBDA w, r : [w EXCEPT ![r.x] = w[r.y] + r.value], v, resets)

Later(v, t) == [x \in Clock0 |-> IF x = 0 THEN 0 ELSE v[x] + t]

Invariant(vloc) == FlattenSeq(SetToSeq({system.locations[vloc[p]].invariant.clocks : p \in DOMAIN vloc}))
Frozen(vloc) == \E p \in DOMAIN vloc : system.locations[vloc[p]].urgent \/ system.locations[vloc[p]].committed
Delays(vloc) == IF Frozen(vloc) THEN {0} ELSE Fine

(* The valuations after the edges es from a valuation in the zone of n, in *)
(* the tuple of locations to.  The standard semantics lets time pass       *)
(* before the edges, the elapsed semantics after them.                     *)
Successors(n, es, to) ==
  LET all == {v \in [Clock0 -> Fine] : v[0] = 0 /\ G!In(v, n.zone)}
      elapsed == IF variant[1] = "elapsed" THEN all
                 ELSE {v \in {Later(u, t) : u \in all, t \in Delays(n.vloc)} :
                         Meets(v, Invariant(n.vloc))}
      crossing == {v \in elapsed : \A i \in DOMAIN es : Meets(v, system.edges[es[i]].guard.clocks)}
      entered == {v \in {After(u, FlattenSeq([i \in DOMAIN es |-> system.edges[es[i]].statement.resets])) :
                           u \in crossing} : Meets(v, Invariant(to))}
  IN IF variant[1] = "standard" THEN entered
     ELSE {v \in {Later(u, t) : u \in entered, t \in Delays(to)} : Meets(v, Invariant(to))}

(* The integer variables through the edges es.                             *)
IntegersPass(n, es) ==
  /\ \A i \in DOMAIN es : n.intval \in system.edges[es[i]].guard.ints
  /\ LET after == FoldLeft(LAMBDA w, e : system.edges[e].statement.sets[w], n.intval, es)
     IN \A p \in Processes(system) :
          after \in system.locations[Moved(system, n.vloc, es)[p]].invariant.ints

(* Without extrapolation, a step leads to a node when an execution of the  *)
(* timed automata takes the same edges from a valuation of the zone, and   *)
(* its zone is the set of the valuations that such executions reach.       *)
StepExact ==
  variant[2] = "none" /\ taken' # <<>> =>
    LET to == Moved(system, node.vloc, taken')
        successors == IF IntegersPass(node, taken') THEN Successors(node, taken', to) ELSE {}
    IN /\ status' = "OK" <=> successors # {}
       /\ status' = "OK" =>
            \A v \in G!Valuation : G!In(v, node'.zone) <=> v \in successors

StepsExact == [][StepExact]_bothVars

(* Whatever the semantics and the extrapolation, the zone graph has a path *)
(* exactly when the timed automata have an execution along it, its zones   *)
(* forget nothing, and their matrices are tight.                           *)
PathsKept ==
  /\ status = "OK" <=> exact_status = "OK"
  /\ status = "OK" =>
       /\ IsConsistent(node.zone) /\ IsTight(node.zone)
       /\ node.vloc = exact_node.vloc /\ node.intval = exact_node.intval
       /\ IsLe(exact_node.zone, node.zone)

-------------------------------------------------------------------------------
Bits == {0, 1}
Condition(ints, clocks) == [ints |-> ints, clocks |-> clocks]
Free == Condition(Bits, <<>>)

Below(x, c) == [x |-> x, y |-> 0, b |-> Db(LE, c)]
Beyond(x, c) == [x |-> 0, y |-> x, b |-> Db(LE, -c)]
To(x, y, value) == [x |-> x, y |-> y, value |-> value]

Location(p, initial, kind, inv) ==
  [pid |-> p, initial |-> initial, committed |-> kind = "committed", urgent |-> kind = "urgent",
   labels |-> {}, invariant |-> inv]

Edge(p, src, tgt, event, guard, sets, resets) ==
  [pid |-> p, src |-> src, tgt |-> tgt, event |-> event, guard |-> guard,
   statement |-> [sets |-> sets, resets |-> resets]]

Keep == [b \in Bits |-> b]
Flip == [b \in Bits |-> 1 - b]
Set(c) == [b \in Bits |-> c]

Locations(inv) ==
  [l \in 0 .. 4 |->
    CASE l = 0 -> Location(1, TRUE, "none", Condition(Bits, <<Below(1, 2)>>))
      [] l = 1 -> Location(1, FALSE, "urgent", Free)
      [] l = 2 -> Location(2, TRUE, "none", Free)
      [] l = 3 -> Location(2, FALSE, "committed", inv)
      [] l = 4 -> Location(2, FALSE, "none", Free)]

Pids == [l \in 0 .. 4 |-> IF l <= 1 THEN 1 ELSE 2]

On(p, event, strong) == [pid |-> p, event |-> event, strong |-> strong]

(* The second process follows a if it can.                                 *)
Following ==
  [locations |-> Locations(Free), intval |-> 0,
   syncs |-> <<<<On(1, "a", TRUE), On(2, "a", FALSE)>>>>,
   edges |-> <<
     Edge(1, 0, 1, "a", Condition(Bits, <<Beyond(1, 1)>>), Keep, <<To(1, 0, 0)>>),
     Edge(1, 1, 0, "b", Condition(Bits, <<Below(2, 3)>>), Keep, <<To(1, 2, 1)>>),
     Edge(2, 2, 3, "a", Free, Set(1), <<To(2, 1, 1)>>),
     Edge(2, 3, 4, "c", Condition({1}, <<>>), Flip, <<>>),
     Edge(2, 4, 4, "d", Condition(Bits, <<Beyond(2, 1)>>), Flip, <<To(2, 0, 0)>>),
     Edge(2, 4, 2, "e", Condition({1}, <<>>), Keep, <<>>),
     Edge(2, 4, 4, "g", Condition(Bits, <<Below(1, 2)>>), Keep, <<To(2, 1, 1)>>)>>]

(* Both processes copy a clock in one synchronisation, in an order that    *)
(* depends on the synchronisation.                                         *)
Copying ==
  [locations |-> Locations(Condition({0}, <<Below(2, 3)>>)), intval |-> 0,
   syncs |-> <<<<On(2, "a", TRUE), On(1, "a", TRUE)>>, <<On(1, "b", TRUE), On(2, "b", TRUE)>>>>,
   edges |-> <<
     Edge(1, 0, 1, "a", Condition(Bits, <<Below(1, 1)>>), Flip, <<To(1, 2, 1)>>),
     Edge(2, 2, 3, "a", Free, Set(1), <<To(2, 0, 0)>>),
     Edge(1, 1, 0, "b", Condition(Bits, <<Below(1, 2)>>), Keep, <<To(1, 0, 0)>>),
     Edge(2, 3, 2, "b", Condition(Bits, <<Beyond(2, 0)>>), Keep, <<To(2, 1, 2)>>),
     Edge(2, 2, 4, "d", Condition(Bits, <<Beyond(2, 2), Below(1, 3)>>), Set(1), <<>>),
     Edge(2, 4, 2, "e", Condition(Bits, <<Beyond(1, 1)>>), Set(0), <<To(1, 0, 0)>>),
     Edge(2, 4, 4, "f", Condition(Bits, <<Beyond(2, 1)>>), Keep, <<To(2, 0, 0)>>)>>]

SomeSystems == {Following, Copying}

Extrapolations ==
  {"none", "extra_m_global", "extra_m_local", "extra_m_plus_global", "extra_m_plus_local",
   "extra_lu_global", "extra_lu_local", "extra_lu_plus_global", "extra_lu_plus_local"}

SomeVariants == {"standard", "elapsed"} \X Extrapolations

-------------------------------------------------------------------------------
(* The zone graph with reference clocks, of a system whose processes have  *)
(* each a clock of their own.                                              *)
Local ==
  [locations |-> Locations(Condition(Bits, <<Below(2, 2)>>)), intval |-> 0,
   syncs |-> <<<<On(1, "a", TRUE), On(2, "a", FALSE)>>, <<On(1, "s", TRUE), On(2, "s", TRUE)>>>>,
   edges |-> <<
     Edge(1, 0, 1, "a", Condition(Bits, <<Beyond(1, 1)>>), Keep, <<To(1, 0, 0)>>),
     Edge(1, 1, 0, "b", Condition(Bits, <<Below(1, 1)>>), Keep, <<To(1, 0, 0)>>),
     Edge(1, 0, 0, "s", Free, Keep, <<>>),
     Edge(2, 2, 3, "a", Free, Flip, <<To(2, 0, 0)>>),
     Edge(2, 3, 4, "c", Condition({1}, <<Below(2, 1)>>), Flip, <<>>),
     Edge(2, 4, 4, "d", Condition(Bits, <<Beyond(2, 1)>>), Flip, <<To(2, 0, 0)>>),
     Edge(2, 4, 2, "e", Condition({1}, <<Below(2, 2)>>), Keep, <<>>),
     Edge(2, 2, 4, "s", Condition(Bits, <<Beyond(2, 2)>>), Keep, <<>>)>>]

NoSpread == -1

VARIABLE refclocks

Reference == INSTANCE ReferenceZoneGraph WITH
  Systems <- {Local}, ClockNumber <- 2, Unbounded <- NoSpread, MaxSteps <- 5,
  ReferenceVariants <- ({"process"} \X {"standard", "elapsed"} \X {0, 1, NoSpread})
                         \cup ({"single"} \X {"standard", "elapsed"} \X {NoSpread}),
  Coarse <- 0 .. 2, Past <- -1 .. 6, Waits <- 0 .. 4

-------------------------------------------------------------------------------
(* The matrices of a generalised timed automaton: a clock of the past, one *)
(* of the future and a normal one, with constants between -1 and 1.  Zones *)
(* with such bounds are told apart by thirds below 3, witnesses are found  *)
(* among sixths below 4, and delays of twelfths up to the first after 1   *)
(* lead from one constraint to the next.                                   *)
VARIABLES dbm, op

Thirds == {4 * n : n \in 0 .. 8}
Sixths == {2 * n : n \in 0 .. 24}
TwelfthsToOne == 0 .. 13
MinusInfinity == Db(LE, -InfValue)

Events == INSTANCE GeneralisedZones WITH
  History <- {1}, Prophecy <- {2}, Normal <- {3}, Unit <- 12, Coarse <- Thirds, Fine <- Sixths,
  Instants <- TwelfthsToOne, MaxSteps <- 3,
  Bounds <- {Db(LE, -1), LT_ZERO, LE_ZERO, Db(LT, 1), LT_INFINITY, MinusInfinity}

(* Locations: every one has 0 <= x and x <= 0 for each prophecy clock.     *)
Distance(x, y, b) == [x |-> x, y |-> y, b |-> b]
Always == {Distance(2, 0, LE_ZERO), Distance(0, 2, LE_ZERO)}

EventGuards ==
  {[gs |-> <<>>,
    gdf |-> Always \cup {Distance(1, 0, Db(LE, 1)), Distance(0, 1, Db(LT, -1)), Distance(0, 3, Db(LE, -1))}],
   [gs |-> <<Distance(1, 3, LE_ZERO)>>, gdf |-> Always \cup {Distance(3, 0, Db(LE, 1))}],
   [gs |-> <<Distance(1, 2, Db(LE, 1)), Distance(3, 2, Db(LT, 1))>>,
    gdf |-> Always \cup {Distance(1, 0, LT_INFINITY), Distance(0, 1, MinusInfinity)}]}

EventZones ==
  LET elapsed == Events!eca_open_up(Events!eca_reset(Events!eca_zero, 1))
  IN {Events!eca_open_up(Events!eca_zero), Events!eca_constrain(elapsed, 1, 0, Db(LE, 1)),
      Events!eca_constrain(Events!eca_open_up(Events!eca_reset(elapsed, 3)), 1, 2, Db(LT, 1))}

EventValuations == Events!Valuations

SimulatedZone ==
  CHOOSE f \in {[e \in EventZones, g \in EventGuards |-> Events!SimulatedBy(e, g)]} : f = f

-------------------------------------------------------------------------------
(* The coverings of the algorithms, along paths of four edges after one    *)
(* was found in nodes at most five edges away.  Concur19 needs clocks that *)
(* belong to a process.                                                    *)
VARIABLES algorithm, stored, lower, upper

Explored == INSTANCE Coverings WITH
  Runs <- ({"covreach", "alu", "gsim"} \X {Following, Copying, Local}) \cup {<<"concur19", Local>>},
  Unbounded <- NoSpread, Stored <- 5, MaxSteps <- 9

-------------------------------------------------------------------------------
(* A behaviour is one of a zone graph over the clocks, of one with         *)
(* reference clocks, of a matrix or of two nodes of an algorithm.          *)
VARIABLE kind

followVars == <<variant, status, node, taken, exact_status, exact_node>>
pathVars == <<maps, refclocks, followVars>>
matrixVars == <<dbm, op>>
nodeVars == <<algorithm, stored, lower, upper>>
anyVars == <<system, steps, pathVars, matrixVars, nodeVars, kind>>

Unfollowed ==
  /\ variant = <<>> /\ status = "OK" /\ node = <<>> /\ taken = <<>>
  /\ exact_status = "OK" /\ exact_node = <<>>
NoPath == maps = <<>> /\ refclocks = <<>> /\ Unfollowed
NoMatrix == dbm = <<>> /\ op = <<>>
NoNodes == algorithm = "" /\ stored = {} /\ lower = <<>> /\ upper = <<>>

AnyInit ==
  \/ kind = "zones" /\ BothInit /\ refclocks = <<>> /\ NoMatrix /\ NoNodes
  \/ kind = "references" /\ Reference!BothInit /\ NoMatrix /\ NoNodes
  \/ kind = "events" /\ Events!Init /\ NoPath /\ system = <<>> /\ NoNodes
  \/ kind = "nodes" /\ Explored!CoverInit /\ Unfollowed /\ NoMatrix

AnyNext ==
  /\ UNCHANGED kind
  /\ \/ kind = "zones" /\ BothNext /\ UNCHANGED <<refclocks, matrixVars, nodeVars>>
     \/ kind = "references" /\ Reference!BothNext /\ UNCHANGED <<matrixVars, nodeVars>>
     \/ kind = "events" /\ Events!Next /\ UNCHANGED <<pathVars, system, nodeVars>>
     \/ kind = "nodes" /\ Explored!CoverNext /\ UNCHANGED <<followVars, matrixVars>>

AnySpec == AnyInit /\ [][AnyNext]_anyVars

(* Each step reaches the valuations that executions of the automata reach: *)
(* those of the clocks, those under local times, or those of the clocks of *)
(* the past and of the future.                                             *)
StepsReachExecutions ==
  [][CASE kind = "zones" -> StepExact
       [] kind = "references" -> Reference!StepExact
       [] kind = "events" -> Events!StepExact
       [] OTHER -> TRUE]_anyVars

(* Whatever the semantics, the extrapolation and the reference clocks, no  *)
(* path is lost, nor a valuation along it.                                 *)
PathsFollowed ==
  CASE kind = "zones" -> PathsKept
    [] kind = "references" -> Reference!KeepsPaths
    [] OTHER -> TRUE

(* A zone of a generalised automaton that the covering test finds covered  *)
(* only holds valuations that one of the covering zone simulates, under    *)
(* the constraints of the location.  And a node that an algorithm drops    *)
(* because another one covers it has no path that this one does not have,  *)
(* whose nodes are still covered.                                          *)
CoveringSound ==
  CASE kind = "events" ->
         LET zone == {v \in EventValuations : Events!In(v, dbm)}
         IN \A e \in EventZones, g \in EventGuards :
              Events!is_eca_g_le(dbm, e, g.gs, g.gdf) => \A v \in zone : v \in SimulatedZone[e, g]
    [] kind = "nodes" -> Explored!PathsCovered
    [] OTHER -> TRUE
===============================================================================
