# A verification project for GTAReach

GTAReach is a fork of TChecker: `tck-reach` answers whether a timed automaton
(or a generalised timed automaton, GTA) reaches a state with given labels.  It
explores the zone graph of the automaton symbolically, one zone (a difference
bound matrix, DBM) per node, and keeps the explored part finite by dropping
nodes that are *covered* by other nodes.  The program is sequential.  What makes
it hard to test is not concurrency but long sequences of calls on shared,
linked, reference-counted structures, and algorithms on matrices, bounds and
constraints where a wrong entry only loses a few states of a few automata.

`P` below stands for `src/tchecker/include/tchecker`, `C` for
`src/tchecker/src`.

## 1. Inventory

| component | state | operations | hard behaviour | what makes it correct |
|---|---|---|---|---|
| covering reachability (`P/algorithms/covreach`) | graph, waiting container, vector of new nodes, statistics | `run`, `expand_initial_nodes`, `expand_next_nodes`, `remove_covered_nodes` | nodes removed while waiting, in the vector, or being expanded; edges moved between targets | the answer is right, everything reachable is covered, edges and counters are exact, it ends |
| reachability (`P/algorithms/reach`) | graph, waiting container, statistics | `run`, `run_from_waiting` | loops, several transitions to one state | the graph is the reachable part, the answer is right, it ends |
| transition system interface (`P/ts`) | none | `initial`, `next`, `satisfies` | | the covering relation is a trace inclusion |
| waiting containers (`P/waiting`) | deque, status of each element | `insert`, `first`, `remove_first`, `remove`, `empty`, `clear` | removal by marking, dropped later | indistinguishable from a list with removal anywhere |
| cover graph (`P/graph/cover_graph.hh`) | hash table of vectors, position of each node | `add_node`, `remove_node`, `is_covered`, `covered_nodes`, `clear` | removal swaps with the back node | positions exact; searching one container is exact |
| directed graph (`P/graph/directed_graph.hh`) | heads, successors, end points | `add_edge`, `remove_edge`, `remove_edges`, `move_incoming_edges` | lists changed while they are traversed, loops | it is a set of edges |
| subsumption graph (`P/graph`) | the two together, edge types | composition of the operations | edges to removed nodes | edges join stored nodes; moved edges change type, no other does |
| pool and shared objects (`P/utils/pool.hh`, `shared_objects.hh`) | blocks, free list, reference counters | `construct`, `destruct`, `collect`, `destruct_all`, pointer copies | chunks reused while referenced; markers in the counter | no referenced chunk recycled, none lost, none twice |
| DBM (`P/dbm`, `C/dbm/dbm.cc`) | matrices of bounds | tightening, constraints, resets, delays, extrapolations, inclusions, `eca_*` | infinities; rows updated while they are read; undefined clocks | operations compute the sets of valuations that they name |
| reference DBM (`C/dbm/refdbm.cc`) | matrices over reference and offset clocks | the same, synchronisation, spread | local times | the same, under local times |
| zone graphs (`C/zg`, `C/refzg`) | node: locations, integer values, zone | `initial`, `next`, semantics, extrapolations | order of the operations of a transition; bounds of the right locations | paths of the automata, no path lost |
| clock bounds (`C/clockbounds`) | systems of inequations, maps of bounds, sets of constraints | `compute_clockbounds`, `compute_amap`, `compute_eca_amap` | fixpoints across processes, updates and program blocks | a simulation, and the least one |
| products and timed automata (`C/syncprod`, `C/ta`, `C/system`) | tuples of locations and edges | iterators over outgoing edges, the computed product | committed locations, weak and strong synchronisation | exactly the enabled tuples; the product does what the processes do |
| expressions, statements, virtual machine (`C/expression`, `C/statement`, `C/variables`, `C/vm`) | terms, bytecode, stack and frames | typechecking, static analyses, compilation, interpretation | jumps, local variables, exceptions | bytecode means its term, from every state that earlier runs leave |
| parsing (`C/parsing`) | declarations, lists of clocks, flags | one action for each line; programs flattened into edges | declarations out of order, disjunctions of guards | edges mean their program; systems are numbered as zones need it |
| `tck-reach`, `tck-syntax` | | the algorithms and their covering tests; the product | test and bounds that do not fit together | a dropped node is simulated |
| search order, graph allocation and output, cache | | | | not modelled, see section 8 |

An exploration calls `ts.next` for the successors of a node, wraps them into
nodes of the graph (allocated from a pool), asks the cover graph which node
covers which, keeps edges in the directed graph and nodes to visit in the
waiting container.  Containers hold shared pointers: a removed node stays in
memory until the last pointer to it is gone.  `ts.next` itself iterates over the
outgoing edges of the product, runs the bytecode of guards and statements on the
virtual machine, applies the resulting constraints and resets to the zone, and
extrapolates it with the bounds that were computed once from the guards.

## 2. Modules

| module | models | shown by |
|---|---|---|
| `TransitionSystem` | `ts_t` and the order `NODE_LE`: constants `State`, `Event`, `TransitionSystems`, trace inclusion, reachability | the modules below |
| `ReachabilityQuery` | what a run of `tck-reach` promises | abstract |
| `CovReach` | `covreach::algorithm_t` | `MCCovReach`, `CovReachProofs`; implements `ReachabilityQuery` |
| `Reach` | `reach::algorithm_t` and the graph that it builds | `MCReach`, with its proofs; implements `ReachabilityQuery` |
| `CoverGraph` | `cover::graph_t`, `cover::node_t` | `SubsumptionGraphProofs`; implements `NodeSet` |
| `DirectedGraph` | `directed::graph_t`, pointer by pointer | `SubsumptionGraphProofs`; implements `EdgeSet` |
| `SubsumptionGraph` | `subsumption::graph_t`: both graphs and the types of the edges | `MCSubsumptionGraph`, `SubsumptionGraphProofs` |
| `FastRemoveWaiting` | `fast_remove_waiting_t` over `queue_t` or `stack_t` | `FastRemoveWaitingProofs`; implements `WaitingList` |
| `Pool` | `pool_t`, `make_shared_t`, `intrusive_shared_ptr_t` | `PoolProofs` |
| `DifferenceBound`, `DBM` | `db.hh` and the operations of `dbm.cc` on plain matrices, as operators | `ZoneOperations`, `ZoneProofs` |
| `Valuations` | what a matrix means: valuations on a grid, delays, resets, the LU preorder | |
| `ZoneOperations` | a zone under those operations, as their users apply them | `MCZone`, `ZoneProofs` |
| `GeneralisedZones` | the operations `eca_*`, their covering test, and the zone of a GTA under them | `MCZoneGraph`; run `generalised_constrain` |
| `ReferenceDBM`, `ReferenceZoneGraph` | `refdbm.cc`, and the zone graph with reference clocks and its paths | `MCZoneGraph` |
| `SynchronizedProduct` | systems of processes, outgoing edges, steps of the product and of the timed automata | the modules below |
| `OutgoingEdges` | the iterators over the edges of a tuple of locations | `MCSystemDeclarations` |
| `Synchronizer` | the product computed as a system of one process | `MCSystemDeclarations` |
| `ZoneGraph` | `zg_t`, the standard and elapsed semantics, nine extrapolations, with the bounds of the system | `MCZoneGraph` |
| `Coverings` | the graphs of `covreach`, `aLU`, `gsim` and `concur19`, and their tests `node_le_t` | `MCZoneGraph` |
| `ClockBounds`, `ConstraintMap` | the solver and maps of bounds; the constraints for the G-simulation | `MCClockAnalyses`, `ConstraintMapProofs` |
| `TypedLanguage` | terms, typechecking, static analyses | `MCVirtualMachine` |
| `VirtualMachine` | the compiler and the interpreter | `MCVirtualMachine` |
| `ProgramMeaning` | what a term means, and the properties that relate bytecode and terms | `MCVirtualMachine` |
| `SystemParser` | every declaration of a system file, programs flattened into edges, the builder of systems | `MCSystemDeclarations`, `SystemParserProofs` |
| `SystemDeclarations` | what declarations mean, and the properties that relate both | `MCSystemDeclarations` |

`MC*` modules give values to the constants and, where several machines share a
run, choose between them in the initial state; `*Proofs` modules hold the
theorems of the module they extend; those of `Reach` are at its end.

## 3. Correspondence with the code

**`TransitionSystem`.**  `ts_t::initial` and `next` return vectors of states with
a status; the model keeps the set of those with `STATE_OK`.  A transition is an
event and a target.  `Le` stands for the template parameter `NODE_LE` of the
subsumption graph.  `IsTraceInclusion` is what the class comment of
`covreach::algorithm_t` requires of it; `Coverings` shows that the relations
plugged in satisfy it.

**`CovReach`.**  `pc` follows `run`: `initial` is the loop of
`expand_initial_nodes`, `loop` the head of the while loop, `expand` the loop of
`expand_next_nodes`, `insert` the loop over `next_nodes` that calls
`remove_covered_nodes`.  One iteration of a loop is one action: adding a node,
asking whether it is covered, and adding the edge or removing it again happen in
one step since nothing else runs in between.  `stored` is the content of the cover
graph, `waiting` that of the waiting container, `edges` that of the directed
graph, `fresh` the vector of the new nodes (read oldest first), `todo` the vector
that `ts.next` filled.  A node is an object: its name comes from the counter
`created`, so two nodes may hold the same state.  Left open on purpose: the order
of `todo`, which covering node is found first, which node the policy takes.

**`Reach`.**  The same for `reach::algorithm_t`; a node is identified with its
state since `find_node` returns the stored node of an equal state.

**`CoverGraph`, `DirectedGraph`, `SubsumptionGraph`.**  `table` is `_nodes`, a
sequence of containers; `position[n]` is the pair stored by `node_position_t`, or
`NotStored`.  `head`, `next` and `node` are the pointers of `node_t` and `edge_t`
for both tags.  The operations are composed of `Link`, `Unlink` and `Bypass` as in
the code; a loop over a list is the function of its laps, from the pointers and the
iterator before a lap to those after it, and takes the successor of an edge before
the edge is unlinked, as the code does.
`SubsumptionGraph` adds the edge types and the preconditions that the code
asserts.

**`FastRemoveWaiting`.**  `dq` is the deque, `status` the field of each element;
`Purged` is the loop that drops the removed elements that come first.  The policy
is chosen in the initial state.

**`Pool`.**  `count` is the reference counter in front of each chunk,
`FreeChunk` and `Collectable` its markers.  `raw` counts the chunks taken out of
raw blocks, `free` is the free list from its head, `ptr` are the handles of the
users.  `Allocation` is `allocate` with its collection.

**`DifferenceBound`, `DBM`.**  A bound is the packed integer of `db_t`, with the
order of the integers.  A matrix is a function of rows; an operation is the
function of the matrix that it overwrites.  One round of a tightening loop is
written as one function, since the entries that a round relaxes do not read one
another's new values as long as the diagonal is not negative, and a negative
diagonal ends the operation.  `extra_m` and `extra_m_plus` have the same code as
`extra_lu` and `extra_lu_plus` with the two maps equal.

**`ZoneGraph`, `ReferenceZoneGraph`.**  `zg_initial` and `zg_next` are the
functions of `zg.cc` with the semantics of `semantics.cc`; the status after each
operation is that of the code.  A machine follows one path, since the algorithms
only ever ask for the successors of a node.  Conditions and statements of an edge
are what the virtual machine makes of them: sets of integer values, constraints
and resets.  The bounds are computed by `ClockBounds` for the system at hand.

**`Coverings`.**  An algorithm is a graph, its bounds or constraints, and the test
that `node_le_t` makes.  Some nodes are stored, a covered one is chosen, and both
nodes follow the same edges.

**`ClockBounds`, `ConstraintMap`.**  `solver` are the two matrices of
`df_solver_t`, one variable for each clock in each location; `maps` are the four
maps.  `ConstraintMap` visits one edge in each step of its fixpoint, and decides
like the code, by sizes, whether the map has changed.

**`TypedLanguage`, `VirtualMachine`.**  A term is a tagged record.  The compiler
produces the flat sequence of integers of the code, jumps included; a step of the
machine executes one instruction.  The frames that a thrown run leaves stay for
the next run.

**`SystemParser`.**  A line is a record, its action is that of the grammar rule;
the lists of clocks are the globals of the parser.  A program is flattened by the
rules `program_guard2` and the rule of edges; `Build` is what `syncprod::system_t`
and `ta::system_t` make of the declarations.

**`OutgoingEdges`, `Synchronizer`.**  The three nested iterators are variables,
one step for each `operator++`; the synchronizer is its depth-first search, one
step for each tuple.  `outgoing_edges` yields the edges of a tuple in the order of
the synchronisation, in which `ta::next` runs their statements; `ByProcess` is the
`vedge` that `syncprod::next` fills from them, indexed by process, in whose order
the product gets the name and the attributes of its edge.

**`ZoneOperations`.**  A state is one matrix; an action is one operation of
`dbm.cc` with arguments from small sets.  `Becomes` drops empty zones as the
callers do.  The properties compare each operation with `Valuations`, which says
what the operation means without matrices.

**`GeneralisedZones`.**  The same for the `eca_*` operations, with clocks that may
be undefined: a history clock at infinity, a prophecy clock at minus infinity.

## 4. Runs

| run | question | distinct states |
|---|---|---|
| `cov_reach` | does covering keep everything reachable, are edges and counters exact, is the answer right, does it end? | 502 326 |
| `reach` | is the graph exactly the reachable part, the answer right, and does it end? | 38 976 |
| `subsumption_graph` | do containers, positions and linked lists survive every sequence of calls; are they a set of nodes and a set of edges? | 35 915 |
| `waiting_list` | is removal by marking invisible to the user? | 3 684 |
| `pool` | is memory neither lost, nor reused while referenced, nor wasted? | 4 398 |
| `zone_operations` | do matrices stay in normal form; do operations, extrapolations and tests mean what they say? | 725 |
| `generalised_constrain` | does `eca_constrain` leave a tight matrix, as asserted? (no) | |
| `zone_graph` | do zones follow exactly the executions, is no path lost, is what a covering node drops simulated? | 7 600 |
| `clock_bounds` | are the bounds a simulation, and the least one; are the constraint sets irredundant and sound; does the fixpoint end? | 11 929 |
| `clock_bounds_copy` | are the bounds a simulation with `x := y`? (no) | |
| `virtual_machine` | does bytecode mean its term, from whatever earlier runs leave; do the static analyses tell the accesses; does every run end? | 176 899 |
| `declarations` | are finiteness, numbering, the edges of programs, the iterators and the computed product what the declarations say? | 19 986 |

The properties of the runs, with the ones that a theorem states marked by *:

- `cov_reach`: `IInv`* (waiting and new nodes are stored, visited nodes have their
  successors covered), `Antichain`* (no stored node covers another, when the
  initial states do not), `EdgesRepresentTransitions`* (an edge joins stored nodes
  and is a transition, up to covering if its type says so),
  `NodesAccounted`* (the reported counters add up), `GraphCoversReachable`*,
  `CoverageMonotone`* (no step uncovers a state), `AnswersQuery`* (refinement of
  `ReachabilityQuery`), `Termination`.
- `reach`: `IInv`*, `GraphComplete`*, `AnswersQuery`*, `Termination`.
- `subsumption_graph`: `IInv`* (of the cover graph), `QueriesExact`*,
  `ImplementsNodeSet`*, `EdgesJoinStored`* (no edge to a removed node),
  `MovedEdgesRetyped`*, `ImplementsEdgeSet`*.
- `waiting_list`: `ImplementsWaitingList`*.
- `pool`: `ChunksAccounted`*, `BlocksGrowWhenFull`*.
- `zone_operations`: `OperationsExact`*, `ExtrapolationsSound`*, `InclusionsExact`*
  (the last two are theorems on grids with room, see section 7).
- `zone_graph`: `StepsReachExecutions` (each valuation of a successor zone is
  reached from the zone), `PathsFollowed` (each concrete path is in the zones),
  `CoveringSound` (what a covered node can do, its covering node can do).
- `clock_bounds`: `LocalBoundsSimulate`, `LocalBoundsLeast`, `Irredundant`*,
  `PropagationSound`*, `Termination`.
- `virtual_machine`: `MachineSound`, `RunsMeanTheirTerms`, `AccessesDeclared`,
  `RunsEnd`.
- `declarations`: `FinitenessKnown`*, `SystemsBuilt`, `EdgesExact`,
  `FlatteningExact`.

**Findings**, each with the counterexample of a run:

 1. `clock_bounds_copy`: `C/clockbounds/solver.cc:386` passes a location and a
    clock in exchanged order to `add_assignment`.  The constraint of `x := y`
    relates the wrong variables, and the bounds of `y` before the copy are too
    small: valuations are identified that a later guard tells apart.
 2. `generalised_constrain`: on a matrix with an undefined clock, `eca_constrain`
    on the diagonal of clocks leaves a matrix that is not tight, although the
    assertion at `C/dbm/dbm.cc:735` says so.  The path through the undefined
    clock adds two infinities of opposite signs.

**Other divergences**, met while the modules were written.  Where a run depends on
one, the bounds of section 5 say how it is left out.

- *Fixpoints by size.*  `solver.cc:1776` and `:3193` compare the sizes of the sets of
  constraints before and after a round; a set may change and keep its size.
- `compute_amap` does not add the constraints of updates that its comment
  announces, and ignores the constraints of other processes;
  `assigned_clocks_extractor_t` counts a clock as assigned that one branch assigns
  only; `compute_eca_amap`, `ta/system.cc:40` and `semantics.cc:179` drop the
  constraints of clock 0, which they take for the clock `tmp`.
- `is_g_le_star` (`dbm.cc` 1595–1672) uses clock identifiers without the shift by
  one, and negates a condition; `eca_is_consistent` (`dbm.cc:275`) is false for every matrix
  of more than two clocks; `eca_universal`, `eca_reset` and `eca_release` copy rows without
  tightening; `eca_open_up` ignores that `eca_tighten` found the zone empty.
- `reset_to_subtraction` (`dbm.cc:986`) may leave an empty zone although
  `dbm.hh:605` excludes it; `refdbm::reset` ignores value and right clock when
  assertions are off; `zg` returns `NON_EMPTY` for an empty container of constraints
  without a test.
- `system.yy`: a diagonal with `>=`, `>` or `==` between a plain clock and an
  integer yields an empty list and its guard disappears; the finiteness check sees
  the clocks declared before it and the edges of programs only; a program
  edge always has a guard on `tmp`, so it is rejected on a weakly synchronised
  event; the documented position of the implicit `provided:a_p==0` is the end, the
  code puts it in front.
- The virtual machine pops the initial value of a local variable as unsigned, so a
  negative one throws; its frames survive an exception; locals of branches are
  visible after them in the typechecker; typed clones of clock terms lose their
  class; an assignment to an array throws.
- A synchronisation of weak members only yields an empty tuple of edges in release
  builds (`edges_iterators.cc:97`, against `file-format-combined.md:436`); a
  synchronisation of one process duplicates edges; the `do` attributes of a product
  edge are kept in an unordered map (`system/attribute.hh:89`), so three of them run
  in another order than documented (`file-format-combined.md:631`); the
  `initial` attributes are counted by value, not by process
  (`syncprod/system.cc:258`).
- *Statements of a product.*  An edge of the computed product gets its names, guards
  and statements from `vedge`, by increasing process (`syncprod/system.cc:294`), while
  `ta::next` runs the statements of the processes in the order of the synchronisation
  (`ta/ta.cc:90`).  Where a synchronisation lists processes in another order and
  their statements interact, the product is not the one that `include/tchecker/syncprod/system.hh:285`
  announces: in the systems of `declarations`, processes 3 and 1 synchronise on `b` in
  this order; from `i = 1` they flip `i` and then put 0, which breaks the invariant
  `i = 1` of the location that they reach; their product puts 0, flips `i`, and goes on.
  `SystemsBuilt` states what the product does there instead (section 5).
- `pool_t::destruct` (`pool.hh:166`) decrements the counter of a chunk that it has
  just marked free; `take_reference` (`shared_objects.hh:160`) throws one reference
  early; `expand_initial_nodes` (`covreach/algorithm.hh:146`) keeps initial nodes that
  a later one covers.
- `lexical_cmp` of clock constraints differs from `clocks.hh:272`; the check of
  negative resets is commented out (`clocks.cc:116`) where `clocks.hh` announces an
  exception; the move constructor of `local_lu_map_t` clears its own sizes.

## 5. Bounds

- `cov_reach`: *every* transition system with three states and *every* preorder that
  is a trace inclusion, and systems with four states, two events and parallel
  transitions.  Three states give chains of coverings, removal of the node under
  expansion, of a waiting node and of a new node; the larger ones, two nodes
  removed by one insertion.  The exploration is bounded by the system: no counter
  is cut.
- `reach`: three states, two events, up to two transitions out of a state.
- `subsumption_graph`: three nodes in a table of two containers, three
  interchangeable edges (symmetry).  A middle, a last and an only element are
  removed from a container, and from a list; loops and parallel edges occur.
- `waiting_list`: four elements: marked ones between waiting ones, two in a row.
- `pool`: two blocks of two chunks, three handles, counters up to `RefcountMax` 5,
  never reached (`CountersSuffice`).
- `zone_operations`: two clocks, constants from -1 to 1; matrices with a finite
  bound above `MaxBound` 1 are not explored further, and `InfValue` 20 is out of
  reach of every sum.  Clock values are thirds below 3: two clocks are told apart
  by integer parts and the order of fractional parts, which thirds realise, and 3 is
  beyond every sum of a bound and a distinguishing difference.  Witnesses (old values,
  delays, simulating values) are sixths below 4.  `GridAssumption` and
  `BoundsAssumption` state what the proofs of the operations need of these numbers.
  The grid is smaller than the one that the proofs about inclusions ask for, on
  which TLC would take too long: the run shows that less is enough here.
- `clock_bounds`: two clocks, three locations, two processes, values in half units up
  to 3; automata with an edge, two, a loop, a program or no edge, which all satisfy
  `AutomataAssumption`.
- `virtual_machine`: a scalar and an array each of integers and clocks, integers up
  to 100, one frame left by earlier runs (`MaxFrames`).  The terms cover each kind
  of statement and each jump.
- `zone_graph`: paths of 8 operations (`MaxSteps`).  The constraints of its systems are
  closed, so that integer valuations suffice.  Weakly synchronised edges are unguarded,
  as `ta/static_analysis.cc` requires; each synchronisation has a strong member;
  no `x := y`, because of finding 1.  Reference paths take 5 steps, with spreads 0, 1 and
  unbounded for the clocks of processes.  Generalised zones have one history, one
  prophecy and one normal clock and take three operations; two undefined clocks of one
  kind are left out because of finding 2.  Coverings compare nodes up to five edges away,
  and follow up to four further edges together: `covreach` and `alu` with the
  LU simulation, `gsim` on diagonal-free constraints only (`is_g_le_star` diverges),
  `concur19` on local time.
- `declarations`: 1 560 files of the lines that interact (clocks of each kind, diagonals,
  guards with disjunctions, flags declared late); products of three processes with at
  most two statements on an edge and unambiguous names.  `SystemsBuilt` compares an
  edge of a product with the step of the processes when the statements come by
  increasing process in the synchronisation, and otherwise with the step that takes
  the same edges by increasing process: the systems have two
  synchronisations that list their processes backwards, and in both the results differ.

## 6. Fairness

`cov_reach` and `reach` assume `WF_vars(Next)`: `run` is a sequential function that
goes on as long as it has not returned.  Their `Termination` then rests on the
argument that removed nodes do not come back for ever.  The same fairness is stated
for the fixpoint of `ConstraintMap` (`Termination`) and for the interpreter
(`RunsEnd`), loops of one function each.  The data structures only act when called:
their modules state no fairness.  Deadlock is checked except where a caller may stop,
as after an empty zone.

## 7. Proofs

The proofs are checked by TLAPS for all values of the constants, under named
assumptions that TLC evaluates in the runs:

- `SystemsAssumption`: well-formed transition systems whose covering relation is a
  preorder and a trace inclusion, and whose sets of successors are finite;
- `GraphAssumption`, `NotStoredAssumption`: a table that is not empty, natural hash
  codes, equal for covered nodes, and a null position outside the positions;
- `NullAssumption`, `EdgeAssumption`: null pointers that point to no object, and finitely
  many edge objects;
- `PoolAssumption`: blocks of at least one chunk; and `CountersSuffice`, a hypothesis of
  the theorems of `PoolProofs`: the handles do not reach the largest counter;
- `DimAssumption`, `InfValueAssumption`: a clock 0 and a positive infinity;
- `BoundsAssumption`: `2 (Dim + 1) MaxBound` is below infinity, constants are within
  `MaxBound`, stored matrices are in normal form with bounds up to `2 MaxBound`.  The
  factor is what Floyd and Warshall's algorithm can sum up; the code throws on larger
  sums (`db.hh:100`);
- `AutomataAssumption`, a hypothesis of the theorems of `ConstraintMapProofs`, and evaluated on
  the automata of the run (`ConstraintSystemsAreAutomata`): guards and invariants are finite
  sets of constraints of one clock or of the difference of two distinct clocks; in a plain
  automaton a clock is compared with a natural number, in a generalised one a bound is
  infinite or within infinity; differences of defined values stay below infinity;
- `FilesAssumption`: files and programs are sequences; `DeclaredBeforeUse`, a hypothesis of
  `FinitenessCorrect`;
- `GridAssumption`: clock values are even grid points, and the grid of witnesses
  reaches `MaxBound` units beyond them;
- `GridCompares` and `GridWitnesses`, hypotheses of the two theorems about sets of
  valuations that are compared, and not of the others.  The clocks of the code are real
  numbers; those of the model are multiples of `1 / Unit`, and a grid that is too coarse or
  too short would confuse zones that differ.  `GridCompares`: a unit has at least `Dim`
  steps, and the values reach `5 MaxBound + 1` units.  `GridWitnesses`: the grid of
  witnesses has `Dim` points for each step of that one and reaches `2 MaxBound + 1` units
  beyond it.  `GridsExist` proves that, whatever `Dim` and `MaxBound` are, some grid
  satisfies both and `GridAssumption`.

*Covering reachability* (`CovReachProofs`).  The verdict alone is not inductive.
`IInv` adds what `run` relies on without writing it down:

- `WaitingStored`: waiting and new nodes are stored ones.  To keep it when an
  insertion removes nodes one needs `FreshOrder`: a new node is never covered by
  an older new node, so inserting in the order of creation removes no node already
  inserted in this round without taking it out of the waiting container.
- `VisitedCovered` and `InitCovered`: successors of visited nodes, and initial
  states, are covered or still to be handled.  Both survive removals because
  the node that replaces the removed ones covers all that they cover
  (`StepKeepsCoverage`).
- `StoredReachable` gives the soundness of a positive answer.

From these, `Completeness`: when the waiting container is empty, the states below
stored nodes contain the initial ones and are closed under successors, hence contain
`Reachable`.  `Correctness` and `Refinement` follow.  Over `IInv`, three
more: `EdgesCorrect` (moved edges become subsumption edges into nodes that
cover their old target), `StoredNodesIncomparable` (a node is kept only if nothing
covers it, and then removes what it covers; new nodes are the exception in between),
and `StatisticsExact` (nodes created are those stored and those counted as covered,
each removal counted once).

*Reachability* (at the end of `Reach`).  The same argument without covering; `EdgesCorrect` and
`GraphCorrect` say that the graph is exactly the reachable part.

*Subsumption graph* (`SubsumptionGraphProofs`).  Of the cover graph alone: positions
and entries point to each other and the counter is the cardinality.  The case that
matters is removal: the back node moves, and may be the removed node itself.
`QueriesCorrect` needs that ordered nodes have equal hash codes.

Of the edges, the invariant is that every list *is* a sequence: `IsList` says that
head and successors run through it, to the null pointer, and that it has each edge
that names its node once.  `ListMet` and `MetList` relate it to what the iterator
meets, by induction on its steps (`Induction`, from the least element of a set of
naturals).  `LinkStep` and `UnlinkStep` say what one edge added or taken out does to
all the lists; a loop over a list keeps, lap after lap, that its iterator stands on
the head of what remains (`LoopStates`), which is where taking the successor too
late would fail.  From it `DisconnectListStep`, `DisconnectNodeStep` (a loop edge is
in both lists of its node), `DisconnectedAllStep` and `RedirectListStep`, whose moved
edges come in reverse.  One lemma for each action lifts these to the composition,
where `EdgesJoinStored` rests on `DisconnectedNode`: a node with two empty lists is
named by no edge, so it can be removed.  The refinements of `NodeSet` and `EdgeSet`
and `MovesRetype` follow.

*Waiting containers* (`FastRemoveWaitingProofs`).  `DequeInvariant`: the deque holds an
element at most once, marked elements are those removed and not yet dropped, and the
first element is a waiting one.  The refinement `MarkedRemovalCorrect` maps the deque
to the subsequence of its waiting elements.

*Pool* (`PoolProofs`).  `PoolAccounted`: each chunk is raw, free, collectable or
referenced, its counter is the number of its handles, and the free list has each
free chunk once.  `PoolGrowsWhenFull`: a block is allocated only if no chunk can be
collected.

*Zones* (`ZoneProofs`).  For any number of clocks:

- `InductiveInvariant`: the matrix is marked empty, or consistent, positive and closed
  under the triangle inequality.  `TypeOK` is not inductive: a tightening could reach
  infinity in the middle of a sum.  The bound on the entries makes it so.
- `OperationsCorrect`: constraints, intersections, resets and delays compute exactly
  the sets of valuations that they name.  That tightening loses no valuation is an
  easy half (`InRelaxed`, `TightenExact`: every new bound is the sum of a path).
  That one pass suffices is not: `RelaxedTight` for the pass after one
  bound (`NoNegativeCycle` is what the test of the diagonal gives), and `RoundStage` for
  Floyd and Warshall, whose invariant `Stage` says of the paths over the first `n`
  clocks that they leave the entry finite, bounded by their length, and not above them.
  The length is needed because a sum that reached infinity would hide a path; it
  is bounded by counting the clocks of the path, which are disjoint from those of the
  path that it joins as long as there was none before.
  That resets and delays forget exactly one clock is `Between`: in a tight matrix the
  lower bounds of a clock are met by its upper bounds, so a past value exists.
- `NoValuationLost`: extrapolations and inclusion tests lose no valuation, on any grid.
- `InclusionTestsExact`: `is_eq`, `is_le` and `is_alu_le` hold exactly of the zones that
  are equal, included, and included in the abstraction a_LU, which is never computed.
  The hard half is that a test which fails has a witness.  For `is_le`, a bound of the
  zone above that of the other has a valuation beyond the latter (`ValuationAbove`): the
  matrix with the opposite edge added is still closed (`EdgesFromClosed`); infinite
  entries are bounded by large ones first (`CappedClosed`); and a closed matrix of finite
  bounds has a valuation if a unit has as many steps as there are clocks (`RowSums`,
  `ClosedPoint`), a step for each strict bound on the way.
  For `is_alu_le`, a valuation is in a_LU of a zone if no bound of the zone, taken alone,
  excludes it (`ALUAllowed`).  One direction follows each simulating valuation
  (`SimulatedAllowed`); the other builds one (`AllowedSimulation`): the zone meets
  the box of the values that simulate each clock (`BoxClosed`) because no cycle through
  the box and the zone is negative (`AllowedCycle`, `AllowedPaths`).  `Apart`, the
  condition that `is_alu_le` looks for, is then what a valuation of the one zone that a bound
  of the other excludes amounts to (`ApartNotAllowed`, `NotAllowedApart`).
- `ExtrapolationsBetween`: `extra_lu` and `extra_lu_plus` compute zones between the zone
  and its abstraction a_LU.  What they may replace is `Widened`; a valuation that
  meets the bounds left is excluded by no bound of the zone (`WidenedAllowed`), which for
  `extra_lu_plus` uses that the matrix is tight.

*Constraints* (`ConstraintMapProofs`).  For every plain and generalised automaton, edge
visits in any number of rounds.  `Irredundant` is not inductive, and says nothing of what
a visit may rely on.  `SetsInv` is: all sets are `Reduced` (finite, equalities split, no
constraint makes another redundant, infinite bounds included), and from the first visit
on they are `Demanded` to cover the guards of the edges from their location, and in
generalised automata the bounds that hold prophecy clocks at 0.

- `SetsAreIrredundant`.  A constraint is `Covered` by a set that has it or one that makes
  it redundant.  An insertion keeps a set reduced and covers what was covered
  (`InsertedReduced`, from the transitivity of the order), so adding a finite set, in
  whatever order it is folded, does (`AddedAllGrows`, by induction over subsets).
- `PropagationIsSound`.  What covers a constraint simulates it (`CoveredSimulated`), so it
  is enough that the preconditions are right when none is left out.
  In plain automata, `up_inverse` shifts the bound by the two assignments and turns the
  constraint round when the bound is negative (`UpInverseSimulates`); what the guard lets
  the optimisation leave out is implied by the guard, which both valuations meet
  (`OptimisationSimulates`); `EdgeIsSound` joins them.
  In generalised automata both valuations agree on prophecy clocks
  (`ProphecyClocksEqual`), and a difference to a clock that the program changes stands
  for a bound on the other clock, even if that one is undefined (`ReleaseTransfers`).
  The run of a program is unfolded into its blocks (`RunWalks`, for any number of them);
  `StepFollows` says of one block that a guard met by the one valuation is met by the
  other, because it was taken back to the source through all the updates before it, and
  `RunFollows` is the induction.

What the theorem does not say is that the *final* map is sound along every edge.  A visit
is sound for the constraints that the target has at that time, and the loop ends when the
numbers of constraints have not changed in a round (`solver.cc:1776`), not when the sets
have not.

*Parsing* (`SystemParserProofs`).  `FinitenessCorrect`: the parser decides once for
each program, over two lists that grow and shrink along the file, whether successors
can be computed finitely; its verdict holds of the whole file.  The invariant
`ListsKnown` says that the clocks to verify are good ones, that they are all that a
program read so far compares, and that no program read so far releases a good clock
unchecked.  A clock that is declared is good at once, which is right only if no
earlier program releases it: hence the hypothesis `DeclaredBeforeUse`, which
`doc/file-format-combined.md:9` demands, which the parser does not check, and which
the files of the run satisfy (`SomeFilesDeclareFirst`).

*Only model-checked:*

- liveness (`Termination`, `RunsEnd`), which TLAPS does not prove under fairness;
- the maps of bounds (`LocalBoundsSimulate`, `LocalBoundsLeast`), generalised and reference zones, zone graphs, products, bytecode and
  declarations: their modules use recursive operators, or relate functions on syntax that
  only induction over terms would reach.

## 8. Not modelled, and why

- The order of the search and the order in which successors are enumerated: left
  nondeterministic, which covers every order of the code.
- Allocation and output of graphs, statistics of running time, logging: no effect
  on what is explored.
- The cache of shared objects: only its unit tests use it.
- The semantics of generalised automata in `eca_gen2` beyond its zone operations, and
  the algorithms of `tck-reach` that only differ in it.
- Labels, certificates and the command line of `tck-reach`; `tck-syntax` beyond its
  product.
- The lexer and the grammar of expressions: translation of text to terms.
- Hashing, lexical comparison and copying of matrices and maps; dead code
  (`eca_tighten2`, `eca_constrain_old`).

## 9. Plan

1. Generalised zones: which of the `eca_*` operations keep the normal form, without
   the undefined diagonals of finding 2.
2. Zone graphs: that a node covered by `is_alu_le` has no step that its covering node
   lacks, for any system, from `InclusionTestsExact` and a proof that guards within the
   bounds are kept by simulation; `CoveringSound` checks it on the systems of the run.
