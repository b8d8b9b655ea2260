---------------------------- MODULE MCClockAnalyses -----------------------------
(***************************************************************************)
(* Both analyses of the guards of a system: the bounds of its clocks at    *)
(* each location, and the constraints of each location.  A behaviour is    *)
(* one of either, over two clocks and three locations.                     *)
(***************************************************************************)
EXTENDS ConstraintMap

CONSTANTS
  LocPid,           \* the process of each location
  BoundSystems      \* the systems whose bounds are computed

VARIABLES
  analysis,         \* "bounds" or "constraints"
  analysed,         \* the system whose bounds are computed
  locations, edges, solver, maps

Bounds == INSTANCE ClockBounds WITH system <- analysed, Systems <- BoundSystems

-------------------------------------------------------------------------------
(* The systems whose bounds are computed: two locations of one process and *)
(* one location of another.  One edge updates clocks; an edge or an        *)
(* invariant elsewhere bounds them.                                        *)
TwoProcesses == 0 :> 0 @@ 1 :> 0 @@ 2 :> 1

SmallValues == 0 .. 6

Compare(op, xs, c) == [op |-> op, clocks |-> xs, bound |-> c]
Set(xs, c) == [kind |-> "int", to |-> xs, from |-> {}, value |-> c]
Sum(xs, ys, c) == [kind |-> "sum", to |-> xs, from |-> ys, value |-> c]
Copy(xs, ys) == [kind |-> "copy", to |-> xs, from |-> ys, value |-> 0]

(* Statements; {0, 1} is an array whose cell is not known.                 *)
Statements ==
  {<<>>, <<Set({0}, 0)>>, <<Set({0, 1}, 0)>>,
   <<Sum({0}, {1}, 1)>>, <<Sum({1}, {0}, -1)>>, <<Sum({0}, {0}, -1)>>,
   <<Sum({0, 1}, {0}, 1)>>, <<Sum({1}, {0, 1}, -1)>>,
   <<Set({0}, 1), Set({1}, 0)>>, <<Sum({1}, {1}, 1), Set({0}, 0)>>}

Guards ==
  {{Compare("LT", {0}, 1)}, {Compare("GE", {1}, 2)},
   {Compare("GT", {0, 1}, 1), Compare("LE", {0}, 2)}, {Compare("EQ", {1}, 1)}}

Edge(src, tgt, guard, statement) ==
  [src |-> src, tgt |-> tgt, guard |-> guard, statement |-> statement]

Analysed(inv, edgeset) == [invariant |-> [l \in Location |-> IF l = 1 THEN inv ELSE {}], edges |-> edgeset]

SomeSystems ==
  {Analysed(IF g = {} THEN {Compare("LE", {1}, 1)} ELSE {},
            {Edge(st[1], st[2], {}, s), Edge(0, 1, g, <<>>), Edge(t, t, h, <<>>)}) :
     st \in {<<0, 0>>, <<0, 1>>, <<1, 0>>, <<2, 2>>}, s \in Statements,
     g \in {{}, {Compare("GE", {1}, 1)}}, h \in Guards, t \in {1, 2}}

CopySystems ==
  {Analysed({}, {Edge(0, 1, {}, <<Copy({0}, {1})>>), Edge(1, 1, g, <<>>)}) : g \in Guards}

-------------------------------------------------------------------------------
(* The systems whose constraints are computed: three locations in a row or *)
(* in a loop.                                                              *)
Atom(x, y, op, c) == [x |-> x, y |-> y, op |-> op, bound |-> c]

X(op, c) == Atom(0, NoClock, op, c)
Y(op, c) == Atom(1, NoClock, op, c)
XY(op, c) == Atom(0, 1, op, c)
YX(op, c) == Atom(1, 0, op, c)

Assign(x, z, d) == [x |-> x, z |-> z, d |-> d]

Updates ==
  {<<>>, <<Assign(0, NoClock, 1)>>, <<Assign(1, NoClock, 0)>>, <<Assign(0, 1, 1)>>,
   <<Assign(1, 0, 2)>>, <<Assign(0, 1, 0), Assign(1, NoClock, 1)>>}

Targets == {{X("LE", 2)}, {Y("GT", 1)}, {XY("LE", 1)}, {YX("EQ", 1)}, {XY("GT", 0), Y("LT", 2)}}

ConstraintGuards == {<<>>, <<X("LE", 1)>>, <<Y("LT", 1), X("GE", 1)>>, <<XY("LT", 1)>>, <<Y("EQ", 1)>>}

ConstraintEdge(src, tgt, guard, update) == [src |-> src, tgt |-> tgt, guard |-> guard, update |-> update]

LineSystems ==
  {[invariant |-> [l \in Location |-> IF l = 2 THEN inv ELSE {}],
    edges |-> <<ConstraintEdge(1, 2, g, u), ConstraintEdge(0, tgt, <<>>, IF tgt = 0 THEN <<>> ELSE <<Assign(1, NoClock, 1)>>)>>] :
     inv \in Targets, g \in ConstraintGuards, u \in Updates, tgt \in {0, 1}}

LoopSystems ==
  {[invariant |-> [l \in Location |-> IF l = 1 THEN inv ELSE {}],
    edges |-> <<ConstraintEdge(1, 1, g, u), ConstraintEdge(0, 1, <<>>, <<Assign(1, NoClock, 1)>>)>>] :
     inv \in Targets, g \in ConstraintGuards, u \in Updates}

(* Generalised automata: clock 0 is one of the past, and clock 1 is one of *)
(* the past or of the future.                                              *)
Block(guard, do) == [guard |-> guard, do |-> do]

Programs ==
  {<<Block({}, {0}), Block({YX("LE", 1)}, {})>>, <<Block({XY("LT", 1)}, {1})>>,
   <<Block({X("LE", 1)}, {1}), Block({XY("LE", 2)}, {1})>>,
   <<Block({}, {1}), Block({X("GE", 2), YX("LE", -1)}, {0})>>,
   <<Block({}, {1}), Block({}, {}), Block({XY("LE", 1)}, {})>>,
   <<Block({X("EQ", InfValue)}, {})>>}

LaterPrograms ==
  {<<Block({YX("LE", 1)}, {0})>>, <<Block({}, {1}), Block({XY("LE", 1)}, {})>>}

GeneralisedTargets ==
  {{X("LE", 2)}, {X("LT", InfValue), X("GE", 1)}, {XY("LE", 1)}, {YX("LE", -1)}, {YX("LT", InfValue)},
   {XY("LE", InfValue), X("EQ", 1)}}

GeneralisedEdge(src, tgt, blocks) == [src |-> src, tgt |-> tgt, blocks |-> blocks]

GeneralisedSystems ==
  {[prophecy |-> ps,
    invariant |-> [l \in Location |-> IF l = 2 THEN inv ELSE {}],
    edges |-> <<GeneralisedEdge(0, tgt, p), GeneralisedEdge(tgt, 2, q)>>] :
      ps \in {{}, {1}}, inv \in GeneralisedTargets, p \in Programs, q \in LaterPrograms, tgt \in {1, 2}}

(* Without edges there are only the atoms.                                 *)
StillSystems ==
  {[invariant |-> [l \in Location |-> inv], edges |-> <<>>] : inv \in Targets}

ConstraintSystems == LineSystems \cup LoopSystems \cup GeneralisedSystems \cup StillSystems

(* The theorems of ConstraintMapProofs apply to these automata.            *)
ASSUME ConstraintSystemsAreAutomata == AutomataAssumption

-------------------------------------------------------------------------------

boundsVars == <<analysed, locations, edges, solver, maps>>

anyVars == <<analysis, boundsVars, vars>>

BoundsInit ==
  /\ analysis = "bounds" /\ Bounds!Init
  /\ system = (CHOOSE s \in StillSystems : TRUE)
  /\ amap = a_map /\ edge = 0 /\ stabilized = FALSE /\ done = FALSE

ConstraintsInit ==
  /\ analysis = "constraints" /\ Init
  /\ analysed = <<>> /\ locations = {} /\ edges = {} /\ solver = <<>> /\ maps = Bounds!NoMaps

AnyInit == BoundsInit \/ ConstraintsInit

BoundsNext == analysis = "bounds" /\ Bounds!Next /\ UNCHANGED <<analysis, vars>>

ConstraintsNext == analysis = "constraints" /\ Next /\ UNCHANGED <<analysis, boundsVars>>

AnyNext == BoundsNext \/ ConstraintsNext

(* The bounds only.                                                        *)
BoundsSpec == BoundsInit /\ [][BoundsNext]_anyVars

AnySpec == AnyInit /\ [][AnyNext]_anyVars /\ WF_anyVars(ConstraintsNext)

-------------------------------------------------------------------------------
(* The preorder of the local bounds is a simulation (ClockBounds).         *)
BoundsSimulate == Bounds!BoundsSimulate

(* The same in the run that checks both analyses.                          *)
LocalBoundsSimulate == analysis = "bounds" => BoundsSimulate

(* The bounds are the least ones, if there are any (ClockBounds).          *)
LocalBoundsLeast == analysis = "bounds" => Bounds!BoundsLeast

(* The loop of the constraints ends, for automata whose updates cannot     *)
(* raise a constant for ever: its cutoff test is commented out.            *)
Termination == analysis = "constraints" ~> done
===============================================================================
