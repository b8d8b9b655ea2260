-------------------------- MODULE MCSystemDeclarations --------------------------
(***************************************************************************)
(* Files of one process with clocks of every kind, an event with or        *)
(* without clocks, and two edges with programs of up to two blocks; and    *)
(* files with one line more or in the wrong place, and synchronisations.   *)
(* Tuples of locations of three processes, and products of three.          *)
(***************************************************************************)
EXTENDS SystemDeclarations

Inf == 9
SomeAges == 0 .. 2

KindLine(name, type) == [kind |-> "kind_clock", name |-> name, type |-> type]
EventLine(h, p) == [kind |-> "event_clocks", name |-> "a", history |-> h, prophecy |-> p]
LocationLine(p, name) == location_declaration(p, name, {})
ProgramLine(event, program) ==
  [kind |-> "program", process |-> "P", src |-> "l", tgt |-> "m", event |-> event, program |-> program]

One(x, cmp, c) == Compare(x, "", cmp, c)
Block(guards, ops) == [guards |-> guards, ops |-> ops, has_do |-> TRUE]
LastBlock(guards) == [guards |-> guards, ops |-> <<>>, has_do |-> FALSE]
Set(x, c) == [clock |-> x, value |-> <<c>>]

On(p, event, strong) == sync_constraint(p, event, strong)
SyncLine(constraints) == sync_declaration(constraints)
IntLine(name) == int_declaration(name, 1, 0, 2, 0)

(* Programs that check, release, compare, assign and leave blocks empty.   *)
FirstPrograms ==
  {<<Block(<<>>, <<Clear("y")>>)>>, <<LastBlock(<<Compare("y", "z", "<", 0)>>)>>,
   <<Block(<<One("y", "<=", -Inf), One("x", ">", 1)>>, <<Clear("y"), Clear("x")>>),
     Block(<<One("z", ">=", 0)>>, <<Clear("z")>>)>>,
   <<Block(<<>>, <<Clear("z")>>), LastBlock(<<One("z", "==", 0)>>)>>}

SecondPrograms ==
  {<<>>,
   <<Block(<<One("y", "==", 0)>>, <<Clear("y")>>)>>,
   <<Block(<<One("x", "==", 1)>>, <<Clear("x")>>), LastBlock(<<Compare("x", "y", ">", 1)>>)>>,
   <<Block(<<>>, <<Set("z", -1)>>), Block(<<One("y", "<", 0)>>, <<Clear("y")>>), LastBlock(<<>>)>>,
   <<Block(<<One("z", "<", -1)>>, <<Clear("x"), Set("z", -1)>>)>>,
   <<Block(<<One("i", "==", 1)>>, <<Set("i", 2), Set("x", 1)>>)>>,
   <<Block(<<Compare("y", "z", ">=", 0), Compare("x", "y", ">=", 1)>>, <<Clear("x")>>),
     LastBlock(<<Compare("z", "x", "==", -1)>>)>>}
  \cup {<<LastBlock(<<Compare("y", "z", cmp, -1)>>)>> : cmp \in {"<", "<=", ">=", ">", "=="}}
  \cup {<<LastBlock(<<Compare("z", "x", cmp, 0)>>)>> : cmp \in {">=", ">", "=="}}

PlainLine(name) == clock_declaration(name, 1, "plain")
EdgeLine(process, event, provided, do) ==
  edge_declaration(process, "l", "m", event, attributes(provided, do))

Header(type, event) ==
  <<KindLine("y", "prophecy"), KindLine("z", type), KindLine("x", "history"), IntLine("i"), event,
    process_declaration("P"), LocationLine("P", "l"), LocationLine("P", "m")>>

Events == {EventLine(TRUE, TRUE), EventLine(TRUE, FALSE), EventLine(FALSE, TRUE), event_declaration("a")}

ProgramFiles ==
  {Header(type, event) \o <<ProgramLine("a", p), ProgramLine("a", q)>> :
     type \in {"prophecy", "history", "normal", "timer"},
     event \in {EventLine(TRUE, TRUE), event_declaration("a")},
     p \in FirstPrograms, q \in SecondPrograms}

(* Names declared twice, in two kinds, or not at all, before, between and  *)
(* after the other lines.                                                  *)
Intruders ==
  {PlainLine("y"), PlainLine("w"), PlainLine("tmp"), KindLine("y", "normal"), KindLine("tmp", "history"), IntLine("y"),
   event_declaration("a"), EventLine(TRUE, TRUE), process_declaration("P"),
   process_declaration("Q"), LocationLine("P", "l"), LocationLine("Q", "m"),
   PlainLine("a_h"), [PlainLine("w") EXCEPT !.size = 2], [IntLine("j") EXCEPT !.init = 3],
   ProgramLine("b", <<>>), EdgeLine("P", "b", <<>>, <<>>), EdgeLine("Q", "a", <<>>, <<>>)}

Inserted(f, n, d) == SubSeq(f, 1, n) \o <<d>> \o SubSeq(f, n + 1, Len(f))

LastLines ==
  {<<EdgeLine("P", "a", <<>>, <<>>), SyncLine(<<On("P", "a", FALSE)>>)>>,
   <<EdgeLine("P", "a", <<One("x", "<=", 1)>>, <<Clear("y")>>), SyncLine(<<On("Q", "a", TRUE), On("P", "a", FALSE)>>)>>,
   <<EdgeLine("P", "a", <<One("u", "<=", 1)>>, <<>>)>>,
   <<ProgramLine("a", <<>>), SyncLine(<<On("P", "a", FALSE)>>)>>,
   <<ProgramLine("a", <<>>), SyncLine(<<On("P", "a", TRUE), On("P", "a", FALSE)>>)>>}

SystemFiles ==
  {Inserted(Header("timer", event), n, d) \o last :
     event \in Events, d \in Intruders, last \in LastLines, n \in {0, 2, 8}}

SomeFiles == ProgramFiles \cup SystemFiles

(* The theorem on finiteness applies to these files. *)
ASSUME SomeFilesDeclareFirst == DeclaredBeforeUse

-------------------------------------------------------------------------------
(* The iteration over edges: three processes of two locations with edges   *)
(* on two events, some of them nondeterministic, and synchronisations of   *)
(* two or three processes, each with a strong constraint.                  *)
VARIABLES kind, vloc, sync_it, cartesian_it, async_it, yielded

Joins(p, event, strong) == [pid |-> p, event |-> event, strong |-> strong]
Move(p, src, tgt, event) == [pid |-> p, src |-> src, tgt |-> tgt, event |-> event]

(* Locations 2p - 1 and 2p are those of process p.                         *)
Places(committed) ==
  [l \in 1 .. 6 |-> [pid |-> (l + 1) \div 2, initial |-> TRUE, committed |-> l \in committed]]

SomeEdges ==
  {<<Move(1, 1, 2, "a"), Move(1, 1, 1, "a"), Move(1, 2, 1, "b"),
     Move(2, 3, 4, "a"), Move(2, 3, 3, "b"), Move(2, 4, 3, "a"), Move(2, 4, 4, "a"),
     Move(3, 5, 6, "a"), Move(3, 5, 5, "a"), Move(3, 6, 5, "b")>>,
   <<Move(1, 1, 2, "a"), Move(2, 3, 4, "b"), Move(3, 6, 5, "a"), Move(3, 6, 6, "b"),
     Move(1, 1, 1, "b"), Move(2, 3, 3, "a"), Move(1, 2, 2, "b")>>}

Pair(p, q, s, t) == <<Joins(p, "a", s), Joins(q, "a", t)>>
Broadcast(s) == <<Joins(1, "a", TRUE), Joins(2, "a", s), Joins(3, "a", FALSE)>>

SomeSyncs ==
  {<<>>, <<Pair(1, 2, TRUE, TRUE)>>, <<Pair(2, 1, FALSE, TRUE), Pair(3, 2, TRUE, TRUE)>>,
   <<Broadcast(FALSE)>>, <<Broadcast(TRUE), <<Joins(3, "b", TRUE), Joins(1, "b", TRUE)>>>>,
   <<<<Joins(2, "b", FALSE), Joins(3, "a", TRUE)>>, Pair(1, 3, TRUE, FALSE)>>}

Iteration == INSTANCE OutgoingEdges WITH
  Systems <- {[locations |-> Places(c), edges |-> es, syncs |-> ss] :
                c \in {{}, {3}, {2, 6}}, es \in SomeEdges, ss \in SomeSyncs}

-------------------------------------------------------------------------------
(* The product of processes: two systems of three processes with a         *)
(* location that no edge leads to, names that hold the separator, guards,  *)
(* invariants and statements in several processes of an edge, and          *)
(* committed, urgent and labelled locations.  At most two processes of an  *)
(* edge have a statement; some synchronisations list their processes       *)
(* backwards.  An array is declared last, or first.                        *)
VARIABLES product, waiting, status

Bits == {0, 1}
Condition(ints, clocks) == [ints |-> ints, clocks |-> clocks]
Below(x, c) == [x |-> x, y |-> 0, b |-> c]
Beyond(x, c) == [x |-> 0, y |-> x, b |-> -c]
To(x, y, value) == [x |-> x, y |-> y, value |-> value]
Flip == [b \in Bits |-> 1 - b]
Put(c) == [b \in Bits |-> c]

Named(p, name, flags, attr) ==
  [name |-> name, pid |-> p, attributes |-> [f \in flags |-> <<"">>] @@ attr]

Unnamed == <<>>
Inv(ints, clocks) == "invariant" :> <<Condition(ints, clocks)>>
Labelled(ls) == "labels" :> <<ls>>

Provided(ints, clocks) == "provided" :> <<Condition(ints, clocks)>>
Do(sets, resets) == "do" :> <<[sets |-> sets, resets |-> resets]>>
Arc(p, src, tgt, event, attr) ==
  [pid |-> p, src |-> src, tgt |-> tgt, event |-> event, attributes |-> attr]

ProductLocations(flags) ==
  [l \in 0 .. 5 |->
    CASE l = 0 -> Named(1, <<"a">>, {"initial"}, Inv(Bits, <<Below(1, 2)>>))
      [] l = 1 -> Named(1, <<"a", "_", "b">>, {"committed"}, Labelled({"x"}))
      [] l = 2 -> Named(2, <<"b">>, {"initial"}, Inv(Bits, <<Below(2, 1)>>))
      [] l = 3 -> Named(2, <<"c">>, flags, Labelled({"x", "y"}))
      [] l = 4 -> Named(3, <<"d">>, {"initial"} \cup flags, Inv({1}, <<Below(2, 3)>>))
      [] l = 5 -> Named(3, <<"e">>, {"initial"}, Unnamed)]

ProductEdges ==
  <<Arc(1, 0, 1, "a", Provided(Bits, <<Beyond(1, 1)>>) @@ Do(Flip, <<To(1, 2, 1)>>)),
    Arc(1, 1, 0, "b", Do(Put(0), <<To(2, 0, 0)>>)),
    Arc(1, 1, 1, "b", Provided({1}, <<>>)),
    Arc(2, 2, 3, "a", Provided({1}, <<Below(1, 2)>>) @@ Do(Put(1), <<To(2, 1, 0)>>)),
    Arc(2, 3, 2, "c", Do(Flip, <<>>)),
    Arc(2, 3, 3, "b", Unnamed),
    Arc(3, 4, 4, "a", Provided(Bits, <<Below(2, 2)>>)),
    Arc(3, 5, 4, "b", Provided({1}, <<>>) @@ Do(Flip, <<To(1, 0, 0)>>))>>

Variable(name, size) == [name |-> name, size |-> size]

Products == INSTANCE Synchronizer WITH
  IntValues <- Bits,
  Declarations <-
    {[ints |-> ints, clocks |-> <<Variable("x", 1), Variable("y", 1)>>,
      locations |-> ProductLocations(flags), edges |-> ProductEdges, syncs |-> syncs, intval |-> 0] :
        ints \in {<<Variable("i", 1), Variable("t", 2)>>, <<Variable("t", 2), Variable("i", 1)>>},
        flags \in {{}, {"urgent"}, {"initial", "committed"}},
        syncs \in {<<>>, <<<<Joins(1, "a", TRUE), Joins(2, "a", TRUE), Joins(3, "a", FALSE)>>>>,
                   <<<<Joins(2, "a", TRUE), Joins(1, "a", FALSE)>>, <<Joins(3, "b", TRUE), Joins(1, "b", TRUE)>>>>}}

-------------------------------------------------------------------------------
(* A behaviour reads a file and builds its system, iterates over edges, or *)
(* computes a product.                                                     *)
edgeVars == <<vloc, sync_it, cartesian_it, async_it, yielded>>
productVars == <<product, waiting, status>>
anyVars == <<vars, edgeVars, productVars, kind>>

NoFile ==
  /\ file = <<>> /\ line = 0 /\ decls = <<>> /\ known = NoNames
  /\ finiteness = [good |-> {}, verify |-> {}, continue |-> FALSE]
  /\ log_error = FALSE /\ exited = FALSE
NoIteration == vloc = <<>> /\ sync_it = 0 /\ cartesian_it = <<>> /\ async_it = <<>> /\ yielded = <<>>
NoProduct == product = <<>> /\ waiting = <<>> /\ status = "running"

AnyInit ==
  \/ kind = "file" /\ Init /\ NoIteration /\ NoProduct
  \/ kind = "edges" /\ Iteration!Init /\ NoFile /\ NoProduct
  \/ kind = "product" /\ Products!Init /\ NoFile /\ NoIteration

AnyNext ==
  /\ UNCHANGED kind
  /\ \/ kind = "file" /\ Next /\ UNCHANGED <<edgeVars, productVars>>
     \/ kind = "edges" /\ Iteration!Next /\ UNCHANGED <<parser_vars, productVars>>
     \/ kind = "product" /\ Products!Next /\ UNCHANGED <<parser_vars, edgeVars>>

AnySpec == AnyInit /\ [][AnyNext]_anyVars

(* The system built from a file numbers its parts as its declarations say  *)
(* (SystemDeclarations); the product built from a system of processes does *)
(* what the processes do (Synchronizer).                                   *)
SystemsBuilt ==
  CASE kind = "file" -> BuiltAsDeclared
    [] kind = "product" -> Products!ProductFollows
    [] OTHER -> TRUE

(* Every global edge is enumerated, as often as it should (OutgoingEdges). *)
EdgesExact == kind = "edges" => Iteration!EdgesExact
===============================================================================
