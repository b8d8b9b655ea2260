------------------------------ MODULE SystemParser ------------------------------
(***************************************************************************)
(* The parser of system files: each line is a declaration, that is checked *)
(* and added to the declaration of the system, or logged as an error, in   *)
(* which case there is no system in the end.  A line is a record with a    *)
(* kind and the fields that its action reads; sizes and bounds are those   *)
(* of one variable, attributes those that later stages read.               *)
(*                                                                         *)
(* How the parser of systems flattens the program of an edge,              *)
(*   provided: guards; do: operations; provided: ...                       *)
(* into edges without disjunctions, whose guards and operations are one    *)
(* sequence each: the clock tmp separates the blocks of a program.         *)
(*                                                                         *)
(* A guard [x, y, cmp, c] reads x - y cmp c, or x cmp c when y is "".  An  *)
(* operation [clock, value] resets or releases the clock, or assigns a     *)
(* timer or an integer variable when value is not <<>>.  A program is a    *)
(* sequence of blocks [guards, ops, has_do]; only the last one may have no *)
(* do.  The lists of names that the parser keeps are sets in a record k.   *)
(***************************************************************************)
EXTENDS Integers, FiniteSets, Sequences, SequencesExt, FiniteSetsExt, TLC

CONSTANT Infinity      \* INF_VALUE

Compare(x, y, cmp, c) == [x |-> x, y |-> y, cmp |-> cmp, c |-> c]
TmpGuard == Compare("tmp", "", "<=", 0)
(* The attributes of an edge that later stages read, with their values in  *)
(* the order in which they were inserted.                                  *)
attributes(provided, do) == [provided |-> provided, do |-> do]

TmpDo == [clock |-> "tmp", value |-> <<>>]
Clear(x) == [clock |-> x, value |-> <<>>]

history_clock(event) == event \o "_h"
prophecy_clock(event) == event \o "_p"

-------------------------------------------------------------------------------
(* Guards: the alternatives of a guard, each a conjunction.                *)

(* Mutant: the alternative of undefined clocks is forgotten.               *)
AlternativesDefined(k, g, front, cmp) ==
  IF g.x \in k.history \cup k.prophecy /\ g.y \in k.history \cup k.prophecy
  THEN <<front \o <<Compare(g.y, g.x, cmp, -g.c)>>>> ELSE <<>>

(* x - y >= c holds if y - x <= -c, or when both clocks are undefined.     *)
Alternatives(k, g, front, cmp) ==
  LET mirrored == front \o <<Compare(g.y, g.x, cmp, -g.c)>>
      undefined(value) == front \o <<Compare(g.x, "", "==", value), Compare(g.y, "", "==", value)>>
  IN (IF {g.x, g.y} \subseteq k.prophecy THEN <<mirrored, undefined(-Infinity)>> ELSE <<>>)
     \o (IF g.x \in k.history /\ g.y \in k.prophecy THEN <<mirrored>> ELSE <<>>)
     \o (IF g.x \in k.prophecy /\ g.y \in k.history THEN <<mirrored>> ELSE <<>>)
     \o (IF {g.x, g.y} \subseteq k.history THEN <<mirrored, undefined(Infinity)>> ELSE <<>>)

As(g, cmp) == [g EXCEPT !.cmp = cmp]

SingleClock(g) == IF g.cmp = "==" THEN <<<<As(g, "<="), As(g, ">=")>>>> ELSE <<<<g>>>>
AtMost(g) == <<<<g>>>>
AtLeast(k, g) == Alternatives(k, g, <<>>, "<=")
Above(k, g) == Alternatives(k, g, <<>>, "<")
Equal(k, g) == Alternatives(k, g, <<As(g, "<=")>>, "<=")

eca_single_guard2(k, g) ==
  CASE g.y = "" -> SingleClock(g)
    [] g.y # "" /\ g.cmp \in {"<=", "<"} -> AtMost(g)
    [] g.y # "" /\ g.cmp = ">=" -> AtLeast(k, g)
    [] g.y # "" /\ g.cmp = ">" -> Above(k, g)
    [] g.y # "" /\ g.cmp = "==" -> Equal(k, g)

(* The cross product of the alternatives of the guards of a conjunction.   *)
non_empty_eca_guards2(ahead, rest) ==
  FlattenSeq([i \in DOMAIN rest |-> [j \in DOMAIN ahead |-> rest[i] \o ahead[j]]])

eca_guards2(k, guards) ==
  IF guards = <<>> THEN <<>>
  ELSE FoldRight(LAMBDA g, rest : non_empty_eca_guards2(eca_single_guard2(k, g), rest),
                 Front(guards), eca_single_guard2(k, Last(guards)))

-------------------------------------------------------------------------------
(* Blocks.  A result [guards, dos] holds the alternatives of the guards of *)
(* the blocks from one on, and their operations.                           *)
WithGuard(alternatives, rest) ==
  LET some(s) == IF s = <<>> THEN <<<<>>>> ELSE s
      joined(g) == [j \in DOMAIN some(rest.guards) |-> g \o <<TmpGuard>> \o some(rest.guards)[j]]
  IN [rest EXCEPT !.guards = FlattenSeq([i \in DOMAIN some(alternatives) |->
                                           joined(some(alternatives)[i])])]

(* A timer is released, and is tested for its new value where the next     *)
(* block starts, in a block of its own after the last one.                 *)
WithOperation(k, r, op) ==
  LET value == IF op.value = <<>> THEN -Infinity ELSE op.value[1]
      test == Compare(op.clock, "", "==", value)
  IN IF op.clock \notin k.timers THEN [r EXCEPT !.own = Append(@, op)]
     ELSE [r EXCEPT !.own = Append(@, Clear(op.clock)),
                    !.guards = IF @ = <<>> THEN <<<<test, TmpGuard>>>>
                               ELSE [i \in DOMAIN @ |-> <<test>> \o @[i]],
                    !.add_final_tmp_do = @ \/ r.guards = <<>>]

program_do2(k, ops, rest) ==
  LET start == [own |-> <<>>, guards |-> rest.guards, add_final_tmp_do |-> FALSE]
      r == FoldLeft(LAMBDA a, op : WithOperation(k, a, op), start, ops)
  IN [guards |-> r.guards,
      dos |-> r.own \o <<TmpDo>> \o (IF r.add_final_tmp_do THEN <<TmpDo>> ELSE <<>>) \o rest.dos]

program_guard2(k, program) ==
  FoldRight(LAMBDA b, rest :
              WithGuard(eca_guards2(k, b.guards),
                        IF b.has_do THEN program_do2(k, b.ops, rest)
                        ELSE [rest EXCEPT !.dos = <<TmpDo>>]),
            program, [guards |-> <<>>, dos |-> <<>>])

-------------------------------------------------------------------------------
(* The clocks of the event of an edge: the prophecy clock is tested and    *)
(* released in front of the program, the history clock reset behind it.    *)
WithProphecy(event, p) ==
  LET y == prophecy_clock(event)
      front == <<Compare(y, "", "==", 0), TmpGuard>>
  IN [guards |-> IF p.guards = <<>> THEN <<front>>
                 ELSE [i \in DOMAIN p.guards |-> front \o p.guards[i]],
      dos |-> <<Clear(y), TmpDo>> \o p.dos]

WithHistory(event, p) ==
  [guards |-> IF p.guards = <<>> THEN <<<<TmpGuard>>>>
              ELSE [i \in DOMAIN p.guards |-> Append(p.guards[i], TmpGuard)],
   dos |-> p.dos \o <<Clear(history_clock(event)), TmpDo>>]

WithEventClocks(k, event, p) ==
  LET q == IF prophecy_clock(event) \in k.event_prophecy THEN WithProphecy(event, p) ELSE p
  IN IF history_clock(event) \in k.event_history THEN WithHistory(event, q) ELSE q

(* The attributes of the edges that a program edge declares.               *)
flattened(k, event, program) ==
  LET p == WithEventClocks(k, event, program_guard2(k, program))
  IN IF p.guards = <<>> THEN <<attributes(<<>>, <<>>)>>
     ELSE [i \in DOMAIN p.guards |-> attributes(p.guards[i], p.dos)]

-------------------------------------------------------------------------------
(* Finiteness of the successor computation: a prophecy clock that a        *)
(* diagonal guard compares with another one must be found undefined or     *)
(* zero before a program releases it.                                      *)
Checks(k, g) ==
  /\ g.y = "" /\ g.x \in k.prophecy
  /\ \/ g.cmp \in {"<=", "=="} /\ g.c = -Infinity
     \/ g.cmp \in {">=", "=="} /\ g.c = 0

(* The prophecy clocks that some block releases although no guard up to it *)
(* checks them.                                                            *)
released_unchecked(k, program) ==
  {x \in k.prophecy : \E n \in DOMAIN program :
     /\ \E op \in ToSet(program[n].ops) : op.clock = x
     /\ \A i \in 1 .. n : \A g \in ToSet(program[i].guards) : g.x = x => ~Checks(k, g)}

compared_prophecies(k, program) ==
  UNION {UNION {{g.x, g.y} : g \in {h \in ToSet(program[n].guards) : {h.x, h.y} \subseteq k.prophecy}} :
           n \in DOMAIN program}

-------------------------------------------------------------------------------
CONSTANT Files     \* the files that are parsed, sequences of lines

ASSUME FilesAssumption ==
  \A f \in Files :
    /\ f \in Seq(ToSet(f))
    /\ \A d \in ToSet(f) : d.kind = "program" => d.program \in Seq(ToSet(d.program))

VARIABLES
  file,            \* the lines of the file
  line,            \* how many of them were read
  decls,           \* the system declaration
  known,           \* the sets of names of the parser
  finiteness,      \* [good, verify, continue]: what it knows of the prophecy clocks
  log_error,       \* an error was logged
  exited           \* the user did not want to continue

parser_vars == <<file, line, decls, known, finiteness, log_error, exited>>

NoNames == [prophecy |-> {}, history |-> {}, timers |-> {}, event_history |-> {},
            event_prophecy |-> {}, ints |-> {}]

(* Declarations.                                                           *)
clock_declaration(name, size, type) == [kind |-> "clock", name |-> name, size |-> size, type |-> type]
int_declaration(name, size, min, max, init) ==
  [kind |-> "int", name |-> name, size |-> size, min |-> min, max |-> max, init |-> init]
process_declaration(name) == [kind |-> "process", name |-> name]
event_declaration(name) == [kind |-> "event", name |-> name]
location_declaration(process, name, attr) ==
  [kind |-> "location", process |-> process, name |-> name, attributes |-> attr]
edge_declaration(process, src, tgt, event, attr) ==
  [kind |-> "edge", process |-> process, src |-> src, tgt |-> tgt, event |-> event,
   provided |-> attr.provided, do |-> attr.do]
sync_constraint(process, event, strong) == [process |-> process, event |-> event, strong |-> strong]
sync_declaration(constraints) == [kind |-> "sync", constraints |-> constraints]

Declared(kind, name) == \E i \in DOMAIN decls : decls[i].kind = kind /\ decls[i].name = name
LocationDeclared(process, name) ==
  \E i \in DOMAIN decls : decls[i].kind = "location" /\ decls[i].process = process /\ decls[i].name = name

ParserInit ==
  /\ file \in Files /\ line = 0
  /\ decls = <<>> /\ known = NoNames
  /\ finiteness = [good |-> {}, verify |-> {}, continue |-> FALSE]
  /\ log_error = FALSE /\ exited = FALSE

(* The next line of the file is d.                                         *)
Read(kind, d) ==
  /\ line < Len(file) /\ ~exited
  /\ d = file[line + 1] /\ d.kind = kind
  /\ line' = line + 1 /\ UNCHANGED file

Declare(ds) == decls' = decls \o ds /\ UNCHANGED log_error
Fail == log_error' = TRUE /\ UNCHANGED decls
DeclareIf(ok, d) == IF ok THEN Declare(<<d>>) ELSE Fail

-------------------------------------------------------------------------------
(* Clocks and integer variables.                                           *)
PlainClock(d) ==
  /\ Read("clock", d)
  /\ DeclareIf(~Declared("clock", d.name) /\ ~Declared("int", d.name) /\ d.size >= 1,
               d)
  /\ UNCHANGED <<known, finiteness, exited>>

(* Declarations ds after that of tmp, which the first of them brings.      *)
TmpDeclared == "tmp" \in known.prophecy
TmpClock == IF TmpDeclared \/ Declared("clock", "tmp") THEN <<>> ELSE <<clock_declaration("tmp", 1, "prophecy")>>
TmpFails == ~TmpDeclared /\ Declared("clock", "tmp")

(* A clock of a kind; an integer variable of its name does not matter.     *)
KindClock(d) ==
  /\ Read("kind_clock", d)
  /\ LET again == Declared("clock", d.name) \/ d.name = "tmp"
         type == IF d.type = "timer" THEN "prophecy" ELSE d.type
     IN /\ decls' = decls \o TmpClock
                      \o (IF again THEN <<>> ELSE <<clock_declaration(d.name, 1, type)>>)
        /\ log_error' = (log_error \/ TmpFails \/ again)
  /\ known' = [known EXCEPT
       !.prophecy = @ \cup {"tmp"} \cup (IF d.type \in {"prophecy", "timer"} THEN {d.name} ELSE {}),
       !.history = @ \cup (IF d.type \in {"history", "normal"} THEN {d.name} ELSE {}),
       !.timers = @ \cup (IF d.type = "timer" THEN {d.name} ELSE {})]
  /\ finiteness' = [finiteness EXCEPT
       !.good = @ \cup (IF TmpDeclared THEN {} ELSE {"tmp"})
                  \cup (IF d.type \in {"prophecy", "timer"} THEN {d.name} ELSE {})]
  /\ UNCHANGED exited

IntVariable(d) ==
  /\ Read("int", d)
  /\ LET ok == /\ ~Declared("int", d.name) /\ ~Declared("clock", d.name)
               /\ d.size >= 1 /\ d.min <= d.max /\ d.min <= d.init /\ d.init <= d.max
     IN DeclareIf(ok, d) /\ known' = [known EXCEPT !.ints = IF ok THEN @ \cup {d.name} ELSE @]
  /\ UNCHANGED <<finiteness, exited>>

-------------------------------------------------------------------------------
(* Processes, events and locations.                                        *)
Process(d) ==
  /\ Read("process", d)
  /\ DeclareIf(~Declared("process", d.name), d)
  /\ UNCHANGED <<known, finiteness, exited>>

Location(d) ==
  /\ Read("location", d)
  /\ DeclareIf(~LocationDeclared(d.process, d.name) /\ Declared("process", d.process), d)
  /\ UNCHANGED <<known, finiteness, exited>>

Event(d) ==
  /\ Read("event", d)
  /\ DeclareIf(~Declared("event", d.name), event_declaration(d.name))
  /\ UNCHANGED <<known, finiteness, exited>>

(* An event with its clocks; an event of that name hinders its clocks.     *)
EventWithClocks(d) ==
  /\ Read("event_clocks", d)
  /\ LET again == Declared("event", d.name)
         h == IF d.history /\ ~again THEN {history_clock(d.name)} ELSE {}
         p == IF d.prophecy /\ ~again THEN {prophecy_clock(d.name)} ELSE {}
         new(xs, type) == IF \E x \in xs : ~Declared("clock", x)
                          THEN <<clock_declaration(CHOOSE x \in xs : TRUE, 1, type)>> ELSE <<>>
     IN /\ decls' = decls \o TmpClock
                      \o (IF again THEN <<>> ELSE <<event_declaration(d.name)>>)
                      \o new(h, "history") \o new(p, "prophecy")
        /\ log_error' = (log_error \/ TmpFails \/ again \/ \E x \in h \cup p : Declared("clock", x))
        /\ known' = [known EXCEPT !.prophecy = @ \cup {"tmp"} \cup p, !.history = @ \cup h,
                                  !.event_history = @ \cup h, !.event_prophecy = @ \cup p]
        /\ finiteness' = [finiteness EXCEPT !.good = @ \cup (IF TmpDeclared THEN {} ELSE {"tmp"}) \cup p]
  /\ UNCHANGED exited

-------------------------------------------------------------------------------
(* Edges and synchronisations.                                             *)
EdgeDeclarable(d) ==
  /\ Declared("process", d.process) /\ Declared("event", d.event)
  /\ LocationDeclared(d.process, d.src) /\ LocationDeclared(d.process, d.tgt)

Attributed(d, attr) == edge_declaration(d.process, d.src, d.tgt, d.event, attr)

(* An edge with attributes, to which the clocks of its event add theirs.   *)
Edge(d) ==
  /\ Read("edge", d)
  /\ LET y == {prophecy_clock(d.event)} \cap known.event_prophecy
         x == {history_clock(d.event)} \cap known.event_history
         tested == {Compare(c, "", "==", 0) : c \in y}
         cleared(cs) == SetToSeq({Clear(c) : c \in cs})
     IN DeclareIf(EdgeDeclarable(d), Attributed(d, attributes(
          d.provided \o SetToSeq(tested) \o (IF y = {} THEN <<>> ELSE <<TmpGuard>>),
          d.do \o cleared(y) \o cleared(x) \o (IF x \cup y = {} THEN <<>> ELSE <<TmpDo>>))))
  /\ UNCHANGED <<known, finiteness, exited>>

(* The operations up to the first assignment to a name that is neither a   *)
(* timer nor an integer variable, which is an error.                       *)
assignments_checked(ops) ==
  LET bad == {i \in DOMAIN ops : ops[i].value # <<>> /\ ops[i].clock \notin known.timers \cup known.ints}
  IN IF bad = {} THEN ops ELSE SubSeq(ops, 1, Min(bad) - 1)

ProgramOf(d) == [n \in DOMAIN d.program |-> [d.program[n] EXCEPT !.ops = assignments_checked(@)]]

Good(d) == finiteness.good \ released_unchecked(known, ProgramOf(d))
Verify(d) == finiteness.verify \cup compared_prophecies(known, d.program)

(* Mutant: only the clocks that this program compares are verified.        *)
asks_of_program(d) ==
  ~finiteness.continue /\ ~(compared_prophecies(known, d.program) \subseteq Good(d))

asks(d) == ~finiteness.continue /\ ~(Verify(d) \subseteq Good(d))

(* One edge for each alternative of the guards, unless the computation of  *)
(* successors may not be finite and the user stops here.                   *)
ProgramEdge(d, wants_to_continue) ==
  /\ Read("program", d)
  /\ finiteness' = [good |-> IF finiteness.continue THEN finiteness.good ELSE Good(d),
                    verify |-> Verify(d),
                    continue |-> finiteness.continue \/ (asks(d) /\ wants_to_continue)]
  /\ exited' = (asks(d) /\ ~wants_to_continue)
  /\ LET edges == flattened(known, d.event, ProgramOf(d))
     IN IF exited' THEN UNCHANGED <<decls, log_error>>
        ELSE /\ decls' = IF EdgeDeclarable(d)
                         THEN decls \o [i \in DOMAIN edges |-> Attributed(d, edges[i])]
                         ELSE decls
             /\ log_error' = (log_error \/ ~EdgeDeclarable(d) \/ ProgramOf(d) # d.program)
  /\ UNCHANGED known

(* A constraint that names an unknown process or event is left out; the    *)
(* error has been logged.                                                  *)
Sync(d) ==
  /\ Read("sync", d)
  /\ LET resolved(c) == Declared("process", c.process) /\ Declared("event", c.event)
         constraints == SelectSeq(d.constraints, resolved)
         distinct == \A i, j \in DOMAIN constraints :
                       constraints[i].process = constraints[j].process => i = j
     IN /\ decls' = IF constraints # <<>> /\ distinct
                    THEN Append(decls, sync_declaration(constraints)) ELSE decls
        /\ log_error' = (log_error \/ constraints # d.constraints \/ constraints = <<>> \/ ~distinct)
  /\ UNCHANGED <<known, finiteness, exited>>

ParserNext ==
  \E d \in ToSet(file) :
     \/ PlainClock(d) \/ KindClock(d) \/ IntVariable(d)
     \/ Process(d) \/ Location(d) \/ Event(d) \/ EventWithClocks(d)
     \/ Edge(d) \/ Sync(d)
     \/ \E answer \in BOOLEAN : ProgramEdge(d, answer)

(* The declaration that the parser returns.                                *)
Parsed == line = Len(file) /\ ~exited /\ ~log_error

-------------------------------------------------------------------------------
(***************************************************************************)
(* The construction of a system of timed processes from the declaration    *)
(* that the parser returned: declarations are visited in their order, and  *)
(* processes, locations, events, clocks and edges are numbered as they     *)
(* come, from 0.                                                           *)
(***************************************************************************)

VARIABLE system      \* the system, none before it is built, or what was thrown

vars == <<parser_vars, system>>

None == [status |-> "none"]
Thrown(why) == [status |-> why]

Of(kind) == SelectSeq(decls, LAMBDA d : d.kind = kind)

process_id(name) == (CHOOSE i \in DOMAIN Of("process") : Of("process")[i].name = name) - 1
event_id(name) == (CHOOSE i \in DOMAIN Of("event") : Of("event")[i].name = name) - 1
location_id(process, name) ==
  (CHOOSE i \in DOMAIN Of("location") :
     Of("location")[i].process = process /\ Of("location")[i].name = name) - 1

(* The first id of a clock; an array takes as many ids as it has clocks.   *)
clock_id(name) ==
  LET n == CHOOSE i \in DOMAIN Of("clock") : Of("clock")[i].name = name
  IN FoldLeft(LAMBDA a, d : a + d.size, 0, SubSeq(Of("clock"), 1, n - 1))

clocks_of(types) == {clock_id(d.name) : d \in {e \in ToSet(Of("clock")) : e.type \in types}}

(* A clock and an integer variable of one name.                            *)
variable_declared_twice == \E c \in ToSet(Of("clock")) : \E i \in ToSet(Of("int")) : c.name = i.name

(* Mutant: tmp is a prophecy clock like the others.                        *)
prophecy_clock_id_map_with_tmp == {i + 1 : i \in clocks_of({"prophecy"})}

(* The ids of the clocks in the matrices of zones, one above their own.    *)
(* Clock 0 is taken for tmp; clocks of no other kind are normal.           *)
history_clock_id_map == {i + 1 : i \in clocks_of({"history"})}
prophecy_clock_id_map == {i + 1 : i \in clocks_of({"prophecy"}) \ {0}}
normal_clock_id_map == {i + 1 : i \in clocks_of({"plain", "normal"})}

weakly_synchronized_events ==
  UNION {{<<c.process, c.event>> : c \in {e \in ToSet(d.constraints) : ~e.strong}} : d \in ToSet(Of("sync"))}

has_guarded_weakly_synchronized_event ==
  \E d \in ToSet(Of("edge")) : <<d.process, d.event>> \in weakly_synchronized_events /\ d.provided # <<>>

(* A guard or an operation on a name that was not declared has no type.    *)
untyped ==
  LET variables == {d.name : d \in ToSet(Of("clock")) \cup ToSet(Of("int"))} \cup {""}
  IN \E d \in ToSet(Of("edge")) :
       \/ \E g \in ToSet(d.provided) : ~({g.x, g.y} \subseteq variables)
       \/ \E op \in ToSet(d.do) : op.clock \notin variables

(* What the system holds: ids in place of names.                           *)
loc(d) == [pid |-> process_id(d.process), attributes |-> d.attributes]
edge(d) ==
  [pid |-> process_id(d.process), src |-> location_id(d.process, d.src),
   tgt |-> location_id(d.process, d.tgt), event |-> event_id(d.event)]
system_sync_constraint(c) ==
  [pid |-> process_id(c.process), event |-> event_id(c.event), strong |-> c.strong]
synchronization(d) == [j \in DOMAIN d.constraints |-> system_sync_constraint(d.constraints[j])]

Numbered ==
  [status |-> "built",
   locations |-> [i \in DOMAIN Of("location") |-> loc(Of("location")[i])],
   edges |-> [i \in DOMAIN Of("edge") |-> edge(Of("edge")[i])],
   syncs |-> [i \in DOMAIN Of("sync") |-> synchronization(Of("sync")[i])],
   history |-> history_clock_id_map,
   prophecy |-> prophecy_clock_id_map,
   normal |-> normal_clock_id_map]

Init == ParserInit /\ system = None

Parse == ParserNext /\ UNCHANGED system

(* The tools stop when the parser returned no declaration.                 *)
Build ==
  /\ Parsed /\ system = None
  /\ system' = IF variable_declared_twice THEN Thrown("Variable is already declared")
               ELSE IF untyped THEN Thrown("expression is not bool valued")
               ELSE IF has_guarded_weakly_synchronized_event
               THEN Thrown("Transitions over weakly synchronized events should not have guards")
               ELSE Numbered
  /\ UNCHANGED parser_vars

Next == Parse \/ Build

Spec == Init /\ [][Next]_vars

-------------------------------------------------------------------------------
(* If the parser did not ask about finiteness, then each clock that some   *)
(* program compares with another prophecy clock is checked before its      *)
(* first release in every program of the file, before or after it: the     *)
(* two lists that the parser keeps along the file (system.yy, first part   *)
(* of the rule of edges with a program) say so of the whole file.          *)
FinitenessKnown ==
  ~finiteness.continue /\ ~exited /\ ~log_error =>
    LET programs == {file[n].program : n \in {m \in 1 .. line : file[m].kind = "program"}}
        guards(p, n) == UNION {ToSet(p[i].guards) : i \in 1 .. n}
        compared == {x \in known.prophecy : \E p \in programs : \E g \in guards(p, Len(p)) :
                       g.x # g.y /\ x \in {g.x, g.y} /\ {g.x, g.y} \subseteq known.prophecy}
    IN \A x \in compared, p \in programs : \A n \in DOMAIN p :
         (\E i \in DOMAIN p[n].ops : p[n].ops[i].clock = x) =>
           \E g \in guards(p, n) : g.x = x /\ g.y = ""
             /\ <<g.cmp, g.c>> \in {<<">=", 0>>, <<"==", 0>>, <<"<=", -Infinity>>, <<"==", -Infinity>>}

(* The names that a program uses, and the names that a line makes prophecy *)
(* clocks.                                                                 *)
NamesUsed(program) ==
  UNION {(UNION {{g.x, g.y} : g \in ToSet(program[n].guards)})
           \cup {op.clock : op \in ToSet(program[n].ops)} : n \in DOMAIN program}

NamesBrought(d) ==
  CASE d.kind = "kind_clock" -> {d.name, "tmp"}
    [] d.kind = "event_clocks" -> {prophecy_clock(d.name), "tmp"}
    [] OTHER -> {}

(* Everything is declared before it is used, as the file format requires   *)
(* (doc/file-format-combined.md:9); the parser does not check it.          *)
DeclaredBeforeUse ==
  \A f \in Files : \A m, n \in DOMAIN f :
    m < n /\ f[m].kind = "program" => NamesUsed(f[m].program) \cap NamesBrought(f[n]) = {}
===============================================================================
