---------------------------- MODULE SystemDeclarations --------------------------
(***************************************************************************)
(* What the declarations of a file mean, independently of the way they are *)
(* parsed and built, and the properties that relate the two.               *)
(***************************************************************************)
EXTENDS SystemParser

CONSTANT Ages      \* the values that defined clocks take, up to their sign

-------------------------------------------------------------------------------
(* Valuations.  Prophecy clocks are negative, undefined at -Infinity;      *)
(* history clocks are undefined at Infinity.                               *)
Domain(x) ==
  CASE x \in known.prophecy -> {-a : a \in Ages} \cup {-Infinity}
    [] x \in known.history -> Ages \cup {Infinity}
    [] OTHER -> Ages

Difference(a, b) ==
  IF a = Infinity \/ b = -Infinity THEN Infinity
  ELSE IF a = -Infinity \/ b = Infinity THEN -Infinity
  ELSE a - b

Satisfies(v, g) ==
  LET d == IF g.y = "" THEN v[g.x] ELSE Difference(v[g.x], v[g.y])
  IN CASE g.cmp = "<=" -> d <= g.c
       [] g.cmp = "<" -> d < g.c
       [] g.cmp = ">=" -> d >= g.c
       [] g.cmp = ">" -> d > g.c
       [] g.cmp = "==" -> d = g.c

Guarded(V, guards) == {v \in V : \A g \in ToSet(guards) : Satisfies(v, g)}

Reset(V, x) ==
  IF x \in known.prophecy THEN UNION {{[v EXCEPT ![x] = a] : a \in Domain(x)} : v \in V}
  ELSE {[v EXCEPT ![x] = 0] : v \in V}

(* A timer that is not given a value is stopped.                           *)
Operated(V, ops) ==
  FoldLeft(LAMBDA W, op :
             IF op.value # <<>> THEN {[v EXCEPT ![op.clock] = op.value[1]] : v \in W}
             ELSE IF op.clock \in known.timers THEN {[v EXCEPT ![op.clock] = -Infinity] : v \in W}
             ELSE Reset(W, op.clock),
           V, ops)

(* The valuations that a program leads to from one of V on its event.      *)
ProgramOutcomes(V, event, program) ==
  LET y == {prophecy_clock(event)} \cap known.event_prophecy
      x == {history_clock(event)} \cap known.event_history
      start == FoldSet(LAMBDA c, W : Reset({v \in W : v[c] = 0}, c), V, y)
      end == FoldLeft(LAMBDA W, b : Operated(Guarded(W, b.guards), b.ops), start, program)
  IN FoldSet(LAMBDA c, W : Reset(W, c), end, x)

(* The valuations that an edge of the system leads to: its guards and its  *)
(* operations take turns, up to the next tmp each.                         *)
RECURSIVE EdgeOutcomes(_, _, _)
EdgeOutcomes(V, provided, do) ==
  LET turn(s, isTmp(_)) == Min({i \in DOMAIN s : isTmp(s[i])} \cup {Len(s) + 1})
      m == turn(provided, LAMBDA g : g.x = "tmp")
      n == turn(do, LAMBDA op : op.clock = "tmp")
      guards == SubSeq(provided, 1, m - 1)
      ops == SubSeq(do, 1, n - 1)
      assigned(W, op) == IF op.value # <<>> THEN {[v EXCEPT ![op.clock] = op.value[1]] : v \in W}
                         ELSE Reset(W, op.clock)
  IN IF provided = <<>> /\ do = <<>> THEN V
     ELSE EdgeOutcomes(FoldLeft(assigned, Guarded(V, guards), ops),
                       SubSeq(provided, m + 1, Len(provided)), SubSeq(do, n + 1, Len(do)))

NamesOf(event, program) ==
  (({history_clock(event)} \cap known.event_history) \cup ({prophecy_clock(event)} \cap known.event_prophecy)
    \cup UNION {UNION {{g.x, g.y} : g \in ToSet(b.guards)} \cup {op.clock : op \in ToSet(b.ops)} :
                  b \in ToSet(program)}) \ {""}

Valuations(names) == {v \in [names -> UNION {Domain(x) : x \in names}] : \A x \in names : v[x] \in Domain(x)}

-------------------------------------------------------------------------------
(* Names that are clocks of one kind, and so have a meaning in a diagonal. *)
Kinded(x) == (x \in known.history) # (x \in known.prophecy)

(* A diagonal guard of other names yields no alternative at all for >=, >  *)
(* and ==: the block loses its guards, which no property covers.           *)
Meaningful(program) ==
  \A n \in DOMAIN program : \A g \in ToSet(program[n].guards) :
    g.y # "" => Kinded(g.x) /\ Kinded(g.y)

(* The edges that a program is flattened into lead, together, from every   *)
(* valuation to the valuations that the program leads to: no alternative   *)
(* of a guard is lost or added, and each test and operation is in the turn *)
(* where the program has it, those of timers and event clocks included     *)
(* (system.yy, rules of program_guard2 and of edges with a program).       *)
FlatteningExact ==
  [][LET d == file[line']
         new == SubSeq(decls', Len(decls) + 1, Len(decls'))
     IN line' # line /\ d.kind = "program" /\ ~log_error' /\ ~exited' /\ Meaningful(d.program) =>
          \A v \in Valuations(NamesOf(d.event, d.program)) :
            UNION {EdgeOutcomes({v}, new[i].provided, new[i].do) : i \in DOMAIN new}
              = ProgramOutcomes({v}, d.event, d.program)]_vars

(* A system that was built numbers its clocks as the matrices of zones     *)
(* need it: if a clock of GTA was declared, before the plain ones, and     *)
(* there are no arrays of clocks, then clock 0 is tmp and each other clock *)
(* has one kind, that of its declaration (ta::system_t).  No edge of a     *)
(* weakly synchronised event is guarded, and edges stay in their process.  *)
BuiltAsDeclared ==
  system.status = "built" =>
    LET clocks == SelectSeq(decls, LAMBDA d : d.kind = "clock")
        indices(types) == {i \in DOMAIN clocks : clocks[i].type \in types} \ {1}
    IN /\ clocks # <<>> /\ clocks[1].type # "plain" /\ (\A i \in DOMAIN clocks : clocks[i].size = 1) =>
            /\ clocks[1].name = "tmp"
            /\ <<system.history, system.prophecy, system.normal>>
                 = <<indices({"history"}), indices({"prophecy"}), indices({"plain", "normal"})>>
       /\ \A i \in DOMAIN system.edges :
            LET e == system.edges[i]
            IN /\ system.locations[e.src + 1].pid = e.pid /\ system.locations[e.tgt + 1].pid = e.pid
               /\ \A k \in DOMAIN system.syncs : \A c \in ToSet(system.syncs[k]) :
                    c.pid = e.pid /\ c.event = e.event /\ ~c.strong => Of("edge")[i].provided = <<>>
===============================================================================
