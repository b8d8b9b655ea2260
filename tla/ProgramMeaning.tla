---------------------------- MODULE ProgramMeaning ---------------------------
(***************************************************************************)
(* What a guard or an update means, read off the term itself: variables    *)
(* by their names, local variables in nested scopes, no bytecode and no    *)
(* stack.  The virtual machine must agree with it.                         *)
(***************************************************************************)
EXTENDS VirtualMachine, SequencesExt

(* The result of a term: how it ends ("returned", or an error), its value, *)
(* the state after it and the clock constraints and resets it issues.      *)
Result(end, v, ints, scopes, cs, rs) ==
  [end |-> end, v |-> v, ints |-> ints, scopes |-> scopes, cs |-> cs, rs |-> rs]

Ok(r) == r.end = "returned"
Give(r, v) == [r EXCEPT !.v = v]
Raise(r, kind) == [r EXCEPT !.end = kind]

(* What follows a term happens only if the term has ended well.            *)
Then(r, Follow(_)) == IF Ok(r) THEN Follow(r) ELSE r

Scopes(r, name) == {k \in DOMAIN r.scopes : name \in DOMAIN r.scopes[k]}
IsLocal(r, name) == Scopes(r, name) # {}
ScopeOf(r, name) == CHOOSE k \in Scopes(r, name) : \A j \in Scopes(r, name) : j <= k

Cells(r, name) ==
  IF IsLocal(r, name) THEN r.scopes[ScopeOf(r, name)][name]
  ELSE [i \in 0 .. IntVariables[name].size - 1 |-> r.ints[IntVariables[name].id + i]]

IsClock(x) == x.e \in {"var", "array"} /\ x.name \in DOMAIN ClockVariables
SizeOf(r, name) ==
  IF name \in DOMAIN ClockVariables THEN ClockVariables[name].size
  ELSE Cardinality(DOMAIN Cells(r, name))

(* Issue x - y op c, as constraints of the form x - y <= c or x - y < c.   *)
Issued(x, y, op, c) ==
  CASE op = "<" -> <<clock_constraint(x, y, LT, c)>>
    [] op = "<=" -> <<clock_constraint(x, y, LE, c)>>
    [] op = ">" -> <<clock_constraint(y, x, LT, -c)>>
    [] op = ">=" -> <<clock_constraint(y, x, LE, -c)>>
    [] op = "==" -> <<clock_constraint(x, y, LE, c), clock_constraint(y, x, LE, -c)>>

RECURSIVE Eval(_, _)

(* The offset an lvalue denotes.                                           *)
Offset(x, r) ==
  IF x.e = "var" THEN Give(r, 0)
  ELSE Then(Eval(x.offset, r),
            LAMBDA o : IF o.v \in 0 .. SizeOf(o, x.name) - 1 THEN o ELSE Raise(o, "out_of_range"))

Num0 == int_expression(0)

(* Two clocks, the second may be the one that is always 0, then a value.   *)
ClockId(x, r) ==
  IF x = RefClockVariable THEN Give(r, RefClock)
  ELSE Then(Offset(x, r), LAMBDA o : Give(o, ClockVariables[x.name].id + o.v))

ClocksAndValue(x, y, z, r, Follow(_, _, _)) ==
  Then(ClockId(x, r), LAMBDA i :
    Then(ClockId(y, i), LAMBDA j :
      Then(Eval(z, j), LAMBDA c : Follow(i.v, j.v, c))))

Constraint(x, y, op, bound, r) ==
  ClocksAndValue(x, y, bound, r,
    LAMBDA i, j, c : [c EXCEPT !.v = 1, !.cs = @ \o Issued(i, j, op, c.v)])

Combined(op, a, b) ==
  IF op \in {"/", "%"} /\ b.v = 0 THEN Raise(b, "killed") ELSE Give(b, Computed(op, a, b.v))

IsClockPredicate(x) == x.op \in predicate /\ IsClock(x.left)
IsDiagonal(x) == x.op \in predicate /\ x.left.e = "binary" /\ IsClock(x.left.left)

Eval(x, r) ==
  CASE x.e = "int" -> Give(r, x.value)
    [] x.e \in {"var", "array"} ->
         Then(Offset(x, r), LAMBDA o : Give(o, Cells(o, x.name)[o.v]))
    [] x.e = "par" -> Eval(x.expr, r)
    [] x.e = "unary" -> Then(Eval(x.expr, r), LAMBDA o : Give(o, Negated(x.op, o.v)))
    [] x.e = "ite" ->
         Then(Eval(x.cond, r), LAMBDA c : Eval(IF c.v # 0 THEN x.then ELSE x.else, c))
    [] x.e = "binary" ->
         (CASE IsClockPredicate(x) -> Constraint(x.left, RefClockVariable, x.op, x.right, r)
            [] IsDiagonal(x) -> Constraint(x.left.left, x.left.right, x.op, x.right, r)
            [] OTHER ->
                 Then(Eval(x.left, r), LAMBDA a :
                   IF x.op = "&&" /\ a.v = 0 THEN a
                   ELSE Then(Eval(x.right, a), LAMBDA b :
                          IF x.op = "&&" THEN b ELSE Combined(x.op, a.v, b))))

(* Statements.                                                             *)
Store(r, name, offset, v) ==
  IF IsLocal(r, name) THEN [r EXCEPT !.scopes[ScopeOf(r, name)][name][offset] = v]
  ELSE [r EXCEPT !.ints[IntVariables[name].id + offset] = v]

InBounds(r, name, v) ==
  \/ IsLocal(r, name)
  \/ v \in IntVariables[name].min .. IntVariables[name].max

AssignInt(x, r) ==
  Then(Offset(x.lvalue, r), LAMBDA o :
    Then(Eval(x.rvalue, o), LAMBDA w :
      IF InBounds(w, x.lvalue.name, w.v) THEN Store(w, x.lvalue.name, o.v, w.v)
      ELSE Raise(w, "out_of_range")))

(* x := value, x := y, or x := value + y.                                  *)
AssignClock(x, r) ==
  LET copied == IsClock(x.rvalue)
      shifted == x.rvalue.e = "binary" /\ IsClock(x.rvalue.right)
  IN ClocksAndValue(x.lvalue,
       IF copied THEN x.rvalue ELSE IF shifted THEN x.rvalue.right ELSE RefClockVariable,
       IF copied THEN Num0 ELSE IF shifted THEN x.rvalue.left ELSE x.rvalue,
       r, LAMBDA i, j, c : [c EXCEPT !.rs = Append(@, clock_reset(i, j, c.v))])

(* Declare a local in the innermost scope.  The machine cannot initialise  *)
(* one with a negative value: it reads the value as an identifier.         *)
DeclareLocal(x, r) ==
  Then(Eval(x.init, r), LAMBDA w :
    LET first == IF x.s = "local" THEN w.v ELSE 0
    IN IF first < 0 THEN Raise(w, "runtime_error")
       ELSE [w EXCEPT !.scopes[Len(w.scopes)] = x.name :> [i \in 0 .. x.size - 1 |-> first] @@ @])

RECURSIVE Exec(_, _)

(* A block has a scope of its own.                                         *)
Block(x, r) ==
  Then(Exec(x, [r EXCEPT !.scopes = Append(@, <<>>)]), LAMBDA w : [w EXCEPT !.scopes = Front(@)])

Exec(x, r) ==
  CASE x.s = "nop" -> r
    [] x.s = "assign" -> IF IsClock(x.lvalue) THEN AssignClock(x, r) ELSE AssignInt(x, r)
    [] x.s = "seq" -> Then(Exec(x.first, r), LAMBDA w : Exec(x.second, w))
    [] x.s = "if" ->
         Then(Eval(x.cond, r), LAMBDA c : Block(IF c.v # 0 THEN x.then ELSE x.else, c))
    [] x.s = "while" ->
         Then(Eval(x.cond, r), LAMBDA c :
           IF c.v = 0 THEN c ELSE Then(Block(x.body, c), LAMBDA w : Exec(x, w)))
    [] x.s \in {"local", "localarray"} -> DeclareLocal(x, r)

Meaning(term, ints) ==
  LET r == Result("returned", 0, ints, <<>>, <<>>, <<>>)
      w == IF IsStatement(term) THEN Block(term, r) ELSE Eval(term, r)
  IN IF IsStatement(term) /\ Ok(w) THEN Give(w, 1) ELSE w

------------------------------------------------------------------------------
(***************************************************************************)
(* Properties.                                                             *)
(***************************************************************************)
Finished == outcome \notin {"idle", "running"}

(* Bytecode boundaries: the indices where an instruction starts.           *)
Length(name) ==
  CASE name \in {"PUSH", "JMP", "JMPZ", "CLKCONSTR"} -> 2 [] name = "FAILNOTIN" -> 3 [] OTHER -> 1
RECURSIVE Starts(_)
Starts(i) ==
  IF i > Len(code) THEN {} ELSE {i} \cup Starts(i + Length(instruction_t[code[i] + 1]))

Operands(name) ==
  CASE name \in {"PUSH", "JMP", "NOP", "PUSH_FRAME", "POP_FRAME"} -> 0
    [] name \in {"CLKCONSTR", "CLKRESET"} -> 3
    [] name \in {"RET", "FAILNOTIN", "JMPZ", "VALUEAT", "NEG", "LNOT", "VALUEAT_FRAME"} -> 1
    [] OTHER -> 2

(* Jumps stay inside the program and land on instructions, every           *)
(* instruction finds its operands on the stack, a frame is there to be     *)
(* popped or filled, identifiers fall in the valuation, and a run returns  *)
(* with nothing else on the stack, as vm_t asserts (vm.hh:229).            *)
MachineSound ==
  outcome = "running" =>
    /\ ip \in Starts(1)
    /\ LET name == instruction_t[code[ip] + 1]
       IN /\ Len(stack) >= Operands(name)
          /\ name = "RET" => Len(stack) = 1
          /\ name \in {"POP_FRAME", "INIT_FRAME"} => Len(frames) > Len(start.frames)
          /\ name = "VALUEAT" => Top(0) \in DOMAIN intval
          /\ name = "ASSIGN" => Top(1) \in DOMAIN intval

(* A run does what its term means: it ends the same way and, when it       *)
(* returns, it leaves the same valuation, constraints, resets and value,   *)
(* whatever frames the runs that threw before it left behind, which it     *)
(* finds again at its end.                                                 *)
RunsMeanTheirTerms ==
  Finished =>
    LET m == Meaning(start.term, start.intval)
    IN /\ outcome = m.end
       /\ Ok(m) => /\ intval = m.ints /\ clkconstr = m.cs /\ clkreset = m.rs
                   /\ eval = m.v /\ frames = start.frames

(* The variables a run touches are among those the static analyses report  *)
(* for its term, which decide which processes depend on one another and    *)
(* what a bound on clocks must account for.  The analyses reject terms     *)
(* with local variables, so those are left aside.                          *)
AccessesDeclared ==
  outcome = "running" /\ (\A i \in Starts(1) : code[i] # VM("PUSH_FRAME")) =>
    LET statement == IsStatement(program)
        read == IF statement THEN extract_read_variables(program) ELSE extract_variables(program)
        written == IF statement THEN extract_written_variables(program) ELSE {}
        known == read \cup {<<"clock", RefClock>>}
    IN /\ At({"VALUEAT"}) => <<"int", Top(0)>> \in read
       /\ At({"ASSIGN"}) => <<"int", Top(1)>> \in written
       /\ At({"CLKCONSTR"}) => {<<"clock", Top(1)>>, <<"clock", Top(2)>>} \subseteq known
       /\ At({"CLKRESET"}) => <<"clock", Top(2)>> \in written /\ <<"clock", Top(1)>> \in known

(* Every run ends: the loops of the instance terminate, and vm_t::run      *)
(* executes instructions until one returns or throws.                      *)
RunsEnd == (outcome = "running") ~> (outcome # "running")
==============================================================================
