---------------------------- MODULE VirtualMachine ---------------------------
(***************************************************************************)
(* Compilation of typed expressions and statements into bytecode: a flat   *)
(* sequence of integers in which an instruction is followed by its         *)
(* parameters, a jump being relative to the instruction that follows it;   *)
(* and the machine that runs the bytecode of guards, invariants and        *)
(* updates.                                                                *)
(*                                                                         *)
(* One machine serves a whole exploration: the caller loads a program with *)
(* a valuation of the integer variables and takes what the run leaves: the *)
(* valuation, the clock constraints, the clock resets, and the value       *)
(* returned.  A step executes one instruction.  A run that throws leaves   *)
(* an empty stack, but the frames of its local variables stay in the       *)
(* machine for the runs that follow.                                       *)
(***************************************************************************)
EXTENDS TypedLanguage

CONSTANT RefClock    \* identifier of the clock that is always 0

instruction_t ==
  <<"RET", "RETZ", "FAILNOTIN", "JMP", "JMPZ", "PUSH", "VALUEAT", "ASSIGN", "LAND", "MINUS",
    "DIV", "EQ", "GE", "GT", "LT", "LE", "MUL", "MOD", "NE", "SUM", "NEG", "LNOT", "CLKCONSTR",
    "CLKRESET", "PUSH_FRAME", "POP_FRAME", "VALUEAT_FRAME", "ASSIGN_FRAME", "INIT_FRAME", "NOP">>

VM(name) == (CHOOSE i \in DOMAIN instruction_t : instruction_t[i] = name) - 1

operator_to_instruction ==
  "&&" :> "LAND" @@ "<" :> "LT" @@ "<=" :> "LE" @@ "==" :> "EQ" @@ "!=" :> "NE" @@ ">=" :> "GE"
    @@ ">" :> "GT" @@ "-" :> "MINUS" @@ "+" :> "SUM" @@ "*" :> "MUL" @@ "/" :> "DIV"
    @@ "%" :> "MOD" @@ "neg" :> "NEG" @@ "!" :> "LNOT"

Zero == typed_int_expression(0)
RefClockVariable == typed_var_expression("CLKVAR", RefClock, 1)

LT == 0
LE == 1

(* Mutant: the conditional jump lands on the jump over else.              *)
ChoiceFallsThrough(cond, then, else) ==
  cond \o <<VM("JMPZ"), Len(then)>> \o then \o <<VM("JMP"), Len(else)>> \o else

(* Code for a choice between two pieces of code.                           *)
Choice(cond, then, else) ==
  cond \o <<VM("JMPZ"), Len(then) + 2>> \o then \o <<VM("JMP"), Len(else)>> \o else

RECURSIVE LValue(_), RValue(_)

LValue(x) ==
  CASE x.e = "var" -> <<VM("PUSH"), x.id>>
    [] x.e = "array" ->
         <<VM("PUSH"), x.variable.id>> \o RValue(x.offset)
           \o <<VM("FAILNOTIN"), 0, x.variable.size - 1, VM("SUM")>>

compile_clock_constraint(first, second, cmp, bound) ==
  LValue(first) \o LValue(second) \o bound \o <<VM("CLKCONSTR"), cmp, VM("PUSH"), 1>>

compile_clock_predicate(clock1, clock2, op, bound) ==
  LET neg == bound \o <<VM("NEG")>>
  IN CASE op = "<" -> compile_clock_constraint(clock1, clock2, LT, bound)
       [] op = "<=" -> compile_clock_constraint(clock1, clock2, LE, bound)
       [] op = ">=" -> compile_clock_constraint(clock2, clock1, LE, neg)
       [] op = ">" -> compile_clock_constraint(clock2, clock1, LT, neg)
       [] op = "==" ->
            compile_clock_constraint(clock1, clock2, LE, bound)
              \o compile_clock_constraint(clock2, clock1, LE, neg) \o <<VM("LAND")>>

RValue(x) ==
  CASE x.e \in {"var", "array"} ->
         Append(LValue(x), VM(IF x.type \in Local THEN "VALUEAT_FRAME" ELSE "VALUEAT"))
    [] x.e = "int" -> <<VM("PUSH"), x.value>>
    [] x.e = "par" -> RValue(x.expr)
    [] x.type = "CLKCONSTR_SIMPLE" ->
         LET d == typed_simple_clkconstr(x)
         IN compile_clock_predicate(d.clock, RefClockVariable, x.op, RValue(d.bound))
    [] x.type = "CLKCONSTR_DIAGONAL" ->
         LET d == typed_diagonal_clkconstr(x)
         IN compile_clock_predicate(d.first_clock, d.second_clock, x.op, RValue(d.bound))
    [] x.type = "CONJUNCTIVE_FORMULA" ->
         Choice(RValue(x.left), RValue(x.right), RValue(Zero))
    [] x.e = "binary" /\ x.type \notin {"CLKCONSTR_SIMPLE", "CLKCONSTR_DIAGONAL",
                                        "CONJUNCTIVE_FORMULA"} ->
         RValue(x.left) \o RValue(x.right) \o <<VM(operator_to_instruction[x.op])>>
    [] x.e = "unary" -> Append(RValue(x.expr), VM(operator_to_instruction[x.op]))
    [] x.e = "ite" -> Choice(RValue(x.cond), RValue(x.then), RValue(x.else))

(***************************************************************************)
(* Statements.  Those with local declarations run in a frame of their own. *)
(***************************************************************************)
(* Mutant: the two clocks of a reset are swapped.                                    *)
ClockResetSwapped(lvalue, int_rvalue, clock_rvalue) ==
  LValue(clock_rvalue) \o LValue(lvalue) \o int_rvalue \o <<VM("CLKRESET")>>

compile_clock_reset(lvalue, int_rvalue, clock_rvalue) ==
  LValue(lvalue) \o LValue(clock_rvalue) \o int_rvalue \o <<VM("CLKRESET")>>

variable_bounds(x) ==
  LET v == IF x.e = "var" THEN x ELSE x.variable IN <<v.min, v.max>>

compile_int_assign(lvalue, rvalue) ==
  LValue(lvalue) \o RValue(rvalue) \o <<VM("FAILNOTIN")>> \o variable_bounds(lvalue)
    \o <<VM(IF lvalue.type \in Local THEN "ASSIGN_FRAME" ELSE "ASSIGN")>>

(* Mutant: the loop jumps back to its body and not to its test.        *)
LoopsWithoutTest(cond, body) ==
  cond \o <<VM("JMPZ"), Len(body) + 2>> \o body \o <<VM("JMP"), -(Len(body) + 2)>>

compile_while(cond, body) ==
  cond \o <<VM("JMPZ"), Len(body) + 2>> \o body
    \o <<VM("JMP"), -(Len(cond) + 2 + Len(body) + 2)>>

InFrame(x, code) ==
  IF has_local_declarations(x)
  THEN <<VM("PUSH_FRAME")>> \o code \o <<VM("POP_FRAME")>> ELSE code

RECURSIVE InitArray(_, _)
InitArray(id, size) ==
  IF size = 0 THEN <<>>
  ELSE <<VM("PUSH"), id, VM("PUSH"), 0, VM("INIT_FRAME")>> \o InitArray(id + 1, size - 1)

RECURSIVE StatementCode(_)
StatementCode(x) ==
  CASE x.s = "nop" -> <<VM("NOP")>>
    [] x.s = "assign" ->
         (CASE x.type = "INTASSIGN" -> compile_int_assign(x.lvalue, x.rvalue)
            [] x.type = "CLKASSIGN_INT" ->
                 LET d == typed_int_to_clock_assign(x)
                 IN compile_clock_reset(d.clock, RValue(d.value), RefClockVariable)
            [] x.type = "CLKASSIGN_CLK" ->
                 LET d == typed_clock_to_clock_assign(x)
                 IN compile_clock_reset(d.lclock, RValue(Zero), d.rclock)
            [] x.type = "CLKASSIGN_SUM" ->
                 LET d == typed_sum_to_clock_assign(x)
                 IN compile_clock_reset(d.lclock, RValue(d.value), d.rclock))
    [] x.s = "seq" -> StatementCode(x.first) \o StatementCode(x.second)
    [] x.s = "if" ->
         Choice(RValue(x.cond), InFrame(x.then, StatementCode(x.then)),
                InFrame(x.else, StatementCode(x.else)))
    [] x.s = "while" -> compile_while(RValue(x.cond), InFrame(x.body, StatementCode(x.body)))
    [] x.s = "local" ->
         LValue(x.variable) \o RValue(x.init) \o <<VM("INIT_FRAME")>>
    [] x.s = "localarray" -> InitArray(x.variable.id, x.variable.size)

CompileExpression(x) == Append(RValue(x), VM("RET"))
CompileStatement(x) == InFrame(x, StatementCode(x)) \o <<VM("PUSH"), 1, VM("RET")>>

-------------------------------------------------------------------------------
CONSTANTS
  Programs,      \* terms; a guard has a field e, an update a field s
  Valuations,    \* functions from the flat identifiers to values
  MaxFrames      \* bound on the frames left by runs that threw

VARIABLES
  program,       \* the typed term that runs or ran last
  code,          \* its bytecode
  ip,            \* index in code of the next instruction
  stack,
  frames,        \* of local variables, innermost last: identifier -> value
  intval,        \* identifier -> value
  clkconstr,     \* constraints output
  clkreset,      \* resets output
  outcome,       \* "idle", "running", or how the last run ended
  eval,          \* the value the last run returned
  start          \* the term, the valuation and the frames of the current run

machine == <<program, code>>
outputs == <<intval, clkconstr, clkreset>>
vars == <<program, code, ip, stack, frames, intval, clkconstr, clkreset, outcome, eval, start>>

NoProgram == typed_nop_statement

NoRun == [term |-> nop_statement, intval |-> <<>>, frames |-> <<>>]

(* Between runs the machine holds nothing but frames.                      *)
Init ==
  /\ program = NoProgram /\ code = <<>> /\ ip = 1 /\ stack = <<>> /\ frames = <<>>
  /\ intval = <<>> /\ clkconstr = <<>> /\ clkreset = <<>>
  /\ outcome = "idle" /\ eval = 0 /\ start = NoRun

IsStatement(x) == "s" \in DOMAIN x

(* The caller of run checks and compiles a term once, and passes a         *)
(* valuation and empty containers.                                         *)
Load(term) ==
  \E typed \in {IF IsStatement(term) THEN TypedStatement(term, NoLocals).stmt
                ELSE Typed(term, NoLocals)} :
     /\ outcome = "idle" /\ Len(frames) <= MaxFrames
     /\ IF IsStatement(term) THEN typed.ok ELSE typed.type \in bool_valued
     /\ program' = typed
     /\ code' = IF IsStatement(term) THEN CompileStatement(typed) ELSE CompileExpression(typed)
     /\ intval' \in Valuations
     /\ clkconstr' = <<>> /\ clkreset' = <<>>
     /\ ip' = 1 /\ outcome' = "running"
     /\ start' = [term |-> term, intval |-> intval', frames |-> frames]
     /\ UNCHANGED <<stack, frames, eval>>

(***************************************************************************)
(* Instructions.                                                           *)
(***************************************************************************)
At(names) == outcome = "running" /\ instruction_t[code[ip] + 1] \in names

Parameter(k) == code[ip + k]
Top(k) == stack[Len(stack) - k]
Under(n) == SubSeq(stack, 1, Len(stack) - n)

Goes(k) == ip' = ip + k

(* The catch of run: the stack is cleared and the exception leaves it.     *)
Throw(kind) ==
  /\ outcome' = kind /\ stack' = <<>>
  /\ UNCHANGED <<ip, frames, outputs, eval>>

Continue == UNCHANGED <<outcome, eval>>

Return ==
  /\ At({"RET"})
  /\ eval' = Top(0) /\ stack' = <<>> /\ outcome' = "returned"
  /\ UNCHANGED <<ip, frames, outputs>>

FailNotIn ==
  /\ At({"FAILNOTIN"})
  /\ IF Top(0) < Parameter(1) \/ Top(0) > Parameter(2) THEN Throw("out_of_range")
     ELSE Goes(3) /\ Continue /\ UNCHANGED <<stack, frames, outputs>>

Jump ==
  /\ At({"JMP"})
  /\ Goes(2 + Parameter(1)) /\ Continue /\ UNCHANGED <<stack, frames, outputs>>

JumpIfZero ==
  /\ At({"JMPZ"})
  /\ Goes(IF Top(0) = 0 THEN 2 + Parameter(1) ELSE 2)
  /\ stack' = Under(1) /\ Continue /\ UNCHANGED <<frames, outputs>>

Push ==
  /\ At({"PUSH"})
  /\ stack' = Append(stack, Parameter(1)) /\ Goes(2) /\ Continue /\ UNCHANGED <<frames, outputs>>

ValueAt ==
  /\ At({"VALUEAT"})
  /\ stack' = Append(Under(1), intval[Top(0)])
  /\ Goes(1) /\ Continue /\ UNCHANGED <<frames, outputs>>

Assign ==
  /\ At({"ASSIGN"})
  /\ intval' = [intval EXCEPT ![Top(1)] = Top(0)]
  /\ stack' = Under(2) /\ Goes(1) /\ Continue /\ UNCHANGED <<frames, clkconstr, clkreset>>

Operator(name) ==
  CHOOSE op \in DOMAIN operator_to_instruction : operator_to_instruction[op] = name

Binary ==
  /\ At({"LAND", "MINUS", "DIV", "EQ", "GE", "GT", "LT", "LE", "MUL", "MOD", "NE", "SUM"})
  /\ LET op == Operator(instruction_t[code[ip] + 1])
     IN IF op \in {"/", "%"} /\ Top(0) = 0 THEN Throw("killed")
        ELSE /\ stack' = Append(Under(2), Computed(op, Top(1), Top(0)))
             /\ Goes(1) /\ Continue /\ UNCHANGED <<frames, outputs>>

Unary ==
  /\ At({"NEG", "LNOT"})
  /\ stack' = Append(Under(1), Negated(Operator(instruction_t[code[ip] + 1]), Top(0)))
  /\ Goes(1) /\ Continue /\ UNCHANGED <<frames, outputs>>

Nop == At({"NOP"}) /\ Goes(1) /\ Continue /\ UNCHANGED <<stack, frames, outputs>>

(* id1 - id2 < or <= value: simple if one of the clocks is the reference.  *)
clock_constraint(id1, id2, comparator, value) ==
  [id1 |-> id1, id2 |-> id2, comparator |-> comparator, value |-> value]

(* left_id := right_id + value.                                            *)
clock_reset(left_id, right_id, value) ==
  [left_id |-> left_id, right_id |-> right_id, value |-> value]

ClockConstraint ==
  /\ At({"CLKCONSTR"})
  /\ clkconstr' = Append(clkconstr, clock_constraint(Top(2), Top(1), Parameter(1), Top(0)))
  /\ stack' = Under(3) /\ Goes(2) /\ Continue /\ UNCHANGED <<frames, intval, clkreset>>

ClockReset ==
  /\ At({"CLKRESET"})
  /\ clkreset' = Append(clkreset, clock_reset(Top(2), Top(1), Top(0)))
  /\ stack' = Under(3) /\ Goes(1) /\ Continue /\ UNCHANGED <<frames, intval, clkconstr>>

PushFrame ==
  /\ At({"PUSH_FRAME"})
  /\ frames' = Append(frames, <<>>) /\ Goes(1) /\ Continue /\ UNCHANGED <<stack, outputs>>

PopFrame ==
  /\ At({"POP_FRAME"})
  /\ frames' = SubSeq(frames, 1, Len(frames) - 1)
  /\ Goes(1) /\ Continue /\ UNCHANGED <<stack, outputs>>

Holding(id) == {k \in DOMAIN frames : id \in DOMAIN frames[k]}
slot_of(id) == CHOOSE k \in Holding(id) : \A j \in Holding(id) : j <= k

ValueAtFrame ==
  /\ At({"VALUEAT_FRAME"})
  /\ IF Holding(Top(0)) = {} THEN Throw("out_of_range")
     ELSE /\ stack' = Append(Under(1), frames[slot_of(Top(0))][Top(0)])
          /\ Goes(1) /\ Continue /\ UNCHANGED <<frames, outputs>>

AssignFrame ==
  /\ At({"ASSIGN_FRAME"})
  /\ IF Holding(Top(1)) = {} THEN Throw("out_of_range")
     ELSE /\ frames' = [frames EXCEPT ![slot_of(Top(1))][Top(1)] = Top(0)]
          /\ stack' = Under(2) /\ Goes(1) /\ Continue /\ UNCHANGED outputs

(* The value is popped with the type of an identifier, which has no sign.  *)
InitFrame ==
  /\ At({"INIT_FRAME"})
  /\ IF Top(0) < 0 THEN Throw("runtime_error")
     ELSE /\ frames' = [frames EXCEPT ![Len(frames)] = Top(1) :> Top(0) @@ @]
          /\ stack' = Under(2) /\ Goes(1) /\ Continue /\ UNCHANGED outputs

Step ==
  /\ \/ Return \/ FailNotIn \/ Jump \/ JumpIfZero \/ Push \/ ValueAt \/ Assign
     \/ Binary \/ Unary \/ Nop \/ ClockConstraint \/ ClockReset
     \/ PushFrame \/ PopFrame \/ ValueAtFrame \/ AssignFrame \/ InitFrame
  /\ UNCHANGED <<program, code, start>>

(* The caller takes what the run left.  A division by zero kills the       *)
(* process instead.                                                        *)
Take ==
  /\ outcome \notin {"idle", "running", "killed"}
  /\ program' = NoProgram /\ code' = <<>> /\ ip' = 1 /\ stack' = <<>>
  /\ intval' = <<>> /\ clkconstr' = <<>> /\ clkreset' = <<>>
  /\ outcome' = "idle" /\ eval' = 0 /\ start' = NoRun
  /\ UNCHANGED frames

Next == Step \/ Take \/ \E term \in Programs : Load(term)

Spec == Init /\ [][Next]_vars /\ WF_vars(Step)
===============================================================================
