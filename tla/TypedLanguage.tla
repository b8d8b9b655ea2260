---------------------------- MODULE TypedLanguage ----------------------------
(***************************************************************************)
(* The expressions and statements of guards, invariants and updates, their *)
(* typechecking, and what the static analyses of tchecker report of them.  *)
(*                                                                         *)
(* A term is a tagged record: field e tells the kind of an expression and  *)
(* field s the kind of a statement.  Typechecking decorates each           *)
(* expression with its type and each variable with its identifier, its     *)
(* size and its bounds.  Integer variables and clocks are arrays, flat     *)
(* in one numbering each; a scalar is an array of size 1.                  *)
(***************************************************************************)
EXTENDS Integers, Sequences, FiniteSets, TLC

CONSTANTS
  IntVariables,    \* name -> [id, size, min, max]
  ClockVariables,  \* name -> [id, size]
  IntMin, IntMax   \* the bounds of a local variable

(***************************************************************************)
(* Terms, as the parsers of expressions and programs build them.  The      *)
(* field init of a local array is its size, an integer constant here.      *)
(***************************************************************************)
int_expression(v) == [e |-> "int", value |-> v]
var_expression(name) == [e |-> "var", name |-> name]
array_expression(name, offset) == [e |-> "array", name |-> name, offset |-> offset]
par_expression(x) == [e |-> "par", expr |-> x]
unary_expression(op, x) == [e |-> "unary", op |-> op, expr |-> x]
binary_expression(op, l, r) == [e |-> "binary", op |-> op, left |-> l, right |-> r]
ite_expression(c, t, u) == [e |-> "ite", cond |-> c, then |-> t, else |-> u]

nop_statement == [s |-> "nop"]
assign_statement(l, r) == [s |-> "assign", lvalue |-> l, rvalue |-> r]
sequence_statement(f, g) == [s |-> "seq", first |-> f, second |-> g]
if_statement(c, t, u) == [s |-> "if", cond |-> c, then |-> t, else |-> u]
while_statement(c, b) == [s |-> "while", cond |-> c, body |-> b]
local_var_statement(name, x) == [s |-> "local", name |-> name, size |-> 1, init |-> x]
local_array_statement(name, size) ==
  [s |-> "localarray", name |-> name, size |-> size.value, init |-> size]

(***************************************************************************)
(* Types of expressions.                                                   *)
(***************************************************************************)
IntegerVariable == {"INTVAR", "INTARRAY"}
LocalVariable == {"LOCALINTVAR", "LOCALINTARRAY"}
ClockVariable == {"CLKVAR", "CLKARRAY"}
Local == {"LOCALINTVAR", "LOCALINTARRAY", "LOCALINTLVALUE"}
integer_assignable == {"INTVAR", "INTLVALUE", "LOCALINTVAR", "LOCALINTLVALUE"}
integer_valued == integer_assignable \cup {"INTTERM"}
clock_valued == {"CLKVAR", "CLKLVALUE"}
bool_valued == integer_valued \cup
  {"CLKCONSTR_SIMPLE", "CLKCONSTR_DIAGONAL", "ATOMIC_PREDICATE", "CONJUNCTIVE_FORMULA"}

predicate == {"<", "<=", "==", "!=", ">=", ">"}

type_binary(op, l, r) ==
  CASE op = "&&" /\ {l, r} \subseteq bool_valued -> "CONJUNCTIVE_FORMULA"
    [] op \in predicate /\ {l, r} \subseteq integer_valued -> "ATOMIC_PREDICATE"
    [] op \in predicate \ {"!="} /\ l \in clock_valued /\ r \in integer_valued ->
         "CLKCONSTR_SIMPLE"
    [] op \in predicate \ {"!="} /\ l = "CLKDIFF" /\ r \in integer_valued ->
         "CLKCONSTR_DIAGONAL"
    [] op \in {"+", "-", "*", "/", "%"} /\ {l, r} \subseteq integer_valued -> "INTTERM"
    [] op = "+" /\ l \in integer_valued /\ r \in clock_valued -> "INTCLKSUM"
    [] op = "-" /\ {l, r} \subseteq clock_valued -> "CLKDIFF"
    [] OTHER -> "BAD"

type_unary(op, t) ==
  CASE op = "neg" /\ t \in integer_valued -> "INTTERM"
    [] op = "!" /\ t \in integer_valued \cup {"ATOMIC_PREDICATE"} -> "ATOMIC_PREDICATE"
    [] OTHER -> "BAD"

type_ite(c, t, u) ==
  IF c \in bool_valued /\ {t, u} \subseteq integer_valued THEN "INTTERM" ELSE "BAD"

type_assign(l, r) ==
  CASE l \in integer_assignable /\ r \in integer_valued -> "INTASSIGN"
    [] l \in clock_valued /\ r \in integer_valued -> "CLKASSIGN_INT"
    [] l \in clock_valued /\ r \in clock_valued -> "CLKASSIGN_CLK"
    [] l \in clock_valued /\ r = "INTCLKSUM" -> "CLKASSIGN_SUM"
    [] OTHER -> "BAD"

(***************************************************************************)
(* Scopes: the local variables declared so far, with their identifiers,    *)
(* and the next free identifier.                                           *)
(***************************************************************************)
NoLocals == [vars |-> <<>>, next |-> 0]

Declare(scope, name, size) ==
  [vars |-> name :> [id |-> scope.next, size |-> size, min |-> IntMin, max |-> IntMax]
              @@ scope.vars,
   next |-> scope.next + size]

(* Typed variables.  Only integer variables have bounds.                   *)
typed_var_expression(type, id, size) == [e |-> "var", type |-> type, id |-> id, size |-> size]
typed_bounded_var_expression(type, info) ==
  [min |-> info.min, max |-> info.max] @@ typed_var_expression(type, info.id, info.size)

typecheck_variable(name, scope) ==
  LET type(info, kind, array) == IF info.size > 1 THEN array ELSE kind
      bounded(info, kind, array) == typed_bounded_var_expression(type(info, kind, array), info)
      clock(info) == typed_var_expression(type(info, "CLKVAR", "CLKARRAY"), info.id, info.size)
  IN IF name \in DOMAIN scope.vars
     THEN bounded(scope.vars[name], "LOCALINTVAR", "LOCALINTARRAY")
     ELSE IF name \in DOMAIN IntVariables
     THEN bounded(IntVariables[name], "INTVAR", "INTARRAY")
     ELSE IF name \in DOMAIN ClockVariables THEN clock(ClockVariables[name])
     ELSE typed_var_expression("BAD", 0, 1)

type_array(v, offset) ==
  IF offset \notin integer_valued THEN "BAD"
  ELSE CASE v \in LocalVariable -> "LOCALINTLVALUE"
         [] v \in IntegerVariable -> "INTLVALUE"
         [] v \in ClockVariable -> "CLKLVALUE"
         [] OTHER -> "BAD"

(* Typed nodes, from typed operands.                                       *)
typed_int_expression(v) == [e |-> "int", type |-> "INTTERM", value |-> v]
typed_array_expression(v, o) ==
  [e |-> "array", type |-> type_array(v.type, o.type), variable |-> v, offset |-> o]
typed_par_expression(y) == [e |-> "par", type |-> y.type, expr |-> y]
typed_unary_expression(op, y) == [e |-> "unary", type |-> type_unary(op, y.type), op |-> op, expr |-> y]
typed_binary_expression(op, l, r) ==
  [e |-> "binary", type |-> type_binary(op, l.type, r.type), op |-> op, left |-> l, right |-> r]
typed_ite_expression(c, t, u) ==
  [e |-> "ite", type |-> type_ite(c.type, t.type, u.type), cond |-> c, then |-> t, else |-> u]

RECURSIVE Typed(_, _)
Typed(x, scope) ==
  CASE x.e = "int" -> typed_int_expression(x.value)
    [] x.e = "var" -> typecheck_variable(x.name, scope)
    [] x.e = "array" -> typed_array_expression(typecheck_variable(x.name, scope), Typed(x.offset, scope))
    [] x.e = "par" -> typed_par_expression(Typed(x.expr, scope))
    [] x.e = "unary" -> typed_unary_expression(x.op, Typed(x.expr, scope))
    [] x.e = "binary" -> typed_binary_expression(x.op, Typed(x.left, scope), Typed(x.right, scope))
    [] x.e = "ite" ->
         typed_ite_expression(Typed(x.cond, scope), Typed(x.then, scope), Typed(x.else, scope))

(***************************************************************************)
(* Typechecking of a statement: the typed statement and the scope after    *)
(* it.  A loop forgets the declarations of its body; a branch of a         *)
(* conditional does not.                                                   *)
(***************************************************************************)
Typing(stmt, scope) == [stmt |-> stmt, scope |-> scope]

typed_assign_statement(l, r) ==
  LET t == type_assign(l.type, r.type)
  IN [s |-> "assign", ok |-> t # "BAD", type |-> t, lvalue |-> l, rvalue |-> r]
typed_sequence_statement(f, g) == [s |-> "seq", ok |-> f.ok /\ g.ok, first |-> f, second |-> g]
typed_if_statement(c, t, u) ==
  [s |-> "if", ok |-> c.type \in bool_valued /\ t.ok /\ u.ok, cond |-> c, then |-> t, else |-> u]
typed_while_statement(c, b) ==
  [s |-> "while", ok |-> c.type \in bool_valued /\ b.ok, cond |-> c, body |-> b]

typed_nop_statement == [s |-> "nop", ok |-> TRUE]
typed_local_var_statement(ok, v, i) == [s |-> "local", ok |-> ok, variable |-> v, init |-> i]
typed_local_array_statement(ok, v, i) == [s |-> "localarray", ok |-> ok, variable |-> v, init |-> i]

(* The parts of a clock constraint and of an assignment to a clock.        *)
typed_simple_clkconstr(x) == [clock |-> x.left, bound |-> x.right]
typed_diagonal_clkconstr(x) ==
  [first_clock |-> x.left.left, second_clock |-> x.left.right, bound |-> x.right]
typed_int_to_clock_assign(x) == [clock |-> x.lvalue, value |-> x.rvalue]
typed_clock_to_clock_assign(x) == [lclock |-> x.lvalue, rclock |-> x.rvalue]
typed_sum_to_clock_assign(x) ==
  [lclock |-> x.lvalue, rclock |-> x.rvalue.right, value |-> x.rvalue.left]

TypedLocal(x, scope, fresh) ==
  LET inner == IF fresh THEN Declare(scope, x.name, x.size) ELSE scope
      variable == typecheck_variable(x.name, inner)
      init == Typed(x.init, inner)
      ok == fresh /\ init.type \in integer_valued
  IN Typing(IF x.s = "local" THEN typed_local_var_statement(ok, variable, init)
            ELSE typed_local_array_statement(ok, variable, init), inner)

RECURSIVE TypedStatement(_, _)

(* Two statements, the second in the scope that the first one leaves.      *)
Chained(x, y, scope, Node(_, _)) ==
  LET after(f) == LET both(g) == Typing(Node(f.stmt, g.stmt), g.scope)
                  IN both(TypedStatement(y, f.scope))
  IN after(TypedStatement(x, scope))

TypedStatement(x, scope) ==
  CASE x.s = "nop" -> Typing(typed_nop_statement, scope)
    [] x.s = "assign" -> Typing(typed_assign_statement(Typed(x.lvalue, scope), Typed(x.rvalue, scope)), scope)
    [] x.s = "seq" -> Chained(x.first, x.second, scope, typed_sequence_statement)
    [] x.s = "if" ->
         Chained(x.then, x.else, scope, LAMBDA t, u : typed_if_statement(Typed(x.cond, scope), t, u))
    [] x.s = "while" ->
         Typing(typed_while_statement(Typed(x.cond, scope), TypedStatement(x.body, scope).stmt), scope)
    [] x.s \in {"local", "localarray"} ->
         TypedLocal(x, scope, x.name \notin DOMAIN scope.vars \cup DOMAIN IntVariables)

-------------------------------------------------------------------------------
(***************************************************************************)
(* What the rest of the model checker is told of a typed term without      *)
(* running it: the value of a constant expression, the variables a         *)
(* statement may read and may write, and whether it declares locals.       *)
(***************************************************************************)

Bool(b) == IF b THEN 1 ELSE 0

Abs(v) == IF v < 0 THEN -v ELSE v
(* Division of the host: it truncates towards zero.                        *)
Quotient(l, r) ==
  IF (l < 0) = (r < 0) THEN Abs(l) \div Abs(r) ELSE -(Abs(l) \div Abs(r))

Computed(op, l, r) ==
  CASE op = "&&" -> Bool(l # 0 /\ r # 0)
    [] op = "<" -> Bool(l < r)
    [] op = "<=" -> Bool(l <= r)
    [] op = "==" -> Bool(l = r)
    [] op = "!=" -> Bool(l # r)
    [] op = ">=" -> Bool(l >= r)
    [] op = ">" -> Bool(l > r)
    [] op = "-" -> l - r
    [] op = "+" -> l + r
    [] op = "*" -> l * r
    [] op = "/" -> Quotient(l, r)
    [] op = "%" -> l - r * Quotient(l, r)

Negated(op, v) == IF op = "neg" THEN -v ELSE Bool(v = 0)

(* The value of a constant expression, in a sequence; <<>> of any other.    *)
RECURSIVE const_evaluate(_)
const_evaluate(x) ==
  CASE x.e = "int" -> <<x.value>>
    [] x.e \in {"var", "array"} -> <<>>
    [] x.e = "par" -> const_evaluate(x.expr)
    [] x.e = "unary" ->
         LET v == const_evaluate(x.expr)
         IN IF v = <<>> THEN <<>> ELSE <<Negated(x.op, v[1])>>
    [] x.e = "binary" ->
         LET l == const_evaluate(x.left)
             r == const_evaluate(x.right)
         IN IF l = <<>> \/ r = <<>> THEN <<>> ELSE <<Computed(x.op, l[1], r[1])>>
    [] x.e = "ite" ->
         LET c == const_evaluate(x.cond)
         IN IF c = <<>> THEN <<>>
            ELSE IF c[1] # 0 THEN const_evaluate(x.then) ELSE const_evaluate(x.else)

Kind(v) == IF v.type \in ClockVariable THEN "clock" ELSE "int"
Ids(v) == v.id .. v.id + v.size - 1

(* Mutant: an offset that is not known is taken for 0. *)
FirstCellOnly(x) ==
  LET v == IF x.e = "var" THEN x ELSE x.variable
      o == IF x.e = "var" THEN <<>> ELSE const_evaluate(x.offset)
      cell == IF o # <<>> /\ o[1] \in 0 .. v.size - 1 THEN v.id + o[1] ELSE v.id
  IN IF v.type \in LocalVariable THEN {} ELSE {<<Kind(v), cell>>}

(* The cells an lvalue may denote; an offset that is no valid constant     *)
(* leaves all of them.                                                     *)
extract_lvalue_base_variable_ids(x) ==
  LET v == IF x.e = "var" THEN x ELSE x.variable
      o == IF x.e = "var" THEN <<>> ELSE const_evaluate(x.offset)
      cells == IF o # <<>> /\ o[1] \in 0 .. v.size - 1 THEN {v.id + o[1]} ELSE Ids(v)
  IN IF v.type \in LocalVariable THEN {} ELSE {Kind(v)} \X cells

(* The variables of an expression; the analysis of a term with a local     *)
(* variable fails in the code, and only terms without one are asked for.   *)
RECURSIVE extract_variables(_)
extract_variables(x) ==
  CASE x.e = "int" -> {}
    [] x.e = "var" -> {<<Kind(x), x.id>>}
    [] x.e = "array" ->
         LET o == const_evaluate(x.offset)
         IN extract_variables(x.offset) \cup
              ({Kind(x.variable)} \X
                 (IF o = <<>> THEN Ids(x.variable) ELSE {x.variable.id + o[1]}))
    [] x.e \in {"par", "unary"} -> extract_variables(x.expr)
    [] x.e = "binary" -> extract_variables(x.left) \cup extract_variables(x.right)
    [] x.e = "ite" -> UNION {extract_variables(y) : y \in {x.cond, x.then, x.else}}

extract_lvalue_offset_variable_ids(x) ==
  IF x.e = "array" THEN extract_variables(x.offset) ELSE {}

RECURSIVE extract_read_variables(_)
extract_read_variables(x) ==
  CASE x.s = "nop" -> {}
    [] x.s = "assign" ->
         extract_variables(x.rvalue) \cup extract_lvalue_offset_variable_ids(x.lvalue)
    [] x.s = "seq" -> extract_read_variables(x.first) \cup extract_read_variables(x.second)
    [] x.s = "if" -> extract_variables(x.cond) \cup extract_read_variables(x.then)
                       \cup extract_read_variables(x.else)
    [] x.s = "while" -> extract_variables(x.cond) \cup extract_read_variables(x.body)
    [] x.s \in {"local", "localarray"} -> extract_variables(x.init)

RECURSIVE extract_written_variables(_)
extract_written_variables(x) ==
  CASE x.s = "assign" -> extract_lvalue_base_variable_ids(x.lvalue)
    [] x.s = "seq" -> extract_written_variables(x.first) \cup extract_written_variables(x.second)
    [] x.s = "if" -> extract_written_variables(x.then) \cup extract_written_variables(x.else)
    [] x.s = "while" -> extract_written_variables(x.body)
    [] OTHER -> {}

RECURSIVE has_local_declarations(_)
has_local_declarations(x) ==
  \/ x.s \in {"local", "localarray"}
  \/ x.s = "seq" /\ (has_local_declarations(x.first) \/ has_local_declarations(x.second))
==============================================================================
