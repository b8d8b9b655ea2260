--------------------------- MODULE MCVirtualMachine --------------------------
(***************************************************************************)
(* One scalar and one array of integer variables, one scalar and one array *)
(* of clocks, every binary operator over a few operands, and programs with *)
(* nested loops, conditionals and local variables.                         *)
(***************************************************************************)
EXTENDS ProgramMeaning

SmallIntVariables ==
  "i" :> [id |-> 0, size |-> 1, min |-> -1, max |-> 2] @@
  "a" :> [id |-> 1, size |-> 2, min |-> 0, max |-> 2]
SmallClockVariables ==
  "x" :> [id |-> 0, size |-> 1] @@ "c" :> [id |-> 1, size |-> 2]

Lowest == -100

SmallValuations ==
  {0 :> v @@ 1 :> w[1] @@ 2 :> w[2] : v \in {-1, 0, 2}, w \in {<<0, 2>>, <<1, 0>>}}

Num(v) == int_expression(v)
Var(n) == var_expression(n)
Cell(n, o) == array_expression(n, o)
Par(x) == par_expression(x)
Un(o, x) == unary_expression(o, x)
Bin(l, o, r) == binary_expression(o, l, r)
Ite(c, t, u) == ite_expression(c, t, u)

Skip == nop_statement
Let(l, r) == assign_statement(l, r)
Seq2(f, g) == sequence_statement(f, g)
Seq3(f, g, h) == Seq2(Seq2(f, g), h)
If(c, t, u) == if_statement(c, t, u)
While(c, b) == while_statement(c, b)
LocalVar(n, x) == local_var_statement(n, x)
LocalArray(n, k) == local_array_statement(n, Num(k))

i == Var("i")
t == Var("t")
a0 == Cell("a", Num(0))
ai == Cell("a", i)
x == Var("x")
ci == Cell("c", i)

AllOperators == predicate \cup {"&&", "+", "-", "*", "/", "%"}
Arithmetic ==
  {Bin(l, o, r) : l \in {i, Num(-2), Num(2)}, o \in AllOperators, r \in {ai, Num(2), Un("neg", i)}}

ClockGuards ==
  {Bin(l, o, r) : l \in {x, ci, Bin(x, "-", ci)}, o \in predicate, r \in {i, Num(1)}}

Guards == ClockGuards \cup
  {Bin(Bin(x, "<=", Num(1)), "&&", Bin(i, ">", Num(0))),
   Bin(Bin(i, ">", Num(0)), "&&", Bin(Bin(x, "==", Bin(i, "+", Num(1))), "&&", Bin(ci, "<", i))),
   Un("!", Bin(i, "<", a0)), Un("!", Bin(x, "<", a0)),
   Ite(Bin(i, ">=", Num(0)), ai, Un("neg", i)),
   Par(Bin(Par(Bin(i, "+", Num(1))), "*", Ite(i, Num(2), a0))),
   Bin(Cell("a", Ite(i, Num(1), Num(0))), "/", a0),
   Bin(Bin(Num(1), "<", Num(2)), "&&", Bin(Num(3), "-", Num(3))),
   Ite(Bin(Num(2), "%", Num(2)), Num(0), Bin(Num(1), "-", Num(2))),
   Bin(x, "+", Num(1)), Cell("i", Num(0))}

CountDown(body) == While(Bin(i, ">", Num(0)), Seq2(body, Let(i, Bin(i, "-", Num(1)))))

Simple ==
  {Let(i, Bin(i, "-", a0)), Let(ai, Num(1)), Let(a0, i), Let(ci, a0), Let(x, Bin(ai, "+", ci)),
   LocalVar("t", i), LocalVar("u", a0), Let(t, Bin(t, "+", Num(1))), Let(ai, t)}
Conditions == {i, Bin(x, "<=", i), Bin(Bin(i, "==", Num(2)), "&&", Bin(ai, ">", Num(0)))}

(* Two simple statements in a row, under a condition, or in a loop that    *)
(* runs once.                                                              *)
Pairs == {Seq2(f, g) : f, g \in Simple}
Composed == Pairs \cup {If(c, p, Skip) : c \in Conditions, p \in Pairs}
  \cup {While(Bin(i, ">", Num(0)), Seq2(p, Let(i, Num(0)))) : p \in Pairs}

Updates ==
  {Skip, Let(i, Bin(i, "+", Num(1))), Let(ai, Bin(i, "-", Num(1))), Let(Cell("a", ai), i),
   Let(x, Num(0)), Let(x, ai), Let(ci, x), Let(x, ci), Let(x, Bin(i, "+", ci)),
   Let(Cell("c", Num(1)), Bin(Num(2), "+", x)),
   Let(x, Bin(x, "-", Num(1))), Let(Var("a"), Num(0)),
   Seq3(Let(a0, i), Let(i, Cell("a", Num(1))), Let(Cell("a", Num(1)), a0)),
   If(Bin(x, "<", Num(2)), Let(x, Num(0)), Skip),
   If(Bin(i, "==", Num(0)), Let(i, Num(2)), If(ai, Let(x, i), Let(i, Num(0)))),
   CountDown(Let(a0, Bin(a0, "+", Num(1)))),
   CountDown(If(Bin(i, "==", Num(1)), Let(ci, i), Skip)),
   While(Bin(i, ">", Num(0)), Let(i, Num(0))),
   While(Bin(a0, "<", Num(2)), Let(a0, Bin(a0, "+", Num(1)))),
   Seq3(LocalVar("t", i), Let(i, a0), Let(a0, t)),
   Seq3(LocalVar("t", Num(0)),
        While(Bin(t, "<", Num(2)), Seq2(LocalVar("u", t), Let(t, Bin(Var("u"), "+", Num(1))))),
        Let(i, Bin(t, "-", Num(1)))),
   Seq2(LocalVar("t", ai),
        If(Bin(t, ">", Num(0)),
           Seq3(LocalVar("u", Bin(t, "+", t)), Let(t, Var("u")), Let(i, t)),
           Let(t, Bin(i, "/", t)))),
   Seq3(LocalArray("w", 2), Let(Cell("w", i), Num(1)), Let(i, Cell("w", Num(1)))),
   Seq2(LocalVar("i", Num(0)), Skip), Seq2(LocalVar("t", Num(0)), LocalVar("t", Num(1))),
   CountDown(Seq2(LocalVar("t", i), Let(Cell("a", Bin(t, "-", Num(1))), t))),
   If(i, Seq2(LocalVar("t", a0), Let(i, t)), Seq2(LocalVar("u", i), Let(a0, Var("u"))))}

AllPrograms == Arithmetic \cup Guards \cup Updates \cup Composed
==============================================================================
