------------------------------- MODULE Valuations ----------------------------
(***************************************************************************)
(* What the matrices mean: sets of valuations of the clocks, on a grid.    *)
(* Two clocks are told apart by the constraints of a matrix only through   *)
(* their integer parts and the order of their fractional parts, so points  *)
(* whose clocks are multiples of 1/3 represent every region; one more      *)
(* clock value, the past value of a reset clock or a delay, lies between   *)
(* two of them, at a multiple of 1/6.                                      *)
(***************************************************************************)
EXTENDS DBM

CONSTANTS
  Unit,      \* the number of grid steps in a time unit
  Coarse,    \* the values of clocks at which two zones are compared
  Fine       \* the values among which witnesses are looked for

Valuation == {v \in [Clock0 -> Coarse] : v[0] = 0}

(* The valuation v satisfies the bound b on the difference of x and y; on  *)
(* the grid, <= is < the next point.                                       *)
Meets(v, x, y, b) ==
  b = LT_INFINITY \/ v[x] - v[y] < Unit * Value(b) + Comparator(b)

In(v, d) == \A x, y \in Clock0 : Meets(v, x, y, d[x][y])

(* v after x := y + value from a valuation in d, where x was at w.         *)
InReset(v, d, x, y, value) ==
  \E w \in Fine :
    /\ v[x] = (IF y = x THEN w ELSE v[y]) + Unit * value
    /\ In([v EXCEPT ![x] = w], d)

(* v after a delay from a valuation in d.                                  *)
InFuture(v, d) ==
  \E delay \in Fine :
    /\ \A x \in Clock : delay <= v[x]
    /\ In([x \in Clock0 |-> IF x = 0 THEN 0 ELSE v[x] - delay], d)

(* The preorder of the constants l of lower and u of upper bounds: from w  *)
(* every guard that v passes, now or after a delay, can be passed: w may   *)
(* be below v but above l, or above v if v is above u.                     *)
Above(value, bound) == bound = NoBound \/ value > Unit * bound

Simulators(v, x, l, u) ==
  {w \in Fine \cup {v[x]} :
     \/ w = v[x]
     \/ w < v[x] /\ Above(w, l[x])
     \/ w > v[x] /\ Above(v[x], u[x])}

(* The valuations in the abstraction a_LU of the zone of d are those that  *)
(* some valuation of the zone simulates: itself, or one found clock after  *)
(* clock.                                                                  *)
InALU(v, d, l, u) ==
  LET extended[n \in Clock0] ==
        LET candidates ==
              IF n = 0 THEN {[x \in {0} |-> 0]}
              ELSE {[x \in 0 .. n |-> IF x = n THEN w ELSE p[x]] :
                      p \in extended[n - 1], w \in Simulators(v, n, l, u)}
        IN {q \in candidates :
              \A y \in 0 .. n : Meets(q, n, y, d[n][y]) /\ Meets(q, y, n, d[y][n])}
  IN In(v, d) \/ extended[Dim - 1] # {}
=============================================================================
