------------------------------ MODULE ReferenceDBM -----------------------------
(***************************************************************************)
(* The operations of refdbm.cc on matrices over several reference clocks,  *)
(* one for each local time, and offset clocks.  The value of a clock is    *)
(* its offset clock minus the reference clock of its process: a reset      *)
(* makes them equal, and as its local time passes a reference clock goes   *)
(* down.                                                                   *)
(***************************************************************************)
EXTENDS DBM, FiniteSetsExt, SequencesExt

CONSTANTS
  RefCount,     \* reference clocks are 0 .. RefCount - 1, offset clocks follow
  RefMap        \* the reference clock of each clock, itself for a reference clock

Reference == 0 .. RefCount - 1
Offset == Clock0 \ Reference

Universal == [i \in Clock0 |-> [j \in Clock0 |-> IF i = j THEN LE_ZERO ELSE LT_INFINITY]]

ref_universal_positive ==
  [i \in Clock0 |-> [j \in Clock0 |->
    IF j \in Offset /\ i = RefMap[j] THEN LE_ZERO ELSE Universal[i][j]]]

ref_is_positive(d) == \A x \in Offset : d[RefMap[x]][x] <= LE_ZERO
is_open_up(d) == \A x \in Clock0, t \in Reference : x # t => d[x][t] = LT_INFINITY

is_synchronized(d, refs) == \A t, s \in refs : d[t][s] = LE_ZERO

(* Some valuation gives the same value to all the reference clocks.        *)
is_synchronizable(d) == \A t, s \in Reference : t # s => d[t][s] >= LE_ZERO

(* bound_spread: the reference clocks of refs are at most spread apart.    *)
(* Only paths through them have become shorter.                            *)
bound_spread(d, spread, refs) ==
  LET close == [i \in Clock0 |-> [j \in Clock0 |->
                  IF {i, j} \subseteq refs
                  THEN IF i = j THEN LE_ZERO ELSE LeastBound(d[i][j], Db(LE, spread))
                  ELSE d[i][j]]]
      through(e, t) ==
        [x \in Clock0 |-> [y \in Clock0 |->
          IF t \in {x, y} THEN e[x][y] ELSE LeastBound(Sum(e[x][t], e[t][y]), e[x][y])]]
  IN FoldLeft(LAMBDA e, t : IF IsEmpty0(e) THEN e ELSE MarkedIfEmpty(through(e, t)),
              close, SetToSortSeq(refs, <))

synchronize(d, refs) == bound_spread(d, 0, refs)

(* reset_to_reference_clock: the clock of the offset clock x becomes 0.    *)
ResetToReference(d, x) ==
  LET as(i) == IF i = x THEN RefMap[x] ELSE i
  IN [i \in Clock0 |-> [j \in Clock0 |-> d[as(i)][as(j)]]]

(* Each reference clock of refs advances on its own.                       *)
asynchronous_open_up(d, refs) ==
  [x \in Clock0 |-> [t \in Clock0 |->
    IF t \in refs THEN IF x = t THEN LE_ZERO ELSE LT_INFINITY ELSE d[x][t]]]

(* The matrix over the clocks, when the local times are the same.          *)
to_dbm(d) ==
  LET clocks == 0 .. Dim - RefCount
      offset(c) == RefCount + c - 1
  IN [i \in clocks |-> [j \in clocks |->
       IF i = j THEN IF i = 0 THEN LE_ZERO ELSE d[offset(i)][offset(i)]
       ELSE d[IF i = 0 THEN RefMap[offset(j)] ELSE offset(i)]
             [IF j = 0 THEN RefMap[offset(i)] ELSE offset(j)]]]

-------------------------------------------------------------------------------
(* Inclusion in abstractions; the bounds l and u are those of the clocks.  *)
ClockOf(x) == x - RefCount + 1

(* is_sync_alu_le: inclusion in the abstraction of the synchronised        *)
(* valuations, once each reference clock has advanced on its own.          *)
is_sync_alu_le(d, e, l, u) ==
  ~ \E x \in Offset :
      LET least(m) == FoldSet(LAMBDA t, b : LeastBound(m[t][x], b), LT_INFINITY, Reference)
      IN /\ u[ClockOf(x)] # NoBound /\ least(d) >= Db(LE, -u[ClockOf(x)])
         /\ \/ least(e) < least(d)
            \/ \E y \in Offset \ {x} :
                 /\ l[ClockOf(y)] # NoBound /\ e[y][x] < d[y][x]
                 /\ Sum(e[y][x], Db(LT, -l[ClockOf(y)])) < least(d)
===============================================================================
