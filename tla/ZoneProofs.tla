------------------------------- MODULE ZoneProofs ----------------------------
(***************************************************************************)
(* Proofs about ZoneOperations, for any number of clocks and any grid: the *)
(* operations of dbm.cc compute the sets of valuations that they name and  *)
(* leave matrices in normal form.  In order: the algebra of bounds and of  *)
(* the grid; the matrix of a constraint and its tightening by one entry;   *)
(* Floyd and Warshall's algorithm, whose invariant Stage speaks of paths   *)
(* through the first clocks; intersections, delays and resets; the least   *)
(* witness of a forgotten clock, Between; the theorems on the operations.  *)
(* Then, on grids with room (GridCompares, GridWitnesses): points of zones *)
(* on the grid; the valuations that simulate another, Allows; the theorems *)
(* on the tests of inclusion and on the extrapolations.                    *)
(***************************************************************************)
EXTENDS ZoneOperations, TLAPS, WellFoundedInduction, FiniteSetTheorems

(* The sum of two finite bounds. *)
Plus(b, c) ==
  Db(LeastBound(Comparator(b), Comparator(c)), Value(b) + Value(c))

(* A bound is the packed pair of its value and its comparator. *)
LEMMA BoundParts ==
  ASSUME NEW b \in Int
  PROVE  /\ Value(b) \in Int /\ Comparator(b) \in {0, 1}
         /\ b = 2 * Value(b) + Comparator(b)
BY SMT DEF Value, Comparator

(* db(cmp, value) is unpacked to what was packed. *)
LEMMA DbParts ==
  ASSUME NEW v \in Int, NEW c \in {0, 1}
  PROVE  Db(c, v) \in Int /\ Value(Db(c, v)) = v /\ Comparator(Db(c, v)) = c
BY SMT DEF Value, Comparator, Db

(* Values are added, and the sum is strict if one summand is. *)
LEMMA PlusParts ==
  ASSUME NEW b \in Int, NEW c \in Int
  PROVE  /\ Plus(b, c) \in Int
         /\ Value(Plus(b, c)) = Value(b) + Value(c)
         /\ Comparator(Plus(b, c)) = LeastBound(Comparator(b), Comparator(c))
<1>1. LeastBound(Comparator(b), Comparator(c)) \in {0, 1}
  BY BoundParts DEF LeastBound
<1>2. Value(b) + Value(c) \in Int
  BY BoundParts
<1> QED BY <1>1, <1>2, DbParts, Zenon DEF Plus

(* The sum of finite bounds is commutative and associative, and <= 0 is       *)
(* neutral.                                                                   *)
LEMMA PlusAlgebra ==
  ASSUME NEW a \in Int, NEW b \in Int, NEW c \in Int
  PROVE  /\ Plus(b, c) = Plus(c, b)
         /\ Plus(Plus(a, b), c) = Plus(a, Plus(b, c))
         /\ Plus(b, LE_ZERO) = b
<1>1. LE_ZERO \in Int /\ Value(LE_ZERO) = 0 /\ Comparator(LE_ZERO) = 1
  BY SMT DEF LE_ZERO, Db, LE, Value, Comparator
<1>2. Plus(b, c) = Plus(c, b)
  BY BoundParts, SMT DEF Plus, LeastBound, Db
<1>3. Plus(Plus(a, b), c) = Plus(a, Plus(b, c))
  <2>1. Plus(a, b) \in Int /\ Plus(b, c) \in Int
    BY PlusParts
  <2>2. Plus(Plus(a, b), c) \in Int /\ Plus(a, Plus(b, c)) \in Int
    BY <2>1, PlusParts
  <2>3. Value(Plus(Plus(a, b), c)) = Value(Plus(a, Plus(b, c)))
    BY <2>1, PlusParts, BoundParts, SMT
  <2>4. Comparator(Plus(Plus(a, b), c)) = Comparator(Plus(a, Plus(b, c)))
    <3>1. Comparator(Plus(Plus(a, b), c))
            = LeastBound(LeastBound(Comparator(a), Comparator(b)), Comparator(c))
      BY <2>1, PlusParts
    <3>2. Comparator(Plus(a, Plus(b, c)))
            = LeastBound(Comparator(a), LeastBound(Comparator(b), Comparator(c)))
      BY <2>1, PlusParts
    <3> QED BY <3>1, <3>2, BoundParts, SMT DEF LeastBound
  <2> QED BY <2>2, <2>3, <2>4, BoundParts
<1>4. Plus(b, LE_ZERO) = b
  BY <1>1, BoundParts, SMT DEF Plus, LeastBound, Db
<1> QED BY <1>2, <1>3, <1>4

(* Packed integers are ordered like pairs. *)
LEMMA Lexicographic ==
  ASSUME NEW v \in Int, NEW w \in Int, NEW c \in {0, 1}, NEW d \in {0, 1}
  PROVE  2 * v + c <= 2 * w + d <=> (v < w \/ (v = w /\ c <= d))
BY SMT

(* The order of db_t: by value, and < before <=. *)
LEMMA BoundOrder ==
  ASSUME NEW a \in Int, NEW b \in Int
  PROVE  a <= b <=> (\/ Value(a) < Value(b)
                     \/ Value(a) = Value(b) /\ Comparator(a) <= Comparator(b))
<1>1. /\ Value(a) \in Int /\ Comparator(a) \in {0, 1}
      /\ a = 2 * Value(a) + Comparator(a)
  BY BoundParts
<1>2. /\ Value(b) \in Int /\ Comparator(b) \in {0, 1}
      /\ b = 2 * Value(b) + Comparator(b)
  BY BoundParts
<1>3. a <= b <=> 2 * Value(a) + Comparator(a) <= 2 * Value(b) + Comparator(b)
  BY <1>1, <1>2, Zenon
<1> QED BY <1>1, <1>2, <1>3, Lexicographic

(* The sum of bounds is monotone. *)
LEMMA PlusMonotone ==
  ASSUME NEW a \in Int, NEW b \in Int, NEW c \in Int, a <= b
  PROVE  Plus(a, c) <= Plus(b, c) /\ Plus(c, a) <= Plus(c, b)
<1>1. Value(a) < Value(b) \/ (Value(a) = Value(b) /\ Comparator(a) <= Comparator(b))
  BY BoundOrder
<1>2. Plus(a, c) <= Plus(b, c)
  BY <1>1, BoundParts, SMT DEF Plus, LeastBound, Db
<1> QED BY <1>2, PlusAlgebra

-----------------------------------------------------------------------------
(* The largest difference on the grid that meets a bound, plus one step. *)
Grid(b) == Unit * Value(b) + Comparator(b)

(* Facts about products with the grid's unit, which the provers do not find. *)
LEMMA Product ==
  ASSUME NEW u \in Nat \ {0}, NEW v \in Int, NEW w \in Int
  PROVE  /\ u * v \in Int
         /\ u * (v + w) = u * v + u * w
         /\ v < w => u * v + u <= u * w
         /\ v < 0 => u * v <= -u
<1>1. u * v \in Int
  BY SMT
<1>2. u * (v + w) = u * v + u * w
  BY SMT
<1>3. v < w => u * v + u <= u * w
  <2> SUFFICES ASSUME v < w PROVE u * v + u <= u * w
    OBVIOUS
  <2>1. PICK k \in Nat : w = v + 1 + k
    <3> w - v - 1 \in Nat
      BY SMT
    <3> QED BY SMT
  <2>2. u * w = u * v + u + u * k
    BY <2>1, SMT
  <2>3. u * k >= 0
    BY SMT
  <2> QED BY <2>2, <2>3, SMT
<1>4. v < 0 => u * v <= -u
  BY <1>3, SMT
<1> QED BY <1>1, <1>2, <1>3, <1>4

(* The types of the parts of a bound on the grid. *)
LEMMA GridParts ==
  ASSUME NEW b \in Int
  PROVE  /\ Grid(b) \in Int
         /\ Comparator(b) \in {0, 1}
         /\ \E h \in Int : Grid(b) = 2 * h + Comparator(b)
<1>1. Value(b) \in Int /\ Comparator(b) \in {0, 1}
  BY BoundParts
<1>2. PICK h \in Nat : Unit = 2 * h
  <2>1. Unit \div 2 \in Nat /\ Unit = 2 * (Unit \div 2)
    BY GridAssumption, SMT
  <2> QED BY <2>1
<1>3. Unit * Value(b) = 2 * (h * Value(b)) /\ h * Value(b) \in Int
  BY <1>1, <1>2, SMT
<1> QED BY <1>1, <1>3, SMT DEF Grid

(* A larger bound leaves room for larger differences. *)
LEMMA GridMonotone ==
  ASSUME NEW a \in Int, NEW b \in Int, a <= b
  PROVE  Grid(a) <= Grid(b)
<1>1. /\ Value(a) \in Int /\ Comparator(a) \in {0, 1}
      /\ Value(b) \in Int /\ Comparator(b) \in {0, 1}
  BY BoundParts
<1>2. Value(a) < Value(b) \/ (Value(a) = Value(b) /\ Comparator(a) <= Comparator(b))
  BY BoundOrder
<1>3. Unit \in Nat \ {0} /\ Unit * Value(a) \in Int /\ Unit * Value(b) \in Int
  BY <1>1, Product, GridAssumption
<1>4. CASE Value(a) < Value(b)
  <2>1. Unit * Value(a) + Unit <= Unit * Value(b)
    BY <1>1, <1>4, Product, GridAssumption
  <2> QED BY <1>1, <1>3, <2>1, SMT DEF Grid
<1>5. CASE Value(a) = Value(b) /\ Comparator(a) <= Comparator(b)
  BY <1>1, <1>3, <1>5, SMT DEF Grid
<1> QED BY <1>2, <1>4, <1>5

(* The sum of bounds on the grid: one step is lost unless both are strict. *)
LEMMA GridPlus ==
  ASSUME NEW b \in Int, NEW c \in Int
  PROVE  Grid(Plus(b, c)) = IF Comparator(b) = 0 /\ Comparator(c) = 0
                            THEN Grid(b) + Grid(c)
                            ELSE Grid(b) + Grid(c) - 1
<1>1. /\ Value(b) \in Int /\ Comparator(b) \in {0, 1}
      /\ Value(c) \in Int /\ Comparator(c) \in {0, 1}
  BY BoundParts
<1>2. /\ Unit * Value(b) \in Int /\ Unit * Value(c) \in Int
      /\ Unit * (Value(b) + Value(c)) = Unit * Value(b) + Unit * Value(c)
  BY <1>1, Product, GridAssumption
<1>3. Grid(Plus(b, c)) = Unit * Value(b) + Unit * Value(c)
                         + LeastBound(Comparator(b), Comparator(c))
  BY <1>2, PlusParts DEF Grid
<1> QED BY <1>1, <1>2, <1>3, SMT DEF Grid, LeastBound

(* The bounds that db_t holds: none is above < infinity. *)
Entry == {b \in Int : b <= LT_INFINITY}

(* <= 0, < 0 and < infinity, packed and on the grid. *)
LEMMA SpecialBounds ==
  /\ LE_ZERO = 1 /\ LT_ZERO = 0 /\ LT_INFINITY \in Nat /\ LT_INFINITY > 1
  /\ Grid(LE_ZERO) = 1 /\ Grid(LT_ZERO) = 0 /\ Comparator(LE_ZERO) = 1
  /\ Value(LE_ZERO) = 0 /\ Value(LT_ZERO) = 0 /\ Value(LT_INFINITY) = InfValue
<1>1. LE_ZERO = 1 /\ LT_ZERO = 0 /\ LT_INFINITY = 2 * InfValue
  BY InfValueAssumption, SMT DEF LE_ZERO, LT_ZERO, LT_INFINITY, Db, LE, LT
<1>2. Value(1) = 0 /\ Value(0) = 0 /\ Comparator(1) = 1 /\ Comparator(0) = 0
  BY SMT DEF Value, Comparator
<1>3. Value(LT_INFINITY) = InfValue
  BY <1>1, InfValueAssumption, SMT DEF Value
<1>4. Grid(1) = 1 /\ Grid(0) = 0
  BY <1>2, GridAssumption, SMT DEF Grid
<1> QED BY <1>1, <1>2, <1>3, <1>4, InfValueAssumption, SMT

(* db::sum: infinity absorbs, finite bounds are added. *)
LEMMA SumCases ==
  ASSUME NEW b \in Int, NEW c \in Int
  PROVE  /\ Sum(b, c) \in Int
         /\ Sum(b, c) = IF b = LT_INFINITY \/ c = LT_INFINITY
                        THEN LT_INFINITY ELSE Plus(b, c)
BY SpecialBounds, PlusParts DEF Sum, Plus

(* <= 0 is neutral for db::sum. *)
LEMMA SumZero ==
  ASSUME NEW b \in Int
  PROVE  Sum(b, LE_ZERO) = b /\ Sum(LE_ZERO, b) = b
<1>1. LE_ZERO \in Int /\ LE_ZERO # LT_INFINITY
  BY SpecialBounds
<1>2. Sum(b, LE_ZERO) = b
  BY <1>1, SumCases, PlusAlgebra
<1>3. Sum(LE_ZERO, b) = IF b = LT_INFINITY THEN b ELSE Plus(LE_ZERO, b)
  BY <1>1, SumCases
<1> QED BY <1>1, <1>2, <1>3, PlusAlgebra

(* A difference meets a bound if it is below the bound on the grid. *)
LEMMA MeetsGrid ==
  ASSUME NEW v, NEW i, NEW j, NEW b
  PROVE  Meets(v, i, j, b) <=> b = LT_INFINITY \/ v[i] - v[j] < Grid(b)
BY DEF Meets, Grid

(* Differences that meet two bounds meet their sum along the path. *)
LEMMA MeetsSum ==
  ASSUME NEW v \in [Clock0 -> Int], NEW i \in Clock0, NEW j \in Clock0, NEW k \in Clock0,
         NEW b \in Int, NEW c \in Int, Meets(v, i, k, b), Meets(v, k, j, c)
  PROVE  Meets(v, i, j, Sum(b, c))
<1>1. CASE b = LT_INFINITY \/ c = LT_INFINITY
  BY <1>1, SumCases, MeetsGrid
<1>2. CASE b # LT_INFINITY /\ c # LT_INFINITY
  <2>1. v[i] - v[k] < Grid(b) /\ v[k] - v[j] < Grid(c)
    BY <1>2, MeetsGrid
  <2>2. /\ Grid(b) \in Int /\ Grid(c) \in Int
        /\ Comparator(b) \in {0, 1} /\ Comparator(c) \in {0, 1}
        /\ v[i] \in Int /\ v[j] \in Int /\ v[k] \in Int
    BY GridParts
  <2>3. v[i] - v[j] < Grid(Plus(b, c))
    BY <2>1, <2>2, GridPlus
  <2> QED BY <1>2, <2>3, SumCases, MeetsGrid
<1> QED BY <1>1, <1>2

(* A valuation that meets a bound meets the larger ones. *)
LEMMA MeetsLarger ==
  ASSUME NEW v \in [Clock0 -> Int], NEW i \in Clock0, NEW j \in Clock0,
         NEW b \in Int, NEW c \in Entry, b <= c, Meets(v, i, j, b)
  PROVE  Meets(v, i, j, c)
<1>1. CASE c = LT_INFINITY
  BY <1>1, MeetsGrid
<1>2. CASE c # LT_INFINITY
  <2>1. b # LT_INFINITY /\ c \in Int
    BY <1>2, SpecialBounds DEF Entry
  <2>2. v[i] - v[j] < Grid(b) /\ Grid(b) <= Grid(c)
    BY <2>1, MeetsGrid, GridMonotone
  <2>3. Grid(b) \in Int /\ Grid(c) \in Int /\ v[i] \in Int /\ v[j] \in Int
    BY <2>1, GridParts
  <2> QED BY <2>2, <2>3, MeetsGrid
<1> QED BY <1>1, <1>2

(* A clock and itself meet exactly the bounds from <= 0. *)
LEMMA MeetsDiagonal ==
  ASSUME NEW v \in [Clock0 -> Int], NEW i \in Clock0, NEW b \in Int
  PROVE  Meets(v, i, i, b) <=> b >= LE_ZERO
<1>1. v[i] \in Int /\ v[i] - v[i] = 0
  BY SMT
<1>2. CASE b < LE_ZERO
  <2>1. b <= LT_ZERO /\ b # LT_INFINITY /\ LT_ZERO \in Int
    BY <1>2, SpecialBounds
  <2>2. Grid(b) <= 0 /\ Grid(b) \in Int
    BY <2>1, GridMonotone, GridParts, SpecialBounds
  <2> QED BY <1>1, <1>2, <2>1, <2>2, SpecialBounds, MeetsGrid
<1>3. CASE b >= LE_ZERO
  <2>1. LE_ZERO \in Int /\ LE_ZERO <= b
    BY <1>3, SpecialBounds
  <2>2. Grid(LE_ZERO) <= Grid(b) /\ Grid(b) \in Int
    BY <2>1, GridMonotone, GridParts
  <2>3. 0 < Grid(b)
    BY <2>2, SpecialBounds
  <2> QED BY <1>1, <1>3, <2>3, MeetsGrid
<1> QED BY <1>2, <1>3, SpecialBounds

-----------------------------------------------------------------------------
(* Matrices of bounds that db_t holds. *)
EntryMatrix == [Clock0 -> [Clock0 -> Entry]]

(* The normal form that the operations of dbm.cc ask for and leave. *)
NormalForm(d) ==
  d \in EntryMatrix /\ IsConsistent(d) /\ IsPositive(d) /\ IsTight(d)

(* No finite bound is above m. *)
UpTo(d, m) == \A i, j \in Clock0 : d[i][j] = LT_INFINITY \/ Value(d[i][j]) <= m

(* Clock 0 and the indices of the loops. *)
LEMMA Clocks ==
  /\ 0 \in Clock0 /\ Clock \subseteq Clock0 /\ Clock0 \subseteq Nat
  /\ \A i \in Clock0 : i # 0 => i \in Clock
  /\ \A n \in 1 .. Dim : n - 1 \in Clock0
BY DimAssumption DEF Clock0, Clock

(* The types of the entries of a matrix. *)
LEMMA EntryMatrixType ==
  ASSUME NEW d \in EntryMatrix
  PROVE  /\ d \in Matrix
         /\ \A i, j \in Clock0 : d[i][j] \in Entry /\ d[i][j] \in Int
                               /\ d[i][j] <= LT_INFINITY
<1>1. \A i \in Clock0 : d[i] \in [Clock0 -> Entry]
  BY DEF EntryMatrix
<1>2. \A r \in [Clock0 -> Entry] : r \in [Clock0 -> Int]
  BY DEF Entry
<1>3. d = [i \in Clock0 |-> d[i]]
  BY DEF EntryMatrix
<1>4. d \in Matrix
  BY <1>1, <1>2, <1>3 DEF Matrix
<1> QED BY <1>1, <1>4 DEF Entry

(* A matrix with larger entries has more valuations. *)
LEMMA InLarger ==
  ASSUME NEW v \in [Clock0 -> Int], NEW d \in Matrix, NEW e \in EntryMatrix,
         \A i, j \in Clock0 : d[i][j] <= e[i][j], In(v, d)
  PROVE  In(v, e)
<1> SUFFICES ASSUME NEW i \in Clock0, NEW j \in Clock0
             PROVE  Meets(v, i, j, e[i][j])
  BY DEF In
<1>1. d[i][j] \in Int /\ e[i][j] \in Entry /\ Meets(v, i, j, d[i][j])
  BY DEF Matrix, EntryMatrix, In
<1> QED BY <1>1, MeetsLarger

(* A negative diagonal, and nothing else, marks a matrix as empty. *)
LEMMA MarkedEntries ==
  ASSUME NEW d \in EntryMatrix
  PROVE  /\ MarkedIfEmpty(d) \in EntryMatrix
         /\ (\E i \in Clock0 : d[i][i] < LE_ZERO) => IsEmpty0(MarkedIfEmpty(d))
         /\ ~IsEmpty0(MarkedIfEmpty(d)) =>
              MarkedIfEmpty(d) = d /\ \A i \in Clock0 : d[i][i] >= LE_ZERO
<1>1. LT_ZERO \in Entry
  BY SpecialBounds DEF Entry
<1>2. MarkEmpty(d) \in EntryMatrix /\ MarkEmpty(d)[0][0] = LT_ZERO
  BY <1>1, Clocks DEF MarkEmpty, EntryMatrix
<1>3. \A i, j \in Clock0 : d[i][j] \in Int
  BY DEF EntryMatrix, Entry
<1> QED BY <1>2, <1>3, Clocks, SpecialBounds DEF MarkedIfEmpty, IsEmpty0

(* Marking a matrix as empty does not change its valuations. *)
LEMMA InMarked ==
  ASSUME NEW v \in [Clock0 -> Int], NEW d \in EntryMatrix
  PROVE  In(v, MarkedIfEmpty(d)) <=> In(v, d)
<1>1. CASE \E i \in Clock0 : d[i][i] < LE_ZERO
  <2>1. ~In(v, d)
    <3>1. PICK i \in Clock0 : d[i][i] < LE_ZERO
      BY <1>1
    <3>2. d[i][i] \in Int
      BY DEF EntryMatrix, Entry
    <3>3. ~(d[i][i] >= LE_ZERO)
      BY <3>1, <3>2, SpecialBounds
    <3> QED BY <3>2, <3>3, MeetsDiagonal DEF In
  <2>2. ~In(v, MarkedIfEmpty(d))
    <3>1. MarkedIfEmpty(d)[0][0] = LT_ZERO
      BY <1>1, Clocks DEF MarkedIfEmpty, MarkEmpty
    <3>2. LT_ZERO \in Int /\ ~(LT_ZERO >= LE_ZERO)
      BY SpecialBounds
    <3> QED BY <3>1, <3>2, Clocks, MeetsDiagonal DEF In
  <2> QED BY <2>1, <2>2
<1>2. CASE ~ \E i \in Clock0 : d[i][i] < LE_ZERO
  BY <1>2 DEF MarkedIfEmpty
<1> QED BY <1>1, <1>2

(* The least of two bounds is one of them and not above the other. *)
LEMMA LeastBoundCases ==
  ASSUME NEW b \in Int, NEW c \in Int
  PROVE  /\ LeastBound(b, c) \in {b, c}
         /\ LeastBound(b, c) <= b /\ LeastBound(b, c) <= c
         /\ (b \in Entry \/ c \in Entry) => LeastBound(b, c) \in Entry
BY SpecialBounds DEF LeastBound, Entry

-----------------------------------------------------------------------------
(* The matrix of tighten(dbm, dim, x, y), before it is marked if empty. *)
ToY(d, x, y, i) ==
  IF i = x THEN d[x][y] ELSE LeastBound(Sum(d[i][x], d[x][y]), d[i][y])

(* The matrix that the loops of tighten(dbm, dim, x, y) leave. *)
Relaxed(d, x, y) ==
  [i \in Clock0 |-> [j \in Clock0 |->
    LeastBound(IF j = y THEN ToY(d, x, y, i) ELSE d[i][j],
               Sum(ToY(d, x, y, i), IF j = y THEN ToY(d, x, y, y) ELSE d[y][j]))]]

(* tighten(dbm, dim, x, y) relaxes once, and then looks at the diagonal. *)
LEMMA TightenByRelaxes ==
  ASSUME NEW d, NEW x \in Clock0, NEW y \in Clock0
  PROVE  TightenBy(d, x, y) = IF d[x][y] = LT_INFINITY THEN d
                              ELSE MarkedIfEmpty(Relaxed(d, x, y))
<1> DEFINE toY == [i \in Clock0 |-> ToY(d, x, y, i)]
           relaxed == [i \in Clock0 |-> [j \in Clock0 |->
                         LeastBound(IF j = y THEN toY[i] ELSE d[i][j],
                                    Sum(toY[i], IF j = y THEN toY[y] ELSE d[y][j]))]]
<1>1. TightenBy(d, x, y) = IF d[x][y] = LT_INFINITY THEN d ELSE MarkedIfEmpty(relaxed)
  BY Zenon DEF TightenBy, ToY
<1>2. relaxed = Relaxed(d, x, y)
  <2>1. \A i \in Clock0 : toY[i] = ToY(d, x, y, i)
    OBVIOUS
  <2> HIDE DEF toY
  <2> QED BY <2>1 DEF Relaxed
<1> QED BY <1>1, <1>2

(* The entries of column y are bounds that the loop lowers. *)
LEMMA ToYType ==
  ASSUME NEW d \in EntryMatrix, NEW x \in Clock0, NEW y \in Clock0, NEW i \in Clock0
  PROVE  ToY(d, x, y, i) \in Entry /\ ToY(d, x, y, i) <= d[i][y]
<1>1. d[i][x] \in Int /\ d[x][y] \in Int /\ d[i][y] \in Entry /\ d[i][y] \in Int
      /\ d[x][y] \in Entry
  BY DEF EntryMatrix, Entry
<1> QED BY <1>1, SumCases, LeastBoundCases DEF ToY

(* So are the other entries. *)
LEMMA RelaxedType ==
  ASSUME NEW d \in EntryMatrix, NEW x \in Clock0, NEW y \in Clock0
  PROVE  /\ Relaxed(d, x, y) \in EntryMatrix
         /\ \A i, j \in Clock0 : Relaxed(d, x, y)[i][j] <= d[i][j]
<1> SUFFICES ASSUME NEW i \in Clock0, NEW j \in Clock0
             PROVE  Relaxed(d, x, y)[i][j] \in Entry /\ Relaxed(d, x, y)[i][j] <= d[i][j]
  BY DEF EntryMatrix, Relaxed
<1> DEFINE first == IF j = y THEN ToY(d, x, y, i) ELSE d[i][j]
           second == Sum(ToY(d, x, y, i), IF j = y THEN ToY(d, x, y, y) ELSE d[y][j])
<1>1. d[i][j] \in Entry /\ d[y][j] \in Entry /\ \A b \in Entry : b \in Int
  BY DEF EntryMatrix, Entry
<1>2. first \in Entry /\ first <= d[i][j]
  BY <1>1, ToYType
<1>3. second \in Int
  BY <1>1, ToYType, SumCases
<1>4. Relaxed(d, x, y)[i][j] = LeastBound(first, second)
  BY DEF Relaxed
<1> HIDE DEF first, second
<1>5. LeastBound(first, second) \in Entry /\ LeastBound(first, second) <= first
  BY <1>1, <1>2, <1>3, LeastBoundCases
<1>6. first \in Int /\ d[i][j] \in Int /\ LeastBound(first, second) \in Int
  BY <1>1, <1>2, <1>5
<1> QED BY <1>2, <1>4, <1>5, <1>6

(* A difference that meets two bounds meets the least. *)
LEMMA MeetsLeast ==
  ASSUME NEW v, NEW i, NEW j, NEW b \in Int, NEW c \in Int,
         Meets(v, i, j, b), Meets(v, i, j, c)
  PROVE  Meets(v, i, j, LeastBound(b, c))
BY LeastBoundCases

(* Relaxing changes no valuation: each new bound is the sum of a path. *)
LEMMA InRelaxed ==
  ASSUME NEW d \in EntryMatrix, NEW x \in Clock0, NEW y \in Clock0,
         NEW v \in [Clock0 -> Int]
  PROVE  In(v, Relaxed(d, x, y)) <=> In(v, d)
<1>1. \A b \in Entry : b \in Int
  BY DEF Entry
<1>2. \A i, j \in Clock0 : d[i][j] \in Entry
  BY DEF EntryMatrix
<1>3. ASSUME In(v, Relaxed(d, x, y))
      PROVE  In(v, d)
  <2>1. Relaxed(d, x, y) \in Matrix
    BY RelaxedType, EntryMatrixType
  <2> QED BY <1>3, <2>1, RelaxedType, InLarger
<1>4. ASSUME In(v, d)
      PROVE  In(v, Relaxed(d, x, y))
  <2>1. \A i, j \in Clock0 : Meets(v, i, j, d[i][j])
    BY <1>4 DEF In
  <2>2. ASSUME NEW i \in Clock0
        PROVE  Meets(v, i, y, ToY(d, x, y, i)) /\ ToY(d, x, y, i) \in Int
    <3>1. d[i][x] \in Int /\ d[x][y] \in Int /\ d[i][y] \in Int
      BY <1>1, <1>2
    <3>2. Meets(v, i, y, Sum(d[i][x], d[x][y])) /\ Sum(d[i][x], d[x][y]) \in Int
      BY <2>1, <3>1, MeetsSum, SumCases
    <3>3. Meets(v, i, y, LeastBound(Sum(d[i][x], d[x][y]), d[i][y]))
      BY <2>1, <3>1, <3>2, MeetsLeast
    <3> QED BY <1>1, <2>1, <3>3, ToYType DEF ToY
  <2> SUFFICES ASSUME NEW i \in Clock0, NEW j \in Clock0
               PROVE  Meets(v, i, j, Relaxed(d, x, y)[i][j])
    BY DEF In
  <2> DEFINE first == IF j = y THEN ToY(d, x, y, i) ELSE d[i][j]
             second == IF j = y THEN ToY(d, x, y, y) ELSE d[y][j]
  <2>3. first \in Int /\ Meets(v, i, j, first)
    BY <1>1, <1>2, <2>1, <2>2
  <2>4. second \in Int /\ Meets(v, y, j, second)
    BY <1>1, <1>2, <2>1, <2>2
  <2>5. Relaxed(d, x, y)[i][j] = LeastBound(first, Sum(ToY(d, x, y, i), second))
    BY DEF Relaxed
  <2> HIDE DEF first, second
  <2>6. /\ Meets(v, i, j, Sum(ToY(d, x, y, i), second))
        /\ Sum(ToY(d, x, y, i), second) \in Int
    BY <2>2, <2>4, MeetsSum, SumCases
  <2> QED BY <2>3, <2>5, <2>6, MeetsLeast
<1> QED BY <1>3, <1>4

(* Tightening after one bound has decreased changes no valuation. *)
LEMMA TightenByExact ==
  ASSUME NEW d \in EntryMatrix, NEW x \in Clock0, NEW y \in Clock0
  PROVE  /\ TightenBy(d, x, y) \in EntryMatrix
         /\ \A v \in [Clock0 -> Int] : In(v, TightenBy(d, x, y)) <=> In(v, d)
<1>1. Relaxed(d, x, y) \in EntryMatrix
  BY RelaxedType
<1>2. CASE d[x][y] = LT_INFINITY
  BY <1>2, TightenByRelaxes
<1>3. CASE d[x][y] # LT_INFINITY
  <2>1. TightenBy(d, x, y) = MarkedIfEmpty(Relaxed(d, x, y))
    BY <1>3, TightenByRelaxes
  <2> QED BY <1>1, <2>1, MarkedEntries, InMarked, InRelaxed
<1> QED BY <1>2, <1>3

(* The matrix that constrain tightens. *)
WithBound(d, x, y, b) == [d EXCEPT ![x][y] = b]

(* The entries of a matrix with a new bound. *)
LEMMA WithBoundEntries ==
  ASSUME NEW d \in EntryMatrix, NEW x \in Clock0, NEW y \in Clock0, NEW b \in Entry
  PROVE  /\ WithBound(d, x, y, b) \in EntryMatrix
         /\ \A i, j \in Clock0 :
              WithBound(d, x, y, b)[i][j] = IF i = x /\ j = y THEN b ELSE d[i][j]
BY DEF WithBound, EntryMatrix

(* constrain keeps exactly the valuations that meet the constraint. *)
LEMMA ConstrainedExact ==
  ASSUME NEW d \in EntryMatrix, NEW x \in Clock0, NEW y \in Clock0, NEW b \in Entry
  PROVE  /\ Constrained(d, x, y, b) \in EntryMatrix
         /\ \A v \in [Clock0 -> Int] :
              In(v, Constrained(d, x, y, b)) <=> In(v, d) /\ Meets(v, x, y, b)
<1>1. d[x][y] \in Entry /\ d[x][y] \in Int /\ b \in Int
  BY DEF EntryMatrix, Entry
<1>2. CASE b >= d[x][y]
  <2>1. Constrained(d, x, y, b) = d
    BY <1>2 DEF Constrained
  <2>2. ASSUME NEW v \in [Clock0 -> Int], In(v, d)
        PROVE  Meets(v, x, y, b)
    <3>1. Meets(v, x, y, d[x][y])
      BY <2>2 DEF In
    <3> QED BY <1>1, <1>2, <3>1, MeetsLarger
  <2> QED BY <2>1, <2>2
<1>3. CASE ~(b >= d[x][y])
  <2>1. b \in Entry
    OBVIOUS
  <2>2. Constrained(d, x, y, b) = TightenBy(WithBound(d, x, y, b), x, y)
    BY <1>3 DEF Constrained, WithBound
  <2>3. ASSUME NEW v \in [Clock0 -> Int]
        PROVE  In(v, WithBound(d, x, y, b)) <=> In(v, d) /\ Meets(v, x, y, b)
    <3>1. Meets(v, x, y, b) => Meets(v, x, y, d[x][y])
      BY <1>1, <1>3, <2>1, MeetsLarger
    <3>2. \A i, j \in Clock0 :
            WithBound(d, x, y, b)[i][j] = IF i = x /\ j = y THEN b ELSE d[i][j]
      BY <2>1, WithBoundEntries
    <3>3. In(v, WithBound(d, x, y, b))
            <=> \A i, j \in Clock0 :
                  Meets(v, i, j, IF i = x /\ j = y THEN b ELSE d[i][j])
      BY <3>2 DEF In
    <3> HIDE DEF WithBound
    <3> QED BY <3>1, <3>3, Zenon DEF In
  <2> QED BY <2>1, <2>2, <2>3, WithBoundEntries, TightenByExact
<1> QED BY <1>2, <1>3

-----------------------------------------------------------------------------
(* Small finite bounds have a finite sum. *)
LEMMA FiniteSum ==
  ASSUME NEW b \in Entry, NEW c \in Entry, b # LT_INFINITY, c # LT_INFINITY,
         Value(b) + Value(c) < InfValue
  PROVE  Sum(b, c) = Plus(b, c) /\ Plus(b, c) \in Entry /\ Plus(b, c) # LT_INFINITY
<1>1. b \in Int /\ c \in Int /\ LT_INFINITY \in Int
  BY SpecialBounds DEF Entry
<1>2. Plus(b, c) \in Int /\ Value(Plus(b, c)) < Value(LT_INFINITY)
  BY <1>1, PlusParts, SpecialBounds
<1>3. Plus(b, c) <= LT_INFINITY
  BY <1>1, <1>2, BoundOrder
<1>4. Plus(b, c) # LT_INFINITY
  BY <1>2, SpecialBounds, InfValueAssumption
<1> QED BY <1>4, <1>1, <1>2, <1>3, SumCases DEF Entry

(* The path from i to j through a new bound b from x to y. *)
Via(d, x, y, b, i, j) ==
  IF d[i][x] = LT_INFINITY \/ d[y][j] = LT_INFINITY THEN LT_INFINITY
  ELSE Plus(Plus(d[i][x], b), d[y][j])

(* The new path, with the sums of the code. *)
LEMMA ViaSum ==
  ASSUME NEW d \in EntryMatrix, NEW x \in Clock0, NEW y \in Clock0,
         NEW b \in Entry, b # LT_INFINITY, NEW m \in Nat, UpTo(d, m), Value(b) <= m,
         3 * m < InfValue, NEW i \in Clock0, NEW j \in Clock0
  PROVE  /\ Via(d, x, y, b, i, j) = Sum(Sum(d[i][x], b), d[y][j])
         /\ Via(d, x, y, b, i, j) \in Entry
         /\ Sum(d[i][x], b) \in Entry
<1>1. d[i][x] \in Entry /\ d[y][j] \in Entry /\ b \in Int
      /\ d[i][x] \in Int /\ d[y][j] \in Int
  BY EntryMatrixType DEF Entry
<1>2. LT_INFINITY \in Entry /\ LT_INFINITY \in Int
  BY SpecialBounds DEF Entry
<1>3. CASE d[i][x] = LT_INFINITY
  BY <1>1, <1>2, <1>3, SumCases DEF Via
<1>4. CASE d[i][x] # LT_INFINITY
  <2>1. Value(d[i][x]) <= m /\ Value(d[i][x]) \in Int /\ Value(b) \in Int
    BY <1>1, <1>4, BoundParts DEF UpTo
  <2>2. Value(d[i][x]) + Value(b) < InfValue
    BY <2>1, InfValueAssumption
  <2>3. /\ Sum(d[i][x], b) = Plus(d[i][x], b)
        /\ Plus(d[i][x], b) \in Entry /\ Plus(d[i][x], b) # LT_INFINITY
    BY <1>1, <1>4, <2>2, FiniteSum
  <2>4. CASE d[y][j] = LT_INFINITY
    BY <1>1, <1>2, <2>3, <2>4, SumCases DEF Via, Entry
  <2>5. CASE d[y][j] # LT_INFINITY
    <3>1. Value(d[y][j]) <= m /\ Value(d[y][j]) \in Int
      BY <1>1, <2>5, BoundParts DEF UpTo
    <3>2. Value(Plus(d[i][x], b)) = Value(d[i][x]) + Value(b)
      BY <1>1, PlusParts
    <3>3. Value(Plus(d[i][x], b)) + Value(d[y][j]) < InfValue
      BY <2>1, <3>1, <3>2, InfValueAssumption
    <3> QED BY <1>1, <1>4, <2>3, <2>5, <3>3, FiniteSum DEF Via
  <2> QED BY <2>4, <2>5
<1> QED BY <1>3, <1>4

(* A bound that constrain has to add to a matrix whose finite bounds, like  *)
(* the new one, are not above m.                                            *)
NewBound(d, x, y, b, m) ==
  /\ NormalForm(d) /\ UpTo(d, m) /\ m \in Nat /\ 3 * m < InfValue
  /\ x \in Clock0 /\ y \in Clock0 /\ x # y
  /\ b \in Entry /\ Value(b) <= m /\ b < d[x][y]

(* The types of the entries, and of the sums on a new path. *)
LEMMA NewBoundTypes ==
  ASSUME NEW d, NEW x, NEW y, NEW b, NEW m, NewBound(d, x, y, b, m)
  PROVE  /\ d \in EntryMatrix /\ x \in Clock0 /\ y \in Clock0 /\ b \in Entry
         /\ b \in Int /\ b # LT_INFINITY /\ b <= LT_INFINITY /\ LT_INFINITY \in Entry
         /\ \A i, j \in Clock0 :
              /\ d[i][j] \in Entry /\ d[i][j] \in Int /\ d[i][j] <= LT_INFINITY
              /\ Sum(d[i][x], b) \in Entry
              /\ Via(d, x, y, b, i, j) = Sum(Sum(d[i][x], b), d[y][j])
              /\ Via(d, x, y, b, i, j) \in Entry
<1>1. /\ d \in EntryMatrix /\ x \in Clock0 /\ y \in Clock0 /\ b \in Entry
      /\ m \in Nat /\ UpTo(d, m) /\ Value(b) <= m /\ 3 * m < InfValue /\ b < d[x][y]
  BY DEF NewBound, NormalForm
<1>2. \A i, j \in Clock0 :
        d[i][j] \in Entry /\ d[i][j] \in Int /\ d[i][j] <= LT_INFINITY
  BY <1>1, EntryMatrixType
<1>3. b \in Int /\ b # LT_INFINITY /\ b <= LT_INFINITY /\ LT_INFINITY \in Entry
  BY <1>1, <1>2, SpecialBounds DEF Entry
<1> QED BY <1>1, <1>2, <1>3, ViaSum

(* The first loop of tighten: bounds to y, through x or not. *)
LEMMA BoundsToY ==
  ASSUME NEW d, NEW x, NEW y, NEW b, NEW m, NewBound(d, x, y, b, m), NEW i \in Clock0
  PROVE  ToY(WithBound(d, x, y, b), x, y, i) = LeastBound(Sum(d[i][x], b), d[i][y])
<1> DEFINE w == WithBound(d, x, y, b)
<1>1. \A k, j \in Clock0 : w[k][j] = IF k = x /\ j = y THEN b ELSE d[k][j]
  <2>1. d \in EntryMatrix /\ x \in Clock0 /\ y \in Clock0 /\ b \in Entry
    BY NewBoundTypes
  <2> QED BY <2>1, WithBoundEntries
<1>2. x \in Clock0 /\ y \in Clock0 /\ x # y /\ b < d[x][y] /\ d[x][x] = LE_ZERO
  BY DEF NewBound, NormalForm, IsConsistent
<1> HIDE DEF w
<1>3. CASE i = x
  <2>1. ToY(w, x, y, i) = b
    BY <1>1, <1>2, <1>3 DEF ToY
  <2>2. Sum(d[i][x], b) = b
    BY <1>2, <1>3, NewBoundTypes, SumZero
  <2> QED BY <1>2, <1>3, <2>1, <2>2 DEF w, LeastBound
<1>4. CASE i # x
  BY <1>1, <1>2, <1>4 DEF ToY, w
<1> QED BY <1>3, <1>4

(* A zone that is not found empty: the new bound makes no negative cycle. *)
LEMMA NoNegativeCycle ==
  ASSUME NEW d, NEW x, NEW y, NEW b, NEW m, NewBound(d, x, y, b, m),
         \A h \in Clock0 : Relaxed(WithBound(d, x, y, b), x, y)[h][h] >= LE_ZERO
  PROVE  /\ Sum(d[y][x], b) >= LE_ZERO
         /\ ToY(WithBound(d, x, y, b), x, y, y) = LE_ZERO
<1> DEFINE w == WithBound(d, x, y, b)
           t == ToY(w, x, y, y)
<1>1. d[y][y] = LE_ZERO /\ y \in Clock0 /\ x \in Clock0
  BY DEF NewBound, NormalForm, IsConsistent
<1>2. t = LeastBound(Sum(d[y][x], b), LE_ZERO)
  BY <1>1, BoundsToY
<1>3. Sum(d[y][x], b) \in Int /\ LE_ZERO \in Int
  BY <1>1, NewBoundTypes, SpecialBounds DEF Entry
<1>4. t \in Int /\ t <= Sum(d[y][x], b) /\ t <= LE_ZERO
  BY <1>2, <1>3, LeastBoundCases
<1>5. Relaxed(w, x, y)[y][y] = LeastBound(t, Sum(t, t))
  BY <1>1 DEF Relaxed
<1>6. t >= LE_ZERO
  <2> HIDE DEF t
  <2>1. Sum(t, t) \in Int
    BY <1>4, SumCases
  <2>2. LeastBound(t, Sum(t, t)) <= t /\ LeastBound(t, Sum(t, t)) \in Int
    BY <1>4, <2>1, LeastBoundCases
  <2>3. LeastBound(t, Sum(t, t)) >= LE_ZERO
    BY <1>1, <1>5
  <2> QED BY <1>3, <1>4, <2>2, <2>3
<1> HIDE DEF t, w
<1>7. t = LE_ZERO /\ Sum(d[y][x], b) >= LE_ZERO
  BY <1>3, <1>4, <1>6
<1> QED BY <1>7 DEF t, w

(* Without a negative cycle, an entry is the least of the old bound and the *)
(* path through the new one.                                                *)
LEMMA RelaxedEntry ==
  ASSUME NEW d, NEW x, NEW y, NEW b, NEW m, NewBound(d, x, y, b, m),
         \A h \in Clock0 : Relaxed(WithBound(d, x, y, b), x, y)[h][h] >= LE_ZERO,
         NEW i \in Clock0, NEW j \in Clock0
  PROVE  Relaxed(WithBound(d, x, y, b), x, y)[i][j]
           = LeastBound(d[i][j], Via(d, x, y, b, i, j))
<1> DEFINE w == WithBound(d, x, y, b)
           t == LeastBound(Sum(d[i][x], b), d[i][y])
<1>1. d \in EntryMatrix /\ x \in Clock0 /\ y \in Clock0 /\ b \in Entry
  BY NewBoundTypes
<1>2. x # y /\ IsConsistent(d) /\ IsTight(d)
  BY DEF NewBound, NormalForm
<1>3. /\ d[i][j] \in Entry /\ d[i][y] \in Entry /\ d[y][j] \in Entry
      /\ d[i][j] \in Int /\ d[i][y] \in Int /\ d[y][j] \in Int
      /\ Sum(d[i][x], b) \in Entry /\ Sum(d[i][x], b) \in Int
      /\ Via(d, x, y, b, i, j) = Sum(Sum(d[i][x], b), d[y][j])
      /\ Via(d, x, y, b, i, j) \in Entry /\ Via(d, x, y, b, i, j) \in Int
  BY <1>1, NewBoundTypes DEF Entry
<1>4. ToY(w, x, y, i) = t /\ ToY(w, x, y, y) = LE_ZERO
  BY <1>1, BoundsToY, NoNegativeCycle
<1>5. t \in Int
  BY <1>3, LeastBoundCases
<1>6. CASE j = y
  <2>1. Relaxed(w, x, y)[i][j] = LeastBound(t, Sum(t, LE_ZERO))
    BY <1>4, <1>6 DEF Relaxed
  <2>2. Via(d, x, y, b, i, j) = Sum(d[i][x], b)
    BY <1>1, <1>2, <1>3, <1>6, SumZero DEF IsConsistent
  <2> QED BY <1>3, <1>5, <1>6, <2>1, <2>2, SumZero DEF LeastBound
<1>7. CASE j # y
  <2>1. w[i][j] = d[i][j] /\ w[y][j] = d[y][j]
    BY <1>1, <1>2, <1>7, WithBoundEntries
  <2>2. Relaxed(w, x, y)[i][j] = LeastBound(d[i][j], Sum(t, d[y][j]))
    BY <1>4, <1>7, <2>1 DEF Relaxed
  <2>3. CASE Sum(d[i][x], b) < d[i][y]
    BY <1>3, <2>2, <2>3 DEF LeastBound
  <2>4. CASE ~(Sum(d[i][x], b) < d[i][y])
    <3>1. Relaxed(w, x, y)[i][j] = LeastBound(d[i][j], Sum(d[i][y], d[y][j]))
      BY <2>2, <2>4 DEF LeastBound
    <3>2. Sum(d[i][y], d[y][j]) \in Int /\ Sum(d[i][y], d[y][j]) >= d[i][j]
      BY <1>1, <1>2, <1>3, SumCases DEF IsTight
    <3>3. Via(d, x, y, b, i, j) >= d[i][j]
      <4>1. CASE Via(d, x, y, b, i, j) = LT_INFINITY
        BY <1>1, <4>1, NewBoundTypes
      <4>2. CASE Via(d, x, y, b, i, j) # LT_INFINITY
        <5>1. /\ d[y][j] # LT_INFINITY /\ Sum(d[i][x], b) # LT_INFINITY
              /\ Via(d, x, y, b, i, j) = Plus(Sum(d[i][x], b), d[y][j])
          BY <1>3, <4>2, SumCases
        <5>2. d[i][y] # LT_INFINITY
          BY <1>3, <2>4, <5>1, SpecialBounds DEF Entry
        <5>3. Sum(d[i][y], d[y][j]) = Plus(d[i][y], d[y][j])
          BY <1>3, <5>1, <5>2, SumCases
        <5>4. Plus(d[i][y], d[y][j]) <= Plus(Sum(d[i][x], b), d[y][j])
          BY <1>3, <2>4, PlusMonotone
        <5> QED BY <1>3, <3>2, <5>1, <5>3, <5>4
      <4> QED BY <4>1, <4>2
    <3> QED BY <1>3, <3>1, <3>2, <3>3 DEF LeastBound
  <2> QED BY <2>3, <2>4
<1> QED BY <1>6, <1>7

(* Tightness is extended by a new bound at either end of a path. *)
LEMMA PlusPaths ==
  ASSUME NEW a \in Int, NEW p \in Int, NEW b \in Int, NEW q \in Int, NEW c \in Int
  PROVE  /\ Plus(a, p) >= c => Plus(a, Plus(Plus(p, b), q)) >= Plus(Plus(c, b), q)
         /\ Plus(q, a) >= c => Plus(Plus(Plus(p, b), q), a) >= Plus(Plus(p, b), c)
<1>1. /\ Plus(p, b) \in Int /\ Plus(Plus(p, b), q) \in Int /\ Plus(a, p) \in Int
      /\ Plus(q, a) \in Int
  BY PlusParts
<1>2. Plus(a, Plus(Plus(p, b), q)) = Plus(Plus(Plus(a, p), b), q)
  BY <1>1, PlusAlgebra
<1>3. Plus(Plus(Plus(p, b), q), a) = Plus(Plus(p, b), Plus(q, a))
  BY <1>1, PlusAlgebra
<1>4. ASSUME Plus(a, p) >= c
      PROVE  Plus(Plus(Plus(a, p), b), q) >= Plus(Plus(c, b), q)
  <2>1. Plus(c, b) <= Plus(Plus(a, p), b)
    BY <1>1, <1>4, PlusMonotone
  <2>2. Plus(c, b) \in Int /\ Plus(Plus(a, p), b) \in Int
    BY <1>1, PlusParts
  <2>3. Plus(Plus(c, b), q) <= Plus(Plus(Plus(a, p), b), q)
    BY <2>1, <2>2, PlusMonotone
  <2> QED BY <2>2, <2>3, PlusParts
<1>5. ASSUME Plus(q, a) >= c
      PROVE  Plus(Plus(p, b), Plus(q, a)) >= Plus(Plus(p, b), c)
  <2>1. Plus(Plus(p, b), c) <= Plus(Plus(p, b), Plus(q, a))
    BY <1>1, <1>5, PlusMonotone
  <2> QED BY <1>1, <2>1, PlusParts
<1> QED BY <1>2, <1>3, <1>4, <1>5

(* Two passes through the new bound close a cycle that is not negative. *)
LEMMA PlusCycle ==
  ASSUME NEW p \in Int, NEW b \in Int, NEW q \in Int, NEW r \in Int, NEW s \in Int,
         NEW c \in Int, Plus(q, r) >= c, Plus(c, b) >= LE_ZERO
  PROVE  Plus(Plus(Plus(p, b), q), Plus(Plus(r, b), s)) >= Plus(Plus(p, b), s)
<1> DEFINE cycle == Plus(Plus(q, r), b)
<1>1. /\ Plus(p, b) \in Int /\ Plus(q, r) \in Int /\ cycle \in Int /\ Plus(c, b) \in Int
      /\ Plus(r, b) \in Int /\ Plus(Plus(r, b), s) \in Int /\ LE_ZERO \in Int
  <2>1. Plus(p, b) \in Int /\ Plus(q, r) \in Int /\ Plus(c, b) \in Int
        /\ Plus(r, b) \in Int /\ LE_ZERO \in Int
    BY PlusParts, SpecialBounds
  <2> QED BY <2>1, PlusParts
<1>2. cycle >= LE_ZERO
  <2>1. Plus(c, b) <= cycle
    BY <1>1, PlusMonotone
  <2> HIDE DEF cycle
  <2> QED BY <1>1, <2>1
<1>3. Plus(Plus(Plus(p, b), q), Plus(Plus(r, b), s)) = Plus(Plus(p, b), Plus(cycle, s))
  <2>1. Plus(Plus(Plus(p, b), q), Plus(Plus(r, b), s))
          = Plus(Plus(p, b), Plus(q, Plus(Plus(r, b), s)))
    BY <1>1, PlusAlgebra
  <2>2. Plus(q, Plus(Plus(r, b), s)) = Plus(Plus(q, Plus(r, b)), s)
    BY <1>1, PlusAlgebra
  <2>3. Plus(q, Plus(r, b)) = cycle
    BY <1>1, PlusAlgebra
  <2> QED BY <2>1, <2>2, <2>3
<1> HIDE DEF cycle
<1>4. Plus(s, LE_ZERO) <= Plus(s, cycle) /\ Plus(s, LE_ZERO) = s
  BY <1>1, <1>2, PlusMonotone, PlusAlgebra
<1>5. Plus(s, cycle) = Plus(cycle, s) /\ Plus(cycle, s) \in Int
  BY <1>1, PlusAlgebra, PlusParts
<1>6. Plus(Plus(p, b), s) <= Plus(Plus(p, b), Plus(cycle, s))
  BY <1>1, <1>4, <1>5, PlusMonotone
<1> QED BY <1>1, <1>3, <1>5, <1>6, PlusParts

(* In a tight matrix, an entry is finite and least along finite paths. *)
LEMMA TightPath ==
  ASSUME NEW d \in EntryMatrix, IsTight(d), NEW m \in Nat, UpTo(d, m), 2 * m < InfValue,
         NEW i \in Clock0, NEW j \in Clock0, NEW k \in Clock0,
         d[i][k] # LT_INFINITY, d[k][j] # LT_INFINITY
  PROVE  d[i][j] # LT_INFINITY /\ Plus(d[i][k], d[k][j]) >= d[i][j]
<1>1. /\ d[i][k] \in Entry /\ d[k][j] \in Entry /\ d[i][j] \in Entry
      /\ d[i][k] \in Int /\ d[k][j] \in Int /\ d[i][j] \in Int
  BY EntryMatrixType
<1>2. Value(d[i][k]) <= m /\ Value(d[k][j]) <= m
      /\ Value(d[i][k]) \in Int /\ Value(d[k][j]) \in Int
  BY <1>1, BoundParts DEF UpTo
<1>3. Value(d[i][k]) + Value(d[k][j]) < InfValue
  BY <1>2, InfValueAssumption
<1>4. /\ Sum(d[i][k], d[k][j]) = Plus(d[i][k], d[k][j])
      /\ Plus(d[i][k], d[k][j]) \in Entry /\ Plus(d[i][k], d[k][j]) # LT_INFINITY
  BY <1>1, <1>3, FiniteSum
<1>5. Sum(d[i][k], d[k][j]) >= d[i][j]
  BY DEF IsTight
<1> QED BY <1>1, <1>4, <1>5, SpecialBounds DEF Entry

(* After one relaxation, paths over the new bound are closed as well. *)
LEMMA RelaxedTight ==
  ASSUME NEW d, NEW x, NEW y, NEW b, NEW m, NewBound(d, x, y, b, m),
         \A h \in Clock0 : Relaxed(WithBound(d, x, y, b), x, y)[h][h] >= LE_ZERO
  PROVE  IsTight(Relaxed(WithBound(d, x, y, b), x, y))
<1> DEFINE r == Relaxed(WithBound(d, x, y, b), x, y)
           via(i, j) == Via(d, x, y, b, i, j)
<1>1. /\ d \in EntryMatrix /\ x \in Clock0 /\ y \in Clock0 /\ b \in Int
      /\ b # LT_INFINITY /\ IsTight(d) /\ m \in Nat /\ UpTo(d, m) /\ 2 * m < InfValue
  <2>1. NormalForm(d) /\ m \in Nat /\ UpTo(d, m) /\ 3 * m < InfValue
    BY DEF NewBound
  <2> QED BY <2>1, NewBoundTypes, InfValueAssumption DEF NormalForm
<1>2. \A i, j \in Clock0 : d[i][j] \in Int /\ d[i][j] <= LT_INFINITY
  BY <1>1, EntryMatrixType
<1>3. \A i, j \in Clock0 : via(i, j) \in Int /\ via(i, j) <= LT_INFINITY
  BY NewBoundTypes DEF Entry
<1>4. \A i, j \in Clock0 : r[i][j] = LeastBound(d[i][j], via(i, j))
  BY RelaxedEntry
<1> HIDE DEF r
<1>5. \A i, j \in Clock0 :
        /\ r[i][j] \in Int /\ r[i][j] <= LT_INFINITY
        /\ r[i][j] <= d[i][j] /\ r[i][j] <= via(i, j) /\ r[i][j] \in {d[i][j], via(i, j)}
  <2> HIDE DEF via
  <2> TAKE i, j \in Clock0
  <2>1. d[i][j] \in Int /\ via(i, j) \in Int
    BY <1>2, <1>3
  <2>2. d[i][j] <= LT_INFINITY /\ via(i, j) <= LT_INFINITY /\ LT_INFINITY \in Int
    BY <1>2, <1>3, SpecialBounds
  <2>3. r[i][j] = LeastBound(d[i][j], via(i, j))
    BY <1>4
  <2> QED BY <2>1, <2>2, <2>3 DEF LeastBound
<1> SUFFICES ASSUME NEW i \in Clock0, NEW j \in Clock0, NEW k \in Clock0
             PROVE  Sum(r[i][k], r[k][j]) >= r[i][j]
  BY DEF IsTight, r
<1>6. CASE r[i][k] = LT_INFINITY \/ r[k][j] = LT_INFINITY
  <2>1. Sum(r[i][k], r[k][j]) = LT_INFINITY
    BY <1>5, <1>6, SumCases
  <2> QED BY <1>5, <2>1, SpecialBounds
<1>7. CASE r[i][k] # LT_INFINITY /\ r[k][j] # LT_INFINITY
  <2>1. Sum(r[i][k], r[k][j]) = Plus(r[i][k], r[k][j]) /\ Plus(r[i][k], r[k][j]) \in Int
    BY <1>5, <1>7, SumCases, PlusParts
  <2>2. CASE r[i][k] = d[i][k] /\ r[k][j] = d[k][j]
    <3>1. Plus(d[i][k], d[k][j]) >= d[i][j]
      BY <1>1, <1>7, <2>2, TightPath
    <3> QED BY <1>2, <1>5, <2>1, <2>2, <3>1
  <2>3. CASE r[i][k] = d[i][k] /\ r[k][j] = via(k, j)
    <3>1. /\ d[k][x] # LT_INFINITY /\ d[y][j] # LT_INFINITY
          /\ via(k, j) = Plus(Plus(d[k][x], b), d[y][j])
      BY <1>7, <2>3 DEF Via
    <3>2. d[i][x] # LT_INFINITY /\ Plus(d[i][k], d[k][x]) >= d[i][x]
      BY <1>1, <1>7, <2>3, <3>1, TightPath
    <3>3. via(i, j) = Plus(Plus(d[i][x], b), d[y][j])
      BY <3>1, <3>2 DEF Via
    <3>4. Plus(d[i][k], via(k, j)) >= via(i, j)
      BY <1>1, <1>2, <3>1, <3>2, <3>3, PlusPaths
    <3> HIDE DEF via
    <3> QED BY <1>3, <1>5, <2>1, <2>3, <3>4
  <2>4. CASE r[i][k] = via(i, k) /\ r[k][j] = d[k][j]
    <3>1. /\ d[i][x] # LT_INFINITY /\ d[y][k] # LT_INFINITY
          /\ via(i, k) = Plus(Plus(d[i][x], b), d[y][k])
      BY <1>7, <2>4 DEF Via
    <3>2. d[y][j] # LT_INFINITY /\ Plus(d[y][k], d[k][j]) >= d[y][j]
      BY <1>1, <1>7, <2>4, <3>1, TightPath
    <3>3. via(i, j) = Plus(Plus(d[i][x], b), d[y][j])
      BY <3>1, <3>2 DEF Via
    <3>4. Plus(via(i, k), d[k][j]) >= via(i, j)
      BY <1>1, <1>2, <3>1, <3>2, <3>3, PlusPaths
    <3> HIDE DEF via
    <3> QED BY <1>3, <1>5, <2>1, <2>4, <3>4
  <2>5. CASE r[i][k] = via(i, k) /\ r[k][j] = via(k, j)
    <3>1. /\ d[i][x] # LT_INFINITY /\ d[y][k] # LT_INFINITY
          /\ d[k][x] # LT_INFINITY /\ d[y][j] # LT_INFINITY
          /\ via(i, k) = Plus(Plus(d[i][x], b), d[y][k])
          /\ via(k, j) = Plus(Plus(d[k][x], b), d[y][j])
          /\ via(i, j) = Plus(Plus(d[i][x], b), d[y][j])
      BY <1>7, <2>5 DEF Via
    <3>2. d[y][x] # LT_INFINITY /\ Plus(d[y][k], d[k][x]) >= d[y][x]
      BY <1>1, <3>1, TightPath
    <3>3. Plus(d[y][x], b) >= LE_ZERO
      <4>1. Sum(d[y][x], b) >= LE_ZERO
        BY NoNegativeCycle
      <4> QED BY <1>1, <1>2, <3>2, <4>1, SumCases
    <3>4. Plus(via(i, k), via(k, j)) >= via(i, j)
      BY <1>1, <1>2, <3>1, <3>2, <3>3, PlusCycle
    <3> HIDE DEF via
    <3> QED BY <1>3, <1>5, <2>1, <2>5, <3>4
  <2> HIDE DEF via
  <2> QED BY <1>5, <2>2, <2>3, <2>4, <2>5
<1> QED BY <1>6, <1>7

(* constrain leaves an empty zone or a matrix in normal form. *)
LEMMA ConstrainedNormal ==
  ASSUME NEW d, NormalForm(d), NEW m \in Nat, UpTo(d, m), 3 * m < InfValue,
         NEW x \in Clock0, NEW y \in Clock0, NEW b \in Entry, Value(b) <= m
  PROVE  IsEmpty0(Constrained(d, x, y, b)) \/ NormalForm(Constrained(d, x, y, b))
<1> DEFINE w == WithBound(d, x, y, b)
           r == Relaxed(w, x, y)
<1>1. /\ d \in EntryMatrix /\ IsConsistent(d) /\ IsPositive(d) /\ d[x][y] \in Int
      /\ d[x][y] \in Entry /\ b \in Int
  BY EntryMatrixType DEF NormalForm, Entry
<1>2. CASE b >= d[x][y]
  BY <1>2 DEF Constrained
<1>3. CASE b < d[x][y]
  <2>1. b # LT_INFINITY /\ w[x][y] = b /\ w \in EntryMatrix
    BY <1>1, <1>3, WithBoundEntries, SpecialBounds DEF Entry
  <2>2. Constrained(d, x, y, b) = MarkedIfEmpty(r)
    <3>1. ~(b >= d[x][y])
      BY <1>1, <1>3
    <3>2. Constrained(d, x, y, b) = TightenBy(w, x, y)
      BY <3>1 DEF Constrained, WithBound
    <3> QED BY <2>1, <3>2, TightenByRelaxes
  <2>3. r \in EntryMatrix /\ \A i, j \in Clock0 : r[i][j] <= w[i][j]
    BY <2>1, RelaxedType
  <2>4. CASE \E h \in Clock0 : r[h][h] < LE_ZERO
    BY <2>2, <2>3, <2>4, MarkedEntries
  <2>5. CASE ~ \E h \in Clock0 : r[h][h] < LE_ZERO
    <3>1. MarkedIfEmpty(r) = r
      BY <2>5 DEF MarkedIfEmpty
    <3>2. \A i, j \in Clock0 : r[i][j] \in Int /\ w[i][j] \in Int /\ d[i][j] \in Int
      BY <1>1, <2>1, <2>3, EntryMatrixType
    <3>3. \A h \in Clock0 : r[h][h] >= LE_ZERO
      BY <2>5, <3>2, SpecialBounds
    <3>4. \A i, j \in Clock0 : w[i][j] <= d[i][j]
      <4> TAKE i, j \in Clock0
      <4>1. w[i][j] = IF i = x /\ j = y THEN b ELSE d[i][j]
        BY <1>1, WithBoundEntries
      <4>2. d[i][j] \in Int
        BY <3>2
      <4> QED BY <1>1, <1>3, <4>1, <4>2
    <3> HIDE DEF w
    <3>5. \A i, j \in Clock0 : r[i][j] <= d[i][j]
      <4> HIDE DEF r
      <4> QED BY <2>3, <3>2, <3>4
    <3> HIDE DEF r
    <3>6. IsConsistent(r) /\ IsPositive(r)
      <4>1. ASSUME NEW h \in Clock0
            PROVE  r[h][h] = LE_ZERO
        <5>1. d[h][h] = LE_ZERO /\ r[h][h] <= d[h][h] /\ r[h][h] >= LE_ZERO
          BY <1>1, <3>3, <3>5 DEF IsConsistent
        <5> QED BY <3>2, <5>1, SpecialBounds
      <4>2. ASSUME NEW h \in Clock0
            PROVE  r[0][h] <= LE_ZERO
        <5>1. d[0][h] <= LE_ZERO /\ r[0][h] <= d[0][h]
          BY <1>1, <3>5, Clocks DEF IsPositive
        <5> QED BY <3>2, <5>1, Clocks, SpecialBounds
      <4> QED BY <4>1, <4>2 DEF IsConsistent, IsPositive
    <3>7. x # y
      BY <2>1, <2>3, <3>2, <3>3, <1>1, <1>3, SpecialBounds DEF IsConsistent
    <3>8. NewBound(d, x, y, b, m)
      BY <1>3, <3>7 DEF NewBound
    <3>9. IsTight(r)
      BY <3>3, <3>8, RelaxedTight DEF r, w
    <3> QED BY <2>2, <2>3, <3>1, <3>6, <3>9 DEF NormalForm
  <2> QED BY <2>4, <2>5
<1> QED BY <1>1, <1>2, <1>3

-----------------------------------------------------------------------------
(* A set of natural numbers has a least element; from it, induction up to n. *)
LEMMA LeastElement ==
  ASSUME NEW T \in SUBSET Nat, T # {}
  PROVE  \E n \in T : \A m \in T : n <= m
<1> DEFINE R == OpToRel(<, Nat)
<1>1. IsWellFoundedOn(R, Nat)
  BY NatLessThanWellFounded, Zenon
<1>2. \A m, n \in Nat : m < n => <<m, n>> \in R
  BY SMT DEF OpToRel
<1> HIDE DEF R
<1>3. PICK n \in T : \A m \in T : ~ (<<m, n>> \in R)
  BY <1>1, WFMin, Zenon
<1>4. \A m \in T : ~ (m < n)
  BY <1>2, <1>3, Zenon
<1>5. n \in Nat /\ \A m \in T : m \in Nat
  OBVIOUS
<1>6. \A m \in T : n <= m
  BY <1>4, <1>5, SMT
<1> QED BY <1>6

(* A set with 0 and the successors up to N holds all of 0 .. N. *)
LEMMA Induction ==
  ASSUME NEW N \in Nat, NEW T, 0 \in T,
         \A n \in 1 .. N : n - 1 \in T => n \in T
  PROVE  0 .. N \subseteq T
<1> DEFINE missing == (0 .. N) \ T
<1> SUFFICES ASSUME missing # {}
             PROVE  FALSE
  OBVIOUS
<1>1. missing \in SUBSET Nat
  OBVIOUS
<1>2. PICK n \in missing : \A m \in missing : n <= m
  BY <1>1, LeastElement
<1>3. n \in 1 .. N /\ n \notin T
  BY <1>2
<1>4. n - 1 \in T
  <2>1. ~ (n - 1 \in missing)
    <3> HIDE DEF missing
    <3> QED BY <1>2, <1>3
  <2> QED BY <1>3, <2>1
<1> QED BY <1>3, <1>4

(* One round of tighten(dbm, dim), for paths through clock n - 1. *)
Through(e, k) ==
  [i \in Clock0 |-> [j \in Clock0 |->
    IF i = k THEN e[i][j] ELSE LeastBound(Sum(e[i][k], e[k][j]), e[i][j])]]

(* One round of tighten, and the matrices after each round. *)
Round(e, n) == IF IsEmpty0(e) THEN e ELSE MarkedIfEmpty(Through(e, n - 1))

Rounds(g, d, n) == g = [p \in 0 .. n |-> IF p = 0 THEN d ELSE Round(g[p - 1], p)]

(* The matrices after the rounds, one by one. *)
LEMMA RoundsEntries ==
  ASSUME NEW g, NEW d, NEW n, g = [p \in 0 .. n |-> g[p]],
         \A p \in 0 .. n : g[p] = IF p = 0 THEN d ELSE Round(g[p - 1], p)
  PROVE  Rounds(g, d, n)
<1> DEFINE h == [p \in 0 .. n |-> IF p = 0 THEN d ELSE Round(g[p - 1], p)]
<1>1. \A p \in 0 .. n : h[p] = IF p = 0 THEN d ELSE Round(g[p - 1], p)
  OBVIOUS
<1>2. h = [p \in 0 .. n |-> h[p]]
  OBVIOUS
<1>3. Rounds(g, d, n) <=> g = h
  BY Zenon DEF Rounds
<1> HIDE DEF h
<1>4. \A p \in 0 .. n : g[p] = h[p]
  BY <1>1, Zenon
<1> QED BY <1>2, <1>3, <1>4

(* The rounds can be carried out up to any number. *)
LEMMA RoundsExist ==
  ASSUME NEW d, NEW N \in Nat
  PROVE  \E g : Rounds(g, d, N)
<1> DEFINE T == {n \in 0 .. N : \E g : Rounds(g, d, n)}
<1>1. 0 \in T
  <2> DEFINE g == [p \in 0 .. 0 |-> d]
  <2>1. \A p \in 0 .. 0 : g[p] = IF p = 0 THEN d ELSE Round(g[p - 1], p)
    BY SMT
  <2>2. g = [p \in 0 .. 0 |-> g[p]]
    OBVIOUS
  <2> HIDE DEF g
  <2>3. Rounds(g, d, 0)
    BY <2>1, <2>2, RoundsEntries, Zenon
  <2>4. 0 \in 0 .. N
    OBVIOUS
  <2> QED BY <2>3, <2>4, Zenon
<1>2. ASSUME NEW n \in 1 .. N, n - 1 \in T
      PROVE  n \in T
  <2>1. PICK f : Rounds(f, d, n - 1)
    BY <1>2
  <2>2. f = [p \in 0 .. n - 1 |-> IF p = 0 THEN d ELSE Round(f[p - 1], p)]
    BY <2>1 DEF Rounds
  <2> DEFINE g == [p \in 0 .. n |-> IF p < n THEN f[p] ELSE Round(f[n - 1], n)]
  <2>3. ASSUME NEW p \in 0 .. n
        PROVE  g[p] = IF p = 0 THEN d ELSE Round(g[p - 1], p)
    <3>1. CASE p = 0
      BY <2>2, <3>1
    <3>2. CASE p # 0 /\ p < n
      <4>1. g[p] = f[p] /\ g[p - 1] = f[p - 1] /\ p \in 0 .. n - 1
        BY <3>2
      <4>2. f[p] = Round(f[p - 1], p)
        BY <2>2, <3>2, <4>1
      <4> QED BY <3>2, <4>1, <4>2
    <3>3. CASE p = n
      <4>1. g[p - 1] = f[n - 1] /\ g[p] = Round(f[n - 1], n) /\ p # 0
        BY <3>3
      <4> QED BY <3>3, <4>1
    <3> QED BY <3>1, <3>2, <3>3
  <2>4. g = [p \in 0 .. n |-> g[p]]
    OBVIOUS
  <2> HIDE DEF g
  <2>5. Rounds(g, d, n)
    BY <2>3, <2>4, RoundsEntries, Zenon
  <2>6. n \in 0 .. N
    OBVIOUS
  <2> QED BY <2>5, <2>6, Zenon
<1>3. 0 .. N \subseteq T
  <2> HIDE DEF T
  <2> QED BY <1>1, <1>2, Induction
<1> QED BY <1>3

(* tighten(dbm, dim) is a round for each clock. *)
LEMMA TightenRounds ==
  ASSUME NEW d
  PROVE  \E g : /\ g[0] = d
                /\ \A n \in 1 .. Dim : g[n] = Round(g[n - 1], n)
                /\ Tighten(d) = g[Dim]
<1> DEFINE g == CHOOSE f : Rounds(f, d, Dim)
<1>1. Dim \in Nat
  BY DimAssumption
<1>2. Rounds(g, d, Dim)
  BY <1>1, RoundsExist, Zenon
<1>3. Tighten(d) = g[Dim]
  BY Zenon DEF Tighten, Rounds, Round, Through
<1> HIDE DEF g
<1>4. g[0] = d
  BY <1>1, <1>2 DEF Rounds
<1>5. \A n \in 1 .. Dim : g[n] = Round(g[n - 1], n)
  BY <1>1, <1>2 DEF Rounds
<1> QED BY <1>3, <1>4, <1>5

(* A round keeps bounds within db_t, and lowers them. *)
LEMMA ThroughEntries ==
  ASSUME NEW e \in EntryMatrix, NEW k \in Clock0
  PROVE  /\ Through(e, k) \in EntryMatrix
         /\ \A i, j \in Clock0 : Through(e, k)[i][j] <= e[i][j]
<1> SUFFICES ASSUME NEW i \in Clock0, NEW j \in Clock0
             PROVE  Through(e, k)[i][j] \in Entry /\ Through(e, k)[i][j] <= e[i][j]
  BY DEF EntryMatrix, Through
<1>1. /\ e[i][j] \in Entry /\ e[i][j] \in Int
      /\ e[i][k] \in Int /\ e[k][j] \in Int
  BY EntryMatrixType
<1>2. Sum(e[i][k], e[k][j]) \in Int
  BY <1>1, SumCases
<1>3. Through(e, k)[i][j] = IF i = k THEN e[i][j]
                            ELSE LeastBound(Sum(e[i][k], e[k][j]), e[i][j])
  BY DEF Through
<1> QED BY <1>1, <1>2, <1>3, LeastBoundCases

(* A round changes no valuation. *)
LEMMA InThrough ==
  ASSUME NEW e \in EntryMatrix, NEW k \in Clock0, NEW v \in [Clock0 -> Int]
  PROVE  In(v, Through(e, k)) <=> In(v, e)
<1>1. ASSUME In(v, Through(e, k))
      PROVE  In(v, e)
  <2>1. Through(e, k) \in Matrix
    BY ThroughEntries, EntryMatrixType
  <2> QED BY <1>1, <2>1, ThroughEntries, InLarger
<1>2. ASSUME In(v, e)
      PROVE  In(v, Through(e, k))
  <2> SUFFICES ASSUME NEW i \in Clock0, NEW j \in Clock0
               PROVE  Meets(v, i, j, Through(e, k)[i][j])
    BY DEF In
  <2>1. e[i][j] \in Int /\ e[i][k] \in Int /\ e[k][j] \in Int
    BY EntryMatrixType
  <2>2. Meets(v, i, j, e[i][j]) /\ Meets(v, i, k, e[i][k]) /\ Meets(v, k, j, e[k][j])
    BY <1>2 DEF In
  <2>3. Meets(v, i, j, Sum(e[i][k], e[k][j])) /\ Sum(e[i][k], e[k][j]) \in Int
    BY <2>1, <2>2, MeetsSum, SumCases
  <2> QED BY <2>1, <2>2, <2>3, MeetsLeast DEF Through
<1> QED BY <1>1, <1>2

(* tighten removes no valuation, and adds none. *)
LEMMA TightenExact ==
  ASSUME NEW d \in EntryMatrix
  PROVE  /\ Tighten(d) \in EntryMatrix
         /\ \A v \in [Clock0 -> Int] : In(v, Tighten(d)) <=> In(v, d)
<1>1. PICK g : /\ g[0] = d
               /\ \A n \in 1 .. Dim : g[n] = Round(g[n - 1], n)
               /\ Tighten(d) = g[Dim]
  BY TightenRounds
<1> DEFINE T == {n \in 0 .. Dim :
                   /\ g[n] \in EntryMatrix
                   /\ \A v \in [Clock0 -> Int] : In(v, g[n]) <=> In(v, d)}
<1>2. 0 \in T
  BY <1>1, DimAssumption
<1>3. ASSUME NEW n \in 1 .. Dim, n - 1 \in T
      PROVE  n \in T
  <2>1. n - 1 \in Clock0 /\ n \in 0 .. Dim
    BY DimAssumption DEF Clock0
  <2>2. g[n] = Round(g[n - 1], n)
    BY <1>1
  <2>3. /\ g[n - 1] \in EntryMatrix
        /\ \A v \in [Clock0 -> Int] : In(v, g[n - 1]) <=> In(v, d)
    BY <1>3
  <2> DEFINE e == g[n - 1]
             r == Through(e, n - 1)
  <2>4. r \in EntryMatrix /\ \A v \in [Clock0 -> Int] : In(v, r) <=> In(v, e)
    BY <2>1, <2>3, ThroughEntries, InThrough
  <2>5. /\ MarkedIfEmpty(r) \in EntryMatrix
        /\ \A v \in [Clock0 -> Int] : In(v, MarkedIfEmpty(r)) <=> In(v, r)
    <3> HIDE DEF r
    <3> QED BY <2>4, MarkedEntries, InMarked
  <2>6. g[n] = IF IsEmpty0(e) THEN e ELSE MarkedIfEmpty(r)
    BY <2>2 DEF Round
  <2> HIDE DEF r, e
  <2>7. /\ g[n] \in EntryMatrix
        /\ \A v \in [Clock0 -> Int] : In(v, g[n]) <=> In(v, e)
    BY <2>3, <2>4, <2>5, <2>6 DEF e
  <2> QED BY <2>1, <2>3, <2>7, Zenon DEF e
<1>4. Dim \in T
  <2> HIDE DEF T
  <2>1. 0 .. Dim \subseteq T
    BY <1>2, <1>3, DimAssumption, Induction
  <2> QED BY <2>1, DimAssumption
<1> QED BY <1>1, <1>4

-----------------------------------------------------------------------------
(* Tightness after rounds.  Before round n, a bound is that of the best     *)
(* path through clocks below n; the clocks on such paths are counted to     *)
(* bound it, since a sum that reached infinity would hide a path.           *)
Finite(b) == b # LT_INFINITY

(* The clocks below n over which the entry (i, j) has a finite path. *)
Passed(e, n, i, j) == {k \in 0 .. n - 1 : Finite(e[i][k]) /\ Finite(e[k][j])}

(* Such a path leaves the entry finite, *)
PathsFinite(e, n) ==
  \A i, j \in Clock0 : Passed(e, n, i, j) # {} => Finite(e[i][j])

(* bounded by the number of bounds that it can have summed up, *)
PathsBounded(e, n, m) ==
  \A i, j \in Clock0 :
    Finite(e[i][j]) => Value(e[i][j]) <= (Cardinality(Passed(e, n, i, j)) + 1) * m

(* and not above the path. *)
PathsTight(e, n) ==
  \A i, j \in Clock0 : \A k \in Passed(e, n, i, j) : Plus(e[i][k], e[k][j]) >= e[i][j]

(* The invariant of the rounds: what holds after the clocks below n. *)
Stage(e, n, m) ==
  /\ e \in EntryMatrix /\ IsConsistent(e) /\ IsPositive(e)
  /\ PathsFinite(e, n) /\ PathsBounded(e, n, m) /\ PathsTight(e, n)

(* The clocks of paths are finitely many, and not more than n. *)
LEMMA PassedFinite ==
  ASSUME NEW e, NEW n \in 0 .. Dim, NEW i, NEW j
  PROVE  /\ IsFiniteSet(Passed(e, n, i, j)) /\ Cardinality(Passed(e, n, i, j)) \in Nat
         /\ Cardinality(Passed(e, n, i, j)) <= n
         /\ Passed(e, n, i, j) \subseteq Clock0
<1>1. n \in Nat /\ n <= Dim /\ Dim \in Nat
  BY DimAssumption
<1>2. IsFiniteSet(0 .. n - 1) /\ Cardinality(0 .. n - 1) = n
  BY <1>1, FS_Interval
<1>3. Passed(e, n, i, j) \in SUBSET (0 .. n - 1)
  BY DEF Passed
<1> HIDE DEF Passed
<1>4. IsFiniteSet(Passed(e, n, i, j)) /\ Cardinality(Passed(e, n, i, j)) <= n
  BY <1>2, <1>3, FS_Subset
<1> QED BY <1>1, <1>3, <1>4, FS_CardinalityType DEF Clock0

(* Disjoint paths that meet in k have their clocks in the joint path. *)
LEMMA DisjointUnion ==
  ASSUME NEW A, NEW B, NEW C, NEW k, IsFiniteSet(A), IsFiniteSet(B), IsFiniteSet(C),
         A \cap B = {}, k \notin A, k \notin B, A \cup B \cup {k} \subseteq C
  PROVE  Cardinality(A) + Cardinality(B) + 1 <= Cardinality(C)
<1>1. IsFiniteSet(A \cup B) /\ Cardinality(A \cup B) = Cardinality(A) + Cardinality(B)
  <2>1. /\ IsFiniteSet(A \cup B)
        /\ Cardinality(A \cup B) = Cardinality(A) + Cardinality(B) - Cardinality(A \cap B)
    BY FS_Union
  <2>2. Cardinality(A \cap B) = 0
    BY FS_EmptySet
  <2>3. Cardinality(A) \in Nat /\ Cardinality(B) \in Nat
    BY FS_CardinalityType
  <2> QED BY <2>1, <2>2, <2>3
<1>2. /\ IsFiniteSet(A \cup B \cup {k})
      /\ Cardinality(A \cup B \cup {k}) = Cardinality(A) + Cardinality(B) + 1
  BY <1>1, FS_AddElement
<1>3. Cardinality(A \cup B \cup {k}) <= Cardinality(C)
  BY FS_Subset
<1> QED BY <1>2, <1>3

(* Sums and bounds of products with m. *)
LEMMA PathProduct ==
  ASSUME NEW a \in Nat, NEW b \in Nat, NEW c \in Nat, NEW m \in Nat
  PROVE  /\ (a + 1) * m + (b + 1) * m = (a + b + 2) * m
         /\ a <= c => a * m <= c * m
         /\ a * m \in Nat
<1>1. (a + 1) * m + (b + 1) * m = (a + b + 2) * m
  BY SMT
<1>2. a * m \in Nat
  BY SMT
<1>3. ASSUME a <= c
      PROVE  a * m <= c * m
  <2>1. PICK h \in Nat : c = a + h
    <3> c - a \in Nat
      BY <1>3, SMT
    <3> QED BY SMT
  <2>2. c * m = a * m + h * m /\ h * m \in Nat
    BY <2>1, SMT
  <2> QED BY <1>2, <2>2, SMT
<1> QED BY <1>1, <1>2, <1>3

(* The types at a stage. *)
LEMMA StageTypes ==
  ASSUME NEW e, NEW n, NEW m, Stage(e, n, m)
  PROVE  /\ e \in EntryMatrix
         /\ \A i \in Clock0 : e[i][i] = LE_ZERO /\ e[0][i] <= LE_ZERO
         /\ \A i, j \in Clock0 :
              /\ e[i][j] \in Entry /\ e[i][j] \in Int /\ e[i][j] <= LT_INFINITY
              /\ Value(e[i][j]) \in Int
<1>1. e \in EntryMatrix
  BY DEF Stage
<1> QED BY <1>1, EntryMatrixType, BoundParts DEF Stage, IsConsistent, IsPositive

(* A path that round n finds first does not pass a clock twice. *)
LEMMA NewPath ==
  ASSUME NEW m \in Nat, (Dim + 1) * m < InfValue, NEW n \in 1 .. Dim, NEW e,
         Stage(e, n - 1, m), NEW i \in Clock0, NEW j \in Clock0,
         Finite(e[i][n - 1]), Finite(e[n - 1][j]), ~Finite(e[i][j])
  PROVE  /\ Plus(e[i][n - 1], e[n - 1][j]) \in Entry
         /\ Finite(Plus(e[i][n - 1], e[n - 1][j]))
         /\ Passed(e, n - 1, i, n - 1) \cap Passed(e, n - 1, n - 1, j) = {}
         /\ Value(Plus(e[i][n - 1], e[n - 1][j]))
              <= (Cardinality(Passed(e, n - 1, i, n - 1))
                  + Cardinality(Passed(e, n - 1, n - 1, j)) + 2) * m
<1> DEFINE k == n - 1
           A == Passed(e, k, i, k)
           B == Passed(e, k, k, j)
<1>1. k \in Clock0 /\ k \in 0 .. Dim /\ k + 2 <= Dim + 1 /\ Dim \in Nat /\ k \in Nat
  BY DimAssumption DEF Clock0
<1>2. /\ e[i][k] \in Entry /\ e[k][j] \in Entry /\ e[i][k] \in Int /\ e[k][j] \in Int
      /\ Value(e[i][k]) \in Int /\ Value(e[k][j]) \in Int
  BY <1>1, StageTypes
<1>3. A \cap B = {}
  <2> SUFFICES ASSUME NEW h \in A \cap B
               PROVE  FALSE
    OBVIOUS
  <2>1. h \in Passed(e, k, i, j)
    BY DEF Passed
  <2> QED BY <2>1 DEF Stage, PathsFinite
<1>4. /\ IsFiniteSet(A) /\ IsFiniteSet(B) /\ Cardinality(A) \in Nat /\ Cardinality(B) \in Nat
  BY <1>1, PassedFinite
<1>5. Cardinality(A) + Cardinality(B) <= k
  <2>1. Cardinality(A \cup B) = Cardinality(A) + Cardinality(B)
    <3>1. Cardinality(A \cap B) = 0
      BY <1>3, FS_EmptySet
    <3> HIDE DEF A, B
    <3>2. Cardinality(A \cup B) = Cardinality(A) + Cardinality(B) - Cardinality(A \cap B)
      BY <1>4, FS_Union
    <3> QED BY <1>4, <3>1, <3>2
  <2>2. A \cup B \in SUBSET (0 .. k - 1)
    BY DEF Passed
  <2> HIDE DEF A, B, k
  <2>3. IsFiniteSet(0 .. k - 1) /\ Cardinality(0 .. k - 1) = k
    <3>1. k \in Nat /\ k - 1 \in Int /\ 0 \in Int
      BY <1>1
    <3>2. /\ IsFiniteSet(0 .. k - 1)
          /\ Cardinality(0 .. k - 1) = IF 0 > k - 1 THEN 0 ELSE k - 1 - 0 + 1
      BY <3>1, FS_Interval, Zenon
    <3> QED BY <3>1, <3>2
  <2> QED BY <2>1, <2>2, <2>3, FS_Subset
<1>6. /\ Value(e[i][k]) <= (Cardinality(A) + 1) * m
      /\ Value(e[k][j]) <= (Cardinality(B) + 1) * m
  BY <1>1 DEF Stage, PathsBounded
<1> HIDE DEF A, B, k
<1>7. /\ (Cardinality(A) + 1) * m + (Cardinality(B) + 1) * m
           = (Cardinality(A) + Cardinality(B) + 2) * m
      /\ (Cardinality(A) + Cardinality(B) + 2) * m <= (Dim + 1) * m
      /\ (Cardinality(A) + 1) * m \in Int /\ (Cardinality(B) + 1) * m \in Int
      /\ (Cardinality(A) + Cardinality(B) + 2) * m \in Int /\ (Dim + 1) * m \in Int
  <2>1. /\ Cardinality(A) + Cardinality(B) + 2 \in Nat /\ Dim + 1 \in Nat
        /\ Cardinality(A) + Cardinality(B) + 2 <= Dim + 1
        /\ Cardinality(A) + 1 \in Nat /\ Cardinality(B) + 1 \in Nat
    BY <1>1, <1>4, <1>5
  <2> QED BY <1>4, <2>1, PathProduct
<1>8. /\ Value(e[i][k]) + Value(e[k][j]) <= (Cardinality(A) + Cardinality(B) + 2) * m
      /\ Value(e[i][k]) + Value(e[k][j]) < InfValue
  BY <1>2, <1>6, <1>7, InfValueAssumption
<1>9. Value(Plus(e[i][k], e[k][j])) = Value(e[i][k]) + Value(e[k][j])
  BY <1>2, PlusParts
<1>10. Plus(e[i][k], e[k][j]) \in Entry /\ Finite(Plus(e[i][k], e[k][j]))
  <2>1. e[i][k] # LT_INFINITY /\ e[k][j] # LT_INFINITY
    BY DEF k, Finite
  <2> QED BY <1>2, <1>8, <2>1, FiniteSum DEF Finite
<1> QED BY <1>3, <1>8, <1>9, <1>10 DEF A, B, k

(* An entry after a round, with finite sums. *)
LEMMA ThroughStageEntry ==
  ASSUME NEW m \in Nat, (Dim + 1) * m < InfValue, NEW n \in 1 .. Dim, NEW e,
         Stage(e, n - 1, m), NEW i \in Clock0, NEW j \in Clock0
  PROVE  /\ Through(e, n - 1)[i][j]
              = IF Finite(e[i][n - 1]) /\ Finite(e[n - 1][j])
                THEN LeastBound(Plus(e[i][n - 1], e[n - 1][j]), e[i][j]) ELSE e[i][j]
         /\ Finite(Through(e, n - 1)[i][j])
              <=> \/ Finite(e[i][j])
                  \/ Finite(e[i][n - 1]) /\ Finite(e[n - 1][j])
<1> DEFINE k == n - 1
           r == Through(e, k)
<1>1. k \in Clock0
  BY Clocks
<1>2. /\ e[i][j] \in Int /\ e[i][j] <= LT_INFINITY
      /\ e[i][k] \in Int /\ e[k][j] \in Int /\ e[k][k] = LE_ZERO /\ LT_INFINITY \in Int
  BY <1>1, StageTypes, SpecialBounds
<1>3. r[i][j] = IF Finite(e[i][k]) /\ Finite(e[k][j])
                THEN LeastBound(Plus(e[i][k], e[k][j]), e[i][j]) ELSE e[i][j]
  <2>1. r[i][j] = IF i = k THEN e[i][j]
                  ELSE LeastBound(Sum(e[i][k], e[k][j]), e[i][j])
    BY DEF Through
  <2> HIDE DEF r, k
  <2>2. Sum(e[i][k], e[k][j]) = IF Finite(e[i][k]) /\ Finite(e[k][j])
                                THEN Plus(e[i][k], e[k][j]) ELSE LT_INFINITY
    BY <1>2, SumCases DEF Finite
  <2>3. i = k => Sum(e[i][k], e[k][j]) = e[i][j]
    BY <1>2, SumZero
  <2> QED BY <1>2, <2>1, <2>2, <2>3 DEF LeastBound
<1>4. Finite(e[i][k]) /\ Finite(e[k][j]) /\ ~Finite(e[i][j])
        => Plus(e[i][k], e[k][j]) \in Entry /\ Finite(Plus(e[i][k], e[k][j]))
  BY NewPath
<1>5. Plus(e[i][k], e[k][j]) \in Int
  BY <1>2, PlusParts
<1> HIDE DEF r, k
<1>6. Finite(r[i][j]) <=> Finite(e[i][j]) \/ (Finite(e[i][k]) /\ Finite(e[k][j]))
  BY <1>2, <1>3, <1>4, <1>5 DEF Finite, LeastBound, Entry
<1> QED BY <1>3, <1>6 DEF r, k

(* Paths stay paths, and new ones join the clocks of two. *)
LEMMA PassedStage ==
  ASSUME NEW m \in Nat, (Dim + 1) * m < InfValue, NEW n \in 1 .. Dim, NEW e,
         Stage(e, n - 1, m), NEW i \in Clock0, NEW j \in Clock0
  PROVE  /\ Passed(e, n - 1, i, j) \subseteq Passed(Through(e, n - 1), n, i, j)
         /\ Finite(e[i][n - 1]) /\ Finite(e[n - 1][j]) =>
              Passed(e, n - 1, i, n - 1) \cup Passed(e, n - 1, n - 1, j) \cup {n - 1}
                \subseteq Passed(Through(e, n - 1), n, i, j)
<1> DEFINE k == n - 1
           r == Through(e, k)
<1>1. k \in Clock0 /\ k \in 0 .. n - 1 /\ \A h \in 0 .. k - 1 : h \in 0 .. n - 1 /\ h \in Clock0
  BY DimAssumption DEF Clock0
<1>2. \A h, g \in Clock0 : Finite(r[h][g])
        <=> Finite(e[h][g]) \/ (Finite(e[h][k]) /\ Finite(e[k][g]))
  BY ThroughStageEntry
<1> HIDE DEF r, k
<1>3. Passed(e, k, i, j) \subseteq Passed(r, n, i, j)
  BY <1>1, <1>2 DEF Passed
<1>4. ASSUME Finite(e[i][k]), Finite(e[k][j])
      PROVE  Passed(e, k, i, k) \cup Passed(e, k, k, j) \cup {k} \subseteq Passed(r, n, i, j)
  BY <1>1, <1>2, <1>4 DEF Passed
<1> QED BY <1>3, <1>4 DEF r, k

(* A round keeps paths finite. *)
LEMMA ThroughFiniteStage ==
  ASSUME NEW m \in Nat, (Dim + 1) * m < InfValue, NEW n \in 1 .. Dim, NEW e,
         Stage(e, n - 1, m)
  PROVE  PathsFinite(Through(e, n - 1), n)
<1> DEFINE k == n - 1
           r == Through(e, k)
<1>1. k \in Clock0 /\ 0 .. n - 1 = (0 .. k - 1) \cup {k} /\ 0 .. k - 1 \subseteq Clock0
  BY DimAssumption DEF Clock0
<1>2. \A h, g \in Clock0 : Finite(r[h][g])
        <=> Finite(e[h][g]) \/ (Finite(e[h][k]) /\ Finite(e[k][g]))
  BY ThroughStageEntry
<1>3. \A i, j \in Clock0 : \A h \in 0 .. k - 1 :
        Finite(e[i][h]) /\ Finite(e[h][j]) => Finite(e[i][j])
  BY DEF Stage, PathsFinite, Passed
<1>4. Finite(e[k][k])
  BY <1>1, StageTypes, SpecialBounds DEF Finite
<1> SUFFICES ASSUME NEW i \in Clock0, NEW j \in Clock0, NEW h \in 0 .. n - 1,
                    Finite(r[i][h]), Finite(r[h][j])
             PROVE  Finite(r[i][j])
  BY DEF PathsFinite, Passed
<1> HIDE DEF r, k
<1>5. CASE h = k
  <2>1. Finite(e[i][k]) /\ Finite(e[k][j])
    BY <1>1, <1>2, <1>4, <1>5
  <2> QED BY <1>2, <2>1
<1>6. CASE h \in 0 .. k - 1
  <2>1. h \in Clock0
    BY <1>1, <1>6
  <2>2. /\ Finite(e[i][h]) \/ (Finite(e[i][k]) /\ Finite(e[k][h]))
        /\ Finite(e[h][j]) \/ (Finite(e[h][k]) /\ Finite(e[k][j]))
    BY <1>2, <2>1
  <2>3. Finite(e[i][j]) \/ (Finite(e[i][k]) /\ Finite(e[k][j]))
    BY <1>1, <1>3, <1>6, <2>2, Zenon
  <2> QED BY <1>2, <2>3
<1> QED BY <1>1, <1>5, <1>6

(* A round keeps entries bounded by the clocks of their paths. *)
LEMMA ThroughBoundedStage ==
  ASSUME NEW m \in Nat, (Dim + 1) * m < InfValue, NEW n \in 1 .. Dim, NEW e,
         Stage(e, n - 1, m)
  PROVE  PathsBounded(Through(e, n - 1), n, m)
<1> DEFINE k == n - 1
           r == Through(e, k)
<1> SUFFICES ASSUME NEW i \in Clock0, NEW j \in Clock0, Finite(r[i][j])
             PROVE  Value(r[i][j]) <= (Cardinality(Passed(r, n, i, j)) + 1) * m
  BY DEF PathsBounded
<1>1. k \in Clock0 /\ k \in 0 .. Dim /\ n \in 0 .. Dim /\ k \in Nat
  BY DimAssumption DEF Clock0
<1>2. e \in EntryMatrix /\ e[i][j] \in Int /\ Value(e[i][j]) \in Int
  BY StageTypes
<1>3. r[i][j] \in Int /\ r[i][j] <= e[i][j] /\ Value(r[i][j]) \in Int
  <2>1. r \in EntryMatrix /\ r[i][j] <= e[i][j]
    BY <1>1, <1>2, ThroughEntries
  <2>2. r[i][j] \in Int
    BY <2>1, EntryMatrixType
  <2> QED BY <2>1, <2>2, BoundParts
<1> DEFINE P == Passed(e, k, i, j)
           A == Passed(e, k, i, k)
           B == Passed(e, k, k, j)
           C == Passed(r, n, i, j)
<1>4. /\ IsFiniteSet(P) /\ IsFiniteSet(A) /\ IsFiniteSet(B) /\ IsFiniteSet(C)
      /\ Cardinality(P) \in Nat /\ Cardinality(A) \in Nat
      /\ Cardinality(B) \in Nat /\ Cardinality(C) \in Nat
  BY <1>1, PassedFinite
<1>5. CASE Finite(e[i][j])
  <2>1. P \subseteq C
    BY PassedStage
  <2>2. Value(e[i][j]) <= (Cardinality(P) + 1) * m
    BY <1>5 DEF Stage, PathsBounded
  <2> HIDE DEF r, k, P, C
  <2>3. Cardinality(P) <= Cardinality(C)
    BY <1>4, <2>1, FS_Subset
  <2>4. /\ (Cardinality(P) + 1) * m <= (Cardinality(C) + 1) * m
        /\ (Cardinality(P) + 1) * m \in Int /\ (Cardinality(C) + 1) * m \in Int
    <3>1. /\ Cardinality(P) + 1 \in Nat /\ Cardinality(C) + 1 \in Nat
          /\ Cardinality(P) + 1 <= Cardinality(C) + 1
      BY <1>4, <2>3
    <3> QED BY <3>1, PathProduct
  <2>5. Value(r[i][j]) <= Value(e[i][j])
    BY <1>2, <1>3, BoundOrder
  <2> QED BY <1>2, <1>3, <2>2, <2>4, <2>5 DEF C
<1>6. CASE ~Finite(e[i][j])
  <2>1. Finite(e[i][k]) /\ Finite(e[k][j])
    BY <1>6, ThroughStageEntry
  <2>2. r[i][j] = Plus(e[i][k], e[k][j])
    <3>1. r[i][j] = LeastBound(Plus(e[i][k], e[k][j]), e[i][j])
      BY <2>1, ThroughStageEntry
    <3> HIDE DEF r
    <3> QED BY <1>3, <1>6, <3>1 DEF LeastBound, Finite
  <2>3. /\ A \cap B = {}
        /\ Value(Plus(e[i][k], e[k][j])) <= (Cardinality(A) + Cardinality(B) + 2) * m
    BY <1>6, <2>1, NewPath
  <2>4. A \cup B \cup {k} \subseteq C
    BY <2>1, PassedStage
  <2>5. k \notin A /\ k \notin B
    BY <1>1 DEF Passed
  <2> HIDE DEF r, k, A, B, C
  <2>6. Cardinality(A) + Cardinality(B) + 1 <= Cardinality(C)
    BY <1>4, <2>3, <2>4, <2>5, DisjointUnion
  <2>7. /\ (Cardinality(A) + Cardinality(B) + 2) * m <= (Cardinality(C) + 1) * m
        /\ (Cardinality(A) + Cardinality(B) + 2) * m \in Int
        /\ (Cardinality(C) + 1) * m \in Int
    <3>1. /\ Cardinality(A) + Cardinality(B) + 2 \in Nat /\ Cardinality(C) + 1 \in Nat
          /\ Cardinality(A) + Cardinality(B) + 2 <= Cardinality(C) + 1
      BY <1>4, <2>6
    <3> QED BY <3>1, PathProduct
  <2> QED BY <1>3, <2>2, <2>3, <2>7 DEF C
<1> QED BY <1>5, <1>6

(* Tightness is kept when one bound of a path is replaced by a path. *)
LEMMA PlusThrough ==
  ASSUME NEW p \in Int, NEW q \in Int, NEW r \in Int, NEW c \in Int
  PROVE  /\ Plus(q, r) >= c => Plus(Plus(p, q), r) >= Plus(p, c)
         /\ Plus(p, q) >= c => Plus(p, Plus(q, r)) >= Plus(c, r)
<1>1. /\ Plus(q, r) \in Int /\ Plus(p, q) \in Int /\ Plus(p, c) \in Int
      /\ Plus(c, r) \in Int /\ Plus(p, Plus(q, r)) \in Int
  <2>1. Plus(q, r) \in Int /\ Plus(p, q) \in Int /\ Plus(p, c) \in Int /\ Plus(c, r) \in Int
    BY PlusParts
  <2> QED BY <2>1, PlusParts
<1>2. Plus(Plus(p, q), r) = Plus(p, Plus(q, r))
  BY PlusAlgebra
<1>3. ASSUME Plus(q, r) >= c
      PROVE  Plus(p, Plus(q, r)) >= Plus(p, c)
  <2>1. Plus(p, c) <= Plus(p, Plus(q, r))
    BY <1>1, <1>3, PlusMonotone
  <2> QED BY <1>1, <2>1
<1>4. ASSUME Plus(p, q) >= c
      PROVE  Plus(Plus(p, q), r) >= Plus(c, r)
  <2>1. Plus(c, r) <= Plus(Plus(p, q), r)
    BY <1>1, <1>4, PlusMonotone
  <2> QED BY <1>1, <1>2, <2>1
<1> QED BY <1>2, <1>3, <1>4

(* A round leaves the paths over its clock tight, and the earlier ones. *)
LEMMA ThroughTightStage ==
  ASSUME NEW m \in Nat, (Dim + 1) * m < InfValue, NEW n \in 1 .. Dim, NEW e,
         Stage(e, n - 1, m)
  PROVE  PathsTight(Through(e, n - 1), n)
<1> DEFINE k == n - 1
           r == Through(e, k)
           path(i, j) == Finite(e[i][k]) /\ Finite(e[k][j])
<1>1. k \in Clock0 /\ 0 .. n - 1 = (0 .. k - 1) \cup {k} /\ 0 .. k - 1 \subseteq Clock0
  BY DimAssumption DEF Clock0
<1>2. \A i, j \in Clock0 : e[i][j] \in Int
  BY StageTypes
<1>3. e[k][k] = LE_ZERO /\ Finite(e[k][k]) /\ LE_ZERO \in Int
  BY <1>1, StageTypes, SpecialBounds DEF Finite
<1>4. \A i, j \in Clock0 :
        r[i][j] = IF path(i, j) THEN LeastBound(Plus(e[i][k], e[k][j]), e[i][j]) ELSE e[i][j]
  BY ThroughStageEntry
<1>5. \A i, j \in Clock0 : Finite(r[i][j]) <=> Finite(e[i][j]) \/ path(i, j)
  BY ThroughStageEntry
<1>6. \A i, j \in Clock0 : \A h \in 0 .. k - 1 :
        Finite(e[i][h]) /\ Finite(e[h][j])
          => Finite(e[i][j]) /\ Plus(e[i][h], e[h][j]) >= e[i][j]
  BY DEF Stage, PathsFinite, PathsTight, Passed
<1> HIDE DEF r, k
<1>7. ASSUME NEW i \in Clock0, NEW j \in Clock0
      PROVE  /\ r[i][j] \in Int
             /\ Finite(r[i][j]) => \/ r[i][j] = e[i][j] /\ Finite(e[i][j])
                                   \/ r[i][j] = Plus(e[i][k], e[k][j]) /\ path(i, j)
             /\ r[i][j] <= e[i][j]
             /\ path(i, j) => r[i][j] <= Plus(e[i][k], e[k][j])
  <2>1. e[i][j] \in Int /\ Plus(e[i][k], e[k][j]) \in Int
    BY <1>1, <1>2, PlusParts
  <2>2. r[i][j] = IF path(i, j) THEN LeastBound(Plus(e[i][k], e[k][j]), e[i][j])
                  ELSE e[i][j]
    BY <1>4
  <2> HIDE DEF path
  <2> QED BY <2>1, <2>2 DEF LeastBound, Finite
<1> SUFFICES ASSUME NEW i \in Clock0, NEW j \in Clock0, NEW h \in 0 .. n - 1,
                    Finite(r[i][h]), Finite(r[h][j])
             PROVE  Plus(r[i][h], r[h][j]) >= r[i][j]
  BY DEF PathsTight, Passed, r, k
<1>8. h \in Clock0
  BY <1>1
<1>9. Plus(r[i][h], r[h][j]) \in Int /\ Plus(e[i][k], e[k][j]) \in Int
  BY <1>1, <1>2, <1>7, <1>8, PlusParts
<1> SUFFICES \/ Plus(r[i][h], r[h][j]) >= e[i][j]
             \/ path(i, j) /\ Plus(r[i][h], r[h][j]) >= Plus(e[i][k], e[k][j])
  <2> HIDE DEF path
  <2> QED BY <1>2, <1>7, <1>9
<1>10. CASE h = k
  <2>1. path(i, j)
    BY <1>1, <1>3, <1>5, <1>10
  <2>2. r[i][k] = e[i][k]
    <3>1. r[i][k] = LeastBound(Plus(e[i][k], LE_ZERO), e[i][k])
      BY <1>1, <1>3, <1>4, <2>1
    <3> QED BY <1>1, <1>2, <3>1, PlusAlgebra DEF LeastBound
  <2>3. r[k][j] = e[k][j]
    <3>1. r[k][j] = LeastBound(Plus(LE_ZERO, e[k][j]), e[k][j])
      BY <1>1, <1>3, <1>4, <2>1
    <3>2. Plus(LE_ZERO, e[k][j]) = e[k][j]
      BY <1>1, <1>2, <1>3, PlusAlgebra
    <3> QED BY <3>1, <3>2 DEF LeastBound
  <2> QED BY <1>9, <1>10, <2>1, <2>2, <2>3
<1>11. CASE h \in 0 .. k - 1
  <2> DEFINE direct(a, b) == r[a][b] = e[a][b] /\ Finite(e[a][b])
             through(a, b) == r[a][b] = Plus(e[a][k], e[k][b]) /\ path(a, b)
  <2>1. (direct(i, h) \/ through(i, h)) /\ (direct(h, j) \/ through(h, j))
    BY <1>7, <1>8
  <2>2. /\ e[i][k] \in Int /\ e[k][h] \in Int /\ e[h][k] \in Int /\ e[k][j] \in Int
        /\ e[i][h] \in Int /\ e[h][j] \in Int /\ Plus(e[h][k], e[k][j]) \in Int
    BY <1>1, <1>2, <1>8, PlusParts
  <2>3. CASE direct(i, h) /\ direct(h, j)
    BY <1>6, <1>11, <2>3
  <2>4. CASE through(i, h) /\ direct(h, j)
    <3>1. Finite(e[k][j]) /\ Plus(e[k][h], e[h][j]) >= e[k][j]
      BY <1>1, <1>6, <1>11, <2>4
    <3>2. Plus(Plus(e[i][k], e[k][h]), e[h][j]) >= Plus(e[i][k], e[k][j])
      BY <2>2, <3>1, PlusThrough
    <3> QED BY <2>4, <3>1, <3>2
  <2>5. CASE direct(i, h) /\ through(h, j)
    <3>1. Finite(e[i][k]) /\ Plus(e[i][h], e[h][k]) >= e[i][k]
      BY <1>1, <1>6, <1>11, <2>5
    <3>2. Plus(e[i][h], Plus(e[h][k], e[k][j])) >= Plus(e[i][k], e[k][j])
      BY <2>2, <3>1, PlusThrough
    <3> QED BY <2>5, <3>1, <3>2
  <2>6. CASE through(i, h) /\ through(h, j)
    <3>1. Plus(e[k][h], e[h][k]) >= LE_ZERO
      BY <1>1, <1>3, <1>6, <1>11, <2>6
    <3>2. Plus(e[k][h], Plus(e[h][k], e[k][j])) >= Plus(LE_ZERO, e[k][j])
      BY <1>3, <2>2, <3>1, PlusThrough
    <3>3. Plus(LE_ZERO, e[k][j]) = e[k][j]
      BY <1>3, <2>2, PlusAlgebra
    <3>4. Plus(Plus(e[i][k], e[k][h]), Plus(e[h][k], e[k][j])) >= Plus(e[i][k], e[k][j])
      BY <2>2, <3>2, <3>3, PlusThrough
    <3> QED BY <2>6, <3>4
  <2> QED BY <2>1, <2>3, <2>4, <2>5, <2>6, Zenon
<1> QED BY <1>1, <1>10, <1>11

(* A round marks the matrix as empty or leads to the next stage. *)
LEMMA RoundStage ==
  ASSUME NEW m \in Nat, (Dim + 1) * m < InfValue, NEW n \in 1 .. Dim, NEW e,
         Stage(e, n - 1, m)
  PROVE  IsEmpty0(Round(e, n)) \/ Stage(Round(e, n), n, m)
<1> DEFINE k == n - 1
           r == Through(e, k)
<1>1. k \in Clock0 /\ e \in EntryMatrix
  BY Clocks, StageTypes
<1>2. r \in EntryMatrix /\ \A i, j \in Clock0 : r[i][j] <= e[i][j]
  BY <1>1, ThroughEntries
<1>3. Round(e, n) = IF IsEmpty0(e) THEN e ELSE MarkedIfEmpty(r)
  BY DEF Round
<1>4. PathsFinite(r, n) /\ PathsBounded(r, n, m) /\ PathsTight(r, n)
  BY ThroughFiniteStage, ThroughBoundedStage, ThroughTightStage
<1> HIDE DEF r
<1>5. CASE \E h \in Clock0 : r[h][h] < LE_ZERO
  BY <1>2, <1>3, <1>5, MarkedEntries
<1>6. CASE ~ \E h \in Clock0 : r[h][h] < LE_ZERO
  <2>1. MarkedIfEmpty(r) = r
    BY <1>6 DEF MarkedIfEmpty
  <2>2. ASSUME NEW i \in Clock0
        PROVE  r[i][i] = LE_ZERO /\ r[0][i] <= LE_ZERO
    <3>1. e[i][i] = LE_ZERO /\ e[0][i] <= LE_ZERO /\ e[0][i] \in Int
      BY Clocks, StageTypes
    <3>2. r[i][i] \in Int /\ r[i][i] <= e[i][i] /\ r[0][i] \in Int /\ r[0][i] <= e[0][i]
      BY <1>2, Clocks, EntryMatrixType
    <3>3. ~(r[i][i] < LE_ZERO)
      BY <1>6
    <3> QED BY <3>1, <3>2, <3>3, SpecialBounds
  <2>3. Stage(r, n, m)
    BY <1>2, <1>4, <2>2 DEF Stage, IsConsistent, IsPositive
  <2> QED BY <1>3, <2>1, <2>3
<1> QED BY <1>5, <1>6

(* tighten: after the last round the matrix is in normal form, if the zone  *)
(* was not found empty on the way.                                          *)
LEMMA TightenNormal ==
  ASSUME NEW d \in EntryMatrix, IsConsistent(d), IsPositive(d),
         NEW m \in Nat, UpTo(d, m), (Dim + 1) * m < InfValue
  PROVE  IsEmpty0(Tighten(d)) \/ NormalForm(Tighten(d))
<1>1. PICK g : /\ g[0] = d
               /\ \A n \in 1 .. Dim : g[n] = Round(g[n - 1], n)
               /\ Tighten(d) = g[Dim]
  BY TightenRounds
<1> DEFINE T == {n \in 0 .. Dim : IsEmpty0(g[n]) \/ Stage(g[n], n, m)}
<1>2. 0 \in T
  <2>1. \A i, j \in Clock0 : Passed(d, 0, i, j) = {} /\ Cardinality(Passed(d, 0, i, j)) = 0
    BY FS_EmptySet DEF Passed
  <2>2. (0 + 1) * m = m
    OBVIOUS
  <2>3. PathsFinite(d, 0) /\ PathsTight(d, 0)
    BY <2>1 DEF PathsFinite, PathsTight
  <2>4. PathsBounded(d, 0, m)
    BY <2>1, <2>2 DEF PathsBounded, UpTo, Finite
  <2>5. Stage(d, 0, m)
    BY <2>3, <2>4 DEF Stage
  <2> QED BY <1>1, <2>5, DimAssumption
<1>3. ASSUME NEW n \in 1 .. Dim, n - 1 \in T
      PROVE  n \in T
  <2>1. IsEmpty0(g[n - 1]) \/ Stage(g[n - 1], n - 1, m)
    BY <1>3
  <2>2. g[n] = Round(g[n - 1], n) /\ n \in 0 .. Dim
    BY <1>1
  <2>3. IsEmpty0(g[n - 1]) => IsEmpty0(g[n])
    BY <2>2 DEF Round
  <2>4. Stage(g[n - 1], n - 1, m) => IsEmpty0(g[n]) \/ Stage(g[n], n, m)
    BY <2>2, RoundStage
  <2> QED BY <2>1, <2>2, <2>3, <2>4
<1>4. Dim \in T
  <2> HIDE DEF T
  <2>1. 0 .. Dim \subseteq T
    BY <1>2, <1>3, DimAssumption, Induction
  <2> QED BY <2>1, DimAssumption
<1>5. CASE IsEmpty0(g[Dim])
  BY <1>1, <1>5
<1>6. CASE Stage(g[Dim], Dim, m)
  <2> DEFINE e == g[Dim]
  <2>1. e \in EntryMatrix /\ IsConsistent(e) /\ IsPositive(e)
    BY <1>6 DEF Stage
  <2>2. \A k \in Clock0 : k \in 0 .. Dim - 1
    BY DEF Clock0
  <2>3. \A i, j, k \in Clock0 : Finite(e[i][k]) /\ Finite(e[k][j])
          => Plus(e[i][k], e[k][j]) >= e[i][j]
    BY <1>6, <2>2 DEF Stage, PathsTight, Passed
  <2>4. ASSUME NEW i \in Clock0, NEW j \in Clock0, NEW k \in Clock0
        PROVE  Sum(e[i][k], e[k][j]) >= e[i][j]
    <3>1. /\ e[i][k] \in Int /\ e[k][j] \in Int /\ e[i][j] \in Int
          /\ e[i][j] <= LT_INFINITY /\ LT_INFINITY \in Int
      BY <2>1, EntryMatrixType, SpecialBounds
    <3> HIDE DEF e
    <3>2. CASE Finite(e[i][k]) /\ Finite(e[k][j])
      BY <2>3, <3>1, <3>2, SumCases DEF Finite
    <3>3. CASE ~(Finite(e[i][k]) /\ Finite(e[k][j]))
      <4>1. Sum(e[i][k], e[k][j]) = LT_INFINITY
        BY <3>1, <3>3, SumCases DEF Finite
      <4> QED BY <3>1, <4>1
    <3> QED BY <3>2, <3>3
  <2>5. NormalForm(e)
    BY <2>1, <2>4 DEF NormalForm, IsTight
  <2> QED BY <1>1, <2>5
<1> QED BY <1>4, <1>5, <1>6

-----------------------------------------------------------------------------
(* The matrix that intersection tightens. *)
Least(d, e) == [i \in Clock0 |-> [j \in Clock0 |-> LeastBound(d[i][j], e[i][j])]]

(* The entrywise least of two matrices. *)
LEMMA LeastEntries ==
  ASSUME NEW d \in EntryMatrix, NEW e \in EntryMatrix
  PROVE  /\ Least(d, e) \in EntryMatrix
         /\ \A i, j \in Clock0 : Least(d, e)[i][j] = LeastBound(d[i][j], e[i][j])
<1>1. \A i, j \in Clock0 : LeastBound(d[i][j], e[i][j]) \in Entry
  BY EntryMatrixType, LeastBoundCases
<1> QED BY <1>1 DEF Least, EntryMatrix

(* intersection has the valuations of both matrices. *)
LEMMA IntersectedExact ==
  ASSUME NEW d \in EntryMatrix, NEW e \in EntryMatrix
  PROVE  /\ Intersected(d, e) \in EntryMatrix
         /\ \A v \in [Clock0 -> Int] : In(v, Intersected(d, e)) <=> In(v, d) /\ In(v, e)
<1>1. Intersected(d, e) = Tighten(Least(d, e)) /\ Least(d, e) \in EntryMatrix
  BY LeastEntries DEF Intersected, Least
<1>2. ASSUME NEW v \in [Clock0 -> Int]
      PROVE  In(v, Least(d, e)) <=> In(v, d) /\ In(v, e)
  <2>1. ASSUME NEW i \in Clock0, NEW j \in Clock0
        PROVE  Meets(v, i, j, Least(d, e)[i][j])
                 <=> Meets(v, i, j, d[i][j]) /\ Meets(v, i, j, e[i][j])
    <3>1. /\ d[i][j] \in Entry /\ d[i][j] \in Int
          /\ e[i][j] \in Entry /\ e[i][j] \in Int
      BY EntryMatrixType
    <3>2. Least(d, e)[i][j] = LeastBound(d[i][j], e[i][j])
      BY LeastEntries
    <3>3. CASE d[i][j] < e[i][j]
      <4>1. d[i][j] <= e[i][j] /\ Least(d, e)[i][j] = d[i][j]
        BY <3>1, <3>2, <3>3 DEF LeastBound
      <4>2. Meets(v, i, j, d[i][j]) => Meets(v, i, j, e[i][j])
        BY <3>1, <4>1, MeetsLarger
      <4> QED BY <4>1, <4>2
    <3>4. CASE ~(d[i][j] < e[i][j])
      <4>1. e[i][j] <= d[i][j] /\ Least(d, e)[i][j] = e[i][j]
        BY <3>1, <3>2, <3>4 DEF LeastBound
      <4>2. Meets(v, i, j, e[i][j]) => Meets(v, i, j, d[i][j])
        BY <3>1, <4>1, MeetsLarger
      <4> QED BY <4>1, <4>2
    <3> QED BY <3>3, <3>4
  <2> QED BY <2>1, Zenon DEF In
<1> QED BY <1>1, <1>2, TightenExact

(* intersection leaves a matrix in normal form, or marked as empty. *)
LEMMA IntersectedNormal ==
  ASSUME NEW d \in EntryMatrix, NEW e \in EntryMatrix, IsConsistent(d), IsConsistent(e),
         IsPositive(d) \/ IsPositive(e),
         NEW m \in Nat, UpTo(d, m), UpTo(e, m), (Dim + 1) * m < InfValue
  PROVE  IsEmpty0(Intersected(d, e)) \/ NormalForm(Intersected(d, e))
<1> DEFINE l == Least(d, e)
<1>1. Intersected(d, e) = Tighten(l)
  BY DEF Intersected, Least
<1>2. l \in EntryMatrix
  BY LeastEntries
<1>3. \A i, j \in Clock0 :
        /\ l[i][j] = LeastBound(d[i][j], e[i][j])
        /\ d[i][j] \in Int /\ e[i][j] \in Int /\ LE_ZERO \in Int
  BY LeastEntries, EntryMatrixType, SpecialBounds
<1> HIDE DEF l
<1>4. IsConsistent(l)
  BY <1>3 DEF IsConsistent, LeastBound
<1>5. IsPositive(l)
  <2> SUFFICES ASSUME NEW x \in Clock0
               PROVE  l[0][x] <= LE_ZERO
    BY DEF IsPositive
  <2>1. d[0][x] <= LE_ZERO \/ e[0][x] <= LE_ZERO
    BY DEF IsPositive
  <2>2. l[0][x] = LeastBound(d[0][x], e[0][x]) /\ d[0][x] \in Int /\ e[0][x] \in Int
    BY <1>3, Clocks
  <2> QED BY <2>1, <2>2, SpecialBounds DEF LeastBound
<1>6. UpTo(l, m)
  <2> SUFFICES ASSUME NEW i \in Clock0, NEW j \in Clock0, l[i][j] # LT_INFINITY
               PROVE  Value(l[i][j]) <= m
    BY DEF UpTo
  <2>1. l[i][j] \in {d[i][j], e[i][j]}
    BY <1>3 DEF LeastBound
  <2> QED BY <2>1 DEF UpTo
<1>7. IsEmpty0(Tighten(l)) \/ NormalForm(Tighten(l))
  BY <1>2, <1>4, <1>5, <1>6, TightenNormal
<1> QED BY <1>1, <1>7

-----------------------------------------------------------------------------
(* Delays. *)
LEMMA OpenUpEntries ==
  ASSUME NEW d \in EntryMatrix
  PROVE  /\ OpenUp(d) \in EntryMatrix
         /\ \A i, j \in Clock0 :
              OpenUp(d)[i][j] = IF i # 0 /\ j = 0 THEN LT_INFINITY ELSE d[i][j]
<1>1. LT_INFINITY \in Entry
  BY SpecialBounds DEF Entry
<1> QED BY <1>1, Clocks DEF OpenUp, EntryMatrix

(* open_up keeps the normal form without tightening. *)
LEMMA OpenUpNormal ==
  ASSUME NEW d, NormalForm(d)
  PROVE  NormalForm(OpenUp(d))
<1>1. d \in EntryMatrix /\ IsConsistent(d) /\ IsPositive(d) /\ IsTight(d)
  BY DEF NormalForm
<1>2. OpenUp(d) \in EntryMatrix
  BY <1>1, OpenUpEntries
<1>3. \A i, j \in Clock0 :
        OpenUp(d)[i][j] = IF i # 0 /\ j = 0 THEN LT_INFINITY ELSE d[i][j]
  BY <1>1, OpenUpEntries
<1>4. IsConsistent(OpenUp(d)) /\ IsPositive(OpenUp(d))
  BY <1>1, <1>3, Clocks DEF IsConsistent, IsPositive
<1>5. ASSUME NEW i \in Clock0, NEW j \in Clock0, NEW k \in Clock0
      PROVE  Sum(OpenUp(d)[i][k], OpenUp(d)[k][j]) >= OpenUp(d)[i][j]
  <2>1. /\ d[i][k] \in Int /\ d[k][j] \in Int /\ d[i][j] \in Int
        /\ d[i][j] <= LT_INFINITY /\ LT_INFINITY \in Int
    BY <1>1, EntryMatrixType, SpecialBounds
  <2>2. CASE (i # 0 /\ k = 0) \/ (k # 0 /\ j = 0)
    <3>1. OpenUp(d)[i][k] = LT_INFINITY \/ OpenUp(d)[k][j] = LT_INFINITY
      BY <1>3, <2>2
    <3>2. OpenUp(d)[i][k] \in Int /\ OpenUp(d)[k][j] \in Int
      BY <1>2, EntryMatrixType
    <3>3. Sum(OpenUp(d)[i][k], OpenUp(d)[k][j]) = LT_INFINITY
      BY <3>1, <3>2, SumCases
    <3> QED BY <1>3, <2>1, <3>3
  <2>3. CASE ~((i # 0 /\ k = 0) \/ (k # 0 /\ j = 0))
    BY <1>1, <1>3, <2>3 DEF IsTight
  <2> QED BY <2>2, <2>3
<1> QED BY <1>2, <1>4, <1>5 DEF NormalForm, IsTight

-----------------------------------------------------------------------------
(* Resets.  After x := y + value, clock x is y, shifted. *)
LEMMA AddParts ==
  ASSUME NEW b \in Int, NEW s \in Int
  PROVE  /\ b + 2 * s \in Int
         /\ Value(b + 2 * s) = Value(b) + s
         /\ Comparator(b + 2 * s) = Comparator(b)
         /\ Grid(b + 2 * s) = Grid(b) + Unit * s
<1>1. Value(b) \in Int /\ Comparator(b) \in {0, 1} /\ b = 2 * Value(b) + Comparator(b)
  BY BoundParts
<1>2. b + 2 * s = Db(Comparator(b), Value(b) + s)
  BY <1>1, SMT DEF Db
<1>3. Value(b + 2 * s) = Value(b) + s /\ Comparator(b + 2 * s) = Comparator(b)
  BY <1>1, <1>2, DbParts
<1>4. /\ Unit * (Value(b) + s) = Unit * Value(b) + Unit * s
      /\ Unit * Value(b) \in Int /\ Unit * s \in Int
  BY <1>1, Product, GridAssumption
<1> QED BY <1>1, <1>3, <1>4 DEF Grid

(* Adding a constant keeps infinity apart from the other bounds. *)
LEMMA AddEntry ==
  ASSUME NEW b \in Entry, NEW s \in Int,
         b = LT_INFINITY \/ Value(b) + s < InfValue
  PROVE  /\ Add(b, s) \in Entry
         /\ Add(b, s) = LT_INFINITY <=> b = LT_INFINITY
<1>1. b \in Int /\ LT_INFINITY \in Int /\ LT_INFINITY \in Entry
  BY SpecialBounds DEF Entry
<1>2. CASE b = LT_INFINITY
  BY <1>1, <1>2 DEF Add
<1>3. CASE b # LT_INFINITY
  <2>1. Add(b, s) = b + 2 * s /\ b + 2 * s \in Int
    BY <1>1, <1>3 DEF Add
  <2>2. Value(b + 2 * s) < Value(LT_INFINITY) /\ Value(b + 2 * s) \in Int
    BY <1>1, <1>3, AddParts, BoundParts, SpecialBounds
  <2>3. b + 2 * s <= LT_INFINITY
    BY <1>1, <2>1, <2>2, BoundOrder
  <2>4. b + 2 * s # LT_INFINITY
    BY <2>2, SpecialBounds, InfValueAssumption
  <2> QED BY <1>3, <2>1, <2>3, <2>4 DEF Entry
<1> QED BY <1>2, <1>3

(* Adding a constant is the sum with the bound <= of the constant. *)
LEMMA SumValue ==
  ASSUME NEW b \in Int, NEW value \in Int
  PROVE  Sum(Db(LE, value), b) = Add(b, value) /\ Sum(b, Db(LE, value)) = Add(b, value)
<1>1. Db(LE, value) = 2 * value + 1 /\ LE = 1
  BY SMT DEF Db, LE
<1>2. /\ Db(LE, value) \in Int
      /\ Value(Db(LE, value)) = value /\ Comparator(Db(LE, value)) = 1
  BY <1>1, DbParts
<1>3. Db(LE, value) # LT_INFINITY
  <2>1. LT_INFINITY = 2 * InfValue
    BY InfValueAssumption, SMT DEF LT_INFINITY, Db, LT
  <2> QED BY <1>1, <2>1, InfValueAssumption, SMT
<1>4. Plus(Db(LE, value), b) = b + 2 * value
  <2>1. Value(b) \in Int /\ Comparator(b) \in {0, 1} /\ b = 2 * Value(b) + Comparator(b)
    BY BoundParts
  <2>2. LeastBound(1, Comparator(b)) = Comparator(b)
    BY <2>1 DEF LeastBound
  <2>3. Plus(Db(LE, value), b) = 2 * (value + Value(b)) + Comparator(b)
    BY <1>2, <2>2 DEF Plus, Db
  <2> QED BY <2>1, <2>3
<1>5. Plus(b, Db(LE, value)) = b + 2 * value
  BY <1>2, <1>4, PlusAlgebra
<1> QED BY <1>2, <1>3, <1>4, <1>5, SumCases DEF Add

(* reset_to_value is the shift from clock 0. *)
LEMMA ResetIsShift ==
  ASSUME NEW d \in EntryMatrix, NEW x \in Clock0, NEW value \in Int
  PROVE  ResetToValue(d, x, value) = Shifted(d, x, 0, value)
<1> DEFINE row == [j \in Clock0 |-> Sum(Db(LE, value), d[0][j])]
           column == [i \in Clock0 |-> Sum(d[i][0], Db(LE, -value))]
           shiftedRow == [j \in Clock0 |-> Add(d[0][j], value)]
           shiftedColumn == [i \in Clock0 |-> Add(d[i][0], -value)]
<1>1. \A j \in Clock0 : d[0][j] \in Int /\ d[j][0] \in Int /\ value \in Int /\ -value \in Int
  BY Clocks, EntryMatrixType
<1>2. \A j \in Clock0 : /\ Sum(Db(LE, value), d[0][j]) = Add(d[0][j], value)
                        /\ Sum(d[j][0], Db(LE, -value)) = Add(d[j][0], -value)
  BY <1>1, SumValue
<1>3. row = shiftedRow /\ column = shiftedColumn
  BY <1>2
<1> QED BY <1>3, Zenon DEF ResetToValue, Shifted

(* The clock that determines clock i after the shift, and by how much. *)
From(x, y, i) == IF i = x THEN y ELSE i
Shift(x, value, i) == IF i = x THEN value ELSE 0

(* Each entry after a shift is an entry before, displaced. *)
LEMMA ShiftedEntry ==
  ASSUME NEW d \in EntryMatrix, IsConsistent(d), NEW x \in Clock0, NEW y \in Clock0,
         NEW value \in Int, NEW i \in Clock0, NEW j \in Clock0
  PROVE  Shifted(d, x, y, value)[i][j]
           = Add(d[From(x, y, i)][From(x, y, j)], Shift(x, value, i) - Shift(x, value, j))
<1>1. d[y][y] = LE_ZERO /\ LE_ZERO # LT_INFINITY /\ d[i][j] \in Int /\ LE_ZERO \in Int
  BY EntryMatrixType, SpecialBounds DEF IsConsistent
<1>2. Add(d[y][y], 0) = LE_ZERO /\ Add(d[i][j], 0) = d[i][j]
  BY <1>1 DEF Add
<1>3. value - 0 = value /\ 0 - value = -value /\ value - value = 0 /\ 0 - 0 = 0
  OBVIOUS
<1>4. Shifted(d, x, y, value)[i][j]
        = IF i = x /\ j = x THEN LE_ZERO
          ELSE IF i = x THEN Add(d[y][j], value)
          ELSE IF j = x THEN Add(d[i][y], -value)
          ELSE d[i][j]
  BY DEF Shifted, Replaced
<1> QED BY <1>2, <1>3, <1>4 DEF From, Shift

(* The hypotheses on a shift x := y + value of a matrix with bounds up to m. *)
Shiftable(d, x, y, value, m) ==
  /\ NormalForm(d) /\ x \in Clock /\ y \in Clock0 /\ value \in -m .. m
  /\ m \in Nat /\ UpTo(d, m) /\ 2 * m < InfValue

(* The types of the entries before and after a shift. *)
LEMMA ShiftedTypes ==
  ASSUME NEW d, NEW x, NEW y, NEW value, NEW m, Shiftable(d, x, y, value, m)
  PROVE  /\ d \in EntryMatrix /\ IsConsistent(d) /\ IsPositive(d) /\ IsTight(d)
         /\ x \in Clock0 /\ x # 0 /\ y \in Clock0 /\ value \in Int
         /\ Shifted(d, x, y, value) \in EntryMatrix
         /\ \A i, j \in Clock0 :
              LET b == d[From(x, y, i)][From(x, y, j)]
                  s == Shift(x, value, i) - Shift(x, value, j)
              IN /\ From(x, y, i) \in Clock0 /\ Shift(x, value, i) \in Int
                 /\ b \in Entry /\ b \in Int /\ s \in Int
                 /\ b = LT_INFINITY \/ (Value(b) <= m /\ Value(b) + s <= 2 * m)
                 /\ Shifted(d, x, y, value)[i][j] = Add(b, s)
                 /\ Shifted(d, x, y, value)[i][j] \in Entry
                 /\ Add(b, s) = LT_INFINITY <=> b = LT_INFINITY
<1>1. /\ d \in EntryMatrix /\ IsConsistent(d) /\ IsPositive(d) /\ IsTight(d)
      /\ x \in Clock0 /\ x # 0 /\ y \in Clock0 /\ value \in -m .. m /\ value \in Int
      /\ m \in Nat /\ UpTo(d, m) /\ 2 * m < InfValue
  BY DEF Shiftable, NormalForm, Clock
<1>2. ASSUME NEW i \in Clock0, NEW j \in Clock0
      PROVE  LET b == d[From(x, y, i)][From(x, y, j)]
                 s == Shift(x, value, i) - Shift(x, value, j)
             IN /\ From(x, y, i) \in Clock0 /\ Shift(x, value, i) \in Int
                /\ b \in Entry /\ b \in Int /\ s \in Int
                /\ b = LT_INFINITY \/ (Value(b) <= m /\ Value(b) + s <= 2 * m)
                /\ Shifted(d, x, y, value)[i][j] = Add(b, s)
                /\ Shifted(d, x, y, value)[i][j] \in Entry
                /\ Add(b, s) = LT_INFINITY <=> b = LT_INFINITY
  <2> DEFINE b == d[From(x, y, i)][From(x, y, j)]
             s == Shift(x, value, i) - Shift(x, value, j)
  <2>1. From(x, y, i) \in Clock0 /\ From(x, y, j) \in Clock0 /\ Shift(x, value, i) \in Int
    BY <1>1 DEF From, Shift
  <2>2. s \in Int /\ s <= m
    BY <1>1 DEF Shift
  <2>3. b \in Entry /\ b \in Int /\ (b = LT_INFINITY \/ Value(b) <= m) /\ Value(b) \in Int
    BY <1>1, <2>1, EntryMatrixType, BoundParts DEF UpTo
  <2>4. Shifted(d, x, y, value)[i][j] = Add(b, s)
    BY <1>1, ShiftedEntry
  <2> HIDE DEF b, s
  <2>5. b = LT_INFINITY \/ (Value(b) + s <= 2 * m /\ Value(b) + s < InfValue)
    BY <1>1, <2>2, <2>3, InfValueAssumption
  <2>6. Add(b, s) \in Entry /\ (Add(b, s) = LT_INFINITY <=> b = LT_INFINITY)
    BY <2>2, <2>3, <2>5, AddEntry
  <2> QED BY <2>1, <2>2, <2>3, <2>4, <2>5, <2>6 DEF b, s
<1>3. Shifted(d, x, y, value) \in EntryMatrix
  <2> DEFINE r == Shifted(d, x, y, value)
  <2>1. \A i, j \in Clock0 : r[i][j] \in Entry
    BY <1>2
  <2>2. /\ r = [i \in Clock0 |-> r[i]]
        /\ \A i \in Clock0 : r[i] = [j \in Clock0 |-> r[i][j]]
    BY DEF Shifted, Replaced
  <2> HIDE DEF r
  <2>3. \A i \in Clock0 : r[i] \in [Clock0 -> Entry]
    BY <2>1, <2>2
  <2>4. r \in EntryMatrix
    BY <2>2, <2>3 DEF EntryMatrix
  <2> QED BY <2>4 DEF r
<1> QED BY <1>1, <1>2, <1>3

(* Displaced tight paths are tight. *)
LEMMA AddTight ==
  ASSUME NEW a \in Entry, NEW b \in Entry, NEW c \in Entry, NEW s \in Int, NEW t \in Int,
         NEW m \in Nat, 2 * m < InfValue,
         a = LT_INFINITY \/ Value(a) <= m, b = LT_INFINITY \/ Value(b) <= m,
         Add(a, s) \in Entry, Add(b, t) \in Entry, Add(c, s + t) \in Entry,
         Add(a, s) = LT_INFINITY <=> a = LT_INFINITY,
         Add(b, t) = LT_INFINITY <=> b = LT_INFINITY,
         Sum(a, b) >= c
  PROVE  Sum(Add(a, s), Add(b, t)) >= Add(c, s + t)
<1>1. /\ a \in Int /\ b \in Int /\ c \in Int /\ LT_INFINITY \in Int
      /\ Add(a, s) \in Int /\ Add(b, t) \in Int /\ Add(c, s + t) \in Int
      /\ Add(c, s + t) <= LT_INFINITY /\ c <= LT_INFINITY
  BY SpecialBounds DEF Entry
<1>2. CASE a = LT_INFINITY \/ b = LT_INFINITY
  <2>1. Add(a, s) = LT_INFINITY \/ Add(b, t) = LT_INFINITY
    BY <1>2
  <2>2. Sum(Add(a, s), Add(b, t))
          = IF Add(a, s) = LT_INFINITY \/ Add(b, t) = LT_INFINITY
            THEN LT_INFINITY ELSE Plus(Add(a, s), Add(b, t))
    BY <1>1, SumCases, Zenon
  <2>3. Sum(Add(a, s), Add(b, t)) = LT_INFINITY
    BY <2>1, <2>2, Zenon
  <2> QED BY <1>1, <2>3
<1>3. CASE a # LT_INFINITY /\ b # LT_INFINITY
  <2>1. Add(a, s) = a + 2 * s /\ Add(b, t) = b + 2 * t /\ Sum(a, b) = Plus(a, b)
    BY <1>1, <1>3, SumCases DEF Add
  <2>2. Sum(Add(a, s), Add(b, t)) = Plus(a + 2 * s, b + 2 * t)
    BY <1>1, <1>3, <2>1, SumCases
  <2>3. /\ Value(a) \in Int /\ Value(b) \in Int
        /\ Comparator(a) \in {0, 1} /\ Comparator(b) \in {0, 1}
    BY <1>1, BoundParts
  <2>4. Plus(a + 2 * s, b + 2 * t) = Plus(a, b) + 2 * (s + t)
    <3>1. /\ Value(a + 2 * s) = Value(a) + s /\ Comparator(a + 2 * s) = Comparator(a)
          /\ Value(b + 2 * t) = Value(b) + t /\ Comparator(b + 2 * t) = Comparator(b)
      BY <1>1, AddParts
    <3>2. LeastBound(Comparator(a), Comparator(b)) \in {0, 1}
      BY <2>3 DEF LeastBound
    <3> QED BY <2>3, <3>1, <3>2 DEF Plus, Db
  <2>5. c # LT_INFINITY
    <3>1. Value(Plus(a, b)) = Value(a) + Value(b)
      BY <1>1, PlusParts
    <3>2. Value(a) + Value(b) < InfValue
      BY <1>3, <2>3, InfValueAssumption
    <3>3. Plus(a, b) # LT_INFINITY /\ Plus(a, b) <= LT_INFINITY /\ Plus(a, b) \in Int
      <4>1. Plus(a, b) \in Entry /\ Plus(a, b) # LT_INFINITY
        BY <1>3, <3>2, FiniteSum
      <4> QED BY <4>1 DEF Entry
    <3> QED BY <1>1, <2>1, <3>3
  <2>6. Add(c, s + t) = c + 2 * (s + t) /\ Plus(a, b) \in Int
    BY <1>1, <2>5, PlusParts DEF Add
  <2> QED BY <1>1, <2>1, <2>2, <2>4, <2>6
<1> QED BY <1>2, <1>3

(* A shift keeps consistency and tightness, a positive one positivity. *)
LEMMA ShiftedNormal ==
  ASSUME NEW d, NEW x, NEW y, NEW value, NEW m, Shiftable(d, x, y, value, m)
  PROVE  /\ IsConsistent(Shifted(d, x, y, value)) /\ IsTight(Shifted(d, x, y, value))
         /\ value >= 0 => IsPositive(Shifted(d, x, y, value))
         /\ UpTo(Shifted(d, x, y, value), 2 * m)
<1> DEFINE r == Shifted(d, x, y, value)
           p(i) == From(x, y, i)
           s(i) == Shift(x, value, i)
<1>1. /\ d \in EntryMatrix /\ IsConsistent(d) /\ IsPositive(d) /\ IsTight(d)
      /\ x \in Clock0 /\ x # 0 /\ y \in Clock0 /\ value \in Int
      /\ m \in Nat /\ 2 * m < InfValue
  BY ShiftedTypes DEF Shiftable
<1>2. \A i, j \in Clock0 :
        /\ p(i) \in Clock0 /\ s(i) \in Int /\ s(i) - s(j) \in Int
        /\ d[p(i)][p(j)] \in Entry /\ d[p(i)][p(j)] \in Int
        /\ \/ d[p(i)][p(j)] = LT_INFINITY
           \/ /\ Value(d[p(i)][p(j)]) <= m
              /\ Value(d[p(i)][p(j)]) + (s(i) - s(j)) <= 2 * m
        /\ r[i][j] = Add(d[p(i)][p(j)], s(i) - s(j)) /\ r[i][j] \in Entry
        /\ Add(d[p(i)][p(j)], s(i) - s(j)) = LT_INFINITY <=> d[p(i)][p(j)] = LT_INFINITY
  BY ShiftedTypes
<1>3. p(0) = 0 /\ s(0) = 0 /\ p(x) = y /\ s(x) = value
      /\ \A i \in Clock0 : i # x => p(i) = i /\ s(i) = 0
  BY <1>1 DEF From, Shift
<1> HIDE DEF r, p, s
<1>4. ASSUME NEW i \in Clock0
      PROVE  r[i][i] = LE_ZERO
  <2>1. d[p(i)][p(i)] = LE_ZERO /\ s(i) - s(i) = 0
    BY <1>1, <1>2 DEF IsConsistent
  <2>2. r[i][i] = Add(LE_ZERO, 0)
    BY <1>2, <2>1
  <2> QED BY <2>2, SpecialBounds DEF Add
<1>5. ASSUME NEW i \in Clock0, NEW j \in Clock0, NEW k \in Clock0
      PROVE  Sum(r[i][k], r[k][j]) >= r[i][j]
  <2>1. (s(i) - s(k)) + (s(k) - s(j)) = s(i) - s(j)
    BY <1>2
  <2>2. Sum(d[p(i)][p(k)], d[p(k)][p(j)]) >= d[p(i)][p(j)]
    BY <1>1, <1>2 DEF IsTight
  <2> DEFINE a == d[p(i)][p(k)]
             b == d[p(k)][p(j)]
             c == d[p(i)][p(j)]
             h == s(i) - s(k)
             t == s(k) - s(j)
  <2>3. /\ a \in Entry /\ b \in Entry /\ c \in Entry /\ h \in Int /\ t \in Int
        /\ (a = LT_INFINITY \/ Value(a) <= m) /\ (b = LT_INFINITY \/ Value(b) <= m)
        /\ r[i][k] = Add(a, h) /\ r[k][j] = Add(b, t) /\ r[i][j] = Add(c, h + t)
        /\ r[i][k] \in Entry /\ r[k][j] \in Entry /\ r[i][j] \in Entry
        /\ Add(a, h) = LT_INFINITY <=> a = LT_INFINITY
        /\ Add(b, t) = LT_INFINITY <=> b = LT_INFINITY
    BY <1>2, <2>1
  <2> HIDE DEF a, b, c, h, t
  <2>4. Sum(Add(a, h), Add(b, t)) >= Add(c, h + t)
    BY <1>1, <2>2, <2>3, AddTight DEF a, b, c
  <2> QED BY <2>3, <2>4
<1>6. ASSUME value >= 0, NEW j \in Clock0
      PROVE  r[0][j] <= LE_ZERO
  <2>1. d[0][p(j)] \in Int /\ d[0][p(j)] <= LE_ZERO /\ s(j) \in Int /\ s(j) >= 0
    <3>1. s(j) >= 0
      BY <1>1, <1>3, <1>6
    <3>2. p(j) \in Clock0 /\ s(j) \in Int
      BY <1>2
    <3> QED BY <1>1, <3>1, <3>2, Clocks, EntryMatrixType DEF IsPositive
  <2>2. r[0][j] = Add(d[0][p(j)], 0 - s(j))
    BY <1>2, <1>3, Clocks
  <2>3. Add(d[0][p(j)], 0 - s(j)) = d[0][p(j)] + 2 * (0 - s(j))
    BY <2>1, SpecialBounds DEF Add
  <2> QED BY <2>1, <2>2, <2>3, SpecialBounds
<1>7. UpTo(r, 2 * m)
  <2> SUFFICES ASSUME NEW i \in Clock0, NEW j \in Clock0, r[i][j] # LT_INFINITY
               PROVE  Value(r[i][j]) <= 2 * m
    BY DEF UpTo
  <2> DEFINE b == d[p(i)][p(j)]
             t == s(i) - s(j)
  <2>1. /\ b \in Int /\ t \in Int /\ b # LT_INFINITY /\ r[i][j] = Add(b, t)
        /\ Value(b) + t <= 2 * m
    BY <1>2
  <2> HIDE DEF b, t
  <2>2. r[i][j] = b + 2 * t
    BY <2>1 DEF Add
  <2> QED BY <2>1, <2>2, AddParts
<1> QED BY <1>4, <1>5, <1>6, <1>7 DEF r, IsConsistent, IsTight, IsPositive

(* v meets the shifted matrix if the clocks that determine it met d. *)
LEMMA InShifted ==
  ASSUME NEW d, NEW x, NEW y, NEW value, NEW m, Shiftable(d, x, y, value, m),
         NEW u \in [Clock0 -> Int], NEW v \in [Clock0 -> Int],
         \A i \in Clock0 : v[i] = u[From(x, y, i)] + Unit * Shift(x, value, i)
  PROVE  In(v, Shifted(d, x, y, value))
           <=> \A i, j \in Clock0 : Meets(u, From(x, y, i), From(x, y, j),
                                          d[From(x, y, i)][From(x, y, j)])
<1> SUFFICES ASSUME NEW i \in Clock0, NEW j \in Clock0
             PROVE  Meets(v, i, j, Shifted(d, x, y, value)[i][j])
                      <=> Meets(u, From(x, y, i), From(x, y, j),
                                d[From(x, y, i)][From(x, y, j)])
  BY Zenon DEF In
<1> DEFINE p == From(x, y, i)
           q == From(x, y, j)
           b == d[p][q]
           g == Shift(x, value, i)
           h == Shift(x, value, j)
<1>1. /\ p \in Clock0 /\ q \in Clock0 /\ g \in Int /\ h \in Int /\ b \in Int
      /\ Shifted(d, x, y, value)[i][j] = Add(b, g - h)
      /\ Add(b, g - h) = LT_INFINITY <=> b = LT_INFINITY
  BY ShiftedTypes
<1>2. v[i] = u[p] + Unit * g /\ v[j] = u[q] + Unit * h
  OBVIOUS
<1> HIDE DEF p, q, b, g, h
<1>3. u[p] \in Int /\ u[q] \in Int
  BY <1>1
<1>4. CASE b = LT_INFINITY
  BY <1>1, <1>4, MeetsGrid DEF p, q, b
<1>5. CASE b # LT_INFINITY
  <2>1. Add(b, g - h) = b + 2 * (g - h) /\ g - h \in Int
    BY <1>1, <1>5 DEF Add
  <2>2. Grid(b + 2 * (g - h)) = Grid(b) + Unit * (g - h)
    BY <1>1, <2>1, AddParts
  <2>3. /\ Unit * g \in Int /\ Unit * h \in Int /\ Grid(b) \in Int
        /\ Unit * (g - h) = Unit * g - Unit * h
    <3>1. Unit * g \in Int /\ Unit * h \in Int /\ Unit * (g - h) = Unit * g - Unit * h
      BY <1>1, GridAssumption, SMT
    <3> QED BY <1>1, <3>1, GridParts
  <2>4. u[p] - u[q] < Grid(b) <=> v[i] - v[j] < Grid(b + 2 * (g - h))
    BY <1>2, <1>3, <2>2, <2>3
  <2>5. Meets(v, i, j, Add(b, g - h)) <=> v[i] - v[j] < Grid(b + 2 * (g - h))
    BY <1>1, <1>5, <2>1, MeetsGrid
  <2>6. Meets(u, p, q, b) <=> u[p] - u[q] < Grid(b)
    BY <1>5, MeetsGrid
  <2> QED BY <1>1, <2>4, <2>5, <2>6 DEF p, q, b
<1> QED BY <1>4, <1>5

-----------------------------------------------------------------------------
(* Witnesses.  Between lower and upper bounds of a value that are           *)
(* consistent with one another there is a point of the grid, since the      *)
(* other values are at every other point only.                              *)
LEMMA GreatestAt ==
  ASSUME NEW f \in [Clock0 -> Int], NEW S \in SUBSET Clock0, S # {}
  PROVE  \E s \in S : \A t \in S : f[t] <= f[s]
<1> DEFINE Below(n) == {s \in S : s < n}
           T == {n \in 0 .. Dim : \/ Below(n) = {}
                                  \/ \E s \in Below(n) : \A t \in Below(n) : f[t] <= f[s]}
<1>1. S \subseteq Nat /\ Dim \in Nat /\ \A s \in S : s < Dim /\ f[s] \in Int
  BY DimAssumption DEF Clock0
<1>2. 0 \in T
  <2>1. Below(0) = {}
    <3>1. \A s \in S : ~(s < 0)
      <4>1. \A s \in Nat : ~(s < 0)
        OBVIOUS
      <4> QED BY <1>1, <4>1
    <3> QED BY <3>1
  <2>2. 0 \in 0 .. Dim
    BY <1>1
  <2> HIDE DEF Below
  <2> QED BY <2>1, <2>2
<1>3. ASSUME NEW n \in 1 .. Dim, n - 1 \in T
      PROVE  n \in T
  <2> DEFINE k == n - 1
  <2>1. \/ Below(k) = {}
        \/ \E s \in Below(k) : \A t \in Below(k) : f[t] <= f[s]
    BY <1>3
  <2>2. Below(n) = Below(k) \cup (S \cap {k})
    <3>1. \A s \in S : s < n <=> s < k \/ s = k
      <4>1. n \in Int /\ \A s \in S : s \in Int
        BY <1>1
      <4> QED BY <4>1
    <3> HIDE DEF k
    <3> QED BY <3>1
  <2>3. \A s \in Below(n) : f[s] \in Int
    BY <1>1
  <2>4. CASE k \notin S
    BY <2>1, <2>2, <2>4
  <2>5. CASE k \in S
    <3> HIDE DEF Below
    <3>1. Below(n) = Below(k) \cup {k}
      BY <2>2, <2>5
    <3>2. CASE Below(k) = {}
      <4>1. \A t \in Below(n) : f[t] <= f[k]
        BY <2>3, <3>1, <3>2
      <4> HIDE DEF k
      <4> QED BY <3>1, <4>1
    <3>3. CASE \E s \in Below(k) : \A t \in Below(k) : f[t] <= f[s]
      <4>1. PICK s \in Below(k) : \A t \in Below(k) : f[t] <= f[s]
        BY <3>3
      <4> HIDE DEF k
      <4>2. CASE f[k] <= f[s]
        BY <3>1, <4>1, <4>2
      <4>3. CASE ~(f[k] <= f[s])
        <5>1. \A t \in Below(n) : f[t] <= f[k]
          BY <2>3, <3>1, <4>1, <4>3
        <5> QED BY <3>1, <5>1
      <4> QED BY <4>2, <4>3
    <3> QED BY <2>1, <3>2, <3>3
  <2> QED BY <2>4, <2>5
<1>4. Dim \in T
  <2> HIDE DEF T
  <2>1. 0 .. Dim \subseteq T
    BY <1>1, <1>2, <1>3, Induction
  <2> QED BY <1>1, <2>1
<1>5. Below(Dim) = S
  BY <1>1
<1> QED BY <1>4, <1>5

(* An even number is twice another. *)
LEMMA Halves ==
  ASSUME NEW n \in Int, n % 2 = 0
  PROVE  \E p \in Int : n = 2 * p
<1>1. n = 2 * (n \div 2) /\ n \div 2 \in Int
  BY SMT
<1> QED BY <1>1

(* A strict bound between even numbers leaves two steps. *)
LEMMA HalvedSum ==
  ASSUME NEW p \in Int, NEW q \in Int, NEW g \in Int, NEW h \in Int,
         2 * p - 2 * q < 2 * (g + h)
  PROVE  2 * p - 2 * q <= 2 * (g + h) - 2
OBVIOUS

(* The least value that clock x may have had before it was forgotten: in a    *)
(* tight matrix, the largest lower bound is met by every upper bound.         *)
(* Valuations are even, so that the witness between two strict bounds is on   *)
(* the grid.                                                                  *)
LEMMA Between ==
  ASSUME NEW d \in EntryMatrix, IsTight(d), NEW m \in Nat, UpTo(d, m), 2 * m < InfValue,
         NEW x \in Clock0, NEW v \in [Clock0 -> Int], \A i \in Clock0 : v[i] % 2 = 0,
         NEW I \in SUBSET Clock0, NEW J \in SUBSET Clock0,
         \E i \in I : Finite(d[i][x]),
         \A i \in I, j \in J : Meets(v, i, j, d[i][j])
  PROVE  \E w \in Int :
           /\ \E i \in I : Finite(d[i][x]) /\ w = v[i] - Grid(d[i][x]) + 1
           /\ \A i \in I : Finite(d[i][x]) => v[i] - w < Grid(d[i][x])
           /\ \A j \in J : Finite(d[x][j]) => w - v[j] < Grid(d[x][j])
<1> DEFINE f == [i \in Clock0 |-> v[i] - Grid(d[i][x]) + 1]
           S == {i \in I : Finite(d[i][x])}
<1>1. \A i, j \in Clock0 : d[i][j] \in Int /\ Grid(d[i][j]) \in Int /\ v[i] \in Int
  BY EntryMatrixType, GridParts
<1>2. f \in [Clock0 -> Int] /\ \A i \in Clock0 : f[i] = v[i] - Grid(d[i][x]) + 1
  BY <1>1
<1>3. S \in SUBSET Clock0 /\ S # {}
  OBVIOUS
<1> HIDE DEF f
<1>4. PICK s \in S : \A t \in S : f[t] <= f[s]
  <2> HIDE DEF S
  <2> QED BY <1>2, <1>3, GreatestAt
<1> DEFINE w == f[s]
<1>5. w \in Int /\ s \in I /\ s \in Clock0 /\ Finite(d[s][x]) /\ w = v[s] - Grid(d[s][x]) + 1
  BY <1>2
<1>6. ASSUME NEW i \in I, Finite(d[i][x])
      PROVE  v[i] - w < Grid(d[i][x])
  <2>1. f[i] <= w /\ i \in Clock0
    BY <1>4, <1>6
  <2>2. v[i] - Grid(d[i][x]) + 1 <= w
    BY <1>2, <2>1
  <2> QED BY <1>1, <1>5, <2>1, <2>2
<1>7. ASSUME NEW j \in J, Finite(d[x][j])
      PROVE  w - v[j] < Grid(d[x][j])
  <2> DEFINE a == d[s][x]
             b == d[x][j]
  <2>1. j \in Clock0 /\ a \in Int /\ b \in Int /\ v[s] \in Int /\ v[j] \in Int
    BY <1>1, <1>5
  <2>2. d[s][j] # LT_INFINITY /\ Plus(a, b) >= d[s][j] /\ d[s][j] \in Int
    BY <1>1, <1>5, <1>7, <2>1, TightPath DEF Finite
  <2>3. v[s] - v[j] < Grid(d[s][j])
    BY <1>5, <2>1, <2>2, MeetsGrid
  <2> HIDE DEF a, b
  <2>4. Grid(d[s][j]) <= Grid(Plus(a, b)) /\ Grid(Plus(a, b)) \in Int /\ Grid(d[s][j]) \in Int
    <3>1. Plus(a, b) \in Int /\ d[s][j] <= Plus(a, b)
      BY <2>1, <2>2, PlusParts
    <3> QED BY <2>2, <3>1, GridMonotone, GridParts
  <2>5. v[s] - v[j] < Grid(Plus(a, b))
    BY <2>1, <2>3, <2>4
  <2>6. /\ Grid(a) \in Int /\ Grid(b) \in Int
        /\ Comparator(a) \in {0, 1} /\ Comparator(b) \in {0, 1}
    BY <2>1, GridParts
  <2>7. v[s] - v[j] <= Grid(a) + Grid(b) - 2
    <3>1. CASE Comparator(a) = 0 /\ Comparator(b) = 0
      <4>1. PICK g \in Int : Grid(a) = 2 * g + Comparator(a)
        BY <2>1, GridParts
      <4>2. PICK h \in Int : Grid(b) = 2 * h + Comparator(b)
        BY <2>1, GridParts
      <4>3. v[s] % 2 = 0 /\ v[j] % 2 = 0
        BY <1>5, <2>1
      <4>4. v[s] - v[j] < 2 * (g + h)
        BY <2>1, <2>5, <2>6, <3>1, <4>1, <4>2, GridPlus
      <4>5. PICK p \in Int : v[s] = 2 * p
        BY <2>1, <4>3, Halves
      <4>6. PICK q \in Int : v[j] = 2 * q
        BY <2>1, <4>3, Halves
      <4>7. 2 * p - 2 * q <= 2 * (g + h) - 2
        BY <4>4, <4>5, <4>6, HalvedSum
      <4>8. Grid(a) + Grid(b) = 2 * (g + h)
        BY <3>1, <4>1, <4>2, SMT
      <4>9. v[s] - v[j] <= 2 * (g + h) - 2
        BY <4>5, <4>6, <4>7, Zenon
      <4> QED BY <2>1, <2>6, <4>8, <4>9, SMT
    <3>2. CASE ~(Comparator(a) = 0 /\ Comparator(b) = 0)
      <4>1. Grid(Plus(a, b)) = Grid(a) + Grid(b) - 1
        BY <2>1, <3>2, GridPlus
      <4> QED BY <2>1, <2>5, <2>6, <4>1
    <3> QED BY <3>1, <3>2
  <2>8. w = v[s] - Grid(a) + 1
    BY <1>5 DEF a
  <2>9. w - v[j] < Grid(b)
    BY <1>5, <2>1, <2>6, <2>7, <2>8
  <2> QED BY <2>9 DEF b
<1> HIDE DEF w
<1> QED BY <1>5, <1>6, <1>7

-----------------------------------------------------------------------------
(* The constants keep every sum of an operation below infinity. *)
LEMMA Sizes ==
  /\ MaxBound \in Nat
  /\ (Dim + 1) * MaxBound < InfValue
  /\ 2 * MaxBound \in Nat /\ (Dim + 1) * (2 * MaxBound) < InfValue
  /\ 3 * MaxBound < InfValue /\ 2 * MaxBound < InfValue
<1>1. MaxBound \in Nat /\ 2 * ((Dim + 1) * MaxBound) < InfValue /\ Dim \in Nat \ {0}
      /\ InfValue \in Nat
  BY BoundsAssumption, DimAssumption, InfValueAssumption
<1> DEFINE p == (Dim + 1) * MaxBound
           q == (Dim + 1) * (2 * MaxBound)
<1>2. p \in Nat /\ q = 2 * p /\ p >= 2 * MaxBound
  <2>1. PICK k \in Nat : Dim = 1 + k
    <3> Dim - 1 \in Nat
      BY <1>1
    <3> QED BY <1>1
  <2>2. Dim * MaxBound \in Nat /\ k * MaxBound \in Nat
    BY <1>1, SMT
  <2>3. Dim * MaxBound = MaxBound + k * MaxBound
    BY <1>1, <2>1, SMT
  <2>4. p = Dim * MaxBound + MaxBound
    BY <1>1, SMT
  <2>5. q = 2 * (Dim * MaxBound) + 2 * MaxBound
    BY <1>1, SMT
  <2> QED BY <1>1, <2>2, <2>3, <2>4, <2>5, SMT
<1>3. 2 * p < InfValue
  BY <1>1
<1> HIDE DEF p, q
<1>4. p < InfValue /\ q < InfValue /\ 3 * MaxBound < InfValue /\ 2 * MaxBound < InfValue
      /\ 2 * MaxBound \in Nat
  BY <1>1, <1>2, <1>3
<1> QED BY <1>1, <1>4 DEF p, q

(* Matrices with small finite bounds are matrices of bounds of db_t. *)
LEMMA BoundedEntries ==
  ASSUME NEW d \in Matrix, NEW m \in Nat, m < InfValue, Within(d, m)
  PROVE  /\ d \in EntryMatrix /\ UpTo(d, m)
         /\ \A i, j \in Clock0 : InRange(d[i][j])
<1>1. ASSUME NEW i \in Clock0, NEW j \in Clock0
      PROVE  /\ d[i][j] \in Entry /\ InRange(d[i][j])
             /\ d[i][j] = LT_INFINITY \/ Value(d[i][j]) <= m
  <2>1. d[i][j] \in Int
    BY DEF Matrix
  <2>2. d[i][j] = LT_INFINITY \/ Value(d[i][j]) \in -m .. m
    BY DEF Within
  <2>3. CASE d[i][j] = LT_INFINITY
    BY <2>1, <2>3, SpecialBounds, InfValueAssumption DEF Entry, InRange, MINUS_INF_VALUE
  <2>4. CASE Value(d[i][j]) \in -m .. m
    <3>1. m \in Nat /\ m < InfValue /\ InfValue \in Nat
      BY InfValueAssumption
    <3>2. /\ d[i][j] = 2 * Value(d[i][j]) + Comparator(d[i][j])
          /\ Comparator(d[i][j]) \in {0, 1}
      BY <2>1, BoundParts
    <3>3. LT_INFINITY = 2 * InfValue
      BY <3>1 DEF LT_INFINITY, Db, LT
    <3>4. Value(d[i][j]) <= m /\ Value(d[i][j]) \in -InfValue .. InfValue
      BY <2>4, <3>1
    <3>5. d[i][j] <= LT_INFINITY
      BY <2>4, <3>1, <3>2, <3>3
    <3> QED BY <2>1, <3>4, <3>5 DEF Entry, InRange, MINUS_INF_VALUE
  <2> QED BY <2>2, <2>3, <2>4
<1>2. d = [i \in Clock0 |-> d[i]] /\ \A i \in Clock0 : d[i] = [j \in Clock0 |-> d[i][j]]
  BY DEF Matrix
<1>3. \A i \in Clock0 : d[i] \in [Clock0 -> Entry]
  BY <1>1, <1>2
<1>4. d \in EntryMatrix
  BY <1>2, <1>3 DEF EntryMatrix
<1> QED BY <1>1, <1>4 DEF UpTo

(* So are the bounds of constraints. *)
LEMMA BoundEntries ==
  ASSUME NEW b \in Bound
  PROVE  b \in Entry /\ Value(b) <= MaxBound
<1>1. PICK c \in {LT, LE}, value \in Constant : b = Db(c, value)
  BY DEF Bound
<1>2. value \in -MaxBound .. MaxBound /\ MaxBound \in Nat /\ MaxBound < InfValue
      /\ InfValue \in Nat
  BY BoundsAssumption, Sizes, InfValueAssumption
<1>3. c \in {0, 1} /\ value \in Int
  BY <1>2 DEF LT, LE
<1>4. b \in Int /\ Value(b) = value
  BY <1>1, <1>3, DbParts
<1>5. b <= LT_INFINITY
  BY <1>1, <1>2, <1>3 DEF Db, LT_INFINITY, LT
<1> QED BY <1>2, <1>4, <1>5 DEF Entry

(* The matrix at hand, against both limits of sums. *)
LEMMA DbmEntries ==
  ASSUME NEW d \in Matrix, Bounded(d)
  PROVE  /\ d \in EntryMatrix /\ UpTo(d, MaxBound) /\ UpTo(d, 2 * MaxBound)
         /\ \A i, j \in Clock0 : InRange(d[i][j])
<1>1. MaxBound \in Nat /\ MaxBound < InfValue
  BY Sizes, InfValueAssumption
<1>2. /\ d \in EntryMatrix /\ UpTo(d, MaxBound)
      /\ \A i, j \in Clock0 : InRange(d[i][j])
  BY <1>1, BoundedEntries DEF Bounded
<1>3. UpTo(d, 2 * MaxBound)
  <2> SUFFICES ASSUME NEW i \in Clock0, NEW j \in Clock0, d[i][j] # LT_INFINITY
               PROVE  Value(d[i][j]) <= 2 * MaxBound
    BY DEF UpTo
  <2>1. d[i][j] \in Int /\ Value(d[i][j]) \in Int /\ Value(d[i][j]) <= MaxBound
    BY <1>2, EntryMatrixType, BoundParts DEF UpTo
  <2> QED BY <1>1, <2>1
<1> QED BY <1>2, <1>3

(* Stored matrices are in normal form. *)
LEMMA StoredNormal ==
  ASSUME NEW e \in Stored
  PROVE  NormalForm(e) /\ UpTo(e, 2 * MaxBound)
<1>1. 2 * MaxBound \in Nat /\ 2 * MaxBound < InfValue
  BY Sizes
<1>2. /\ e \in Matrix /\ Within(e, 2 * MaxBound)
      /\ IsConsistent(e) /\ IsPositive(e) /\ IsTight(e)
  BY BoundsAssumption
<1> QED BY <1>1, <1>2, BoundedEntries DEF NormalForm

(* The matrix of all positive valuations. *)
LEMMA UniversalNormal ==
  /\ UniversalPositive \in EntryMatrix
  /\ \A i, j \in Clock0 :
       UniversalPositive[i][j] = IF i = j \/ i = 0 THEN LE_ZERO ELSE LT_INFINITY
  /\ IsConsistent(UniversalPositive) /\ IsPositive(UniversalPositive)
  /\ Bounded(UniversalPositive)
<1>1. LE_ZERO \in Entry /\ LT_INFINITY \in Entry
  BY SpecialBounds DEF Entry
<1>2. \A i \in Clock0 :
        [j \in Clock0 |-> IF i = j \/ i = 0 THEN LE_ZERO ELSE LT_INFINITY] \in [Clock0 -> Entry]
  BY <1>1
<1>3. UniversalPositive \in EntryMatrix
  BY <1>2 DEF UniversalPositive, EntryMatrix
<1>4. \A i, j \in Clock0 :
        UniversalPositive[i][j] = IF i = j \/ i = 0 THEN LE_ZERO ELSE LT_INFINITY
  BY DEF UniversalPositive
<1>5. IsConsistent(UniversalPositive) /\ IsPositive(UniversalPositive)
  BY <1>4, Clocks, SpecialBounds DEF IsConsistent, IsPositive
<1>6. Bounded(UniversalPositive)
  BY <1>4, SpecialBounds, Sizes DEF Bounded, Within
<1> QED BY <1>3, <1>4, <1>5, <1>6

(* Valuations are natural and even on the grid. *)
LEMMA ValuationType ==
  ASSUME NEW v \in Valuation
  PROVE  /\ v \in [Clock0 -> Int] /\ v[0] = 0
         /\ \A i \in Clock0 : v[i] \in Coarse /\ v[i] \in Nat /\ v[i] \in Int /\ v[i] % 2 = 0
<1>1. v \in [Clock0 -> Coarse] /\ v[0] = 0
  BY DEF Valuation
<1>2. \A c \in Coarse : c \in Nat /\ c \in Int /\ c % 2 = 0
  BY GridAssumption
<1>3. \A i \in Clock0 : v[i] \in Coarse
  BY <1>1
<1>4. v = [i \in Clock0 |-> v[i]]
  BY <1>1
<1> QED BY <1>1, <1>2, <1>3, <1>4

(* A bound of a positive matrix on 0 - x leaves x at 0 or more. *)
LEMMA PositiveEntry ==
  ASSUME NEW d, NormalForm(d), NEW x \in Clock0
  PROVE  /\ d[0][x] \in Int /\ Finite(d[0][x])
         /\ Grid(d[0][x]) \in Int /\ Grid(d[0][x]) <= 1
<1>1. d[0][x] \in Int /\ d[0][x] <= LE_ZERO /\ LE_ZERO \in Int
  BY EntryMatrixType, Clocks, SpecialBounds DEF NormalForm, IsPositive
<1>2. Grid(d[0][x]) <= Grid(LE_ZERO) /\ Grid(d[0][x]) \in Int
  BY <1>1, GridMonotone, GridParts
<1> QED BY <1>1, <1>2, SpecialBounds DEF Finite

(* The smallest finite bound on the grid. *)
LEMMA GridAbove ==
  ASSUME NEW value \in -MaxBound .. MaxBound
  PROVE  /\ Unit * value \in Int /\ Unit * MaxBound \in Int
         /\ -(Unit * MaxBound) <= Unit * value
<1>1. Unit \in Nat \ {0} /\ MaxBound \in Nat /\ value \in Int
  BY GridAssumption, Sizes
<1>2. PICK k \in Nat : value = k + (-MaxBound)
  <2> value + MaxBound \in Nat
    BY <1>1
  <2> QED BY <1>1
<1>3. Unit * value \in Int /\ Unit * k \in Nat /\ Unit * MaxBound \in Int
  BY <1>1, SMT
<1>4. Unit * (k + (-MaxBound)) = Unit * k + Unit * (-MaxBound)
  BY <1>1, Product
<1>5. Unit * (-MaxBound) = -(Unit * MaxBound)
  BY <1>1, SMT
<1> QED BY <1>2, <1>3, <1>4, <1>5, SMT

(* The grid Fine holds the witnesses of the properties, *)
LEMMA WitnessFine ==
  ASSUME NEW c \in Coarse, NEW w \in Int, w >= 0, w <= c + Unit * MaxBound + 1
  PROVE  w \in Fine
<1>1. c \in Nat /\ Unit * MaxBound \in Int /\ 0 .. c + Unit * MaxBound + 1 \subseteq Fine
  <2>1. MaxBound \in -MaxBound .. MaxBound
    BY Sizes
  <2> QED BY <2>1, GridAbove, GridAssumption
<1> QED BY <1>1

(* those at a bound of the matrix among them. *)
LEMMA BoundWitnessFine ==
  ASSUME NEW d \in Matrix, Bounded(d), NEW i \in Clock0, NEW j \in Clock0,
         Finite(d[i][j]), NEW c \in Coarse, NEW w \in Int, w >= 0,
         w = c - Grid(d[i][j]) + 1
  PROVE  w \in Fine
<1>1. Value(d[i][j]) \in -MaxBound .. MaxBound
  BY DEF Bounded, Within, Finite
<1>2. d[i][j] \in Int
  BY DEF Matrix
<1>3. Grid(d[i][j]) = Unit * Value(d[i][j]) + Comparator(d[i][j])
      /\ Comparator(d[i][j]) \in {0, 1}
  BY <1>2, GridParts DEF Grid
<1>4. /\ Unit * Value(d[i][j]) \in Int /\ Unit * MaxBound \in Int
      /\ -(Unit * MaxBound) <= Unit * Value(d[i][j])
  BY <1>1, GridAbove
<1>5. c \in Nat
  BY GridAssumption
<1>6. w <= c + Unit * MaxBound + 1
  BY <1>3, <1>4, <1>5
<1> QED BY <1>6, WitnessFine

-----------------------------------------------------------------------------
(* Delays. *)
LEMMA ElapsedFromPast ==
  ASSUME NEW d, NormalForm(d), NEW v \in Valuation, InFuture(v, d)
  PROVE  In(v, OpenUp(d))
<1>1. PICK delay \in Fine :
        /\ \A x \in Clock : delay <= v[x]
        /\ In([x \in Clock0 |-> IF x = 0 THEN 0 ELSE v[x] - delay], d)
  BY DEF InFuture
<1> DEFINE u == [x \in Clock0 |-> IF x = 0 THEN 0 ELSE v[x] - delay]
<1>2. delay \in Nat
  BY GridAssumption
<1>3. \A i \in Clock0 : v[i] \in Int /\ v[0] = 0 /\ 0 \in Clock0
                        /\ u[i] = IF i = 0 THEN 0 ELSE v[i] - delay
  BY ValuationType, Clocks
<1> SUFFICES ASSUME NEW i \in Clock0, NEW j \in Clock0
             PROVE  Meets(v, i, j, OpenUp(d)[i][j])
  BY DEF In
<1>4. d \in EntryMatrix /\ d[i][j] \in Int /\ Meets(u, i, j, d[i][j])
  BY <1>1, EntryMatrixType DEF In, NormalForm
<1>5. OpenUp(d)[i][j] = IF i # 0 /\ j = 0 THEN LT_INFINITY ELSE d[i][j]
  BY <1>4, OpenUpEntries
<1>6. u[i] - u[j] \in Int /\ ((i # 0 /\ j = 0) \/ v[i] - v[j] <= u[i] - u[j])
  <2> HIDE DEF u
  <2> QED BY <1>2, <1>3
<1> HIDE DEF u
<1>7. CASE i # 0 /\ j = 0
  BY <1>5, <1>7, MeetsGrid
<1>8. CASE ~(i # 0 /\ j = 0)
  <2>1. CASE d[i][j] = LT_INFINITY
    BY <1>5, <1>8, <2>1, MeetsGrid
  <2>2. CASE d[i][j] # LT_INFINITY
    <3>1. u[i] - u[j] < Grid(d[i][j]) /\ Grid(d[i][j]) \in Int
      BY <1>4, <2>2, MeetsGrid, GridParts
    <3>2. v[i] - v[j] < Grid(d[i][j])
      BY <1>3, <1>6, <1>8, <3>1
    <3> QED BY <1>5, <1>8, <3>2, MeetsGrid
  <2> QED BY <2>1, <2>2
<1> QED BY <1>7, <1>8

(* A valuation after open_up had a past in the zone. *)
LEMMA PastOfElapsed ==
  ASSUME NEW d \in Matrix, NormalForm(d), Bounded(d), NEW v \in Valuation, In(v, OpenUp(d))
  PROVE  InFuture(v, d)
<1>1. /\ d \in EntryMatrix /\ IsTight(d) /\ UpTo(d, MaxBound)
      /\ MaxBound \in Nat /\ 2 * MaxBound < InfValue
  BY DbmEntries, Sizes DEF NormalForm
<1>2. /\ v \in [Clock0 -> Int] /\ v[0] = 0 /\ 0 \in Clock0 /\ Clock \subseteq Clock0
      /\ \A i \in Clock0 : v[i] \in Int /\ v[i] % 2 = 0 /\ v[i] \in Coarse
      /\ \A i \in Clock : i # 0
  BY ValuationType, Clocks DEF Clock
<1>3. ASSUME NEW i \in Clock0, NEW j \in Clock
      PROVE  Meets(v, i, j, d[i][j])
  <2>1. OpenUp(d)[i][j] = d[i][j]
    BY <1>1, <1>2, <1>3, OpenUpEntries
  <2> QED BY <1>2, <2>1 DEF In
<1>4. \E i \in Clock0 : Finite(d[i][0])
  BY <1>2, PositiveEntry
<1>5. PICK w \in Int :
        /\ \E i \in Clock0 : Finite(d[i][0]) /\ w = v[i] - Grid(d[i][0]) + 1
        /\ \A i \in Clock0 : Finite(d[i][0]) => v[i] - w < Grid(d[i][0])
        /\ \A j \in Clock : Finite(d[0][j]) => w - v[j] < Grid(d[0][j])
  <2>1. \A i \in Clock0, j \in Clock : Meets(v, i, j, d[i][j])
    BY <1>3
  <2>2. Clock0 \in SUBSET Clock0 /\ Clock \in SUBSET Clock0
    BY <1>2
  <2> QED BY <1>1, <1>2, <1>4, <2>1, <2>2, Between
<1>6. w >= 0
  <2>1. Finite(d[0][0]) /\ Grid(d[0][0]) \in Int /\ Grid(d[0][0]) <= 1
    BY <1>2, PositiveEntry
  <2>2. 0 - w < Grid(d[0][0])
    BY <1>2, <1>5, <2>1
  <2> QED BY <2>1, <2>2
<1>7. \A j \in Clock : w <= v[j]
  <2> SUFFICES ASSUME NEW j \in Clock PROVE w <= v[j]
    OBVIOUS
  <2>1. Finite(d[0][j]) /\ Grid(d[0][j]) \in Int /\ Grid(d[0][j]) <= 1 /\ v[j] \in Int
    BY <1>2, PositiveEntry
  <2>2. w - v[j] < Grid(d[0][j])
    BY <1>5, <2>1
  <2> QED BY <2>1, <2>2
<1>8. w \in Fine
  <2>1. PICK i \in Clock0 : Finite(d[i][0]) /\ w = v[i] - Grid(d[i][0]) + 1
    BY <1>5
  <2> QED BY <1>2, <1>6, <2>1, BoundWitnessFine
<1> DEFINE u == [x \in Clock0 |-> IF x = 0 THEN 0 ELSE v[x] - w]
<1>9. In(u, d)
  <2> SUFFICES ASSUME NEW i \in Clock0, NEW j \in Clock0
               PROVE  Meets(u, i, j, d[i][j])
    BY DEF In
  <2>1. /\ d[i][j] \in Int /\ Grid(d[i][j]) \in Int
        /\ v[i] \in Int /\ v[j] \in Int
    BY <1>1, <1>2, EntryMatrixType, GridParts
  <2>2. /\ u[i] = IF i = 0 THEN 0 ELSE v[i] - w
        /\ u[j] = IF j = 0 THEN 0 ELSE v[j] - w
    OBVIOUS
  <2> HIDE DEF u
  <2>3. CASE i = j
    <3>1. d[i][j] = LE_ZERO
      BY <2>3 DEF NormalForm, IsConsistent
    <3>2. u[i] - u[j] = 0
      BY <2>1, <2>2, <2>3
    <3> QED BY <3>1, <3>2, MeetsGrid, SpecialBounds
  <2>4. CASE d[i][j] = LT_INFINITY
    BY <2>4, MeetsGrid
  <2>5. CASE i # j /\ d[i][j] # LT_INFINITY
    <3>1. u[i] - u[j] < Grid(d[i][j])
      <4>1. CASE j = 0
        <5>1. v[i] - w < Grid(d[i][j])
          BY <1>5, <2>5, <4>1 DEF Finite
        <5> QED BY <2>1, <2>2, <2>5, <4>1, <5>1
      <4>2. CASE i = 0 /\ j # 0
        <5>1. j \in Clock
          BY <4>2, Clocks
        <5>2. w - v[j] < Grid(d[i][j])
          BY <1>5, <2>5, <4>2, <5>1 DEF Finite
        <5> QED BY <2>1, <2>2, <4>2, <5>2
      <4>3. CASE i # 0 /\ j # 0
        <5>1. v[i] - v[j] < Grid(d[i][j])
          BY <1>3, <2>5, <4>3, Clocks, MeetsGrid
        <5> QED BY <2>1, <2>2, <4>3, <5>1
      <4> QED BY <4>1, <4>2, <4>3
    <3> QED BY <3>1, MeetsGrid
  <2> QED BY <2>3, <2>4, <2>5
<1> QED BY <1>7, <1>8, <1>9 DEF InFuture

-----------------------------------------------------------------------------
(* Resets. *)
LEMMA ShiftedFromReset ==
  ASSUME NEW d \in Matrix, NormalForm(d), Bounded(d), NEW x \in Clock, NEW y \in Clock0,
         NEW value \in -MaxBound .. MaxBound,
         NEW v \in Valuation, InReset(v, d, x, y, value)
  PROVE  In(v, Shifted(d, x, y, value))
<1>1. Shiftable(d, x, y, value, MaxBound)
  BY DbmEntries, Sizes DEF Shiftable
<1>2. PICK w \in Fine :
        /\ v[x] = (IF y = x THEN w ELSE v[y]) + Unit * value
        /\ In([v EXCEPT ![x] = w], d)
  BY DEF InReset
<1> DEFINE u == [v EXCEPT ![x] = w]
<1>3. w \in Nat /\ v \in [Clock0 -> Int] /\ x \in Clock0
  BY GridAssumption, ValuationType, Clocks
<1>4. u \in [Clock0 -> Int] /\ \A i \in Clock0 : u[i] = IF i = x THEN w ELSE v[i]
  BY <1>3
<1>5. Unit * 0 = 0
  BY GridAssumption, SMT
<1> HIDE DEF u
<1>6. ASSUME NEW i \in Clock0
      PROVE  v[i] = u[From(x, y, i)] + Unit * Shift(x, value, i)
  <2>1. CASE i = x
    <3>1. u[y] = IF y = x THEN w ELSE v[y]
      BY <1>4
    <3> QED BY <1>2, <2>1, <3>1 DEF From, Shift
  <2>2. CASE i # x
    <3>1. u[i] = v[i] /\ v[i] \in Int /\ v[i] + 0 = v[i]
      BY <1>3, <1>4, <2>2
    <3> QED BY <1>5, <2>2, <3>1 DEF From, Shift
  <2> QED BY <2>1, <2>2
<1>7. \A i, j \in Clock0 : Meets(u, i, j, d[i][j])
  BY <1>2 DEF In, u
<1>8. \A i \in Clock0 : From(x, y, i) \in Clock0
  BY DEF From
<1> QED BY <1>1, <1>3, <1>4, <1>6, <1>7, <1>8, InShifted

(* Clocks of a positive matrix are not negative. *)
LEMMA NonNegative ==
  ASSUME NEW d, NormalForm(d), NEW x \in Clock, NEW u \in [Clock0 -> Int],
         u[0] = 0, Meets(u, 0, x, d[0][x])
  PROVE  u[x] >= 0
<1>1. x \in Clock0 /\ u[x] \in Int
  BY Clocks
<1>2. Finite(d[0][x]) /\ Grid(d[0][x]) \in Int /\ Grid(d[0][x]) <= 1
  BY <1>1, PositiveEntry
<1>3. 0 - u[x] < Grid(d[0][x])
  BY <1>2, MeetsGrid DEF Finite
<1> QED BY <1>1, <1>2, <1>3

(* A valuation after x := x + value had a past in the zone, *)
LEMMA ResetOfItself ==
  ASSUME NEW d \in Matrix, NormalForm(d), Bounded(d), NEW x \in Clock,
         NEW value \in -MaxBound .. MaxBound,
         NEW v \in Valuation, In(v, Shifted(d, x, x, value))
  PROVE  InReset(v, d, x, x, value)
<1>1. Shiftable(d, x, x, value, MaxBound)
  BY DbmEntries, Sizes, Clocks DEF Shiftable
<1>2. /\ v \in [Clock0 -> Int] /\ v[0] = 0 /\ x \in Clock0 /\ 0 \in Clock0 /\ x # 0
      /\ v[x] \in Coarse /\ v[x] \in Int
  BY ValuationType, Clocks DEF Clock
<1>3. /\ Unit * value \in Int /\ Unit * MaxBound \in Int
      /\ -(Unit * MaxBound) <= Unit * value /\ Unit * 0 = 0
  BY GridAbove, GridAssumption, SMT
<1> DEFINE w == v[x] - Unit * value
           u == [v EXCEPT ![x] = w]
<1>4. w \in Int /\ v[x] = w + Unit * value /\ w <= v[x] + Unit * MaxBound + 1
  BY <1>2, <1>3
<1> HIDE DEF w
<1>5. u \in [Clock0 -> Int] /\ (\A i \in Clock0 : u[i] = IF i = x THEN w ELSE v[i])
      /\ u[0] = 0
  BY <1>2, <1>4
<1> HIDE DEF u
<1>6. ASSUME NEW i \in Clock0
      PROVE  v[i] = u[From(x, x, i)] + Unit * Shift(x, value, i)
  <2>1. CASE i = x
    BY <1>4, <1>5, <2>1 DEF From, Shift
  <2>2. CASE i # x
    <3>1. u[i] = v[i] /\ v[i] \in Int /\ v[i] + 0 = v[i]
      BY <1>2, <1>5, <2>2
    <3> QED BY <1>3, <2>2, <3>1 DEF From, Shift
  <2> QED BY <2>1, <2>2
<1>7. \A i, j \in Clock0 : Meets(u, From(x, x, i), From(x, x, j),
                                 d[From(x, x, i)][From(x, x, j)])
  BY <1>1, <1>2, <1>5, <1>6, InShifted
<1>8. \A i, j \in Clock0 : Meets(u, i, j, d[i][j])
  <2>1. \A i : From(x, x, i) = i
    BY DEF From
  <2> QED BY <1>7, <2>1
<1>9. w >= 0
  <2>1. u[x] >= 0
    BY <1>2, <1>5, <1>8, NonNegative
  <2> QED BY <1>2, <1>5, <2>1
<1>10. w \in Fine
  BY <1>2, <1>4, <1>9, WitnessFine
<1>11. In([v EXCEPT ![x] = w], d)
  BY <1>8 DEF In, u
<1> QED BY <1>4, <1>10, <1>11 DEF InReset

(* and so had one after x := y + value, or x := value. *)
LEMMA ResetToOther ==
  ASSUME NEW d \in Matrix, NormalForm(d), Bounded(d), NEW x \in Clock,
         NEW y \in Clock0, y # x, NEW value \in -MaxBound .. MaxBound,
         NEW v \in Valuation, In(v, Shifted(d, x, y, value))
  PROVE  InReset(v, d, x, y, value)
<1>1. Shiftable(d, x, y, value, MaxBound)
  BY DbmEntries, Sizes DEF Shiftable
<1>2. /\ d \in EntryMatrix /\ IsTight(d) /\ UpTo(d, MaxBound)
      /\ MaxBound \in Nat /\ 2 * MaxBound < InfValue
  BY DbmEntries, Sizes DEF NormalForm
<1>3. /\ v \in [Clock0 -> Int] /\ v[0] = 0 /\ x \in Clock0 /\ 0 \in Clock0 /\ x # 0
      /\ \A i \in Clock0 : v[i] \in Int /\ v[i] % 2 = 0 /\ v[i] \in Coarse
  BY ValuationType, Clocks DEF Clock
<1>4. /\ Unit * value \in Int /\ Unit * 0 = 0 /\ Unit * (-value) = -(Unit * value)
      /\ value \in Int
  BY Sizes, GridAbove, GridAssumption, SMT
<1>5. v[x] = v[y] + Unit * value
  <2>1. d[y][y] = LE_ZERO /\ LE_ZERO # LT_INFINITY /\ LE_ZERO = 1
    BY SpecialBounds DEF NormalForm, IsConsistent
  <2>2. /\ Shifted(d, x, y, value)[x][y] = Add(LE_ZERO, value - 0)
        /\ Shifted(d, x, y, value)[y][x] = Add(LE_ZERO, 0 - value)
    BY <1>2, <1>3, <1>4, <2>1, ShiftedEntry DEF From, Shift, NormalForm
  <2>3. /\ Add(LE_ZERO, value - 0) = Db(LE, value)
        /\ Add(LE_ZERO, 0 - value) = Db(LE, -value)
    BY <1>4, <2>1 DEF Add, Db, LE
  <2>4. /\ Meets(v, x, y, Db(LE, value)) /\ Meets(v, y, x, Db(LE, -value))
    BY <1>3, <2>2, <2>3 DEF In
  <2>5. /\ Grid(Db(LE, value)) = Unit * value + 1
        /\ Grid(Db(LE, -value)) = -(Unit * value) + 1
    BY <1>4, DbParts DEF Grid, LE
  <2>6. /\ Db(LE, value) # LT_INFINITY /\ Db(LE, -value) # LT_INFINITY
    BY <1>4, InfValueAssumption DEF Db, LE, LT, LT_INFINITY
  <2>7. /\ v[x] - v[y] < Unit * value + 1
        /\ v[y] - v[x] < -(Unit * value) + 1
    BY <2>4, <2>5, <2>6, MeetsGrid
  <2> QED BY <1>3, <1>4, <2>7
<1>6. ASSUME NEW i \in Clock0
      PROVE  v[i] = v[From(x, y, i)] + Unit * Shift(x, value, i)
  <2>1. CASE i = x
    BY <1>5, <2>1 DEF From, Shift
  <2>2. CASE i # x
    <3>1. v[i] \in Int /\ v[i] + 0 = v[i]
      BY <1>3
    <3> QED BY <1>4, <2>2, <3>1 DEF From, Shift
  <2> QED BY <2>1, <2>2
<1>7. \A i, j \in Clock0 : Meets(v, From(x, y, i), From(x, y, j),
                                 d[From(x, y, i)][From(x, y, j)])
  BY <1>1, <1>3, <1>6, InShifted
<1> DEFINE I == Clock0 \ {x}
<1>8. \A i, j \in I : Meets(v, i, j, d[i][j])
  <2>1. \A i \in I : i \in Clock0 /\ From(x, y, i) = i
    BY DEF From
  <2> QED BY <1>7, <2>1
<1>9. PICK w \in Int :
        /\ \E i \in I : Finite(d[i][x]) /\ w = v[i] - Grid(d[i][x]) + 1
        /\ \A i \in I : Finite(d[i][x]) => v[i] - w < Grid(d[i][x])
        /\ \A j \in I : Finite(d[x][j]) => w - v[j] < Grid(d[x][j])
  <2>1. \E i \in I : Finite(d[i][x])
    <3>1. 0 \in I /\ Finite(d[0][x])
      BY <1>3, PositiveEntry
    <3> QED BY <3>1
  <2>2. I \in SUBSET Clock0
    OBVIOUS
  <2> HIDE DEF I
  <2> QED BY <1>2, <1>3, <1>8, <2>1, <2>2, Between
<1> DEFINE u == [v EXCEPT ![x] = w]
<1>10. u \in [Clock0 -> Int] /\ (\A i \in Clock0 : u[i] = IF i = x THEN w ELSE v[i])
  BY <1>3
<1> HIDE DEF u
<1>11. ASSUME NEW i \in Clock0, NEW j \in Clock0
       PROVE  Meets(u, i, j, d[i][j])
  <2>1. CASE i = x /\ j = x
    <3>1. d[i][j] = LE_ZERO /\ LE_ZERO \in Int /\ LE_ZERO >= LE_ZERO
      BY <2>1, SpecialBounds DEF NormalForm, IsConsistent
    <3> QED BY <1>10, <2>1, <3>1, MeetsDiagonal
  <2>2. CASE i # x /\ j = x
    <3>1. i \in I /\ u[i] = v[i] /\ u[j] = w
      BY <1>10, <2>2
    <3> QED BY <1>9, <2>2, <3>1, MeetsGrid DEF Finite
  <2>3. CASE i = x /\ j # x
    <3>1. j \in I /\ u[j] = v[j] /\ u[i] = w
      BY <1>10, <2>3
    <3> QED BY <1>9, <2>3, <3>1, MeetsGrid DEF Finite
  <2>4. CASE i # x /\ j # x
    <3>1. i \in I /\ j \in I /\ u[i] = v[i] /\ u[j] = v[j]
      BY <1>10, <2>4
    <3> QED BY <1>8, <3>1, MeetsGrid
  <2> QED BY <2>1, <2>2, <2>3, <2>4
<1>12. w >= 0
  <2>1. u[0] = 0
    BY <1>3, <1>10
  <2>2. u[x] >= 0
    BY <1>3, <1>10, <1>11, <2>1, NonNegative
  <2> QED BY <1>3, <1>10, <2>2
<1>13. w \in Fine
  <2>1. PICK i \in I : Finite(d[i][x]) /\ w = v[i] - Grid(d[i][x]) + 1
    BY <1>9
  <2> QED BY <1>3, <1>12, <2>1, BoundWitnessFine
<1>14. In([v EXCEPT ![x] = w], d)
  BY <1>11 DEF In, u
<1> QED BY <1>5, <1>13, <1>14 DEF InReset

(* A shift is the reset that it implements. *)
LEMMA ShiftedExact ==
  ASSUME NEW d \in Matrix, NormalForm(d), Bounded(d), NEW x \in Clock, NEW y \in Clock0,
         NEW value \in -MaxBound .. MaxBound, NEW v \in Valuation
  PROVE  In(v, Shifted(d, x, y, value)) <=> InReset(v, d, x, y, value)
BY ShiftedFromReset, ResetOfItself, ResetToOther

(* Every valuation is positive. *)
LEMMA ValuationPositive ==
  ASSUME NEW v \in Valuation
  PROVE  In(v, UniversalPositive)
<1> SUFFICES ASSUME NEW i \in Clock0, NEW j \in Clock0
             PROVE  Meets(v, i, j, UniversalPositive[i][j])
  BY DEF In
<1>1. v[0] = 0 /\ v[i] \in Nat /\ v[j] \in Nat
  BY ValuationType
<1>2. UniversalPositive[i][j] = IF i = j \/ i = 0 THEN LE_ZERO ELSE LT_INFINITY
  BY UniversalNormal
<1>3. CASE i = j \/ i = 0
  <2>1. v[i] - v[j] < 1
    BY <1>1, <1>3
  <2> QED BY <1>2, <1>3, <2>1, MeetsGrid, SpecialBounds
<1>4. CASE ~(i = j \/ i = 0)
  BY <1>2, <1>4, MeetsGrid
<1> QED BY <1>3, <1>4

(* What a reset is, by the case that it falls in. *)
LEMMA ResetCases ==
  ASSUME NEW d \in EntryMatrix, NEW x \in Clock, NEW y \in Clock0, NEW value \in Int,
         y = 0 => value >= 0
  PROVE  Reset(d, x, y, value)
           = IF value >= 0 THEN Shifted(d, x, y, value)
             ELSE Intersected(Shifted(d, x, y, value), UniversalPositive)
<1>1. x \in Clock0
  BY Clocks
<1>2. CASE y = 0
  BY <1>1, <1>2, ResetIsShift DEF Reset
<1>3. CASE y # 0 /\ value = 0
  BY <1>3 DEF Reset, ResetToClock
<1>4. CASE y # 0 /\ value > 0
  <2>1. value # 0 /\ value >= 0
    BY <1>4
  <2> QED BY <1>4, <2>1 DEF Reset, ResetToSum
<1>5. CASE y # 0 /\ value < 0
  <2>1. value # 0 /\ ~(value > 0) /\ ~(value >= 0)
    BY <1>5
  <2> QED BY <1>5, <2>1 DEF Reset, ResetToSubtraction
<1> QED BY <1>2, <1>3, <1>4, <1>5

(* Resets are exact and leave a normal form, or mark an empty zone. *)
LEMMA ResetExactNormal ==
  ASSUME NEW d \in Matrix, NormalForm(d), Bounded(d), NEW x \in Clock, NEW y \in Clock0,
         NEW value \in -MaxBound .. MaxBound, y = 0 => value >= 0
  PROVE  /\ Reset(d, x, y, value) \in EntryMatrix
         /\ IsEmpty0(Reset(d, x, y, value)) \/ NormalForm(Reset(d, x, y, value))
         /\ \A v \in Valuation : In(v, Reset(d, x, y, value)) <=> InReset(v, d, x, y, value)
<1> DEFINE s == Shifted(d, x, y, value)
           r == Reset(d, x, y, value)
<1>1. Shiftable(d, x, y, value, MaxBound) /\ d \in EntryMatrix /\ value \in Int
  BY DbmEntries, Sizes DEF Shiftable
<1>2. /\ s \in EntryMatrix /\ IsConsistent(s) /\ IsTight(s)
      /\ value >= 0 => IsPositive(s)
      /\ UpTo(s, 2 * MaxBound)
  BY <1>1, ShiftedTypes, ShiftedNormal
<1>3. \A v \in Valuation : In(v, s) <=> InReset(v, d, x, y, value)
  BY ShiftedExact
<1>4. r = IF value >= 0 THEN s ELSE Intersected(s, UniversalPositive)
  BY <1>1, ResetCases
<1>5. CASE value >= 0
  <2> HIDE DEF s, r
  <2> QED BY <1>2, <1>3, <1>4, <1>5 DEF NormalForm, r
<1>6. CASE ~(value >= 0)
  <2>1. /\ UniversalPositive \in EntryMatrix /\ UpTo(UniversalPositive, 2 * MaxBound)
        /\ IsConsistent(UniversalPositive) /\ IsPositive(UniversalPositive)
    <3>1. UniversalPositive \in Matrix
      BY UniversalNormal, EntryMatrixType
    <3> QED BY <3>1, UniversalNormal, DbmEntries
  <2> HIDE DEF s, r
  <2>2. /\ r \in EntryMatrix
        /\ \A v \in [Clock0 -> Int] : In(v, r) <=> In(v, s) /\ In(v, UniversalPositive)
    BY <1>2, <1>4, <1>6, <2>1, IntersectedExact
  <2>3. IsEmpty0(r) \/ NormalForm(r)
    BY <1>2, <1>4, <1>6, <2>1, IntersectedNormal, Sizes
  <2>4. ASSUME NEW v \in Valuation
        PROVE  In(v, r) <=> InReset(v, d, x, y, value)
    BY <1>3, <2>2, ValuationPositive, ValuationType
  <2> QED BY <2>2, <2>3, <2>4 DEF r
<1> QED BY <1>5, <1>6

-----------------------------------------------------------------------------
(* Extrapolations: the matrix before it is tightened is larger. *)
Enlarged(d, e) ==
  /\ e \in EntryMatrix /\ IsConsistent(e) /\ IsPositive(e) /\ UpTo(e, MaxBound)
  /\ \A i, j \in Clock0 : d[i][j] <= e[i][j]

(* Tightening a larger matrix loses no valuation of the smaller one. *)
LEMMA TightenEnlarged ==
  ASSUME NEW d, NormalForm(d), NEW e, Enlarged(d, e)
  PROVE  /\ TightenIfModified(d, e) \in EntryMatrix
         /\ IsEmpty0(TightenIfModified(d, e)) \/ NormalForm(TightenIfModified(d, e))
         /\ \A v \in Valuation : In(v, d) => In(v, TightenIfModified(d, e))
<1>1. CASE e = d
  BY <1>1 DEF TightenIfModified, NormalForm
<1>2. CASE e # d
  <2>1. TightenIfModified(d, e) = Tighten(e)
    BY <1>2 DEF TightenIfModified
  <2>2. d \in Matrix /\ e \in EntryMatrix
    BY EntryMatrixType DEF NormalForm, Enlarged
  <2>3. /\ Tighten(e) \in EntryMatrix
        /\ \A v \in [Clock0 -> Int] : In(v, Tighten(e)) <=> In(v, e)
    BY <2>2, TightenExact
  <2>4. IsEmpty0(Tighten(e)) \/ NormalForm(Tighten(e))
    BY <2>2, TightenNormal, Sizes DEF Enlarged
  <2>5. ASSUME NEW v \in Valuation, In(v, d)
        PROVE  In(v, Tighten(e))
    <3>1. v \in [Clock0 -> Int]
      BY ValuationType
    <3>2. In(v, e)
      BY <2>2, <2>5, <3>1, InLarger DEF Enlarged
    <3> QED BY <2>3, <3>1, <3>2
  <2> QED BY <2>1, <2>3, <2>4, <2>5
<1> QED BY <1>1, <1>2

(* The bounds that extrapolations put in place of smaller ones. *)
LEMMA LowerBounds ==
  ASSUME NEW u \in [Clock -> Nat \cup {NoBound}], NEW j \in Clock0,
         NEW ifnone \in {LE_ZERO, LT_INFINITY}, NEW b \in Int, b <= LT_INFINITY,
         b <= ifnone, -Value(b) > BoundOf(u, j)
  PROVE  /\ LowerBound(u, j, ifnone) \in Entry
         /\ b <= LowerBound(u, j, ifnone)
         /\ LowerBound(u, j, ifnone) = LT_INFINITY \/ Value(LowerBound(u, j, ifnone)) <= 0
         /\ ifnone = LE_ZERO => LowerBound(u, j, ifnone) <= LE_ZERO
<1>1. CASE BoundOf(u, j) = NoBound
  <2>1. LowerBound(u, j, ifnone) = ifnone
    BY <1>1 DEF LowerBound
  <2> QED BY <2>1, SpecialBounds DEF Entry
<1>2. CASE BoundOf(u, j) # NoBound
  <2> DEFINE a == BoundOf(u, j)
  <2>1. a \in Nat
    <3>1. j # 0 => j \in Clock
      BY Clocks
    <3>2. j # 0 => u[j] \in Nat \cup {NoBound}
      BY <3>1
    <3> QED BY <1>2, <3>2 DEF BoundOf
  <2>2. LowerBound(u, j, ifnone) = Db(LT, -a)
    BY <1>2 DEF LowerBound
  <2>3. -Value(b) > a
    OBVIOUS
  <2> HIDE DEF a
  <2>4. /\ Value(b) \in Int /\ Comparator(b) \in {0, 1}
        /\ b = 2 * Value(b) + Comparator(b)
    BY BoundParts
  <2>5. Db(LT, -a) = -(2 * a) /\ Value(Db(LT, -a)) = -a
    BY <2>1, DbParts DEF Db, LT
  <2>6. b <= -(2 * a)
    BY <2>1, <2>3, <2>4
  <2>7. -(2 * a) \in Int /\ -(2 * a) <= LT_INFINITY /\ -(2 * a) <= LE_ZERO /\ -a <= 0
    BY <2>1, SpecialBounds
  <2> QED BY <2>2, <2>5, <2>6, <2>7 DEF Entry
<1> QED BY <1>1, <1>2

(* A matrix of which each entry is kept or replaced by a larger bound. *)
LEMMA LargerEntries ==
  ASSUME NEW d \in Matrix, NormalForm(d), Bounded(d), NEW e,
         e = [i \in Clock0 |-> [j \in Clock0 |-> e[i][j]]],
         \A i, j \in Clock0 :
           \/ e[i][j] = d[i][j]
           \/ /\ i # j /\ e[i][j] \in Entry /\ d[i][j] <= e[i][j]
              /\ e[i][j] = LT_INFINITY \/ Value(e[i][j]) <= 0
              /\ i = 0 => e[i][j] <= LE_ZERO
  PROVE  Enlarged(d, e)
<1>1. d \in EntryMatrix /\ UpTo(d, MaxBound) /\ MaxBound \in Nat
  BY DbmEntries, Sizes
<1>2. ASSUME NEW i \in Clock0, NEW j \in Clock0
      PROVE  /\ e[i][j] \in Entry /\ d[i][j] <= e[i][j]
             /\ e[i][j] = LT_INFINITY \/ Value(e[i][j]) <= MaxBound
             /\ i = j => e[i][j] = LE_ZERO
             /\ i = 0 => e[i][j] <= LE_ZERO
  <2>1. /\ d[i][j] \in Entry /\ d[i][j] \in Int
        /\ d[i][j] = LT_INFINITY \/ Value(d[i][j]) <= MaxBound
        /\ i = j => d[i][j] = LE_ZERO
        /\ i = 0 => d[i][j] <= LE_ZERO
    BY <1>1, EntryMatrixType DEF UpTo, NormalForm, IsConsistent, IsPositive
  <2>2. CASE e[i][j] = d[i][j]
    BY <2>1, <2>2
  <2>3. CASE /\ i # j /\ e[i][j] \in Entry /\ d[i][j] <= e[i][j]
             /\ e[i][j] = LT_INFINITY \/ Value(e[i][j]) <= 0
             /\ i = 0 => e[i][j] <= LE_ZERO
    <3>1. Value(e[i][j]) \in Int
      BY <2>3, BoundParts DEF Entry
    <3>2. Value(e[i][j]) <= 0 => Value(e[i][j]) <= MaxBound
      BY <1>1, <3>1
    <3> QED BY <2>3, <3>2
  <2> QED BY <2>2, <2>3
<1>3. e \in EntryMatrix
  <2>1. \A i \in Clock0 : [j \in Clock0 |-> e[i][j]] \in [Clock0 -> Entry]
    BY <1>2
  <2>2. [i \in Clock0 |-> [j \in Clock0 |-> e[i][j]]] \in [Clock0 -> [Clock0 -> Entry]]
    BY <2>1
  <2> QED BY <2>2 DEF EntryMatrix
<1>4. IsConsistent(e) /\ IsPositive(e) /\ UpTo(e, MaxBound)
  BY <1>2, Clocks DEF IsConsistent, IsPositive, UpTo
<1> QED BY <1>2, <1>3, <1>4 DEF Enlarged

(* What an extrapolation may replace in a zone: the lower bound of a clock  *)
(* that is above the clock's bound u, which becomes that bound; and a bound *)
(* of y - x above the bound l of y, or where one of the other two holds.    *)
WidenedRow(d, e, u, x) ==
  \/ -Value(d[0][x]) <= BoundOf(u, x) /\ e[0][x] = d[0][x]
  \/ BoundOf(u, x) \in Nat /\ e[0][x] = Db(LT, -BoundOf(u, x))
  \/ BoundOf(u, x) = NoBound

WidenedEntry(d, e, l, u, x, y) ==
  \/ e[y][x] = d[y][x]
  \/ d[y][x] = LT_INFINITY
  \/ Value(d[y][x]) > BoundOf(l, y)
  \/ -Value(d[0][y]) > BoundOf(l, y)
  \/ -Value(d[0][x]) > BoundOf(u, x)
  \/ BoundOf(u, x) \in Nat /\ e[y][x] = Db(LT, -BoundOf(u, x))
  \/ BoundOf(u, x) = NoBound

Widened(d, e, l, u) ==
  /\ \A x \in Clock : WidenedRow(d, e, u, x)
  /\ \A x \in Clock0, y \in Clock : WidenedEntry(d, e, l, u, x, y)

(* extra_lu replaces entries by larger ones before it tightens. *)
LEMMA ExtraLUWidened ==
  ASSUME NEW d \in Matrix, NormalForm(d), Bounded(d), NEW l \in [Clock -> Int],
         NEW u \in [Clock -> Nat \cup {NoBound}]
  PROVE  \E e : /\ Enlarged(d, e) /\ Widened(d, e, l, u)
                /\ ExtraLU(d, l, u) = TightenIfModified(d, e)
<1> DEFINE entry(i, j) ==
             CASE i = 0 /\ j # 0 /\ d[0][j] # LE_ZERO /\ -Value(d[0][j]) > BoundOf(u, j)
                    -> LowerBound(u, j, LE_ZERO)
               [] i # 0 /\ i # j /\ d[i][j] # LT_INFINITY /\ Value(d[i][j]) > BoundOf(l, i)
                    -> LT_INFINITY
               [] i # 0 /\ i # j /\ d[i][j] # LT_INFINITY /\ Value(d[i][j]) <= BoundOf(l, i)
                    /\ -Value(d[i][j]) > BoundOf(u, j)
                    -> LowerBound(u, j, LT_INFINITY)
               [] OTHER -> d[i][j]
           e == [i \in Clock0 |-> [j \in Clock0 |-> entry(i, j)]]
<1>1. ExtraLU(d, l, u) = TightenIfModified(d, e)
  BY DEF ExtraLU
<1>2. \A i, j \in Clock0 : e[i][j] = entry(i, j)
  OBVIOUS
<1>3. e = [i \in Clock0 |-> [j \in Clock0 |-> e[i][j]]]
  OBVIOUS
<1>4. ASSUME NEW i \in Clock0, NEW j \in Clock0
      PROVE  \/ entry(i, j) = d[i][j]
             \/ /\ i # j /\ entry(i, j) \in Entry /\ d[i][j] <= entry(i, j)
                /\ entry(i, j) = LT_INFINITY \/ Value(entry(i, j)) <= 0
                /\ i = 0 => entry(i, j) <= LE_ZERO
  <2>1. d[i][j] \in Int /\ d[i][j] <= LT_INFINITY /\ (i = 0 => d[i][j] <= LE_ZERO)
        /\ LE_ZERO \in {LE_ZERO, LT_INFINITY} /\ LT_INFINITY \in {LE_ZERO, LT_INFINITY}
        /\ LT_INFINITY \in Entry
    BY DbmEntries, EntryMatrixType, SpecialBounds DEF NormalForm, IsPositive, Entry
  <2>6. Value(d[i][j]) \in Int /\ BoundOf(l, i) \in Int
    BY <2>1, BoundParts, Clocks DEF BoundOf
  <2>2. CASE i = 0 /\ j # 0 /\ d[0][j] # LE_ZERO /\ -Value(d[0][j]) > BoundOf(u, j)
    <3>1. entry(i, j) = LowerBound(u, j, LE_ZERO)
      BY <2>2
    <3>2. -Value(d[i][j]) > BoundOf(u, j) /\ d[i][j] <= LE_ZERO /\ i # j
      BY <2>1, <2>2
    <3> HIDE DEF entry
    <3> QED BY <2>1, <3>1, <3>2, LowerBounds
  <2>3. CASE /\ ~(i = 0 /\ j # 0 /\ d[0][j] # LE_ZERO /\ -Value(d[0][j]) > BoundOf(u, j))
             /\ i # 0 /\ i # j /\ d[i][j] # LT_INFINITY /\ Value(d[i][j]) > BoundOf(l, i)
    <3>1. entry(i, j) = LT_INFINITY
      BY <2>3, <2>6
    <3> HIDE DEF entry
    <3> QED BY <2>1, <2>3, <3>1
  <2>4. CASE /\ i # 0 /\ i # j /\ d[i][j] # LT_INFINITY
             /\ Value(d[i][j]) <= BoundOf(l, i) /\ -Value(d[i][j]) > BoundOf(u, j)
    <3>1. entry(i, j) = LowerBound(u, j, LT_INFINITY)
      BY <2>4, <2>6
    <3> HIDE DEF entry
    <3> QED BY <2>1, <2>4, <3>1, LowerBounds
  <2>5. CASE /\ ~(i = 0 /\ j # 0 /\ d[0][j] # LE_ZERO /\ -Value(d[0][j]) > BoundOf(u, j))
             /\ ~(i # 0 /\ i # j /\ d[i][j] # LT_INFINITY /\ Value(d[i][j]) > BoundOf(l, i))
             /\ ~(i # 0 /\ i # j /\ d[i][j] # LT_INFINITY /\ Value(d[i][j]) <= BoundOf(l, i)
                  /\ -Value(d[i][j]) > BoundOf(u, j))
    <3>1. entry(i, j) = d[i][j]
      BY <2>5
    <3> QED BY <3>1
  <2> HIDE DEF entry
  <2> QED BY <2>2, <2>3, <2>4, <2>5
<1>5. ASSUME NEW i \in Clock0
      PROVE  /\ BoundOf(l, i) \in Int /\ BoundOf(u, i) \in Int
             /\ BoundOf(u, i) \in Nat \/ BoundOf(u, i) = NoBound
  <2>1. NoBound \in Int
    BY InfValueAssumption DEF NoBound, MINUS_INF_VALUE
  <2> QED BY <2>1, Clocks DEF BoundOf
<1>6. ASSUME NEW i \in Clock0, NEW j \in Clock0
      PROVE  Value(d[i][j]) \in Int
  BY DbmEntries, EntryMatrixType, BoundParts
<1>7. ASSUME NEW x \in Clock
      PROVE  WidenedRow(d, e, u, x)
  <2>1. x \in Clock0 /\ x # 0 /\ 0 \in Clock0 /\ e[0][x] = entry(0, x)
    BY <1>2, Clocks DEF Clock
  <2>2. CASE d[0][x] # LE_ZERO /\ -Value(d[0][x]) > BoundOf(u, x)
    <3>1. entry(0, x) = LowerBound(u, x, LE_ZERO)
      BY <2>1, <2>2
    <3> HIDE DEF entry
    <3> QED BY <1>5, <2>1, <3>1 DEF WidenedRow, LowerBound
  <2>3. CASE ~(d[0][x] # LE_ZERO /\ -Value(d[0][x]) > BoundOf(u, x))
    <3>1. entry(0, x) = d[0][x]
      BY <2>1, <2>3
    <3>2. d[0][x] = LE_ZERO => -Value(d[0][x]) = 0
      BY SpecialBounds
    <3> HIDE DEF entry
    <3>3. BoundOf(u, x) = NoBound \/ -Value(d[0][x]) <= BoundOf(u, x)
      BY <1>5, <1>6, <2>1, <2>3, <3>2
    <3> QED BY <2>1, <3>1, <3>3 DEF WidenedRow
  <2> QED BY <2>2, <2>3
<1>8. ASSUME NEW x \in Clock0, NEW y \in Clock
      PROVE  WidenedEntry(d, e, l, u, x, y)
  <2>1. y \in Clock0 /\ y # 0 /\ e[y][x] = entry(y, x)
    BY <1>2, Clocks DEF Clock
  <2>2. \/ entry(y, x) = d[y][x] \/ Value(d[y][x]) > BoundOf(l, y)
        \/ entry(y, x) = LowerBound(u, x, LT_INFINITY)
    <3>1. CASE y # x /\ d[y][x] # LT_INFINITY /\ Value(d[y][x]) <= BoundOf(l, y)
               /\ -Value(d[y][x]) > BoundOf(u, x)
      <4>1. ~(Value(d[y][x]) > BoundOf(l, y))
        BY <1>5, <1>6, <2>1, <3>1
      <4> QED BY <2>1, <3>1, <4>1
    <3>2. CASE ~(y # x /\ d[y][x] # LT_INFINITY /\ Value(d[y][x]) <= BoundOf(l, y)
                 /\ -Value(d[y][x]) > BoundOf(u, x))
      BY <2>1, <3>2
    <3> QED BY <3>1, <3>2
  <2> HIDE DEF entry
  <2> QED BY <1>5, <2>1, <2>2 DEF WidenedEntry, LowerBound
<1> HIDE DEF entry
<1>9. Enlarged(d, e)
  <2>1. \A i, j \in Clock0 :
           \/ e[i][j] = d[i][j]
           \/ /\ i # j /\ e[i][j] \in Entry /\ d[i][j] <= e[i][j]
              /\ e[i][j] = LT_INFINITY \/ Value(e[i][j]) <= 0
              /\ i = 0 => e[i][j] <= LE_ZERO
    BY <1>2, <1>4
  <2> HIDE DEF e
  <2> QED BY <1>3, <2>1, LargerEntries
<1>10. Widened(d, e, l, u)
  BY <1>7, <1>8 DEF Widened
<1> QED BY <1>1, <1>9, <1>10

(* So does extra_lu_plus. *)
LEMMA ExtraLUPlusWidened ==
  ASSUME NEW d \in Matrix, NormalForm(d), Bounded(d), NEW l \in [Clock -> Int],
         NEW u \in [Clock -> Nat \cup {NoBound}]
  PROVE  \E e : /\ Enlarged(d, e) /\ Widened(d, e, l, u)
                /\ ExtraLUPlus(d, l, u) = TightenIfModified(d, e)
<1> DEFINE entry(i, j) ==
             CASE i = j -> d[i][j]
               [] i = 0 /\ j # 0 -> IF -Value(d[0][j]) > BoundOf(u, j)
                                    THEN LowerBound(u, j, LE_ZERO) ELSE d[0][j]
               [] OTHER -> IF -Value(d[0][i]) > BoundOf(l, i)
                              \/ Value(d[i][j]) > BoundOf(l, i)
                              \/ -Value(d[0][j]) > BoundOf(u, j)
                           THEN LT_INFINITY ELSE d[i][j]
           e == [i \in Clock0 |-> [j \in Clock0 |-> entry(i, j)]]
<1>1. ExtraLUPlus(d, l, u) = TightenIfModified(d, e)
  BY DEF ExtraLUPlus
<1>2. \A i, j \in Clock0 : e[i][j] = entry(i, j)
  OBVIOUS
<1>3. e = [i \in Clock0 |-> [j \in Clock0 |-> e[i][j]]]
  OBVIOUS
<1>4. ASSUME NEW i \in Clock0, NEW j \in Clock0
      PROVE  \/ entry(i, j) = d[i][j]
             \/ /\ i # j /\ entry(i, j) \in Entry /\ d[i][j] <= entry(i, j)
                /\ entry(i, j) = LT_INFINITY \/ Value(entry(i, j)) <= 0
                /\ i = 0 => entry(i, j) <= LE_ZERO
  <2>1. d[i][j] \in Int /\ d[i][j] <= LT_INFINITY /\ (i = 0 => d[i][j] <= LE_ZERO)
        /\ LE_ZERO \in {LE_ZERO, LT_INFINITY} /\ LT_INFINITY \in Entry
    BY DbmEntries, EntryMatrixType, SpecialBounds DEF NormalForm, IsPositive, Entry
  <2>2. CASE i = j
    BY <2>2
  <2>3. CASE i # j /\ i = 0 /\ j # 0 /\ -Value(d[0][j]) > BoundOf(u, j)
    <3>1. entry(i, j) = LowerBound(u, j, LE_ZERO)
      BY <2>3
    <3>2. -Value(d[i][j]) > BoundOf(u, j) /\ d[i][j] <= LE_ZERO /\ i # j
      BY <2>1, <2>3
    <3> HIDE DEF entry
    <3> QED BY <2>1, <3>1, <3>2, LowerBounds
  <2>4. CASE i # j /\ i = 0 /\ j # 0 /\ ~(-Value(d[0][j]) > BoundOf(u, j))
    BY <2>4
  <2>5. CASE i # j /\ i # 0
    <3>1. entry(i, j) = LT_INFINITY \/ entry(i, j) = d[i][j]
      BY <2>5
    <3> HIDE DEF entry
    <3> QED BY <2>1, <2>5, <3>1
  <2> HIDE DEF entry
  <2> QED BY <2>2, <2>3, <2>4, <2>5
<1>5. ASSUME NEW i \in Clock0
      PROVE  /\ BoundOf(l, i) \in Int /\ BoundOf(u, i) \in Int
             /\ BoundOf(u, i) \in Nat \/ BoundOf(u, i) = NoBound
  <2>1. NoBound \in Int
    BY InfValueAssumption DEF NoBound, MINUS_INF_VALUE
  <2> QED BY <2>1, Clocks DEF BoundOf
<1>6. ASSUME NEW i \in Clock0, NEW j \in Clock0
      PROVE  Value(d[i][j]) \in Int
  BY DbmEntries, EntryMatrixType, BoundParts
<1>7. ASSUME NEW x \in Clock
      PROVE  WidenedRow(d, e, u, x)
  <2>1. x \in Clock0 /\ x # 0 /\ 0 \in Clock0 /\ e[0][x] = entry(0, x)
    BY <1>2, Clocks DEF Clock
  <2>2. CASE -Value(d[0][x]) > BoundOf(u, x)
    <3>1. entry(0, x) = LowerBound(u, x, LE_ZERO)
      BY <2>1, <2>2
    <3> HIDE DEF entry
    <3> QED BY <1>5, <2>1, <3>1 DEF WidenedRow, LowerBound
  <2>3. CASE ~(-Value(d[0][x]) > BoundOf(u, x))
    <3>1. entry(0, x) = d[0][x]
      BY <2>1, <2>3
    <3> HIDE DEF entry
    <3> QED BY <1>5, <1>6, <2>1, <2>3, <3>1 DEF WidenedRow
  <2> QED BY <2>2, <2>3
<1>8. ASSUME NEW x \in Clock0, NEW y \in Clock
      PROVE  WidenedEntry(d, e, l, u, x, y)
  <2>1. y \in Clock0 /\ y # 0 /\ e[y][x] = entry(y, x)
    BY <1>2, Clocks DEF Clock
  <2>2. \/ entry(y, x) = d[y][x] \/ -Value(d[0][y]) > BoundOf(l, y)
        \/ Value(d[y][x]) > BoundOf(l, y) \/ -Value(d[0][x]) > BoundOf(u, x)
    BY <2>1
  <2> HIDE DEF entry
  <2> QED BY <2>1, <2>2 DEF WidenedEntry
<1> HIDE DEF entry
<1>9. Enlarged(d, e)
  <2>1. \A i, j \in Clock0 :
           \/ e[i][j] = d[i][j]
           \/ /\ i # j /\ e[i][j] \in Entry /\ d[i][j] <= e[i][j]
              /\ e[i][j] = LT_INFINITY \/ Value(e[i][j]) <= 0
              /\ i = 0 => e[i][j] <= LE_ZERO
    BY <1>2, <1>4
  <2> HIDE DEF e
  <2> QED BY <1>3, <2>1, LargerEntries
<1>10. Widened(d, e, l, u)
  BY <1>7, <1>8 DEF Widened
<1> QED BY <1>1, <1>9, <1>10

(* Both leave a normal form, or mark an empty zone, and lose no valuation. *)
LEMMA Extrapolated ==
  ASSUME NEW d \in Matrix, NormalForm(d), Bounded(d), NEW l \in [Clock -> Int],
         NEW u \in [Clock -> Nat \cup {NoBound}],
         NEW r \in {ExtraLU(d, l, u), ExtraLUPlus(d, l, u)}
  PROVE  /\ r \in EntryMatrix
         /\ IsEmpty0(r) \/ NormalForm(r)
         /\ \A v \in Valuation : In(v, d) => In(v, r)
BY ExtraLUWidened, ExtraLUPlusWidened, TightenEnlarged

(* The types of the maps of bounds. *)
LEMMA LUTypes ==
  ASSUME NEW b \in LUBounds
  PROVE  /\ b.l \in [Clock -> Int] /\ b.u \in [Clock -> Nat \cup {NoBound}]
         /\ b.u \in [Clock -> Int]
<1>1. b \in [l : [Clock -> Int], u : [Clock -> Nat \cup {NoBound}]]
  BY BoundsAssumption
<1>2. NoBound \in Int
  BY InfValueAssumption DEF NoBound, MINUS_INF_VALUE
<1>3. b.l \in [Clock -> Int] /\ b.u \in [Clock -> Nat \cup {NoBound}]
  BY <1>1
<1> QED BY <1>2, <1>3

-----------------------------------------------------------------------------
(* The inductive invariant: what TypeOK says of the matrix at hand, and the *)
(* bound on its entries that the guard of Becomes keeps, without which the  *)
(* sums of a later operation could reach infinity.                          *)
IInv ==
  /\ dbm \in Matrix /\ Bounded(dbm)
  /\ IsEmpty0(dbm) \/ NormalForm(dbm)

(* The initial zones are in normal form. *)
LEMMA InitialNormal ==
  ASSUME Init
  PROVE  IInv
<1>1. CASE dbm = UniversalPositive
  <2>1. IsTight(UniversalPositive)
    <3> SUFFICES ASSUME NEW i \in Clock0, NEW j \in Clock0, NEW k \in Clock0
                 PROVE  Sum(UniversalPositive[i][k], UniversalPositive[k][j])
                          >= UniversalPositive[i][j]
      BY DEF IsTight
    <3>1. \A p, q \in Clock0 :
            UniversalPositive[p][q] = IF p = q \/ p = 0 THEN LE_ZERO ELSE LT_INFINITY
      BY UniversalNormal
    <3>2. /\ LE_ZERO \in Int /\ LT_INFINITY \in Int /\ LE_ZERO <= LT_INFINITY
          /\ LE_ZERO # LT_INFINITY
      BY SpecialBounds
    <3>3. /\ Sum(LE_ZERO, LE_ZERO) = LE_ZERO
          /\ Sum(LE_ZERO, LT_INFINITY) = LT_INFINITY
          /\ Sum(LT_INFINITY, LE_ZERO) = LT_INFINITY
          /\ Sum(LT_INFINITY, LT_INFINITY) = LT_INFINITY
      BY <3>2, SumZero, SumCases
    <3> HIDE DEF UniversalPositive
    <3> QED BY <3>1, <3>2, <3>3
  <2>2. UniversalPositive \in Matrix
    BY UniversalNormal, EntryMatrixType
  <2>3. /\ UniversalPositive \in EntryMatrix /\ Bounded(UniversalPositive)
        /\ IsConsistent(UniversalPositive) /\ IsPositive(UniversalPositive)
    BY UniversalNormal
  <2> QED BY <1>1, <2>1, <2>2, <2>3 DEF IInv, NormalForm
<1>2. CASE dbm = Zero
  <2>1. \A i, j \in Clock0 : Zero[i][j] = LE_ZERO
    BY DEF Zero
  <2>2. LE_ZERO \in Int /\ Value(LE_ZERO) = 0 /\ Sum(LE_ZERO, LE_ZERO) = LE_ZERO
    BY SpecialBounds, SumZero
  <2>3. Zero \in Matrix
    BY <2>2 DEF Zero, Matrix
  <2>4. Bounded(Zero)
    BY <2>1, <2>2, Sizes DEF Bounded, Within
  <2>5. Zero \in EntryMatrix
    BY <2>3, <2>4, DbmEntries
  <2>6. IsConsistent(Zero) /\ IsPositive(Zero) /\ IsTight(Zero)
    BY <2>1, <2>2, Clocks DEF IsConsistent, IsPositive, IsTight
  <2> QED BY <1>2, <2>3, <2>4, <2>5, <2>6 DEF IInv, NormalForm
<1> QED BY <1>1, <1>2 DEF Init

(* The invariant after an operation is a statement about its result. *)
LEMMA BecomesNormal ==
  ASSUME NEW d \in EntryMatrix, IsEmpty0(d) \/ NormalForm(d), Becomes(d)
  PROVE  IInv'
BY EntryMatrixType DEF Becomes, IInv, Bounded, Within, NormalForm, IsEmpty0, IsConsistent,
   IsPositive, IsTight

(* Every operation keeps the invariant. *)
LEMMA StepNormal ==
  ASSUME IInv, Next
  PROVE  IInv'
<1>1. /\ ~IsEmpty0(dbm) /\ NormalForm(dbm) /\ dbm \in Matrix /\ Bounded(dbm)
      /\ dbm \in EntryMatrix /\ UpTo(dbm, MaxBound) /\ UpTo(dbm, 2 * MaxBound)
  <2>1. ~IsEmpty0(dbm)
    BY DEF Next, Constrain, ResetClock, Elapse, Intersect, ExtrapolateM, ExtrapolateMPlus,
           ExtrapolateLU, ExtrapolateLUPlus, Becomes
  <2> QED BY <2>1, DbmEntries DEF IInv
<1>2. ASSUME NEW x \in Clock0, NEW y \in Clock0, NEW b \in Bound, Constrain(x, y, b)
      PROVE  IInv'
  <2>1. b \in Entry /\ Value(b) <= MaxBound
    BY BoundEntries
  <2>2. Constrained(dbm, x, y, b) \in EntryMatrix
    BY <1>1, <2>1, ConstrainedExact
  <2>3. IsEmpty0(Constrained(dbm, x, y, b)) \/ NormalForm(Constrained(dbm, x, y, b))
    BY <1>1, <2>1, Sizes, ConstrainedNormal
  <2> QED BY <1>2, <2>2, <2>3, BecomesNormal DEF Constrain
<1>3. ASSUME NEW r \in Resets, ResetClock(r[1], r[2], r[3])
      PROVE  IInv'
  <2>1. /\ r[1] \in Clock /\ r[2] \in Clock0 /\ r[3] \in -MaxBound .. MaxBound
        /\ r[2] = 0 => r[3] >= 0
    BY BoundsAssumption DEF Resets
  <2> QED BY <1>1, <1>3, <2>1, ResetExactNormal, BecomesNormal DEF ResetClock
<1>4. ASSUME Elapse
      PROVE  IInv'
  BY <1>1, <1>4, OpenUpEntries, OpenUpNormal, BecomesNormal DEF Elapse
<1>5. ASSUME NEW e \in Stored, Intersect(e)
      PROVE  IInv'
  <2>1. e \in EntryMatrix /\ IsConsistent(e) /\ UpTo(e, 2 * MaxBound)
    BY StoredNormal DEF NormalForm
  <2>2. Intersected(dbm, e) \in EntryMatrix
    BY <1>1, <2>1, IntersectedExact
  <2>3. IsConsistent(dbm) /\ IsPositive(dbm)
    BY <1>1 DEF NormalForm
  <2>4. IsEmpty0(Intersected(dbm, e)) \/ NormalForm(Intersected(dbm, e))
    BY <1>1, <2>1, <2>3, Sizes, IntersectedNormal
  <2> QED BY <1>5, <2>2, <2>4, BecomesNormal DEF Intersect
<1>6. ASSUME NEW l \in [Clock -> Int], NEW u \in [Clock -> Nat \cup {NoBound}],
             ExtrapolateLU(l, u) \/ ExtrapolateLUPlus(l, u)
      PROVE  IInv'
  BY <1>1, <1>6, Extrapolated, BecomesNormal DEF ExtrapolateLU, ExtrapolateLUPlus
<1>7. ASSUME NEW b \in LUBounds, ExtrapolateM(b.u) \/ ExtrapolateMPlus(b.u)
      PROVE  IInv'
  <2>1. b.u \in [Clock -> Int] /\ b.u \in [Clock -> Nat \cup {NoBound}]
    BY LUTypes
  <2>2. ExtrapolateLU(b.u, b.u) \/ ExtrapolateLUPlus(b.u, b.u)
    BY <1>7 DEF ExtrapolateM, ExtrapolateMPlus, ExtrapolateLU, ExtrapolateLUPlus,
                ExtraM, ExtraMPlus
  <2> QED BY <1>6, <2>1, <2>2
<1>8. ASSUME NEW b \in LUBounds, ExtrapolateLU(b.l, b.u) \/ ExtrapolateLUPlus(b.l, b.u)
      PROVE  IInv'
  BY <1>6, <1>8, LUTypes
<1> QED BY <1>2, <1>3, <1>4, <1>5, <1>7, <1>8 DEF Next

(* Zones stay in normal form: after constraints, resets, delays,            *)
(* intersections and extrapolations in any order, as long as no operation   *)
(* leaves the range of bounds, the matrix of dbm.cc is marked empty or      *)
(* consistent, positive and closed under the triangle inequality.           *)
THEOREM InductiveInvariant == Spec => []IInv
<1>1. Init => IInv
  BY InitialNormal
<1>2. IInv /\ [Next]_dbm => IInv'
  <2>1. CASE Next
    BY <2>1, StepNormal
  <2>2. CASE UNCHANGED dbm
    BY <2>2 DEF IInv, Bounded, Within, NormalForm, IsEmpty0, IsConsistent, IsPositive, IsTight
  <2> QED BY <2>1, <2>2
<1> QED BY <1>1, <1>2, PTL DEF Spec

-----------------------------------------------------------------------------
(* In normal form, operations are exact. *)
LEMMA NormalExact ==
  ASSUME IInv
  PROVE  OperationsExact
<1>1. TypeOK
  BY DbmEntries DEF IInv, TypeOK, NormalForm
<1>2. ASSUME ~IsEmpty0(dbm)
      PROVE  ConstraintsExact(Zone(dbm)) /\ ResetsExact /\ DelaysExact
  <2>1. /\ NormalForm(dbm) /\ dbm \in Matrix /\ Bounded(dbm) /\ dbm \in EntryMatrix
    BY <1>2 DEF IInv, NormalForm
  <2>2. \A v \in Valuation : v \in [Clock0 -> Int]
    BY ValuationType
  <2>3. ASSUME NEW x \in Clock0, NEW y \in Clock0, NEW b \in Bound
        PROVE  Zone(Constrained(dbm, x, y, b)) = {v \in Zone(dbm) : Meets(v, x, y, b)}
    <3>1. b \in Entry
      BY BoundEntries
    <3>2. \A v \in Valuation :
            In(v, Constrained(dbm, x, y, b)) <=> In(v, dbm) /\ Meets(v, x, y, b)
      BY <2>1, <2>2, <3>1, ConstrainedExact
    <3> QED BY <3>2 DEF Zone
  <2>4. ASSUME NEW e \in Stored
        PROVE  Zone(Intersected(dbm, e)) = Zone(dbm) \cap StoredZone[e]
    <3>1. e \in EntryMatrix
      BY StoredNormal DEF NormalForm
    <3>2. \A v \in Valuation : In(v, Intersected(dbm, e)) <=> In(v, dbm) /\ In(v, e)
      BY <2>1, <2>2, <3>1, IntersectedExact
    <3>3. StoredZone[e] = Zone(e)
      BY DEF StoredZone
    <3> QED BY <3>2, <3>3 DEF Zone
  <2>5. ASSUME NEW r \in Resets
        PROVE  Zone(Reset(dbm, r[1], r[2], r[3]))
                 = {v \in Valuation : InReset(v, dbm, r[1], r[2], r[3])}
    <3>1. /\ r[1] \in Clock /\ r[2] \in Clock0 /\ r[3] \in -MaxBound .. MaxBound
          /\ r[2] = 0 => r[3] >= 0
      BY BoundsAssumption DEF Resets
    <3>2. \A v \in Valuation :
            In(v, Reset(dbm, r[1], r[2], r[3])) <=> InReset(v, dbm, r[1], r[2], r[3])
      BY <2>1, <3>1, ResetExactNormal
    <3> QED BY <3>2 DEF Zone
  <2>6. Zone(OpenUp(dbm)) = {v \in Valuation : InFuture(v, dbm)}
    BY <2>1, ElapsedFromPast, PastOfElapsed DEF Zone
  <2> QED BY <2>3, <2>4, <2>5, <2>6 DEF ConstraintsExact, ResetsExact, DelaysExact
<1> QED BY <1>1, <1>2 DEF OperationsExact

(* The loops of dbm.cc that go over one row and column, or over all of them *)
(* once per clock, compute what their names say: a valuation is in the zone *)
(* after a constraint, an intersection, a reset or a delay exactly if it    *)
(* meets the constraint, is in both zones, comes from a valuation of the    *)
(* zone by the reset, or by a delay.                                        *)
THEOREM OperationsCorrect == Spec => []OperationsExact
BY InductiveInvariant, NormalExact, PTL

(* Half of what makes the covering tests and the extrapolations sound: no   *)
(* valuation of a zone is lost, neither in the larger zone that an          *)
(* extrapolation computes nor in a stored zone that is_le or is_equal says  *)
(* includes it.                                                             *)
LosesNoValuation ==
  ~IsEmpty0(dbm) =>
    /\ \A b \in LUBounds :
         /\ Zone(dbm) \subseteq Zone(ExtraLU(dbm, b.l, b.u))
         /\ Zone(dbm) \subseteq Zone(ExtraLUPlus(dbm, b.l, b.u))
    /\ \A e \in Stored :
         /\ IsLe(dbm, e) => Zone(dbm) \subseteq StoredZone[e]
         /\ IsEqual(dbm, e) => Zone(dbm) = StoredZone[e]

(* In normal form, no valuation is lost. *)
LEMMA NormalLosesNone ==
  ASSUME IInv, ~IsEmpty0(dbm)
  PROVE  LosesNoValuation
<1>1. /\ NormalForm(dbm) /\ dbm \in Matrix /\ Bounded(dbm) /\ dbm \in EntryMatrix
  BY DEF IInv, NormalForm
<1>2. ASSUME NEW b \in LUBounds
      PROVE  /\ Zone(dbm) \subseteq Zone(ExtraLU(dbm, b.l, b.u))
             /\ Zone(dbm) \subseteq Zone(ExtraLUPlus(dbm, b.l, b.u))
  <2>1. b.l \in [Clock -> Int] /\ b.u \in [Clock -> Nat \cup {NoBound}]
    BY LUTypes
  <2>2. \A v \in Valuation : In(v, dbm) => /\ In(v, ExtraLU(dbm, b.l, b.u))
                                           /\ In(v, ExtraLUPlus(dbm, b.l, b.u))
    BY <1>1, <2>1, Extrapolated
  <2> QED BY <2>2 DEF Zone
<1>3. ASSUME NEW e \in Stored
      PROVE  /\ IsLe(dbm, e) => Zone(dbm) \subseteq StoredZone[e]
             /\ IsEqual(dbm, e) => Zone(dbm) = StoredZone[e]
  <2>1. e \in EntryMatrix /\ e \in Matrix /\ StoredZone[e] = Zone(e)
    BY StoredNormal, EntryMatrixType DEF NormalForm, StoredZone
  <2>2. ASSUME IsLe(dbm, e), NEW v \in Valuation, In(v, dbm)
        PROVE  In(v, e)
    BY <1>1, <2>1, <2>2, ValuationType, InLarger DEF IsLe
  <2>3. ASSUME IsEqual(dbm, e), NEW v \in Valuation
        PROVE  In(v, dbm) <=> In(v, e)
    BY <2>3 DEF IsEqual, In
  <2> QED BY <2>1, <2>2, <2>3 DEF Zone
<1> QED BY <1>2, <1>3 DEF LosesNoValuation

(* An extrapolated zone and a covering zone contain the zone, whatever the  *)
(* maps of bounds and the stored zones are.                                 *)
THEOREM NoValuationLost == Spec => []LosesNoValuation
<1>1. IInv => LosesNoValuation
  BY NormalLosesNone DEF LosesNoValuation
<1> QED BY <1>1, InductiveInvariant, PTL

-----------------------------------------------------------------------------
(* Valuations of closed matrices.                                           *)

(* Matrices of finite bounds, closed under the triangle inequality, whose   *)
(* diagonal is <= 0: they have valuations.                                  *)
Closed(b) ==
  /\ b \in Matrix
  /\ \A i \in Clock0 : b[i][i] = LE_ZERO
  /\ \A i, j, k \in Clock0 : b[i][j] <= Plus(b[i][k], b[k][j])

(* The value of a bound is not above that of a larger one. *)
LEMMA ValueOrder ==
  ASSUME NEW a \in Int, NEW b \in Int, a <= b
  PROVE  Value(a) <= Value(b)
<1>1. Value(a) \in Int /\ Value(b) \in Int
  BY BoundParts
<1> QED BY <1>1, BoundOrder

(* The values of a closed matrix obey the triangle inequality, and a cycle  *)
(* through a strict bound is positive.                                      *)
LEMMA ClosedValues ==
  ASSUME NEW b, Closed(b), NEW i \in Clock0, NEW j \in Clock0, NEW k \in Clock0
  PROVE  /\ Value(b[i][j]) \in Int /\ Comparator(b[i][j]) \in {0, 1}
         /\ Value(b[i][j]) <= Value(b[i][k]) + Value(b[k][j])
         /\ Value(b[i][i]) = 0
         /\ Comparator(b[i][j]) = 0 => Value(b[i][j]) + Value(b[j][i]) >= 1
<1>1. /\ b[i][j] \in Int /\ b[i][k] \in Int /\ b[k][j] \in Int /\ b[j][i] \in Int
      /\ b[i][i] \in Int
  BY DEF Closed, Matrix
<1>2. /\ b[i][j] <= Plus(b[i][k], b[k][j])
      /\ b[i][i] <= Plus(b[i][j], b[j][i]) /\ b[i][i] = LE_ZERO
  BY DEF Closed
<1>3. /\ Plus(b[i][k], b[k][j]) \in Int
      /\ Value(Plus(b[i][k], b[k][j])) = Value(b[i][k]) + Value(b[k][j])
  BY <1>1, PlusParts
<1>4. /\ Plus(b[i][j], b[j][i]) \in Int
      /\ Value(Plus(b[i][j], b[j][i])) = Value(b[i][j]) + Value(b[j][i])
      /\ Comparator(Plus(b[i][j], b[j][i]))
           = LeastBound(Comparator(b[i][j]), Comparator(b[j][i]))
  BY <1>1, PlusParts
<1>5. /\ Value(b[i][j]) \in Int /\ Comparator(b[i][j]) \in {0, 1}
      /\ Value(b[j][i]) \in Int /\ Comparator(b[j][i]) \in {0, 1}
  BY <1>1, BoundParts
<1>6. Value(b[i][j]) <= Value(b[i][k]) + Value(b[k][j])
  <2> DEFINE s == Plus(b[i][k], b[k][j])
  <2>1. s \in Int /\ b[i][j] <= s /\ b[i][j] \in Int
    BY <1>1, <1>2, <1>3
  <2> HIDE DEF s
  <2>2. Value(b[i][j]) <= Value(s)
    BY <2>1, ValueOrder
  <2> QED BY <1>3, <2>2 DEF s
<1>7. \/ 0 < Value(b[i][j]) + Value(b[j][i])
      \/ /\ 0 = Value(b[i][j]) + Value(b[j][i])
         /\ 1 <= LeastBound(Comparator(b[i][j]), Comparator(b[j][i]))
  <2>1. LE_ZERO \in Int /\ Value(LE_ZERO) = 0 /\ Comparator(LE_ZERO) = 1
    BY SpecialBounds
  <2>2. LE_ZERO <= Plus(b[i][j], b[j][i])
    BY <1>2
  <2> QED BY <1>4, <2>1, <2>2, BoundOrder
<1>8. Comparator(b[i][j]) = 0 => Value(b[i][j]) + Value(b[j][i]) >= 1
  BY <1>5, <1>7, SMT DEF LeastBound
<1> QED BY <1>2, <1>5, <1>6, <1>8, SpecialBounds

(* Any row of a closed matrix, negated, is a valuation that meets its       *)
(* bounds if they are not strict; the sum of the rows meets also the strict *)
(* ones, on a grid with as many steps as there are rows or more.            *)
LEMMA RowSums ==
  ASSUME NEW b, Closed(b), NEW h \in Nat
  PROVE  \E p \in [Clock0 -> Int] :
           \A i, j \in Clock0 :
             p[i] - p[j] <= h * Value(b[i][j])
                            - (IF j < h /\ Comparator(b[i][j]) = 0 THEN 1 ELSE 0)
<1> DEFINE Below(p, n) ==
             \A i, j \in Clock0 :
               p[i] - p[j] <= n * Value(b[i][j])
                              - (IF j < n /\ Comparator(b[i][j]) = 0 THEN 1 ELSE 0)
           T == {n \in 0 .. h : \E p \in [Clock0 -> Int] : Below(p, n)}
<1>0. Clock0 \subseteq Nat /\ 0 \in Clock0
  BY Clocks
<1>1. 0 \in T
  <2> DEFINE p == [i \in Clock0 |-> 0]
  <2>1. p \in [Clock0 -> Int]
    OBVIOUS
  <2>2. ASSUME NEW i \in Clock0, NEW j \in Clock0
        PROVE  p[i] - p[j] <= 0 * Value(b[i][j])
                              - (IF j < 0 /\ Comparator(b[i][j]) = 0 THEN 1 ELSE 0)
    <3>1. Value(b[i][j]) \in Int
      BY ClosedValues
    <3>2. 0 * Value(b[i][j]) = 0 /\ p[i] = 0 /\ p[j] = 0 /\ ~(j < 0)
      BY <1>0, <3>1
    <3> QED BY <3>2
  <2>3. Below(p, 0)
    BY <2>2
  <2> HIDE DEF p, Below
  <2> QED BY <2>1, <2>3
<1>2. ASSUME NEW n \in 1 .. h, n - 1 \in T
      PROVE  n \in T
  <2>1. PICK p \in [Clock0 -> Int] : Below(p, n - 1)
    BY <1>2
  <2> DEFINE r == IF n - 1 \in Clock0 THEN n - 1 ELSE 0
             q == [i \in Clock0 |-> p[i] - Value(b[r][i])]
  <2>2. r \in Clock0 /\ \A i \in Clock0 : Value(b[r][i]) \in Int
    BY <1>0, ClosedValues
  <2>3. q \in [Clock0 -> Int] /\ \A i \in Clock0 : q[i] = p[i] - Value(b[r][i])
    BY <2>2
  <2>4. ASSUME NEW i \in Clock0, NEW j \in Clock0
        PROVE  q[i] - q[j] <= n * Value(b[i][j])
                              - (IF j < n /\ Comparator(b[i][j]) = 0 THEN 1 ELSE 0)
    <3> DEFINE a == Value(b[i][j])
               c == Comparator(b[i][j])
               m == (n - 1) * a
               na == n * a
    <3>1. p[i] - p[j] <= m - (IF j < n - 1 /\ c = 0 THEN 1 ELSE 0)
      BY <2>1
    <3>2. a \in Int /\ c \in {0, 1}
      BY ClosedValues
    <3>3. m \in Int /\ na = m + a
      BY <3>2, SMT
    <3>4. Value(b[r][j]) <= Value(b[r][i]) + a
      BY <2>2, ClosedValues
    <3>5. j = r /\ c = 0 => Value(b[r][j]) - Value(b[r][i]) <= a - 1
      <4> SUFFICES ASSUME j = r, c = 0 PROVE Value(b[j][j]) - Value(b[j][i]) <= a - 1
        OBVIOUS
      <4>1. Value(b[j][j]) = 0 /\ a + Value(b[j][i]) >= 1 /\ Value(b[j][i]) \in Int
        BY ClosedValues
      <4> QED BY <3>2, <4>1
    <3>6. j < n => j < n - 1 \/ j = r
      BY <1>0
    <3>7. q[i] - q[j] = (p[i] - p[j]) + (Value(b[r][j]) - Value(b[r][i]))
          /\ p[i] - p[j] \in Int /\ Value(b[r][j]) \in Int /\ Value(b[r][i]) \in Int
      BY <2>2, <2>3
    <3> HIDE DEF r, q, a, c, m, na
    <3>8. q[i] - q[j] <= na - (IF j < n /\ c = 0 THEN 1 ELSE 0)
      BY <3>1, <3>2, <3>3, <3>4, <3>5, <3>6, <3>7
    <3> QED BY <3>8 DEF a, c, na
  <2>5. Below(q, n)
    BY <2>4
  <2> HIDE DEF q, Below
  <2> QED BY <2>3, <2>5
<1>3. h \in T
  <2> HIDE DEF T
  <2>1. 0 .. h \subseteq T
    BY <1>1, <1>2, Induction
  <2> QED BY <2>1
<1> QED BY <1>3

(* A closed matrix has a valuation on any grid with Dim steps or more in a  *)
(* time unit.                                                               *)
LEMMA ClosedPoint ==
  ASSUME NEW b, Closed(b), NEW h \in Nat, h >= Dim
  PROVE  \E p \in [Clock0 -> Int] :
           /\ p[0] = 0
           /\ \A i, j \in Clock0 :
                p[i] - p[j] < h * Value(b[i][j]) + Comparator(b[i][j])
<1>1. PICK q \in [Clock0 -> Int] :
        \A i, j \in Clock0 :
          q[i] - q[j] <= h * Value(b[i][j])
                         - (IF j < h /\ Comparator(b[i][j]) = 0 THEN 1 ELSE 0)
  BY RowSums
<1> DEFINE p == [i \in Clock0 |-> q[i] - q[0]]
<1>2. /\ p \in [Clock0 -> Int] /\ p[0] = 0
      /\ \A i \in Clock0 : p[i] = q[i] - q[0] /\ q[i] \in Int
  BY Clocks
<1>3. ASSUME NEW i \in Clock0, NEW j \in Clock0
      PROVE  p[i] - p[j] < h * Value(b[i][j]) + Comparator(b[i][j])
  <2>1. Value(b[i][j]) \in Int /\ Comparator(b[i][j]) \in {0, 1}
    BY ClosedValues
  <2>2. h * Value(b[i][j]) \in Int
    BY <2>1, SMT
  <2>3. j < h
    BY DimAssumption DEF Clock0
  <2>4. p[i] - p[j] = q[i] - q[j] /\ q[i] - q[j] \in Int
    BY <1>2, Clocks
  <2>5. q[i] - q[j] <= h * Value(b[i][j]) - (IF Comparator(b[i][j]) = 0 THEN 1 ELSE 0)
    BY <1>1, <2>3
  <2> HIDE DEF p
  <2> QED BY <2>1, <2>2, <2>4, <2>5
<1> HIDE DEF p
<1> QED BY <1>2, <1>3

(* A matrix whose entries fin are closed, those of row 0 among them.        *)
ClosedWhere(g, fin) ==
  /\ g \in Matrix /\ fin \subseteq Clock0 \X Clock0
  /\ \A i \in Clock0 : g[i][i] = LE_ZERO /\ <<i, i>> \in fin /\ <<0, i>> \in fin
  /\ \A i, j, k \in Clock0 :
       <<i, k>> \in fin /\ <<k, j>> \in fin =>
         <<i, j>> \in fin /\ g[i][j] <= Plus(g[i][k], g[k][j])

(* Its other entries are bounded: the distances of the clocks from their    *)
(* lower bounds differ by less than c.                                      *)
Cap(g, c, i, j) == Db(LT, c + Value(g[0][j]) - Value(g[0][i]))

Capped(g, fin, c) ==
  [i \in Clock0 |-> [j \in Clock0 |->
    IF <<i, j>> \in fin THEN LeastBound(g[i][j], Cap(g, c, i, j)) ELSE Cap(g, c, i, j)]]

(* The cap of an entry, and the value of row 0. *)
LEMMA CapParts ==
  ASSUME NEW g \in Matrix, NEW c \in Nat, NEW i \in Clock0, NEW j \in Clock0
  PROVE  /\ Value(g[0][i]) \in Int /\ Value(g[0][j]) \in Int
         /\ Cap(g, c, i, j) \in Int /\ Comparator(Cap(g, c, i, j)) = 0
         /\ Value(Cap(g, c, i, j)) = c + Value(g[0][j]) - Value(g[0][i])
<1>1. g[0][i] \in Int /\ g[0][j] \in Int
  BY Clocks DEF Matrix
<1>2. Value(g[0][i]) \in Int /\ Value(g[0][j]) \in Int
  BY <1>1, BoundParts
<1>3. c + Value(g[0][j]) - Value(g[0][i]) \in Int /\ LT \in {0, 1} /\ LT = 0
  BY <1>2 DEF LT
<1> QED BY <1>2, <1>3, DbParts DEF Cap

(* A strict bound is not above one with a value that is as large. *)
LEMMA StrictOrder ==
  ASSUME NEW a \in Int, NEW b \in Int, Comparator(a) = 0, Value(a) <= Value(b)
  PROVE  a <= b
<1>1. /\ Value(a) \in Int /\ Value(b) \in Int /\ Comparator(b) \in {0, 1}
  BY BoundParts
<1> QED BY <1>1, BoundOrder

(* The paths of one bound and one cap, or of two caps, are not below a cap. *)
LEMMA CapPaths ==
  ASSUME NEW g, NEW fin, ClosedWhere(g, fin), NEW c \in Nat,
         NEW i \in Clock0, NEW j \in Clock0, NEW k \in Clock0
  PROVE  /\ <<i, k>> \in fin => Cap(g, c, i, j) <= Plus(g[i][k], Cap(g, c, k, j))
         /\ <<k, j>> \in fin => Cap(g, c, i, j) <= Plus(Cap(g, c, i, k), g[k][j])
         /\ Cap(g, c, i, j) <= Plus(Cap(g, c, i, k), Cap(g, c, k, j))
<1> DEFINE a(x) == Value(g[0][x])
<1>1. g \in Matrix
  BY DEF ClosedWhere
<1>2. \A x \in Clock0 : a(x) \in Int /\ g[0][x] \in Int
  BY <1>1, CapParts, Clocks DEF Matrix
<1>3. \A x, y \in Clock0 : /\ g[x][y] \in Int /\ Value(g[x][y]) \in Int
                           /\ Cap(g, c, x, y) \in Int /\ Comparator(Cap(g, c, x, y)) = 0
                           /\ Value(Cap(g, c, x, y)) = c + a(y) - a(x)
  BY <1>1, CapParts, BoundParts DEF Matrix
<1>4. ASSUME NEW x \in Clock0, NEW y \in Clock0, <<x, y>> \in fin
      PROVE  a(y) <= a(x) + Value(g[x][y])
  <2>1. g[0][y] <= Plus(g[0][x], g[x][y])
    BY <1>4, Clocks DEF ClosedWhere
  <2>2. /\ Plus(g[0][x], g[x][y]) \in Int
        /\ Value(Plus(g[0][x], g[x][y])) = a(x) + Value(g[x][y])
    BY <1>2, <1>3, PlusParts
  <2>3. Value(g[0][y]) <= Value(Plus(g[0][x], g[x][y]))
    BY <1>2, <2>1, <2>2, ValueOrder
  <2> QED BY <2>2, <2>3
<1>5. ASSUME NEW p \in Int, NEW q \in Int, c + a(j) - a(i) <= Value(p) + Value(q)
      PROVE  Cap(g, c, i, j) <= Plus(p, q)
  <2>1. Plus(p, q) \in Int /\ Value(Plus(p, q)) = Value(p) + Value(q)
    BY PlusParts
  <2> QED BY <1>3, <1>5, <2>1, StrictOrder
<1>6. <<i, k>> \in fin => Cap(g, c, i, j) <= Plus(g[i][k], Cap(g, c, k, j))
  <2> SUFFICES ASSUME <<i, k>> \in fin
               PROVE  c + a(j) - a(i) <= Value(g[i][k]) + Value(Cap(g, c, k, j))
    BY <1>3, <1>5
  <2>1. a(k) <= a(i) + Value(g[i][k])
    BY <1>4
  <2>2. Value(Cap(g, c, k, j)) = c + a(j) - a(k)
    BY <1>3
  <2> HIDE DEF a
  <2> QED BY <1>2, <1>3, <2>1, <2>2
<1>7. <<k, j>> \in fin => Cap(g, c, i, j) <= Plus(Cap(g, c, i, k), g[k][j])
  <2> SUFFICES ASSUME <<k, j>> \in fin
               PROVE  c + a(j) - a(i) <= Value(Cap(g, c, i, k)) + Value(g[k][j])
    BY <1>3, <1>5
  <2>1. a(j) <= a(k) + Value(g[k][j])
    BY <1>4
  <2>2. Value(Cap(g, c, i, k)) = c + a(k) - a(i)
    BY <1>3
  <2> HIDE DEF a
  <2> QED BY <1>2, <1>3, <2>1, <2>2
<1>8. Cap(g, c, i, j) <= Plus(Cap(g, c, i, k), Cap(g, c, k, j))
  <2> SUFFICES c + a(j) - a(i) <= Value(Cap(g, c, i, k)) + Value(Cap(g, c, k, j))
    BY <1>3, <1>5
  <2>1. /\ Value(Cap(g, c, i, k)) = c + a(k) - a(i)
        /\ Value(Cap(g, c, k, j)) = c + a(j) - a(k)
    BY <1>3
  <2> HIDE DEF a
  <2> QED BY <1>2, <2>1
<1> QED BY <1>6, <1>7, <1>8

(* A bounded matrix is closed. *)
LEMMA CappedClosed ==
  ASSUME NEW g, NEW fin, ClosedWhere(g, fin), NEW c \in Nat \ {0}
  PROVE  /\ Closed(Capped(g, fin, c))
         /\ \A i, j \in Clock0 :
              /\ Capped(g, fin, c)[i][j] \in Int
              /\ Capped(g, fin, c)[i][j] <= Cap(g, c, i, j)
              /\ <<i, j>> \in fin => Capped(g, fin, c)[i][j] <= g[i][j]
              /\ \/ Capped(g, fin, c)[i][j] = Cap(g, c, i, j)
                 \/ <<i, j>> \in fin /\ Capped(g, fin, c)[i][j] = g[i][j]
<1> DEFINE b == Capped(g, fin, c)
<1>1. g \in Matrix
  BY DEF ClosedWhere
<1>2. \A i, j \in Clock0 : g[i][j] \in Int /\ Cap(g, c, i, j) \in Int
  BY <1>1, CapParts DEF Matrix
<1>3. \A i, j \in Clock0 :
        b[i][j] = IF <<i, j>> \in fin THEN LeastBound(g[i][j], Cap(g, c, i, j))
                  ELSE Cap(g, c, i, j)
  BY DEF Capped
<1>4. \A i, j \in Clock0 :
        /\ b[i][j] \in Int
        /\ b[i][j] <= Cap(g, c, i, j)
        /\ <<i, j>> \in fin => b[i][j] <= g[i][j]
        /\ \/ b[i][j] = Cap(g, c, i, j)
           \/ <<i, j>> \in fin /\ b[i][j] = g[i][j]
  <2> SUFFICES ASSUME NEW i \in Clock0, NEW j \in Clock0
               PROVE  /\ b[i][j] \in Int
                      /\ b[i][j] <= Cap(g, c, i, j)
                      /\ <<i, j>> \in fin => b[i][j] <= g[i][j]
                      /\ \/ b[i][j] = Cap(g, c, i, j)
                         \/ <<i, j>> \in fin /\ b[i][j] = g[i][j]
    OBVIOUS
  <2>1. g[i][j] \in Int /\ Cap(g, c, i, j) \in Int
    BY <1>2
  <2>2. b[i][j] = IF <<i, j>> \in fin THEN LeastBound(g[i][j], Cap(g, c, i, j))
                  ELSE Cap(g, c, i, j)
    BY <1>3
  <2>3. /\ LeastBound(g[i][j], Cap(g, c, i, j)) \in {g[i][j], Cap(g, c, i, j)}
        /\ LeastBound(g[i][j], Cap(g, c, i, j)) <= g[i][j]
        /\ LeastBound(g[i][j], Cap(g, c, i, j)) <= Cap(g, c, i, j)
    BY <2>1, LeastBoundCases
  <2> HIDE DEF b
  <2> QED BY <2>1, <2>2, <2>3
<1>5. b \in Matrix
  <2>1. b = [i \in Clock0 |-> [j \in Clock0 |-> b[i][j]]]
    BY DEF Capped
  <2> HIDE DEF b
  <2>2. \A i \in Clock0 : [j \in Clock0 |-> b[i][j]] \in [Clock0 -> Int]
    BY <1>4
  <2>3. [i \in Clock0 |-> [j \in Clock0 |-> b[i][j]]] \in [Clock0 -> [Clock0 -> Int]]
    BY <2>2
  <2> QED BY <2>1, <2>3 DEF Matrix
<1> HIDE DEF b
<1>6. ASSUME NEW i \in Clock0
      PROVE  b[i][i] = LE_ZERO
  <2>1. g[i][i] = LE_ZERO /\ <<i, i>> \in fin
    BY DEF ClosedWhere
  <2>2. LE_ZERO <= Cap(g, c, i, i)
    <3>1. LE_ZERO \in Int /\ LE_ZERO = 1
      BY SpecialBounds
    <3>2. Value(Cap(g, c, i, i)) = c /\ Comparator(Cap(g, c, i, i)) = 0
      BY <1>1, CapParts
    <3>3. Cap(g, c, i, i) = 2 * c
      BY <1>2, <3>2, BoundParts
    <3> QED BY <3>1, <3>3
  <2>3. LE_ZERO \in Int
    BY SpecialBounds
  <2> QED BY <1>2, <1>3, <2>1, <2>2, <2>3, SMT DEF LeastBound
<1>7. ASSUME NEW i \in Clock0, NEW j \in Clock0, NEW k \in Clock0
      PROVE  b[i][j] <= Plus(b[i][k], b[k][j])
  <2>1. /\ b[i][j] \in Int /\ b[i][j] <= Cap(g, c, i, j) /\ Cap(g, c, i, j) \in Int
        /\ <<i, j>> \in fin => b[i][j] <= g[i][j] /\ g[i][j] \in Int
    BY <1>2, <1>4
  <2>2. /\ \/ b[i][k] = Cap(g, c, i, k)
           \/ <<i, k>> \in fin /\ b[i][k] = g[i][k]
        /\ \/ b[k][j] = Cap(g, c, k, j)
           \/ <<k, j>> \in fin /\ b[k][j] = g[k][j]
    BY <1>4
  <2>3. /\ Plus(b[i][k], b[k][j]) \in Int
    BY <1>4, PlusParts
  <2>4. CASE /\ <<i, k>> \in fin /\ b[i][k] = g[i][k]
             /\ <<k, j>> \in fin /\ b[k][j] = g[k][j]
    <3>1. <<i, j>> \in fin /\ g[i][j] <= Plus(g[i][k], g[k][j])
      BY <2>4 DEF ClosedWhere
    <3> QED BY <1>2, <2>1, <2>3, <2>4, <3>1
  <2>5. CASE b[i][k] = Cap(g, c, i, k) \/ b[k][j] = Cap(g, c, k, j)
    <3>1. Cap(g, c, i, j) <= Plus(b[i][k], b[k][j])
      BY <2>2, <2>5, CapPaths
    <3> QED BY <2>1, <2>3, <3>1
  <2> QED BY <2>2, <2>4, <2>5
<1>8. Closed(b)
  BY <1>5, <1>6, <1>7 DEF Closed
<1> QED BY <1>4, <1>8 DEF b

(* A closed matrix, where i - j is also bounded along an additional edge:   *)
(* from i to the edge by p, from the edge to j by q.                        *)
Joined(b, p, q) ==
  [i \in Clock0 |-> [j \in Clock0 |-> LeastBound(b[i][j], Plus(p[i], q[j]))]]

(* Associativity of the sum, and its type. *)
LEMMA PlusAssociative ==
  ASSUME NEW a \in Int, NEW b \in Int, NEW c \in Int
  PROVE  /\ Plus(a, Plus(b, c)) = Plus(Plus(a, b), c)
         /\ Plus(a, Plus(b, c)) \in Int /\ Plus(Plus(a, b), c) \in Int
<1>1. Plus(a, Plus(b, c)) = Plus(Plus(a, b), c)
  BY PlusAlgebra
<1>2. Plus(b, c) \in Int
  BY PlusParts
<1>3. Plus(a, Plus(b, c)) \in Int
  BY <1>2, PlusParts
<1> QED BY <1>1, <1>3

(* It is closed if no cycle through the edge is negative. *)
LEMMA JoinedClosed ==
  ASSUME NEW b, Closed(b), NEW p \in [Clock0 -> Int], NEW q \in [Clock0 -> Int],
         \A i, j \in Clock0 : p[i] <= Plus(b[i][j], p[j]) /\ q[j] <= Plus(q[i], b[i][j]),
         \A i \in Clock0 : LE_ZERO <= Plus(p[i], q[i])
  PROVE  /\ Closed(Joined(b, p, q))
         /\ \A i, j \in Clock0 : /\ Joined(b, p, q)[i][j] \in Int
                                 /\ Joined(b, p, q)[i][j] <= b[i][j]
                                 /\ Joined(b, p, q)[i][j] <= Plus(p[i], q[j])
<1> DEFINE c == Joined(b, p, q)
<1>1. \A i, j \in Clock0 : b[i][j] \in Int /\ p[i] \in Int /\ q[j] \in Int
                           /\ Plus(p[i], q[j]) \in Int
  BY PlusParts DEF Closed, Matrix
<1>2. \A i, j \in Clock0 : c[i][j] = LeastBound(b[i][j], Plus(p[i], q[j]))
  BY DEF Joined
<1>3. \A i, j \in Clock0 :
        /\ c[i][j] \in Int /\ c[i][j] <= b[i][j] /\ c[i][j] <= Plus(p[i], q[j])
        /\ c[i][j] \in {b[i][j], Plus(p[i], q[j])}
  BY <1>1, <1>2, LeastBoundCases
<1>4. c \in Matrix
  <2>1. c = [i \in Clock0 |-> [j \in Clock0 |-> c[i][j]]]
    BY DEF Joined
  <2> HIDE DEF c
  <2>2. \A i \in Clock0 : [j \in Clock0 |-> c[i][j]] \in [Clock0 -> Int]
    BY <1>3
  <2>3. [i \in Clock0 |-> [j \in Clock0 |-> c[i][j]]] \in [Clock0 -> [Clock0 -> Int]]
    BY <2>2
  <2> QED BY <2>1, <2>3 DEF Matrix
<1> HIDE DEF c
<1>5. \A i \in Clock0 : c[i][i] = LE_ZERO
  BY <1>1, <1>2, SpecialBounds, SMT DEF LeastBound, Closed
<1>6. ASSUME NEW i \in Clock0, NEW j \in Clock0, NEW k \in Clock0
      PROVE  c[i][j] <= Plus(c[i][k], c[k][j])
  <2>1. /\ c[i][j] \in Int /\ c[i][j] <= b[i][j] /\ c[i][j] <= Plus(p[i], q[j])
        /\ c[i][k] \in {b[i][k], Plus(p[i], q[k])}
        /\ c[k][j] \in {b[k][j], Plus(p[k], q[j])}
    BY <1>3
  <2>2. CASE c[i][k] = b[i][k] /\ c[k][j] = b[k][j]
    <3>1. b[i][j] <= Plus(b[i][k], b[k][j]) /\ Plus(b[i][k], b[k][j]) \in Int
      BY <1>1, PlusParts DEF Closed
    <3> QED BY <1>1, <2>1, <2>2, <3>1
  <2>3. CASE c[i][k] = Plus(p[i], q[k]) /\ c[k][j] = b[k][j]
    <3>1. q[j] <= Plus(q[k], b[k][j]) /\ Plus(q[k], b[k][j]) \in Int
      BY <1>1, PlusParts
    <3>2. Plus(p[i], q[j]) <= Plus(p[i], Plus(q[k], b[k][j]))
      <4> DEFINE r == Plus(q[k], b[k][j])
      <4>1. q[j] \in Int /\ r \in Int /\ q[j] <= r /\ p[i] \in Int
        BY <1>1, <3>1
      <4> HIDE DEF r
      <4>2. Plus(p[i], q[j]) <= Plus(p[i], r)
        BY <4>1, PlusMonotone
      <4> QED BY <4>2 DEF r
    <3>3. Plus(p[i], Plus(q[k], b[k][j])) = Plus(Plus(p[i], q[k]), b[k][j])
          /\ Plus(Plus(p[i], q[k]), b[k][j]) \in Int
      <4>1. p[i] \in Int /\ q[k] \in Int /\ b[k][j] \in Int
        BY <1>1
      <4> QED BY <4>1, PlusAssociative, Zenon
    <3> QED BY <1>1, <2>1, <2>3, <3>2, <3>3
  <2>4. CASE c[i][k] = b[i][k] /\ c[k][j] = Plus(p[k], q[j])
    <3>1. p[i] <= Plus(b[i][k], p[k]) /\ Plus(b[i][k], p[k]) \in Int
      BY <1>1, PlusParts
    <3>2. Plus(p[i], q[j]) <= Plus(Plus(b[i][k], p[k]), q[j])
      <4> DEFINE r == Plus(b[i][k], p[k])
      <4>1. q[j] \in Int /\ r \in Int /\ p[i] <= r /\ p[i] \in Int
        BY <1>1, <3>1
      <4> HIDE DEF r
      <4>2. Plus(p[i], q[j]) <= Plus(r, q[j])
        BY <4>1, PlusMonotone
      <4> QED BY <4>2 DEF r
    <3>3. Plus(Plus(b[i][k], p[k]), q[j]) = Plus(b[i][k], Plus(p[k], q[j]))
          /\ Plus(b[i][k], Plus(p[k], q[j])) \in Int
      <4>1. b[i][k] \in Int /\ p[k] \in Int /\ q[j] \in Int
        BY <1>1
      <4> QED BY <4>1, PlusAssociative, Zenon
    <3> QED BY <1>1, <2>1, <2>4, <3>2, <3>3
  <2>5. CASE c[i][k] = Plus(p[i], q[k]) /\ c[k][j] = Plus(p[k], q[j])
    <3> DEFINE r == Plus(p[k], q[k])
    <3>1. r \in Int /\ LE_ZERO \in Int /\ LE_ZERO <= r
      BY <1>1, SpecialBounds
    <3>2. Plus(Plus(p[i], q[k]), Plus(p[k], q[j])) = Plus(p[i], Plus(r, q[j]))
      <4>1. Plus(Plus(p[i], q[k]), Plus(p[k], q[j]))
              = Plus(p[i], Plus(q[k], Plus(p[k], q[j])))
        BY <1>1, PlusAlgebra
      <4>2. Plus(q[k], Plus(p[k], q[j])) = Plus(Plus(q[k], p[k]), q[j])
        BY <1>1, PlusAlgebra
      <4>3. Plus(q[k], p[k]) = r
        BY <1>1, PlusAlgebra
      <4> QED BY <4>1, <4>2, <4>3
    <3> HIDE DEF r
    <3>3. Plus(LE_ZERO, q[j]) <= Plus(r, q[j]) /\ Plus(r, q[j]) \in Int
      BY <1>1, <3>1, PlusMonotone, PlusParts
    <3>4. Plus(LE_ZERO, q[j]) = q[j]
      BY <1>1, <3>1, PlusAlgebra
    <3>5. Plus(p[i], q[j]) <= Plus(p[i], Plus(r, q[j]))
          /\ Plus(p[i], Plus(r, q[j])) \in Int
      BY <1>1, <3>3, <3>4, PlusMonotone, PlusParts
    <3> QED BY <1>1, <2>1, <2>5, <3>2, <3>5
  <2> QED BY <2>1, <2>2, <2>3, <2>4, <2>5
<1>7. Closed(c)
  BY <1>4, <1>5, <1>6 DEF Closed
<1> QED BY <1>3, <1>7 DEF c

-----------------------------------------------------------------------------
(* The entries of a matrix that are not infinite. *)
FiniteEntries(d) == {e \in Clock0 \X Clock0 : Finite(d[e[1]][e[2]])}

(* The finite entries of a matrix in normal form are closed. *)
LEMMA NormalClosed ==
  ASSUME NEW d, NormalForm(d), NEW m \in Nat, UpTo(d, m), 2 * m < InfValue
  PROVE  /\ ClosedWhere(d, FiniteEntries(d))
         /\ \A i, j \in Clock0 : <<i, j>> \in FiniteEntries(d) <=> Finite(d[i][j])
<1>1. d \in Matrix /\ \A i, j \in Clock0 : d[i][j] \in Int
  BY EntryMatrixType DEF NormalForm
<1>2. \A i, j \in Clock0 : <<i, j>> \in FiniteEntries(d) <=> Finite(d[i][j])
  BY DEF FiniteEntries
<1>3. ASSUME NEW i \in Clock0
      PROVE  d[i][i] = LE_ZERO /\ Finite(d[i][i]) /\ Finite(d[0][i])
  BY PositiveEntry, SpecialBounds DEF NormalForm, IsConsistent, Finite
<1>4. ASSUME NEW i \in Clock0, NEW j \in Clock0, NEW k \in Clock0,
             Finite(d[i][k]), Finite(d[k][j])
      PROVE  Finite(d[i][j]) /\ d[i][j] <= Plus(d[i][k], d[k][j])
  <2>1. /\ d[i][k] \in Int /\ d[k][j] \in Int /\ d[i][j] \in Int
        /\ Value(d[i][k]) <= m /\ Value(d[k][j]) <= m
    BY <1>1, <1>4 DEF UpTo, Finite
  <2>2. Sum(d[i][k], d[k][j]) = Plus(d[i][k], d[k][j])
    BY <1>4, <2>1, SumCases DEF Finite
  <2>3. d[i][j] <= Plus(d[i][k], d[k][j])
    BY <2>1, <2>2, PlusParts DEF NormalForm, IsTight
  <2>4. /\ Plus(d[i][k], d[k][j]) \in Int
        /\ Value(Plus(d[i][k], d[k][j])) = Value(d[i][k]) + Value(d[k][j])
    BY <2>1, PlusParts
  <2>5. Value(d[i][j]) <= Value(d[i][k]) + Value(d[k][j])
    BY <2>1, <2>3, <2>4, ValueOrder
  <2>6. Value(d[i][k]) \in Int /\ Value(d[k][j]) \in Int /\ Value(d[i][j]) \in Int
    BY <2>1, BoundParts
  <2>7. Value(d[i][j]) < InfValue
    BY <2>1, <2>5, <2>6, InfValueAssumption
  <2>8. Finite(d[i][j])
    BY <2>6, <2>7, SpecialBounds, InfValueAssumption DEF Finite
  <2> QED BY <2>3, <2>8
<1>5. FiniteEntries(d) \subseteq Clock0 \X Clock0
  BY DEF FiniteEntries
<1>6. \A i \in Clock0 : /\ d[i][i] = LE_ZERO /\ <<i, i>> \in FiniteEntries(d)
                        /\ <<0, i>> \in FiniteEntries(d)
  BY <1>2, <1>3, Clocks
<1>7. \A i, j, k \in Clock0 :
        <<i, k>> \in FiniteEntries(d) /\ <<k, j>> \in FiniteEntries(d) =>
          <<i, j>> \in FiniteEntries(d) /\ d[i][j] <= Plus(d[i][k], d[k][j])
  BY <1>2, <1>4
<1> QED BY <1>1, <1>2, <1>5, <1>6, <1>7, Zenon DEF ClosedWhere

(* The opposite of a bound on i - j, as a bound on j - i. *)
Opposite(b) == Db(1 - Comparator(b), -Value(b))

(* A larger bound leaves room for the opposite, which excludes the bound. *)
LEMMA OppositeParts ==
  ASSUME NEW b \in Int
  PROVE  /\ Opposite(b) \in Int
         /\ Value(Opposite(b)) = -Value(b) /\ Comparator(Opposite(b)) = 1 - Comparator(b)
         /\ \A c \in Int : b < c => LE_ZERO <= Plus(c, Opposite(b))
<1>1. Value(b) \in Int /\ Comparator(b) \in {0, 1} /\ b = 2 * Value(b) + Comparator(b)
  BY BoundParts
<1>2. 1 - Comparator(b) \in {0, 1} /\ -Value(b) \in Int
  BY <1>1
<1>3. /\ Opposite(b) \in Int
      /\ Value(Opposite(b)) = -Value(b) /\ Comparator(Opposite(b)) = 1 - Comparator(b)
  BY <1>2, DbParts DEF Opposite
<1>4. ASSUME NEW c \in Int, b < c
      PROVE  LE_ZERO <= Plus(c, Opposite(b))
  <2>1. Value(c) \in Int /\ Comparator(c) \in {0, 1} /\ c = 2 * Value(c) + Comparator(c)
    BY BoundParts
  <2>2. /\ Plus(c, Opposite(b)) \in Int
        /\ Value(Plus(c, Opposite(b))) = Value(c) - Value(b)
        /\ Comparator(Plus(c, Opposite(b))) = LeastBound(Comparator(c), 1 - Comparator(b))
    BY <1>1, <1>3, <2>1, PlusParts
  <2>3. \/ 0 < Value(c) - Value(b)
        \/ 0 = Value(c) - Value(b) /\ Comparator(c) = 1 /\ Comparator(b) = 0
    BY <1>1, <1>4, <2>1
  <2>4. Comparator(c) = 1 /\ Comparator(b) = 0
          => LeastBound(Comparator(c), 1 - Comparator(b)) = 1
    BY DEF LeastBound
  <2>5. LE_ZERO \in Int /\ Value(LE_ZERO) = 0 /\ Comparator(LE_ZERO) = 1
    BY SpecialBounds
  <2> QED BY <2>2, <2>3, <2>4, <2>5, BoundOrder
<1> QED BY <1>3, <1>4

(* Two bounds on additional edges out of x: to clock 0 and to clock y. *)
EdgesFrom(b, x, y, r, t) ==
  Joined(b, [i \in Clock0 |-> b[i][x]],
            [j \in Clock0 |-> LeastBound(Plus(r, b[0][j]), Plus(t, b[y][j]))])

(* A closed matrix stays closed if neither of them closes a negative cycle. *)
LEMMA EdgesFromClosed ==
  ASSUME NEW b, Closed(b), NEW x \in Clock0, NEW y \in Clock0, NEW r \in Int, NEW t \in Int,
         LE_ZERO <= Plus(b[0][x], r), LE_ZERO <= Plus(b[y][x], t)
  PROVE  /\ Closed(EdgesFrom(b, x, y, r, t))
         /\ \A i, j \in Clock0 : /\ EdgesFrom(b, x, y, r, t)[i][j] \in Int
                                 /\ EdgesFrom(b, x, y, r, t)[i][j] <= b[i][j]
         /\ EdgesFrom(b, x, y, r, t)[x][0] <= r
         /\ EdgesFrom(b, x, y, r, t)[x][y] <= t
<1> DEFINE p == [i \in Clock0 |-> b[i][x]]
           q == [j \in Clock0 |-> LeastBound(Plus(r, b[0][j]), Plus(t, b[y][j]))]
           c == Joined(b, p, q)
<1>1. c = EdgesFrom(b, x, y, r, t)
  BY DEF EdgesFrom
<1>2. /\ \A i, j \in Clock0 : b[i][j] \in Int
      /\ \A i, j, k \in Clock0 : b[i][j] <= Plus(b[i][k], b[k][j])
      /\ \A i \in Clock0 : b[i][i] = LE_ZERO
      /\ 0 \in Clock0
  BY Clocks DEF Closed, Matrix
<1>3. \A j \in Clock0 : Plus(r, b[0][j]) \in Int /\ Plus(t, b[y][j]) \in Int
  BY <1>2, PlusParts
<1>4. /\ p \in [Clock0 -> Int] /\ q \in [Clock0 -> Int]
      /\ \A i \in Clock0 : p[i] = b[i][x]
  BY <1>2, <1>3 DEF LeastBound
<1>5. ASSUME NEW j \in Clock0
      PROVE  /\ q[j] \in {Plus(r, b[0][j]), Plus(t, b[y][j])}
             /\ q[j] <= Plus(r, b[0][j]) /\ q[j] <= Plus(t, b[y][j])
  BY <1>3, LeastBoundCases
<1> HIDE DEF p, q
<1>6. ASSUME NEW s \in Int, NEW z \in Clock0, NEW i \in Clock0, NEW j \in Clock0
      PROVE  Plus(s, b[z][j]) <= Plus(Plus(s, b[z][i]), b[i][j])
  <2>1. b[z][i] \in Int /\ b[i][j] \in Int /\ b[z][j] \in Int
    BY <1>2
  <2> DEFINE w == Plus(b[z][i], b[i][j])
  <2>2. w \in Int /\ b[z][j] <= w
    BY <1>2, <2>1, PlusParts
  <2>3. Plus(s, w) = Plus(Plus(s, b[z][i]), b[i][j])
    BY <2>1, PlusAssociative, Zenon
  <2> HIDE DEF w
  <2>4. Plus(s, b[z][j]) <= Plus(s, w)
    BY <2>1, <2>2, PlusMonotone
  <2> QED BY <2>3, <2>4
<1>7. ASSUME NEW i \in Clock0, NEW j \in Clock0
      PROVE  q[j] <= Plus(q[i], b[i][j])
  <2>1. q[i] = Plus(r, b[0][i]) \/ q[i] = Plus(t, b[y][i])
    BY <1>5
  <2>2. /\ Plus(r, b[0][j]) <= Plus(Plus(r, b[0][i]), b[i][j])
        /\ Plus(t, b[y][j]) <= Plus(Plus(t, b[y][i]), b[i][j])
    BY <1>2, <1>6
  <2>3. q[i] \in Int /\ b[i][j] \in Int /\ Plus(q[i], b[i][j]) \in Int /\ q[j] \in Int
    BY <1>2, <1>4, PlusParts
  <2>4. q[j] <= Plus(r, b[0][j]) /\ q[j] <= Plus(t, b[y][j])
    BY <1>5
  <2>5. Plus(r, b[0][j]) \in Int /\ Plus(t, b[y][j]) \in Int
    BY <1>3
  <2> QED BY <2>1, <2>2, <2>3, <2>4, <2>5
<1>8. ASSUME NEW i \in Clock0, NEW z \in Clock0, NEW s \in Int,
             LE_ZERO <= Plus(b[z][x], s)
      PROVE  LE_ZERO <= Plus(b[i][x], Plus(s, b[z][i]))
  <2>1. b[z][i] \in Int /\ b[i][x] \in Int /\ b[z][x] \in Int /\ LE_ZERO \in Int
    BY <1>2, SpecialBounds
  <2> DEFINE w == Plus(b[z][i], b[i][x])
  <2>2. w \in Int /\ b[z][x] <= w
    BY <1>2, <2>1, PlusParts
  <2>3. Plus(b[i][x], Plus(s, b[z][i])) = Plus(w, s)
    <3>1. Plus(b[i][x], Plus(s, b[z][i])) = Plus(Plus(s, b[z][i]), b[i][x])
      <4>1. Plus(s, b[z][i]) \in Int
        BY <2>1, PlusParts
      <4> QED BY <2>1, <4>1, PlusAlgebra
    <3>2. Plus(Plus(s, b[z][i]), b[i][x]) = Plus(s, w)
      BY <2>1, PlusAssociative, Zenon
    <3>3. Plus(s, w) = Plus(w, s)
      BY <2>2, PlusAlgebra
    <3> QED BY <3>1, <3>2, <3>3
  <2> HIDE DEF w
  <2>4. Plus(b[z][x], s) <= Plus(w, s) /\ Plus(b[z][x], s) \in Int /\ Plus(w, s) \in Int
    BY <2>1, <2>2, PlusMonotone, PlusParts
  <2> QED BY <1>8, <2>1, <2>3, <2>4
<1>9. \A i, j \in Clock0 : p[i] <= Plus(b[i][j], p[j]) /\ q[j] <= Plus(q[i], b[i][j])
  BY <1>2, <1>4, <1>7
<1>10. \A i \in Clock0 : LE_ZERO <= Plus(p[i], q[i])
  BY <1>2, <1>4, <1>5, <1>8
<1>11. /\ Closed(c)
       /\ \A i, j \in Clock0 : /\ c[i][j] \in Int /\ c[i][j] <= b[i][j]
                               /\ c[i][j] <= Plus(p[i], q[j])
  BY <1>4, <1>9, <1>10, JoinedClosed
<1> HIDE DEF c
<1>12. ASSUME NEW z \in Clock0, NEW s \in Int, q[z] <= Plus(s, b[z][z])
       PROVE  c[x][z] <= s
  <2>1. LE_ZERO \in Int /\ p[x] = LE_ZERO /\ b[z][z] = LE_ZERO
    BY <1>2, <1>4, SpecialBounds
  <2>2. q[z] <= s /\ q[z] \in Int
    BY <1>4, <1>12, <2>1, PlusAlgebra
  <2>3. Plus(LE_ZERO, q[z]) = q[z]
    BY <2>1, <2>2, PlusAlgebra
  <2> QED BY <1>11, <2>1, <2>2, <2>3
<1> QED BY <1>1, <1>2, <1>5, <1>11, <1>12

-----------------------------------------------------------------------------
(* Comparisons of zones.  On a grid with room, a bound that is not in the  *)
(* way of a zone has a valuation beyond it.                                 *)

(* A larger bound leaves room for larger differences, in any unit. *)
LEMMA StepMonotone ==
  ASSUME NEW s \in Nat \ {0}, NEW a \in Int, NEW b \in Int, a <= b
  PROVE  s * Value(a) + Comparator(a) <= s * Value(b) + Comparator(b)
<1>1. /\ Value(a) \in Int /\ Comparator(a) \in {0, 1}
      /\ Value(b) \in Int /\ Comparator(b) \in {0, 1}
  BY BoundParts
<1>2. Value(a) < Value(b) \/ (Value(a) = Value(b) /\ Comparator(a) <= Comparator(b))
  BY BoundOrder
<1>3. s * Value(a) \in Int /\ s * Value(b) \in Int
  BY <1>1, Product
<1>4. CASE Value(a) < Value(b)
  <2>1. s * Value(a) + s <= s * Value(b)
    BY <1>1, <1>4, Product
  <2> QED BY <1>1, <1>3, <2>1
<1>5. CASE Value(a) = Value(b) /\ Comparator(a) <= Comparator(b)
  BY <1>1, <1>3, <1>5
<1> QED BY <1>2, <1>4, <1>5

(* A bound with a larger value is larger. *)
LEMMA LargerValue ==
  ASSUME NEW a \in Int, NEW b \in Int, Value(a) < Value(b)
  PROVE  a < b
<1>1. Value(a) \in Int /\ Value(b) \in Int
  BY BoundParts
<1>2. ~(b <= a)
  BY <1>1, BoundOrder
<1> QED BY <1>2

(* Units are multiplied by a number of steps. *)
LEMMA Steps ==
  ASSUME NEW s \in Nat \ {0}, NEW h \in Nat, NEW a \in Int, NEW p \in Int, NEW q \in Int,
         NEW c \in {0, 1}, p - q < h * a + c
  PROVE  s * p - s * q < (s * h) * a + c
<1>1. PICK n \in Int : n = h * a
  BY SMT
<1>2. p <= n + q - 1 + c
  BY <1>1
<1>3. s * p <= s * (n + q - 1 + c)
  <2>1. CASE p = n + q - 1 + c
    BY <2>1, <1>1
  <2>2. CASE p < n + q - 1 + c
    <3>1. n + q - 1 + c \in Int
      BY <1>1
    <3>2. s * p + s <= s * (n + q - 1 + c) /\ s * p \in Int /\ s * (n + q - 1 + c) \in Int
      BY <2>2, <3>1, Product
    <3> QED BY <3>2
  <2> QED BY <1>1, <1>2, <2>1, <2>2
<1>4. s * (n + q - 1 + c) = s * n + s * q - s + s * c
  BY <1>1, SMT
<1>5. s * n = (s * h) * a
  BY <1>1, SMT
<1>6. s * c - s < c
  <2>1. CASE c = 0
    BY <2>1
  <2>2. CASE c = 1
    BY <2>2
  <2> QED BY <2>1, <2>2
<1>7. s * p \in Int /\ s * q \in Int /\ s * n \in Int /\ s * c \in Int
  BY <1>1, SMT
<1> QED BY <1>3, <1>4, <1>5, <1>6, <1>7

(* A valuation of the zone of d that meets c, on a grid of h steps s.       *)
OnGrid(v, d, c, s, h) ==
  /\ v[0] = 0 /\ In(v, d)
  /\ \A i \in Clock0 : \E n \in Nat : v[i] = s * n /\ n <= h * Value(c[i][0])
  /\ \A i, j \in Clock0 : v[i] - v[j] < Grid(c[i][j])

(* A zone whose matrix is above a closed one has a valuation on the grid.   *)
LEMMA PointOnGrid ==
  ASSUME NEW d, NormalForm(d), NEW c, Closed(c),
         \A i, j \in Clock0 : Finite(d[i][j]) => c[i][j] <= d[i][j],
         NEW s \in Nat, NEW h \in Nat, Unit = s * h, h >= Dim
  PROVE  \E v \in [Clock0 -> Int] : OnGrid(v, d, c, s, h)
<1>1. PICK p \in [Clock0 -> Int] :
        /\ p[0] = 0
        /\ \A i, j \in Clock0 : p[i] - p[j] < h * Value(c[i][j]) + Comparator(c[i][j])
  BY ClosedPoint
<1> DEFINE v == [i \in Clock0 |-> s * p[i]]
<1>2. s \in Nat \ {0}
  BY GridAssumption
<1>3. \A i \in Clock0 : v[i] = s * p[i] /\ p[i] \in Int /\ s * p[i] \in Int
  BY <1>2, Product
<1>4. v \in [Clock0 -> Int] /\ v[0] = 0
  BY <1>1, <1>3, Clocks
<1> HIDE DEF v
<1>5. ASSUME NEW i \in Clock0, NEW j \in Clock0
      PROVE  v[i] - v[j] < Grid(c[i][j])
  <2>1. Value(c[i][j]) \in Int /\ Comparator(c[i][j]) \in {0, 1}
    BY ClosedValues
  <2>2. p[i] - p[j] < h * Value(c[i][j]) + Comparator(c[i][j])
    BY <1>1
  <2>3. s * p[i] - s * p[j] < (s * h) * Value(c[i][j]) + Comparator(c[i][j])
    BY <1>2, <1>3, <2>1, <2>2, Steps
  <2> QED BY <1>3, <2>3 DEF Grid
<1>6. \A i, j \in Clock0 : c[i][j] \in Int /\ d[i][j] \in Int
  BY EntryMatrixType DEF Closed, Matrix, NormalForm
<1>7. ASSUME NEW i \in Clock0, NEW j \in Clock0
      PROVE  Meets(v, i, j, d[i][j])
  <2>1. CASE Finite(d[i][j])
    <3>1. Grid(c[i][j]) <= Grid(d[i][j]) /\ Grid(c[i][j]) \in Int /\ Grid(d[i][j]) \in Int
      BY <1>6, <2>1, GridMonotone, GridParts
    <3>2. v[i] \in Int /\ v[j] \in Int
      BY <1>3
    <3> QED BY <1>5, <3>1, <3>2, MeetsGrid
  <2>2. CASE ~Finite(d[i][j])
    BY <2>2, MeetsGrid DEF Finite
  <2> QED BY <2>1, <2>2
<1>8. In(v, d)
  BY <1>7 DEF In
<1>9. ASSUME NEW i \in Clock0
      PROVE  \E n \in Nat : v[i] = s * n /\ n <= h * Value(c[i][0])
  <2>1. 0 \in Clock0
    BY Clocks
  <2>2. p[i] >= 0
    <3>1. 0 - p[i] < h * Value(c[0][i]) + Comparator(c[0][i])
      BY <1>1, <2>1
    <3>2. c[0][i] <= d[0][i] /\ d[0][i] <= LE_ZERO
      BY <2>1, PositiveEntry DEF NormalForm, IsPositive
    <3>3. c[0][i] <= LE_ZERO /\ LE_ZERO \in Int /\ c[0][i] \in Int
      BY <1>6, <2>1, <3>2, SpecialBounds
    <3>4. h \in Nat \ {0}
      BY DimAssumption
    <3>5. h * Value(c[0][i]) + Comparator(c[0][i])
            <= h * Value(LE_ZERO) + Comparator(LE_ZERO)
      BY <3>3, <3>4, StepMonotone
    <3>6. h * Value(LE_ZERO) + Comparator(LE_ZERO) = 1
      BY SpecialBounds
    <3>7. h * Value(c[0][i]) \in Int /\ Comparator(c[0][i]) \in {0, 1}
      <4>1. Value(c[0][i]) \in Int /\ Comparator(c[0][i]) \in {0, 1}
        BY <2>1, ClosedValues
      <4> QED BY <3>4, <4>1, Product
    <3> QED BY <1>3, <3>1, <3>5, <3>6, <3>7
  <2>3. p[i] <= h * Value(c[i][0])
    <3>1. p[i] - 0 < h * Value(c[i][0]) + Comparator(c[i][0])
      BY <1>1, <2>1
    <3>2. Value(c[i][0]) \in Int /\ Comparator(c[i][0]) \in {0, 1}
      BY <2>1, ClosedValues
    <3>3. h * Value(c[i][0]) \in Int
      BY <3>2, SMT
    <3> QED BY <1>3, <3>1, <3>2, <3>3
  <2> QED BY <1>3, <2>2, <2>3
<1> QED BY <1>4, <1>5, <1>8, <1>9 DEF OnGrid

LEMMA FourSizes == 4 * MaxBound < InfValue
<1>1. MaxBound \in Nat /\ 2 * ((Dim + 1) * MaxBound) < InfValue /\ Dim \in Nat \ {0}
      /\ InfValue \in Nat
  BY BoundsAssumption, DimAssumption, InfValueAssumption
<1>2. PICK k \in Nat : Dim = 1 + k
  <2> Dim - 1 \in Nat
    BY <1>1
  <2> QED BY <1>1
<1>3. k * MaxBound \in Nat /\ (Dim + 1) * MaxBound = 2 * MaxBound + k * MaxBound
  BY <1>1, <1>2, SMT
<1> QED BY <1>1, <1>3

(* The grid on which zones are compared has steps enough for the clocks     *)
(* and reaches beyond the bounds of the matrix at hand and a stored one.    *)
Comparing(unit, coarse) ==
  \E s, h \in 1 .. unit :
    /\ unit = s * h /\ h >= Dim
    /\ {s * n : n \in 0 .. h * (5 * MaxBound + 1)} \subseteq coarse

GridCompares == Comparing(Unit, Coarse)

(* Zones whose bounds on y - x are not below b have a valuation above b,    *)
(* with x at r or below if the zone has one.                                *)
LEMMA ValuationAbove ==
  ASSUME GridCompares, NEW m \in Nat, m <= 2 * MaxBound,
         NEW d \in Matrix, Within(d, m), NormalForm(d), NEW x \in Clock0, NEW y \in Clock0,
         NEW b \in Int, Value(b) <= 3 * MaxBound - m, b < d[y][x],
         NEW r \in Int, LE_ZERO <= Plus(d[0][x], r)
  PROVE  \E v \in Valuation :
           In(v, d) /\ v[x] < Grid(r) /\ v[x] - v[y] < Grid(Opposite(b))
<1> DEFINE fin == FiniteEntries(d)
           c == 3 * MaxBound + 1
           e == Capped(d, fin, c)
           f == EdgesFrom(e, x, y, r, Opposite(b))
<1>1. /\ MaxBound \in Nat /\ m \in Nat /\ m <= 2 * MaxBound /\ 2 * m < InfValue
      /\ c \in Nat \ {0} /\ 0 \in Clock0
  <2>1. MaxBound \in Nat /\ 4 * MaxBound < InfValue /\ 0 \in Clock0
    BY BoundsAssumption, FourSizes, Clocks
  <2>2. InfValue \in Nat
    BY InfValueAssumption
  <2> QED BY <2>1, <2>2
<1>2. /\ ClosedWhere(d, fin)
      /\ \A i, j \in Clock0 : <<i, j>> \in fin <=> Finite(d[i][j])
  <2>1. UpTo(d, m)
    <3>1. m < InfValue
      BY <1>1, InfValueAssumption
    <3> QED BY <3>1, BoundedEntries
  <2> QED BY <1>1, <2>1, NormalClosed
<1> HIDE DEF fin
<1>3. /\ Closed(e)
      /\ \A i, j \in Clock0 : /\ e[i][j] \in Int /\ e[i][j] <= Cap(d, c, i, j)
                              /\ <<i, j>> \in fin => e[i][j] <= d[i][j]
                              /\ \/ e[i][j] = Cap(d, c, i, j)
                                 \/ <<i, j>> \in fin /\ e[i][j] = d[i][j]
  BY <1>1, <1>2, CappedClosed
<1> HIDE DEF e
<1>4. \A i \in Clock0 : /\ Value(d[0][i]) \in -m .. m
                        /\ Value(d[0][i]) <= 0 /\ d[0][i] \in Int
  <2> SUFFICES ASSUME NEW i \in Clock0
               PROVE  /\ Value(d[0][i]) \in -m .. m
                      /\ Value(d[0][i]) <= 0 /\ d[0][i] \in Int
    OBVIOUS
  <2>1. d[0][i] \in Int /\ Finite(d[0][i]) /\ d[0][i] <= LE_ZERO /\ LE_ZERO \in Int
    BY <1>1, PositiveEntry, SpecialBounds DEF NormalForm, IsPositive
  <2>2. Value(d[0][i]) <= 0
    BY <2>1, ValueOrder, SpecialBounds
  <2>3. Value(d[0][i]) \in -m .. m
    BY <1>1, <2>1 DEF Within, Finite
  <2> QED BY <2>1, <2>2, <2>3
<1>5. \A i, j \in Clock0 :
        /\ Cap(d, c, i, j) \in Int /\ Comparator(Cap(d, c, i, j)) = 0
        /\ Value(Cap(d, c, i, j)) = c + Value(d[0][j]) - Value(d[0][i])
  BY <1>1, CapParts
<1> HIDE DEF c
<1>6. c = 3 * MaxBound + 1 /\ c \in Nat \ {0}
  BY <1>1 DEF c
<1>7. b < e[y][x]
  <2>1. CASE e[y][x] = Cap(d, c, y, x)
    <3>1. Value(e[y][x]) = c + Value(d[0][x]) - Value(d[0][y])
      BY <1>5, <2>1
    <3>2. Value(e[y][x]) > Value(b)
      <4>1. Value(b) \in Int
        BY BoundParts
      <4> QED BY <1>1, <1>4, <1>6, <3>1, <4>1
    <3>3. e[y][x] \in Int
      BY <1>3
    <3> QED BY <3>2, <3>3, LargerValue
  <2>2. CASE e[y][x] = d[y][x]
    BY <2>2
  <2> QED BY <1>3, <2>1, <2>2
<1>8. LE_ZERO <= Plus(e[0][x], r)
  <2>1. d[0][x] <= e[0][x]
    <3>1. CASE e[0][x] = Cap(d, c, 0, x)
      <4>1. /\ Value(Cap(d, c, 0, x)) = c + Value(d[0][x]) - Value(d[0][0])
            /\ Value(d[0][0]) <= 0 /\ Value(d[0][0]) \in -m .. m
        BY <1>1, <1>4, <1>5
      <4>2. Value(Cap(d, c, 0, x)) > Value(d[0][x])
        BY <1>1, <1>4, <1>6, <4>1
      <4>3. Cap(d, c, 0, x) \in Int /\ d[0][x] \in Int
        BY <1>1, <1>4, <1>5
      <4>4. d[0][x] < Cap(d, c, 0, x)
        BY <4>2, <4>3, LargerValue
      <4> QED BY <3>1, <4>3, <4>4
    <3>2. CASE e[0][x] = d[0][x]
      BY <1>1, <1>4, <3>2
    <3> QED BY <1>1, <1>3, <3>1, <3>2
  <2>2. d[0][x] \in Int /\ e[0][x] \in Int
    BY <1>1, <1>3, <1>4
  <2>3. /\ Plus(d[0][x], r) <= Plus(e[0][x], r)
        /\ Plus(d[0][x], r) \in Int /\ Plus(e[0][x], r) \in Int
    BY <2>1, <2>2, PlusMonotone, PlusParts
  <2> QED BY <2>3, SpecialBounds
<1>9. Opposite(b) \in Int /\ LE_ZERO <= Plus(e[y][x], Opposite(b))
  BY <1>3, <1>7, OppositeParts
<1>10. /\ Closed(f)
       /\ \A i, j \in Clock0 : f[i][j] \in Int /\ f[i][j] <= e[i][j]
       /\ f[x][0] <= r /\ f[x][y] <= Opposite(b)
  BY <1>3, <1>8, <1>9, EdgesFromClosed
<1> HIDE DEF f
<1>11. PICK s \in Nat, h \in Nat :
         /\ Unit = s * h /\ h >= Dim
         /\ {s * n : n \in 0 .. h * (5 * MaxBound + 1)} \subseteq Coarse
  <2>1. Unit \in Nat
    BY GridAssumption
  <2>2. 1 .. Unit \subseteq Nat
    BY <2>1
  <2> QED BY <2>2, Zenon DEF GridCompares, Comparing
<1>12. \A i, j \in Clock0 : Finite(d[i][j]) => f[i][j] <= d[i][j]
  <2> SUFFICES ASSUME NEW i \in Clock0, NEW j \in Clock0, Finite(d[i][j])
               PROVE  f[i][j] <= d[i][j]
    OBVIOUS
  <2>1. d[i][j] \in Int /\ e[i][j] \in Int /\ e[i][j] <= d[i][j]
    BY <1>2, <1>3 DEF Matrix
  <2> QED BY <1>10, <2>1
<1>13. PICK v \in [Clock0 -> Int] :
         /\ v[0] = 0 /\ In(v, d)
         /\ \A i \in Clock0 : \E n \in Nat : v[i] = s * n /\ n <= h * Value(f[i][0])
         /\ \A i, j \in Clock0 : v[i] - v[j] < Grid(f[i][j])
  <2>1. Closed(f) /\ Unit = s * h /\ h >= Dim
    BY <1>10, <1>11
  <2>2. \E v \in [Clock0 -> Int] : OnGrid(v, d, f, s, h)
    BY <1>12, <2>1, PointOnGrid
  <2> QED BY <2>2 DEF OnGrid
<1>14. ASSUME NEW i \in Clock0
       PROVE  v[i] \in Coarse
  <2>1. PICK n \in Nat : v[i] = s * n /\ n <= h * Value(f[i][0])
    BY <1>13
  <2>2. Value(f[i][0]) <= 5 * MaxBound + 1
    <3>1. f[i][0] <= Cap(d, c, i, 0) /\ f[i][0] \in Int /\ Cap(d, c, i, 0) \in Int
      <4>1. /\ f[i][0] \in Int /\ f[i][0] <= e[i][0]
            /\ e[i][0] \in Int /\ e[i][0] <= Cap(d, c, i, 0) /\ Cap(d, c, i, 0) \in Int
        BY <1>1, <1>3, <1>5, <1>10
      <4> QED BY <4>1
    <3>2. Value(f[i][0]) <= Value(Cap(d, c, i, 0))
      BY <3>1, ValueOrder
    <3>3. Value(Cap(d, c, i, 0)) = c + Value(d[0][0]) - Value(d[0][i])
      BY <1>1, <1>5
    <3>4. Value(d[0][0]) <= 0 /\ Value(d[0][0]) \in Int /\ Value(d[0][i]) \in -m .. m
      BY <1>1, <1>4
    <3>5. Value(f[i][0]) \in Int
      BY <3>1, BoundParts
    <3> QED BY <1>1, <1>6, <3>2, <3>3, <3>4, <3>5
  <2>3. h * Value(f[i][0]) <= h * (5 * MaxBound + 1)
    <3>1. h \in Nat \ {0}
      BY <1>11, DimAssumption
    <3>2. Value(f[i][0]) \in Int /\ 5 * MaxBound + 1 \in Int
      BY <1>1, <1>10, BoundParts
    <3>3. Value(f[i][0]) = 5 * MaxBound + 1 \/ Value(f[i][0]) < 5 * MaxBound + 1
      BY <2>2, <3>2
    <3>4. /\ h * Value(f[i][0]) \in Int /\ h * (5 * MaxBound + 1) \in Int
          /\ Value(f[i][0]) < 5 * MaxBound + 1 =>
               h * Value(f[i][0]) + h <= h * (5 * MaxBound + 1)
      BY <3>1, <3>2, Product
    <3> QED BY <3>3, <3>4
  <2>4. n \in 0 .. h * (5 * MaxBound + 1)
    <3>1. h * Value(f[i][0]) \in Int /\ h * (5 * MaxBound + 1) \in Int
      <4>1. Value(f[i][0]) \in Int
        BY <1>1, <1>10, BoundParts
      <4> QED BY <1>1, <4>1, SMT
    <3> QED BY <2>1, <2>3, <3>1
  <2> QED BY <1>11, <2>1, <2>4
<1>15. v \in Valuation
  BY <1>13, <1>14 DEF Valuation
<1>16. v[x] < Grid(r) /\ v[x] - v[y] < Grid(Opposite(b))
  <2>1. /\ Grid(f[x][0]) <= Grid(r) /\ Grid(f[x][y]) <= Grid(Opposite(b))
        /\ Grid(f[x][0]) \in Int /\ Grid(r) \in Int
        /\ Grid(f[x][y]) \in Int /\ Grid(Opposite(b)) \in Int
    BY <1>1, <1>9, <1>10, GridMonotone, GridParts
  <2>2. v[x] - v[0] < Grid(f[x][0]) /\ v[x] - v[y] < Grid(f[x][y]) /\ v[0] = 0
        /\ v[x] \in Int /\ v[y] \in Int
    BY <1>1, <1>13
  <2> QED BY <2>1, <2>2
<1> QED BY <1>13, <1>15, <1>16

(* The inclusion of zones, bound by bound, from the valuations of the grid. *)
LEMMA BoundsFromZones ==
  ASSUME GridCompares, NEW m \in Nat, NEW n \in Nat, m <= 2 * MaxBound,
         n <= 3 * MaxBound - m,
         NEW d \in Matrix, Within(d, m), NormalForm(d),
         NEW e \in Matrix, Within(e, n), NormalForm(e), Zone(d) \subseteq Zone(e)
  PROVE  IsLe(d, e)
<1> SUFFICES ASSUME NEW y \in Clock0, NEW x \in Clock0, ~(d[y][x] <= e[y][x])
             PROVE  FALSE
  BY DEF IsLe
<1> DEFINE b == e[y][x]
           r == Db(LE, 1 - Value(d[0][x]))
<1>1. /\ d[y][x] \in Int /\ d[y][x] <= LT_INFINITY /\ b \in Int /\ b < d[y][x]
      /\ 0 \in Clock0 /\ d[0][x] \in Int
  BY EntryMatrixType, Clocks, SpecialBounds DEF NormalForm
<1>2. Finite(b) /\ Value(b) <= 3 * MaxBound - m
  <2>1. Finite(b)
    BY <1>1, SpecialBounds DEF Finite
  <2>2. Value(b) \in -n .. n
    BY <2>1 DEF Within, Finite
  <2> QED BY <2>1, <2>2, Sizes
<1>3. r \in Int /\ LE_ZERO <= Plus(d[0][x], r)
  <2>1. Value(d[0][x]) \in Int
    BY <1>1, BoundParts
  <2>2. 1 - Value(d[0][x]) \in Int /\ LE \in {0, 1}
    BY <2>1 DEF LE
  <2>3. r \in Int /\ Value(r) = 1 - Value(d[0][x])
    BY <2>2, DbParts
  <2>4. Plus(d[0][x], r) \in Int /\ Value(Plus(d[0][x], r)) = 1
    <3> HIDE DEF r
    <3>1. Value(Plus(d[0][x], r)) = Value(d[0][x]) + Value(r) /\ Plus(d[0][x], r) \in Int
      BY <1>1, <2>3, PlusParts
    <3> QED BY <2>1, <2>3, <3>1
  <2> HIDE DEF r
  <2>5. LE_ZERO \in Int /\ Value(LE_ZERO) = 0
    BY SpecialBounds
  <2>6. LE_ZERO < Plus(d[0][x], r)
    BY <2>4, <2>5, LargerValue
  <2> QED BY <2>3, <2>4, <2>5, <2>6
<1> HIDE DEF r
<1>4. PICK v \in Valuation : In(v, d) /\ v[x] - v[y] < Grid(Opposite(b))
  <2> HIDE DEF b
  <2> QED BY <1>1, <1>2, <1>3, ValuationAbove
<1>5. v[y] - v[x] < Grid(b)
  <2>1. In(v, e)
    BY <1>4 DEF Zone
  <2> QED BY <1>2, <2>1, MeetsGrid DEF In, Finite
<1>6. Grid(Opposite(b)) = 1 - Grid(b) /\ Grid(b) \in Int
  <2>1. /\ Value(Opposite(b)) = -Value(b) /\ Comparator(Opposite(b)) = 1 - Comparator(b)
        /\ Value(b) \in Int /\ Comparator(b) \in {0, 1}
    BY <1>1, OppositeParts, BoundParts
  <2>2. Unit * Value(b) \in Int /\ Unit * (-Value(b)) = -(Unit * Value(b))
    BY <2>1, GridAssumption, SMT
  <2> HIDE DEF b
  <2> QED BY <2>1, <2>2 DEF Grid
<1>7. v[x] \in Int /\ v[y] \in Int
  BY ValuationType
<1> HIDE DEF b
<1> QED BY <1>4, <1>5, <1>6, <1>7

(* is_le and is_equal compare the sets of valuations. *)
LEMMA InclusionExact ==
  ASSUME GridCompares, NEW d \in Matrix, Bounded(d), NormalForm(d), NEW e \in Stored
  PROVE  /\ IsEqual(d, e) <=> Zone(d) = StoredZone[e]
         /\ IsLe(d, e) <=> Zone(d) \subseteq StoredZone[e]
<1>1. /\ e \in Matrix /\ Within(e, 2 * MaxBound) /\ NormalForm(e) /\ StoredZone[e] = Zone(e)
      /\ e \in EntryMatrix
  BY BoundsAssumption, StoredNormal DEF StoredZone, NormalForm
<1>2. MaxBound \in Nat /\ 2 * MaxBound \in Nat /\ Within(d, MaxBound)
  BY Sizes DEF Bounded
<1>3. IsLe(d, e) => Zone(d) \subseteq Zone(e)
  BY <1>1, ValuationType, InLarger DEF IsLe, Zone
<1>4. Zone(d) \subseteq Zone(e) => IsLe(d, e)
  BY <1>1, <1>2, BoundsFromZones
<1>5. Zone(e) \subseteq Zone(d) => IsLe(e, d)
  BY <1>1, <1>2, BoundsFromZones
<1>6. IsEqual(d, e) => Zone(d) = Zone(e)
  BY DEF IsEqual, In, Zone
<1>7. IsLe(d, e) /\ IsLe(e, d) => IsEqual(d, e)
  <2>1. \A i, j \in Clock0 : d[i][j] \in Int /\ e[i][j] \in Int
    BY <1>1 DEF Matrix
  <2> QED BY <2>1 DEF IsLe, IsEqual
<1> QED BY <1>1, <1>3, <1>4, <1>5, <1>6, <1>7

-----------------------------------------------------------------------------
(* The search for a simulating valuation, clock after clock, by InALU. *)
Extend(previous, v, d, l, u, n) ==
  {q \in IF n = 0 THEN {[x \in {0} |-> 0]}
         ELSE {[x \in 0 .. n |-> IF x = n THEN w ELSE p[x]] :
                 p \in previous, w \in Simulators(v, n, l, u)} :
     \A y \in 0 .. n : Meets(q, n, y, d[n][y]) /\ Meets(q, y, n, d[y][n])}

Extensions(g, v, d, l, u, N) ==
  g = [n \in 0 .. N |-> Extend(g[n - 1], v, d, l, u, n)]

(* The sets of partial valuations, one by one. *)
LEMMA ExtensionsEntries ==
  ASSUME NEW g, NEW v, NEW d, NEW l, NEW u, NEW N \in Nat,
         g = [n \in 0 .. N |-> g[n]],
         \A n \in 0 .. N : g[n] = Extend(g[n - 1], v, d, l, u, n)
  PROVE  Extensions(g, v, d, l, u, N)
<1> DEFINE h == [n \in 0 .. N |-> Extend(g[n - 1], v, d, l, u, n)]
<1>1. \A n \in 0 .. N : h[n] = Extend(g[n - 1], v, d, l, u, n)
  OBVIOUS
<1>2. h = [n \in 0 .. N |-> h[n]]
  OBVIOUS
<1>3. Extensions(g, v, d, l, u, N) <=> g = h
  BY Zenon DEF Extensions
<1> HIDE DEF h
<1>4. \A n \in 0 .. N : g[n] = h[n]
  BY <1>1, Zenon
<1> QED BY <1>2, <1>3, <1>4

(* Without clocks, the previous set is not used. *)
LEMMA ExtendNone ==
  ASSUME NEW p, NEW r, NEW v, NEW d, NEW l, NEW u
  PROVE  Extend(p, v, d, l, u, 0) = Extend(r, v, d, l, u, 0)
BY SMT DEF Extend

(* The search can be carried out up to any number. *)
LEMMA ExtensionsExist ==
  ASSUME NEW v, NEW d, NEW l, NEW u, NEW N \in Nat
  PROVE  \E g : Extensions(g, v, d, l, u, N)
<1> DEFINE T == {n \in 0 .. N : \E g : Extensions(g, v, d, l, u, n)}
<1>1. 0 \in T
  <2> DEFINE g == [n \in 0 .. 0 |-> Extend({}, v, d, l, u, 0)]
  <2>1. ASSUME NEW n \in 0 .. 0
        PROVE  g[n] = Extend(g[n - 1], v, d, l, u, n)
    <3>1. n = 0 /\ g[n] = Extend({}, v, d, l, u, 0)
      OBVIOUS
    <3> HIDE DEF g
    <3>2. Extend({}, v, d, l, u, 0) = Extend(g[n - 1], v, d, l, u, 0)
      BY ExtendNone
    <3> QED BY <3>1, <3>2
  <2>2. g = [n \in 0 .. 0 |-> g[n]]
    OBVIOUS
  <2> HIDE DEF g
  <2>3. Extensions(g, v, d, l, u, 0)
    BY <2>1, <2>2, ExtensionsEntries
  <2>4. 0 \in 0 .. N
    OBVIOUS
  <2> QED BY <2>3, <2>4, Zenon
<1>2. ASSUME NEW n \in 1 .. N, n - 1 \in T
      PROVE  n \in T
  <2>1. PICK f : Extensions(f, v, d, l, u, n - 1)
    BY <1>2
  <2>2. f = [p \in 0 .. n - 1 |-> Extend(f[p - 1], v, d, l, u, p)]
    BY <2>1 DEF Extensions
  <2>3. \A p \in 0 .. n - 1 : f[p] = Extend(f[p - 1], v, d, l, u, p)
    BY <2>2
  <2> DEFINE g == [p \in 0 .. n |-> IF p < n THEN f[p] ELSE Extend(f[n - 1], v, d, l, u, n)]
  <2>4. ASSUME NEW p \in 0 .. n
        PROVE  g[p] = Extend(g[p - 1], v, d, l, u, p)
    <3>1. CASE p = 0
      <4>1. g[p] = f[0] /\ 0 \in 0 .. n - 1
        BY <3>1
      <4>2. f[0] = Extend(f[0 - 1], v, d, l, u, 0)
        BY <2>3, <4>1
      <4> HIDE DEF g
      <4>3. Extend(f[0 - 1], v, d, l, u, 0) = Extend(g[p - 1], v, d, l, u, 0)
        BY ExtendNone
      <4> QED BY <3>1, <4>1, <4>2, <4>3
    <3>2. CASE p # 0 /\ p < n
      <4>1. g[p] = f[p] /\ g[p - 1] = f[p - 1] /\ p \in 0 .. n - 1
        BY <3>2
      <4>2. f[p] = Extend(f[p - 1], v, d, l, u, p)
        BY <2>3, <4>1
      <4> QED BY <4>1, <4>2
    <3>3. CASE p = n
      <4>1. g[p - 1] = f[n - 1] /\ g[p] = Extend(f[n - 1], v, d, l, u, n)
        BY <3>3
      <4> QED BY <3>3, <4>1
    <3> QED BY <3>1, <3>2, <3>3
  <2>5. g = [p \in 0 .. n |-> g[p]]
    OBVIOUS
  <2> HIDE DEF g
  <2>6. Extensions(g, v, d, l, u, n)
    <3>1. n \in Nat
      OBVIOUS
    <3> QED BY <2>4, <2>5, <3>1, ExtensionsEntries
  <2>7. n \in 0 .. N
    OBVIOUS
  <2> QED BY <2>6, <2>7, Zenon
<1>3. 0 .. N \subseteq T
  <2> HIDE DEF T
  <2> QED BY <1>1, <1>2, Induction
<1> QED BY <1>3

(* The abstraction a_LU, as the sets of a search for all clocks. *)
LEMMA ALUExtensions ==
  ASSUME NEW v, NEW d, NEW l, NEW u
  PROVE  \E g : /\ \A n \in Clock0 : g[n] = Extend(g[n - 1], v, d, l, u, n)
                /\ InALU(v, d, l, u) <=> In(v, d) \/ g[Dim - 1] # {}
<1> DEFINE g == CHOOSE f : Extensions(f, v, d, l, u, Dim - 1)
<1>1. Dim - 1 \in Nat /\ Clock0 = 0 .. Dim - 1
  BY DimAssumption DEF Clock0
<1>2. Extensions(g, v, d, l, u, Dim - 1)
  BY <1>1, ExtensionsExist, Zenon
<1>3. InALU(v, d, l, u) <=> In(v, d) \/ g[Dim - 1] # {}
  BY SMT DEF InALU, Extensions, Extend, Clock0
<1> HIDE DEF g
<1>4. \A n \in Clock0 : g[n] = Extend(g[n - 1], v, d, l, u, n)
  BY <1>1, <1>2 DEF Extensions
<1> QED BY <1>3, <1>4

(* A valuation of the first clocks in the zone of d that simulates v. *)
Partial(q, v, d, l, u, n) ==
  /\ q \in [0 .. n -> Int] /\ q[0] = 0
  /\ \A x \in 1 .. n : q[x] \in Simulators(v, x, l, u)
  /\ \A x, y \in 0 .. n : Meets(q, x, y, d[x][y])

(* A bound is met by a valuation that is the same at its two clocks. *)
LEMMA MeetsSame ==
  ASSUME NEW p, NEW q, NEW x, NEW y, NEW b, p[x] = q[x], p[y] = q[y]
  PROVE  Meets(p, x, y, b) <=> Meets(q, x, y, b)
BY DEF Meets

(* Simulating values are integers. *)
LEMMA SimulatorsType ==
  ASSUME NEW v \in [Clock0 -> Int], NEW x \in Clock0, NEW l, NEW u
  PROVE  Simulators(v, x, l, u) \subseteq Int
<1>1. Fine \subseteq Int /\ v[x] \in Int
  BY GridAssumption
<1> QED BY <1>1 DEF Simulators

(* The search meets every partial valuation. *)
LEMMA ExtendPartial ==
  ASSUME NEW v \in [Clock0 -> Int], NEW d, NEW l, NEW u, NEW n \in Clock0, n # 0,
         NEW previous, \A p : p \in previous <=> Partial(p, v, d, l, u, n - 1), NEW q
  PROVE  q \in Extend(previous, v, d, l, u, n) <=> Partial(q, v, d, l, u, n)
<1> DEFINE extended(p, w) == [x \in 0 .. n |-> IF x = n THEN w ELSE p[x]]
           met == \A y \in 0 .. n : Meets(q, n, y, d[n][y]) /\ Meets(q, y, n, d[y][n])
<1>1. /\ n \in 1 .. n /\ n \in 0 .. n /\ 0 \in 0 .. n - 1 /\ n \in Nat
      /\ \A x \in 0 .. n : x = n \/ x \in 0 .. n - 1
      /\ \A x \in 1 .. n : x = n \/ x \in 1 .. n - 1
      /\ \A x \in 0 .. n - 1 : x \in 0 .. n /\ x # n
      /\ \A x \in 1 .. n - 1 : x \in 1 .. n /\ x \in 0 .. n - 1
  BY DEF Clock0
<1>2. q \in Extend(previous, v, d, l, u, n)
        <=> met /\ \E p \in previous, w \in Simulators(v, n, l, u) : q = extended(p, w)
  BY DEF Extend
<1> HIDE DEF met
<1>3. ASSUME met, NEW p \in previous, NEW w \in Simulators(v, n, l, u), q = extended(p, w)
      PROVE  Partial(q, v, d, l, u, n)
  <2>1. Partial(p, v, d, l, u, n - 1)
    BY <1>3
  <2>2. /\ p \in [0 .. n - 1 -> Int] /\ p[0] = 0
        /\ \A x \in 1 .. n - 1 : p[x] \in Simulators(v, x, l, u)
        /\ \A x, y \in 0 .. n - 1 : Meets(p, x, y, d[x][y])
    BY <2>1 DEF Partial
  <2>3. w \in Int
    BY <1>3, SimulatorsType
  <2>4. q[n] = w /\ \A x \in 0 .. n - 1 : q[x] = p[x]
    BY <1>1, <1>3
  <2>5. q \in [0 .. n -> Int]
    <3>1. \A x \in 0 .. n : (IF x = n THEN w ELSE p[x]) \in Int
      BY <1>1, <2>2, <2>3
    <3> QED BY <1>3, <3>1
  <2>6. \A x \in 1 .. n : q[x] \in Simulators(v, x, l, u)
    BY <1>1, <1>3, <2>2, <2>4
  <2>7. ASSUME NEW x \in 0 .. n, NEW y \in 0 .. n
        PROVE  Meets(q, x, y, d[x][y])
    <3>1. CASE x = n \/ y = n
      BY <1>3, <3>1 DEF met
    <3>2. CASE x \in 0 .. n - 1 /\ y \in 0 .. n - 1
      <4>1. Meets(p, x, y, d[x][y]) /\ q[x] = p[x] /\ q[y] = p[y]
        BY <2>2, <2>4, <3>2
      <4> QED BY <4>1, MeetsSame
    <3> QED BY <1>1, <3>1, <3>2
  <2> QED BY <1>1, <2>2, <2>4, <2>5, <2>6, <2>7 DEF Partial
<1>4. ASSUME Partial(q, v, d, l, u, n)
      PROVE  met /\ \E p \in previous, w \in Simulators(v, n, l, u) : q = extended(p, w)
  <2> DEFINE p == [x \in 0 .. n - 1 |-> q[x]]
  <2>1. /\ q \in [0 .. n -> Int] /\ q[0] = 0
        /\ \A x \in 1 .. n : q[x] \in Simulators(v, x, l, u)
        /\ \A x, y \in 0 .. n : Meets(q, x, y, d[x][y])
    BY <1>4 DEF Partial
  <2>2. met
    BY <1>1, <2>1 DEF met
  <2>3. p \in [0 .. n - 1 -> Int] /\ \A x \in 0 .. n - 1 : p[x] = q[x]
    BY <1>1, <2>1
  <2>4. q = extended(p, q[n])
    <3>1. \A x \in 0 .. n : q[x] = IF x = n THEN q[n] ELSE p[x]
      BY <1>1, <2>3
    <3>2. q = [x \in 0 .. n |-> q[x]]
      BY <2>1
    <3> HIDE DEF p
    <3> QED BY <3>1, <3>2
  <2> HIDE DEF p
  <2>5. ASSUME NEW x \in 0 .. n - 1, NEW y \in 0 .. n - 1
        PROVE  Meets(p, x, y, d[x][y])
    <3>1. Meets(q, x, y, d[x][y]) /\ q[x] = p[x] /\ q[y] = p[y]
      BY <1>1, <2>1, <2>3
    <3> QED BY <3>1, MeetsSame
  <2>6. Partial(p, v, d, l, u, n - 1)
    BY <1>1, <2>1, <2>3, <2>5 DEF Partial
  <2>7. p \in previous /\ q[n] \in Simulators(v, n, l, u)
    BY <1>1, <2>1, <2>6
  <2> QED BY <2>2, <2>4, <2>7
<1> QED BY <1>2, <1>3, <1>4

(* The valuations in a_LU of a zone are those that a valuation of the zone  *)
(* simulates, at every clock.                                               *)
LEMMA ALUSimulated ==
  ASSUME NEW v \in [Clock0 -> Int], NEW d, IsConsistent(d), NEW l, NEW u
  PROVE  InALU(v, d, l, u)
           <=> \/ In(v, d)
               \/ \E w \in [Clock0 -> Int] :
                    /\ w[0] = 0 /\ In(w, d)
                    /\ \A x \in Clock : w[x] \in Simulators(v, x, l, u)
<1>1. PICK g : /\ \A n \in Clock0 : g[n] = Extend(g[n - 1], v, d, l, u, n)
               /\ InALU(v, d, l, u) <=> In(v, d) \/ g[Dim - 1] # {}
  BY ALUExtensions
<1>2. Dim - 1 \in Nat /\ Clock0 = 0 .. Dim - 1 /\ Clock = 1 .. Dim - 1
  BY DimAssumption DEF Clock0, Clock
<1> DEFINE T == {n \in 0 .. Dim - 1 : \A q : q \in g[n] <=> Partial(q, v, d, l, u, n)}
<1>3. 0 \in T
  <2>1. g[0] = Extend(g[0 - 1], v, d, l, u, 0) /\ 0 \in 0 .. Dim - 1
    BY <1>1, <1>2
  <2>2. ASSUME NEW q
        PROVE  q \in Extend(g[0 - 1], v, d, l, u, 0) <=> Partial(q, v, d, l, u, 0)
    <3>1. q \in Extend(g[0 - 1], v, d, l, u, 0)
            <=> q = [x \in {0} |-> 0] /\ Meets(q, 0, 0, d[0][0])
      BY DEF Extend
    <3>2. d[0][0] = LE_ZERO
      BY Clocks DEF IsConsistent
    <3>3. 0 .. 0 = {0} /\ 1 .. 0 = {}
      OBVIOUS
    <3>4. q \in [{0} -> Int] /\ q[0] = 0 <=> q = [x \in {0} |-> 0]
      OBVIOUS
    <3> QED BY <3>1, <3>2, <3>3, <3>4 DEF Partial
  <2> QED BY <2>1, <2>2
<1>4. ASSUME NEW n \in 1 .. Dim - 1, n - 1 \in T
      PROVE  n \in T
  <2>1. n \in Clock0 /\ n # 0 /\ g[n] = Extend(g[n - 1], v, d, l, u, n) /\ n \in 0 .. Dim - 1
    BY <1>1, <1>2
  <2>2. \A p : p \in g[n - 1] <=> Partial(p, v, d, l, u, n - 1)
    BY <1>4
  <2>3. \A q : q \in Extend(g[n - 1], v, d, l, u, n) <=> Partial(q, v, d, l, u, n)
    BY <2>1, <2>2, ExtendPartial
  <2> QED BY <2>1, <2>3
<1>5. Dim - 1 \in T
  <2> HIDE DEF T
  <2>1. 0 .. Dim - 1 \subseteq T
    BY <1>2, <1>3, <1>4, Induction
  <2> QED BY <1>2, <2>1
<1>6. \A q : q \in g[Dim - 1] <=> Partial(q, v, d, l, u, Dim - 1)
  BY <1>5
<1>7. \A q : Partial(q, v, d, l, u, Dim - 1)
               <=> /\ q \in [Clock0 -> Int] /\ q[0] = 0 /\ In(q, d)
                   /\ \A x \in Clock : q[x] \in Simulators(v, x, l, u)
  BY <1>2 DEF Partial, In
<1> QED BY <1>1, <1>6, <1>7

(* A matrix in a unit that is k times smaller. *)
Scaled(g, k) ==
  [i \in Clock0 |-> [j \in Clock0 |-> Db(Comparator(g[i][j]), k * Value(g[i][j]))]]

(* Its entries. *)
LEMMA ScaledParts ==
  ASSUME NEW g \in Matrix, NEW k \in Nat \ {0}, NEW i \in Clock0, NEW j \in Clock0
  PROVE  /\ g[i][j] \in Int /\ Value(g[i][j]) \in Int
         /\ Scaled(g, k)[i][j] \in Int
         /\ Value(Scaled(g, k)[i][j]) = k * Value(g[i][j])
         /\ Comparator(Scaled(g, k)[i][j]) = Comparator(g[i][j])
<1>1. g[i][j] \in Int
  BY DEF Matrix
<1>2. Value(g[i][j]) \in Int /\ Comparator(g[i][j]) \in {0, 1}
  BY <1>1, BoundParts
<1>3. k * Value(g[i][j]) \in Int
  BY <1>2, Product
<1>4. Scaled(g, k)[i][j] = Db(Comparator(g[i][j]), k * Value(g[i][j]))
  BY DEF Scaled
<1> QED BY <1>1, <1>2, <1>3, <1>4, DbParts

(* It has the same entries closed. *)
LEMMA ScaledClosed ==
  ASSUME NEW g, NEW fin, ClosedWhere(g, fin), NEW k \in Nat \ {0}
  PROVE  ClosedWhere(Scaled(g, k), fin)
<1> DEFINE f == Scaled(g, k)
<1>1. g \in Matrix
  BY DEF ClosedWhere
<1>2. \A i, j \in Clock0 : /\ g[i][j] \in Int /\ Value(g[i][j]) \in Int
                           /\ f[i][j] \in Int /\ Value(f[i][j]) = k * Value(g[i][j])
                           /\ Comparator(f[i][j]) = Comparator(g[i][j])
  BY <1>1, ScaledParts
<1>3. f \in Matrix
  <2>1. f = [i \in Clock0 |-> [j \in Clock0 |-> f[i][j]]]
    BY DEF Scaled
  <2> HIDE DEF f
  <2>2. \A i \in Clock0 : [j \in Clock0 |-> f[i][j]] \in [Clock0 -> Int]
    BY <1>2
  <2>3. [i \in Clock0 |-> [j \in Clock0 |-> f[i][j]]] \in [Clock0 -> [Clock0 -> Int]]
    BY <2>2
  <2> QED BY <2>1, <2>3 DEF Matrix
<1> HIDE DEF f
<1>4. ASSUME NEW i \in Clock0
      PROVE  f[i][i] = LE_ZERO /\ <<i, i>> \in fin /\ <<0, i>> \in fin
  <2>1. g[i][i] = LE_ZERO /\ <<i, i>> \in fin /\ <<0, i>> \in fin
    BY DEF ClosedWhere
  <2>2. /\ Value(f[i][i]) = k * 0 /\ Comparator(f[i][i]) = 1 /\ f[i][i] \in Int
    BY <1>2, <2>1, SpecialBounds
  <2>3. f[i][i] = 2 * (k * 0) + 1
    BY <2>2, BoundParts
  <2>4. f[i][i] = 1
    BY <2>3, SMT
  <2> QED BY <2>1, <2>4, SpecialBounds
<1>5. ASSUME NEW i \in Clock0, NEW j \in Clock0, NEW h \in Clock0,
             <<i, h>> \in fin, <<h, j>> \in fin
      PROVE  <<i, j>> \in fin /\ f[i][j] <= Plus(f[i][h], f[h][j])
  <2>1. <<i, j>> \in fin /\ g[i][j] <= Plus(g[i][h], g[h][j])
    BY <1>5 DEF ClosedWhere
  <2> DEFINE p == Plus(g[i][h], g[h][j])
             q == Plus(f[i][h], f[h][j])
  <2>2. /\ p \in Int /\ Value(p) = Value(g[i][h]) + Value(g[h][j])
        /\ Comparator(p) = LeastBound(Comparator(g[i][h]), Comparator(g[h][j]))
    BY <1>2, PlusParts
  <2>3. /\ q \in Int /\ Value(q) = Value(f[i][h]) + Value(f[h][j])
        /\ Comparator(q) = LeastBound(Comparator(f[i][h]), Comparator(f[h][j]))
    BY <1>2, PlusParts
  <2> HIDE DEF p, q
  <2>4. Value(q) = k * Value(p) /\ Comparator(q) = Comparator(p)
    <3>1. k * (Value(g[i][h]) + Value(g[h][j]))
            = k * Value(g[i][h]) + k * Value(g[h][j])
      BY <1>2, Product
    <3> QED BY <1>2, <2>2, <2>3, <3>1
  <2>5. \/ Value(g[i][j]) < Value(p)
        \/ Value(g[i][j]) = Value(p) /\ Comparator(g[i][j]) <= Comparator(p)
    BY <1>2, <2>1, <2>2, BoundOrder DEF p
  <2>6. Value(p) \in Int
    BY <2>2, BoundParts
  <2>7. \/ Value(f[i][j]) < Value(q)
        \/ Value(f[i][j]) = Value(q) /\ Comparator(f[i][j]) <= Comparator(q)
    <3>1. CASE Value(g[i][j]) < Value(p)
      <4> DEFINE a == k * Value(g[i][j])
                 c == k * Value(p)
      <4>1. a + k <= c /\ a \in Int /\ c \in Int
        BY <1>2, <2>6, <3>1, Product
      <4>2. Value(f[i][j]) = a /\ Value(q) = c
        BY <1>2, <2>4
      <4> HIDE DEF a, c
      <4> QED BY <4>1, <4>2
    <3>2. CASE Value(g[i][j]) = Value(p) /\ Comparator(g[i][j]) <= Comparator(p)
      <4>1. Value(f[i][j]) = k * Value(p) /\ Comparator(f[i][j]) <= Comparator(p)
        BY <1>2, <3>2
      <4> QED BY <2>4, <4>1
    <3> QED BY <2>5, <3>1, <3>2
  <2>8. f[i][j] <= q
    BY <1>2, <2>3, <2>7, BoundOrder
  <2> QED BY <2>1, <2>8 DEF q
<1>6. fin \subseteq Clock0 \X Clock0
  BY DEF ClosedWhere
<1> QED BY <1>3, <1>4, <1>5, <1>6, Zenon DEF ClosedWhere, f

(* The least bound of each row, among some columns. *)
LEMMA LeastOfRows ==
  ASSUME NEW f \in Matrix, NEW S \in SUBSET Clock0, S # {}
  PROVE  \E p \in [Clock0 -> Int] :
           \A i \in Clock0 : (\E s \in S : p[i] = f[i][s]) /\ \A s \in S : p[i] <= f[i][s]
<1>1. ASSUME NEW i \in Clock0
      PROVE  \E s \in S : \A t \in S : f[i][s] <= f[i][t]
  <2> DEFINE g == [j \in Clock0 |-> -f[i][j]]
  <2>1. \A j \in Clock0 : f[i][j] \in Int
    BY DEF Matrix
  <2>2. g \in [Clock0 -> Int] /\ \A j \in Clock0 : g[j] = -f[i][j]
    BY <2>1
  <2> HIDE DEF g
  <2>3. PICK s \in S : \A t \in S : g[t] <= g[s]
    BY <2>2, GreatestAt
  <2>4. \A t \in S : f[i][s] <= f[i][t]
    BY <2>1, <2>2, <2>3
  <2> QED BY <2>4
<1> DEFINE least(i) == CHOOSE s \in S : \A t \in S : f[i][s] <= f[i][t]
           p == [i \in Clock0 |-> f[i][least(i)]]
<1>2. \A i \in Clock0 : least(i) \in S /\ \A t \in S : f[i][least(i)] <= f[i][t]
  BY <1>1
<1> HIDE DEF least
<1>3. \A i \in Clock0 : f[i][least(i)] \in Int
  BY <1>2 DEF Matrix
<1>4. p \in [Clock0 -> Int]
  BY <1>3
<1>5. \A i \in Clock0 : (\E s \in S : p[i] = f[i][s]) /\ \A s \in S : p[i] <= f[i][s]
  BY <1>2
<1> QED BY <1>4, <1>5

(* Bounds from above of some clocks, and from below, are met by valuations  *)
(* of a closed matrix if none of them contradicts another.                  *)
LEMMA BoxClosed ==
  ASSUME NEW b, Closed(b), NEW X \in SUBSET Clock0, 0 \in X,
         NEW hi \in [Clock0 -> Int], NEW lo \in [Clock0 -> Int],
         hi[0] = LE_ZERO, lo[0] = LE_ZERO,
         \A x \in X, y \in Clock0 : LE_ZERO <= Plus(Plus(lo[y], b[y][x]), hi[x])
  PROVE  \E c : /\ Closed(c) /\ \A i, j \in Clock0 : c[i][j] <= b[i][j]
                /\ \A x \in X : c[x][0] <= hi[x]
                /\ \A y \in Clock0 : c[0][y] <= lo[y]
<1>1. /\ \A i, j \in Clock0 : b[i][j] \in Int
      /\ \A i, j, k \in Clock0 : b[i][j] <= Plus(b[i][k], b[k][j])
      /\ \A i \in Clock0 : b[i][i] = LE_ZERO /\ hi[i] \in Int /\ lo[i] \in Int
      /\ 0 \in Clock0 /\ LE_ZERO \in Int
  BY Clocks, SpecialBounds DEF Closed, Matrix
<1> DEFINE above == [i \in Clock0 |-> [x \in Clock0 |-> Plus(b[i][x], hi[x])]]
           below == [j \in Clock0 |-> [y \in Clock0 |-> Plus(lo[y], b[y][j])]]
<1>2. above \in Matrix /\ below \in Matrix
  <2>1. \A i, j \in Clock0 : Plus(b[i][j], hi[j]) \in Int /\ Plus(lo[j], b[j][i]) \in Int
    BY <1>1, PlusParts
  <2> QED BY <2>1 DEF Matrix
<1>3. \A i, x \in Clock0 : above[i][x] = Plus(b[i][x], hi[x])
                           /\ below[i][x] = Plus(lo[x], b[x][i])
  OBVIOUS
<1> HIDE DEF above, below
<1>4. PICK p \in [Clock0 -> Int] :
        \A i \in Clock0 : (\E x \in X : p[i] = above[i][x]) /\ \A x \in X : p[i] <= above[i][x]
  BY <1>2, LeastOfRows
<1>5. PICK q \in [Clock0 -> Int] :
        \A j \in Clock0 : /\ \E y \in Clock0 : q[j] = below[j][y]
                          /\ \A y \in Clock0 : q[j] <= below[j][y]
  BY <1>1, <1>2, LeastOfRows
<1>6. ASSUME NEW i \in Clock0, NEW j \in Clock0
      PROVE  p[i] <= Plus(b[i][j], p[j])
  <2>1. PICK x \in X : p[j] = Plus(b[j][x], hi[x])
    BY <1>3, <1>4
  <2>2. p[i] <= Plus(b[i][x], hi[x])
    BY <1>3, <1>4
  <2> DEFINE w == Plus(b[i][j], b[j][x])
  <2>3. w \in Int /\ b[i][x] <= w
    BY <1>1, PlusParts
  <2>4. Plus(b[i][j], Plus(b[j][x], hi[x])) = Plus(w, hi[x])
    <3>1. b[i][j] \in Int /\ b[j][x] \in Int /\ hi[x] \in Int
      BY <1>1
    <3> QED BY <3>1, PlusAssociative, Zenon
  <2> HIDE DEF w
  <2>5. /\ Plus(b[i][x], hi[x]) <= Plus(w, hi[x])
        /\ Plus(b[i][x], hi[x]) \in Int /\ Plus(w, hi[x]) \in Int
    BY <1>1, <2>3, PlusMonotone, PlusParts
  <2> QED BY <2>1, <2>2, <2>4, <2>5
<1>7. ASSUME NEW i \in Clock0, NEW j \in Clock0
      PROVE  q[j] <= Plus(q[i], b[i][j])
  <2>1. PICK y \in Clock0 : q[i] = Plus(lo[y], b[y][i])
    BY <1>3, <1>5
  <2>2. q[j] <= Plus(lo[y], b[y][j])
    BY <1>3, <1>5
  <2> DEFINE w == Plus(b[y][i], b[i][j])
  <2>3. w \in Int /\ b[y][j] <= w
    BY <1>1, PlusParts
  <2>4. Plus(Plus(lo[y], b[y][i]), b[i][j]) = Plus(lo[y], w)
    <3>1. b[y][i] \in Int /\ b[i][j] \in Int /\ lo[y] \in Int
      BY <1>1
    <3> QED BY <3>1, PlusAssociative, Zenon
  <2> HIDE DEF w
  <2>5. /\ Plus(lo[y], b[y][j]) <= Plus(lo[y], w)
        /\ Plus(lo[y], b[y][j]) \in Int /\ Plus(lo[y], w) \in Int
    BY <1>1, <2>3, PlusMonotone, PlusParts
  <2> QED BY <2>1, <2>2, <2>4, <2>5
<1>8. ASSUME NEW i \in Clock0
      PROVE  LE_ZERO <= Plus(p[i], q[i])
  <2>1. PICK x \in X : p[i] = Plus(b[i][x], hi[x])
    BY <1>3, <1>4
  <2>2. PICK y \in Clock0 : q[i] = Plus(lo[y], b[y][i])
    BY <1>3, <1>5
  <2>3. /\ b[i][x] \in Int /\ hi[x] \in Int /\ lo[y] \in Int /\ b[y][i] \in Int
        /\ b[y][x] \in Int /\ p[i] \in Int /\ q[i] \in Int
    BY <1>1
  <2> DEFINE w == Plus(b[y][i], b[i][x])
  <2>4. w \in Int /\ b[y][x] <= w
    BY <1>1, PlusParts
  <2>5. Plus(p[i], q[i]) = Plus(Plus(lo[y], w), hi[x])
    <3>1. Plus(p[i], q[i]) = Plus(q[i], p[i])
      BY <2>3, PlusAlgebra
    <3>2. Plus(q[i], Plus(b[i][x], hi[x])) = Plus(Plus(q[i], b[i][x]), hi[x])
      BY <2>3, PlusAssociative, Zenon
    <3>3. Plus(Plus(lo[y], b[y][i]), b[i][x]) = Plus(lo[y], w)
      <4>1. lo[y] \in Int /\ b[y][i] \in Int /\ b[i][x] \in Int
        BY <2>3
      <4> QED BY <4>1, PlusAssociative, Zenon
    <3> HIDE DEF w
    <3> QED BY <2>1, <2>2, <3>1, <3>2, <3>3
  <2> HIDE DEF w
  <2>6. /\ Plus(lo[y], b[y][x]) <= Plus(lo[y], w)
        /\ Plus(lo[y], b[y][x]) \in Int /\ Plus(lo[y], w) \in Int
    BY <2>3, <2>4, PlusMonotone, PlusParts
  <2>7. /\ Plus(Plus(lo[y], b[y][x]), hi[x]) <= Plus(Plus(lo[y], w), hi[x])
        /\ Plus(Plus(lo[y], b[y][x]), hi[x]) \in Int
        /\ Plus(Plus(lo[y], w), hi[x]) \in Int
    BY <2>3, <2>6, PlusMonotone, PlusParts
  <2> QED BY <1>1, <2>5, <2>7
<1> DEFINE c == Joined(b, p, q)
<1>9. /\ Closed(c)
      /\ \A i, j \in Clock0 : /\ c[i][j] \in Int /\ c[i][j] <= b[i][j]
                              /\ c[i][j] <= Plus(p[i], q[j])
  BY <1>6, <1>7, <1>8, JoinedClosed
<1> HIDE DEF c
<1>10. ASSUME NEW x \in X, NEW y \in Clock0
       PROVE  c[x][y] <= Plus(hi[x], lo[y])
  <2>1. /\ p[x] <= Plus(LE_ZERO, hi[x]) /\ q[y] <= Plus(lo[y], LE_ZERO)
        /\ hi[x] \in Int /\ lo[y] \in Int /\ p[x] \in Int /\ q[y] \in Int
    <3>1. x \in Clock0 /\ p[x] <= above[x][x] /\ q[y] <= below[y][y]
      BY <1>4, <1>5
    <3>2. above[x][x] = Plus(b[x][x], hi[x]) /\ below[y][y] = Plus(lo[y], b[y][y])
      BY <1>3, <3>1
    <3>3. b[x][x] = LE_ZERO /\ b[y][y] = LE_ZERO
      BY <1>1, <3>1
    <3> QED BY <1>1, <3>1, <3>2, <3>3
  <2>2. Plus(LE_ZERO, hi[x]) = hi[x] /\ Plus(lo[y], LE_ZERO) = lo[y]
    BY <1>1, <2>1, PlusAlgebra
  <2>3. Plus(p[x], q[y]) <= Plus(hi[x], q[y]) /\ Plus(hi[x], q[y]) <= Plus(hi[x], lo[y])
    BY <2>1, <2>2, PlusMonotone
  <2>4. /\ Plus(p[x], q[y]) \in Int /\ Plus(hi[x], q[y]) \in Int
        /\ Plus(hi[x], lo[y]) \in Int
    BY <2>1, PlusParts
  <2> QED BY <1>9, <2>3, <2>4
<1>11. \A x \in X : c[x][0] <= hi[x]
  <2> SUFFICES ASSUME NEW x \in X PROVE c[x][0] <= hi[x]
    OBVIOUS
  <2>1. Plus(hi[x], LE_ZERO) = hi[x]
    BY <1>1, PlusAlgebra
  <2> QED BY <1>1, <1>10, <2>1
<1>12. \A y \in Clock0 : c[0][y] <= lo[y]
  <2> SUFFICES ASSUME NEW y \in Clock0 PROVE c[0][y] <= lo[y]
    OBVIOUS
  <2>1. Plus(LE_ZERO, lo[y]) = lo[y]
    BY <1>1, PlusAlgebra
  <2> QED BY <1>1, <1>10, <2>1
<1> QED BY <1>9, <1>11, <1>12

-----------------------------------------------------------------------------
(* Simulation.  A valuation is in a_LU of a zone if no bound of the zone,   *)
(* taken alone, excludes all the valuations that simulate it.               *)

(* The value w of clock x passes every guard that v passes, now or after a  *)
(* delay.                                                                   *)
Simulates(v, w, l, u, x) ==
  /\ v[x] > Unit * BoundOf(u, x) \/ w <= v[x]
  /\ IF v[x] > Unit * BoundOf(l, x) THEN w > Unit * BoundOf(l, x) ELSE w >= v[x]

(* Maps of bounds, the one of lower bounds and the one of upper bounds.     *)
Maps(l, u) == \A x \in Clock0 : BoundOf(l, x) \in Int /\ BoundOf(u, x) \in Int

(* A natural value is above a bound, and above none. *)
LEMMA AboveBound ==
  ASSUME NEW w \in Nat, NEW b \in Int
  PROVE  Above(w, b) <=> w > Unit * b
<1>1. CASE b = NoBound
  <2>1. b < 0
    BY <1>1, InfValueAssumption DEF NoBound, MINUS_INF_VALUE
  <2>2. Unit * b <= -Unit /\ Unit * b \in Int /\ Unit \in Nat \ {0}
    BY <2>1, Product, GridAssumption
  <2> QED BY <1>1, <2>2 DEF Above
<1>2. CASE b # NoBound
  BY <1>2 DEF Above
<1> QED BY <1>1, <1>2

(* The simulating values of a clock. *)
LEMMA SimulatorCases ==
  ASSUME NEW v \in Valuation, NEW l, NEW u, Maps(l, u), NEW x \in Clock, NEW w \in Nat
  PROVE  w \in Simulators(v, x, l, u)
           <=> w \in Fine \cup {v[x]} /\ Simulates(v, w, l, u, x)
<1>1. x \in Clock0 /\ x # 0 /\ v[x] \in Nat
  BY Clocks, ValuationType DEF Clock
<1>2. BoundOf(l, x) = l[x] /\ BoundOf(u, x) = u[x] /\ l[x] \in Int /\ u[x] \in Int
  BY <1>1 DEF BoundOf, Maps
<1>3. /\ Above(w, l[x]) <=> w > Unit * l[x]
      /\ Above(v[x], u[x]) <=> v[x] > Unit * u[x]
  BY <1>1, <1>2, AboveBound
<1>4. Unit * l[x] \in Int /\ Unit * u[x] \in Int
  BY <1>2, GridAssumption, Product
<1>5. w \in Simulators(v, x, l, u)
        <=> /\ w \in Fine \cup {v[x]}
            /\ \/ w = v[x]
               \/ w < v[x] /\ w > Unit * l[x]
               \/ w > v[x] /\ v[x] > Unit * u[x]
  BY <1>3 DEF Simulators
<1>6. Simulates(v, w, l, u, x)
        <=> /\ v[x] > Unit * u[x] \/ w <= v[x]
            /\ IF v[x] > Unit * l[x] THEN w > Unit * l[x] ELSE w >= v[x]
  BY <1>2 DEF Simulates
<1> HIDE DEF Simulates
<1> QED BY <1>1, <1>4, <1>5, <1>6

(* The bound e of y - x does not keep the valuations of a zone from         *)
(* simulating v.                                                            *)
Allows(v, e, l, u, x, y) ==
  \/ v[x] > Unit * BoundOf(u, x)
  \/ e[y][x] = LT_INFINITY
  \/ IF v[y] > Unit * BoundOf(l, y)
     THEN Unit * BoundOf(l, y) - v[x] < Unit * Value(e[y][x])
     ELSE v[y] - v[x] < Grid(e[y][x])

(* No bound of the zone of a simulating valuation does. *)
LEMMA SimulatedAllowed ==
  ASSUME NEW v \in Valuation, NEW e \in Matrix, NEW l, NEW u, Maps(l, u),
         NEW w \in [Clock0 -> Int], w[0] = 0, In(w, e),
         \A x \in Clock : Simulates(v, w[x], l, u, x),
         NEW x \in Clock0, NEW y \in Clock0
  PROVE  Allows(v, e, l, u, x, y)
<1> SUFFICES ASSUME ~(v[x] > Unit * BoundOf(u, x)), e[y][x] # LT_INFINITY
             PROVE  IF v[y] > Unit * BoundOf(l, y)
                    THEN Unit * BoundOf(l, y) - v[x] < Unit * Value(e[y][x])
                    ELSE v[y] - v[x] < Grid(e[y][x])
  BY DEF Allows
<1>1. /\ v[0] = 0 /\ 0 \in Clock0 /\ BoundOf(l, 0) = 0 /\ BoundOf(u, 0) = 0
      /\ \A i \in Clock0 : v[i] \in Int /\ w[i] \in Int
  BY Clocks, ValuationType DEF BoundOf
<1>2. \A i \in Clock0 : Simulates(v, w[i], l, u, i)
  <2>1. Simulates(v, w[0], l, u, 0)
    <3>1. Unit * 0 = 0
      BY GridAssumption
    <3> QED BY <1>1, <3>1 DEF Simulates
  <2> QED BY <2>1, Clocks
<1>3. w[x] <= v[x]
  BY <1>2 DEF Simulates
<1>4. w[y] - w[x] < Grid(e[y][x])
  BY MeetsGrid DEF In
<1>5. /\ Grid(e[y][x]) = Unit * Value(e[y][x]) + Comparator(e[y][x])
      /\ Unit * Value(e[y][x]) \in Int /\ Comparator(e[y][x]) \in {0, 1}
      /\ Unit * BoundOf(l, y) \in Int
  <2>1. e[y][x] \in Int /\ BoundOf(l, y) \in Int
    BY DEF Matrix, Maps
  <2>2. Value(e[y][x]) \in Int /\ Comparator(e[y][x]) \in {0, 1}
    BY <2>1, BoundParts
  <2> QED BY <2>1, <2>2, GridAssumption, Product DEF Grid
<1>6. CASE v[y] > Unit * BoundOf(l, y)
  <2>1. w[y] > Unit * BoundOf(l, y)
    BY <1>2, <1>6 DEF Simulates
  <2> QED BY <1>1, <1>3, <1>4, <1>5, <1>6, <2>1
<1>7. CASE ~(v[y] > Unit * BoundOf(l, y))
  <2>1. w[y] >= v[y]
    BY <1>2, <1>7 DEF Simulates
  <2> QED BY <1>1, <1>3, <1>4, <1>5, <1>7, <2>1
<1> QED BY <1>6, <1>7

(* The grid on which witnesses are looked for is finer than the one of the  *)
(* values at which zones are compared, with steps enough for the clocks     *)
(* between two of them, and reaches beyond them by the bounds of a stored   *)
(* matrix.                                                                  *)
Witnessing(unit, coarse, fine) ==
  \E s, k \in 1 .. unit :
    /\ unit = s * k /\ s >= Dim
    /\ \A c \in coarse :
         /\ \E n \in 0 .. c : c = s * n
         /\ 0 .. c + unit * (2 * MaxBound + 1) \subseteq fine

GridWitnesses == Witnessing(Unit, Coarse, Fine)

(* Whatever the number of clocks and the constants are, there are grids     *)
(* that the operations, the comparisons and the search for witnesses have   *)
(* room on: the assumptions of the theorems below can be met.               *)
LEMMA GridsExist ==
  \E unit \in Nat \ {0} : \E coarse, fine \in SUBSET Nat :
    /\ unit % 2 = 0
    /\ \A c \in coarse : c % 2 = 0 /\ 0 .. c + unit * MaxBound + 1 \subseteq fine
    /\ Comparing(unit, coarse)
    /\ Witnessing(unit, coarse, fine)
<1> DEFINE s == 2 * Dim
           unit == s * Dim
           coarse == {s * n : n \in 0 .. Dim * (5 * MaxBound + 1)}
<1>1. Dim \in Nat \ {0} /\ MaxBound \in Nat
  BY DimAssumption, Sizes
<1>2. s \in Nat \ {0} /\ s >= Dim /\ s % 2 = 0
  BY <1>1
<1> HIDE DEF s
<1>3. unit \in Nat \ {0} /\ s <= unit /\ Dim <= unit
  BY <1>1, <1>2, SMT
<1>4. unit % 2 = 0
  <2>1. PICK h \in Nat : s = 2 * h
    BY <1>1 DEF s
  <2>2. unit = 2 * (h * Dim) /\ h * Dim \in Nat
    BY <1>1, <2>1, SMT
  <2> HIDE DEF unit
  <2>3. \A t \in Nat : (2 * t) % 2 = 0
    OBVIOUS
  <2> QED BY <2>2, <2>3
<1>5. ASSUME NEW c \in coarse
      PROVE  /\ c \in Nat /\ c % 2 = 0 /\ \E n \in 0 .. c : c = s * n
  <2>1. PICK n \in 0 .. Dim * (5 * MaxBound + 1) : c = s * n
    OBVIOUS
  <2>2. n \in Nat
    <3>1. Dim * (5 * MaxBound + 1) \in Int
      BY <1>1, SMT
    <3> QED BY <3>1
  <2>3. s * n \in Nat /\ n <= s * n
    BY <1>2, <2>2, SMT
  <2>4. (s * n) % 2 = 0
    <3>1. PICK h \in Nat : s = 2 * h
      BY <1>1 DEF s
    <3>2. s * n = 2 * (h * n) /\ h * n \in Nat
      BY <2>2, <3>1, SMT
    <3>3. \A t \in Nat : (2 * t) % 2 = 0
      OBVIOUS
    <3> QED BY <3>2, <3>3
  <2> QED BY <2>1, <2>2, <2>3, <2>4
<1>6. Comparing(unit, coarse)
  <2>1. s \in 1 .. unit /\ Dim \in 1 .. unit
    BY <1>1, <1>2, <1>3
  <2>2. unit = s * Dim /\ Dim >= Dim
    BY <1>1
  <2>3. {s * n : n \in 0 .. Dim * (5 * MaxBound + 1)} \subseteq coarse
    BY Zenon
  <2> HIDE DEF unit, coarse
  <2> QED BY <2>1, <2>2, <2>3, Zenon DEF Comparing
<1> HIDE DEF unit, coarse
<1>7. ASSUME NEW c \in coarse
      PROVE  c + unit * MaxBound + 1 \in Nat /\ c + unit * (2 * MaxBound + 1) \in Nat
  BY <1>1, <1>3, <1>5, SMT
<1>8. coarse \in SUBSET Nat /\ \A c \in coarse : 0 .. c + unit * MaxBound + 1 \subseteq Nat
  BY <1>5
<1>9. Witnessing(unit, coarse, Nat)
  <2>1. s \in 1 .. unit /\ Dim \in 1 .. unit
    BY <1>1, <1>2, <1>3
  <2>2. unit = s * Dim /\ Dim >= 1
    BY <1>1 DEF unit
  <2>3. \A c \in coarse : /\ \E n \in 0 .. c : c = s * n
                          /\ 0 .. c + unit * (2 * MaxBound + 1) \subseteq Nat
    BY <1>5
  <2> QED BY <1>2, <2>1, <2>2, <2>3 DEF Witnessing
<1> QED BY <1>3, <1>4, <1>5, <1>6, <1>8, <1>9

(* A multiple of a step is below a step's part if the factor is not above. *)
LEMMA StepsBelow ==
  ASSUME NEW s \in Nat \ {0}, NEW n \in Int, NEW c \in {0, 1}, s * n < c
  PROVE  n < c
<1>1. s * n \in Int
  BY Product
<1>2. CASE n >= 1
  <2>1. 0 < n /\ s * 0 + s <= s * n
    BY <1>2, Product
  <2>2. s * 0 = 0
    OBVIOUS
  <2> QED BY <1>1, <2>1, <2>2
<1>3. CASE n = 0
  <2>1. s * n = 0
    BY <1>3
  <2> QED BY <1>3, <2>1
<1> QED BY <1>2, <1>3

(* The bound from below on the values of clock y that simulate v[y] = s * n. *)
Lowest(v, l, y, k, n) ==
  IF v[y] > Unit * BoundOf(l, y) THEN Db(LT, -(k * BoundOf(l, y))) ELSE Db(LE, -n)

(* That bound. *)
LEMMA LowestParts ==
  ASSUME NEW v \in Valuation, NEW l, NEW y \in Clock0, BoundOf(l, y) \in Int,
         NEW s \in Nat \ {0}, NEW k \in Nat \ {0}, Unit = s * k, NEW n \in Nat, v[y] = s * n
  PROVE  /\ k * BoundOf(l, y) \in Int /\ Unit * BoundOf(l, y) = s * (k * BoundOf(l, y))
         /\ Lowest(v, l, y, k, n) \in Int /\ Value(Lowest(v, l, y, k, n)) >= -n
         /\ v[y] > Unit * BoundOf(l, y) =>
              /\ Value(Lowest(v, l, y, k, n)) = -(k * BoundOf(l, y))
              /\ Comparator(Lowest(v, l, y, k, n)) = 0
         /\ ~(v[y] > Unit * BoundOf(l, y)) =>
              Value(Lowest(v, l, y, k, n)) = -n /\ Comparator(Lowest(v, l, y, k, n)) = 1
<1> DEFINE b == BoundOf(l, y)
           p == k * b
           f == Lowest(v, l, y, k, n)
<1>1. b \in Int /\ p \in Int
  BY Product
<1>2. Unit * b = s * p
  <2>1. (s * k) * b = s * (k * b)
    BY <1>1, SMT
  <2> QED BY <2>1
<1>3. LT = 0 /\ LE = 1 /\ f = IF v[y] > Unit * b THEN Db(LT, -p) ELSE Db(LE, -n)
  BY DEF LT, LE, Lowest
<1> HIDE DEF b, p, f
<1>4. CASE v[y] > Unit * b
  <2>1. f = Db(0, -p) /\ -p \in Int
    BY <1>1, <1>3, <1>4
  <2>2. f \in Int /\ Value(f) = -p /\ Comparator(f) = 0
    BY <2>1, DbParts
  <2>3. n > p
    <3>1. s * p < s * n
      BY <1>2, <1>4
    <3>2. s * (p - n) < 0
      <4>1. s * (p - n) = s * p - s * n /\ s * p \in Int /\ s * n \in Int
        BY <1>1, SMT
      <4> QED BY <3>1, <4>1
    <3>3. p - n < 0
      BY <1>1, <3>2, StepsBelow
    <3> QED BY <1>1, <3>3
  <2>4. Value(f) >= -n
    BY <1>1, <2>2, <2>3
  <2> QED BY <1>1, <1>2, <1>4, <2>2, <2>4 DEF b, p, f
<1>5. CASE ~(v[y] > Unit * b)
  <2>1. f = Db(1, -n) /\ -n \in Int
    BY <1>3, <1>5
  <2>2. f \in Int /\ Value(f) = -n /\ Comparator(f) = 1
    BY <2>1, DbParts
  <2>3. Value(f) >= -n
    BY <2>2
  <2> QED BY <1>1, <1>2, <1>5, <2>2, <2>3 DEF b, p, f
<1> QED BY <1>4, <1>5

(* A stored matrix, whose bounds allow v to be simulated, where v is at the *)
(* multiples a of the step s of the grid.                                   *)
Allowed(v, a, s, k, e, l, u) ==
  /\ v \in Valuation /\ a \in [Clock0 -> Nat] /\ s \in Nat \ {0} /\ k \in Nat \ {0}
  /\ Unit = s * k /\ \A i \in Clock0 : v[i] = s * a[i]
  /\ e \in Matrix /\ Within(e, 2 * MaxBound) /\ NormalForm(e)
  /\ Maps(l, u) /\ \A x, y \in Clock0 : Allows(v, e, l, u, x, y)

(* Its entries in steps, and those of its first row. *)
LEMMA AllowedEntries ==
  ASSUME NEW v, NEW a, NEW s, NEW k, NEW e, NEW l, NEW u, Allowed(v, a, s, k, e, l, u)
  PROVE  /\ a[0] = 0 /\ v[0] = 0
         /\ \A i \in Clock0 : v[i] \in Int /\ a[i] \in Nat /\ v[i] = s * a[i]
         /\ \A i, j \in Clock0 :
              /\ e[i][j] \in Int /\ Value(e[i][j]) \in Int /\ Comparator(e[i][j]) \in {0, 1}
              /\ k * Value(e[i][j]) \in Int
              /\ Unit * Value(e[i][j]) = s * (k * Value(e[i][j]))
              /\ Scaled(e, k)[i][j] \in Int
              /\ Value(Scaled(e, k)[i][j]) = k * Value(e[i][j])
              /\ Comparator(Scaled(e, k)[i][j]) = Comparator(e[i][j])
         /\ \A i \in Clock0 : /\ Finite(e[0][i]) /\ Value(e[0][i]) \in -(2 * MaxBound) .. 0
                              /\ k * Value(e[0][i]) <= 0
<1>1. /\ v \in Valuation /\ a \in [Clock0 -> Nat] /\ s \in Nat \ {0} /\ k \in Nat \ {0}
      /\ Unit = s * k /\ \A i \in Clock0 : v[i] = s * a[i]
      /\ e \in Matrix /\ Within(e, 2 * MaxBound) /\ NormalForm(e)
  BY DEF Allowed
<1>2. v[0] = 0 /\ 0 \in Clock0 /\ \A i \in Clock0 : v[i] \in Int
  BY <1>1, ValuationType, Clocks
<1>3. a[0] = 0
  <2>1. s * a[0] < 1 /\ a[0] \in Nat
    BY <1>1, <1>2
  <2>2. a[0] < 1
    BY <1>1, <2>1, StepsBelow
  <2> QED BY <2>1, <2>2
<1>4. ASSUME NEW i \in Clock0, NEW j \in Clock0
      PROVE  /\ e[i][j] \in Int /\ Value(e[i][j]) \in Int /\ Comparator(e[i][j]) \in {0, 1}
             /\ k * Value(e[i][j]) \in Int
             /\ Unit * Value(e[i][j]) = s * (k * Value(e[i][j]))
             /\ Scaled(e, k)[i][j] \in Int
             /\ Value(Scaled(e, k)[i][j]) = k * Value(e[i][j])
             /\ Comparator(Scaled(e, k)[i][j]) = Comparator(e[i][j])
  <2>1. /\ e[i][j] \in Int /\ Value(e[i][j]) \in Int
        /\ Scaled(e, k)[i][j] \in Int
        /\ Value(Scaled(e, k)[i][j]) = k * Value(e[i][j])
        /\ Comparator(Scaled(e, k)[i][j]) = Comparator(e[i][j])
    BY <1>1, ScaledParts
  <2>2. Comparator(e[i][j]) \in {0, 1}
    BY <2>1, BoundParts
  <2>3. k * Value(e[i][j]) \in Int
    BY <1>1, <2>1, Product
  <2>4. Unit * Value(e[i][j]) = s * (k * Value(e[i][j]))
    <3> DEFINE b == Value(e[i][j])
    <3>1. b \in Int
      BY <2>1
    <3> HIDE DEF b
    <3>2. (s * k) * b = s * (k * b)
      BY <1>1, <3>1, SMT
    <3>3. Unit * b = s * (k * b)
      BY <1>1, <3>2
    <3> QED BY <3>3 DEF b
  <2> QED BY <2>1, <2>2, <2>3, <2>4
<1>5. ASSUME NEW i \in Clock0
      PROVE  /\ Finite(e[0][i]) /\ Value(e[0][i]) \in -(2 * MaxBound) .. 0
             /\ k * Value(e[0][i]) <= 0
  <2>1. e[0][i] \in Int /\ Finite(e[0][i]) /\ e[0][i] <= LE_ZERO /\ LE_ZERO \in Int
    BY <1>1, <1>2, PositiveEntry, SpecialBounds DEF NormalForm, IsPositive
  <2>2. Value(e[0][i]) <= 0
    BY <2>1, ValueOrder, SpecialBounds
  <2>3. Value(e[0][i]) \in -(2 * MaxBound) .. 2 * MaxBound
    BY <1>1, <1>2, <2>1 DEF Within, Finite
  <2>4. k * Value(e[0][i]) <= 0
    <3>1. CASE Value(e[0][i]) = 0
      BY <1>1, <3>1
    <3>2. CASE Value(e[0][i]) < 0
      <4>1. k * Value(e[0][i]) <= -k /\ k * Value(e[0][i]) \in Int
        BY <1>1, <2>3, <3>2, Sizes, Product
      <4> QED BY <1>1, <4>1
    <3> QED BY <2>2, <2>3, <3>1, <3>2
  <2> QED BY <2>1, <2>2, <2>3, <2>4, Sizes
<1> QED BY <1>1, <1>2, <1>3, <1>4, <1>5

(* No cycle through the bounds from below and from above on the simulating  *)
(* values of two clocks, and a bound of the matrix, is negative.            *)
LEMMA AllowedCycle ==
  ASSUME NEW v, NEW a, NEW s, NEW k, NEW e, NEW l, NEW u, Allowed(v, a, s, k, e, l, u),
         NEW x \in Clock0, ~(v[x] > Unit * BoundOf(u, x)), NEW y \in Clock0,
         Finite(e[y][x])
  PROVE  /\ Value(Lowest(v, l, y, k, a[y])) + k * Value(e[y][x]) + a[x] >= 0
         /\ Value(Lowest(v, l, y, k, a[y])) + k * Value(e[y][x]) + a[x] = 0 =>
              Comparator(Lowest(v, l, y, k, a[y])) = 1 /\ Comparator(e[y][x]) = 1
<1> DEFINE low == Lowest(v, l, y, k, a[y])
           b == BoundOf(l, y)
           p == k * b
           q == k * Value(e[y][x])
           c == Comparator(e[y][x])
<1>1. /\ v \in Valuation /\ s \in Nat \ {0} /\ k \in Nat \ {0} /\ Unit = s * k
      /\ Allows(v, e, l, u, x, y) /\ Maps(l, u)
  BY DEF Allowed
<1>2. /\ v[x] \in Int /\ v[y] \in Int /\ a[x] \in Nat /\ a[y] \in Nat
      /\ v[x] = s * a[x] /\ v[y] = s * a[y]
      /\ c \in {0, 1} /\ q \in Int /\ Unit * Value(e[y][x]) = s * q
  BY AllowedEntries
<1>3. /\ p \in Int /\ Unit * b = s * p /\ low \in Int
      /\ v[y] > Unit * b => Value(low) = -p /\ Comparator(low) = 0
      /\ ~(v[y] > Unit * b) => Value(low) = -a[y] /\ Comparator(low) = 1
  <2>1. b \in Int
    BY <1>1 DEF Maps
  <2> QED BY <1>1, <1>2, <2>1, LowestParts
<1>4. IF v[y] > Unit * b THEN Unit * b - v[x] < s * q ELSE v[y] - v[x] < s * q + c
  BY <1>1, <1>2 DEF Allows, Grid, Finite
<1> HIDE DEF low, b, p, q, c
<1>5. s * p \in Int /\ s * q \in Int /\ s * a[x] \in Int /\ s * a[y] \in Int
  BY <1>1, <1>2, <1>3, Product
<1>6. CASE v[y] > Unit * b
  <2>1. s * (p - a[x] - q) < 0
    <3>1. s * (p - a[x] - q) = s * p - s * a[x] - s * q
      BY <1>1, <1>2, <1>3, SMT
    <3>2. s * p - s * a[x] < s * q
      BY <1>2, <1>3, <1>4, <1>6
    <3> QED BY <1>5, <3>1, <3>2
  <2>2. p - a[x] - q < 0
    BY <1>1, <1>2, <1>3, <2>1, StepsBelow
  <2>3. Value(low) + q + a[x] > 0
    BY <1>2, <1>3, <1>6, <2>2
  <2> QED BY <1>2, <1>3, <1>6, <2>3 DEF low, q, c
<1>7. CASE ~(v[y] > Unit * b)
  <2>1. s * (a[y] - a[x] - q) < c
    <3>1. s * (a[y] - a[x] - q) = s * a[y] - s * a[x] - s * q
      BY <1>1, <1>2, SMT
    <3>2. s * a[y] - s * a[x] < s * q + c
      BY <1>2, <1>4, <1>7
    <3> QED BY <1>2, <1>5, <3>1, <3>2
  <2>2. a[y] - a[x] - q < c
    BY <1>1, <1>2, <2>1, StepsBelow
  <2>3. Value(low) = -a[y] /\ Comparator(low) = 1
    BY <1>3, <1>7
  <2>4. /\ Value(low) + q + a[x] >= 0
        /\ Value(low) + q + a[x] = 0 => c = 1
    BY <1>2, <2>2, <2>3
  <2> QED BY <2>3, <2>4 DEF low, q, c
<1> QED BY <1>6, <1>7

(* Nor is it when the infinite entries of the matrix are bounded by a       *)
(* distance c above all of the clocks.                                      *)
LEMMA AllowedPaths ==
  ASSUME NEW v, NEW a, NEW s, NEW k, NEW e, NEW l, NEW u, Allowed(v, a, s, k, e, l, u),
         NEW fin, ClosedWhere(e, fin), \A i, j \in Clock0 : <<i, j>> \in fin <=> Finite(e[i][j]),
         NEW c \in Nat \ {0}, \A i \in Clock0 : a[i] < c,
         NEW x \in Clock0, ~(v[x] > Unit * BoundOf(u, x)), NEW y \in Clock0
  PROVE  LE_ZERO <= Plus(Plus(Lowest(v, l, y, k, a[y]), Capped(Scaled(e, k), fin, c)[y][x]),
                         Db(LE, a[x]))
<1> DEFINE low == Lowest(v, l, y, k, a[y])
           g == Scaled(e, k)
           b == Capped(g, fin, c)
           high == Db(LE, a[x])
<1>1. /\ v \in Valuation /\ s \in Nat \ {0} /\ k \in Nat \ {0} /\ Unit = s * k
      /\ BoundOf(l, y) \in Int /\ BoundOf(l, 0) = 0 /\ 0 \in Clock0
  BY Clocks DEF Allowed, Maps, BoundOf
<1>2. /\ v[y] \in Int /\ v[y] = s * a[y] /\ a[x] \in Nat /\ a[y] \in Nat /\ a[0] = 0
      /\ v[0] = 0
      /\ \A i, j \in Clock0 : /\ g[i][j] \in Int /\ Value(g[i][j]) = k * Value(e[i][j])
                              /\ Comparator(g[i][j]) = Comparator(e[i][j])
                              /\ Comparator(e[i][j]) \in {0, 1}
                              /\ k * Value(e[i][j]) \in Int
      /\ \A i \in Clock0 : Finite(e[0][i]) /\ k * Value(e[0][i]) <= 0
  BY AllowedEntries
<1>3. low \in Int /\ Value(low) >= -a[y]
  BY <1>1, <1>2, LowestParts
<1>4. high \in Int /\ Value(high) = a[x] /\ Comparator(high) = 1
  BY <1>2, DbParts DEF LE
<1>5. ClosedWhere(g, fin) /\ g \in Matrix
  BY <1>1, ScaledClosed DEF ClosedWhere
<1> HIDE DEF low, high, g
<1>6. /\ b[y][x] \in Int
      /\ \/ b[y][x] = Cap(g, c, y, x)
         \/ <<y, x>> \in fin /\ b[y][x] = g[y][x]
  BY <1>5, CappedClosed
<1> HIDE DEF b
<1>7. /\ Value(low) \in Int /\ Comparator(low) \in {0, 1}
      /\ Value(b[y][x]) \in Int /\ Comparator(b[y][x]) \in {0, 1}
      /\ LE_ZERO \in Int /\ Value(LE_ZERO) = 0 /\ Comparator(LE_ZERO) = 1
  BY <1>3, <1>6, BoundParts, SpecialBounds
<1> DEFINE m == Plus(low, b[y][x])
           n == Plus(m, high)
<1>8. /\ m \in Int /\ Value(m) = Value(low) + Value(b[y][x])
      /\ Comparator(m) = LeastBound(Comparator(low), Comparator(b[y][x]))
  BY <1>3, <1>6, PlusParts
<1> HIDE DEF m
<1>9. /\ n \in Int /\ Value(n) = Value(m) + a[x]
      /\ Comparator(n) = LeastBound(Comparator(m), 1)
  BY <1>4, <1>8, PlusParts
<1> HIDE DEF n
<1>10. \/ Value(n) > 0
       \/ Value(n) = 0 /\ Comparator(n) = 1
  <2>1. CASE b[y][x] = Cap(g, c, y, x)
    <3>1. Value(b[y][x]) = c + k * Value(e[0][x]) - k * Value(e[0][y])
      <4>1. Value(Cap(g, c, y, x)) = c + Value(g[0][x]) - Value(g[0][y])
        BY <1>5, CapParts
      <4> QED BY <1>1, <1>2, <2>1, <4>1
    <3>2. k * Value(e[0][x]) + a[x] >= 0
      <4>1. Value(Lowest(v, l, 0, k, a[0])) + k * Value(e[0][x]) + a[x] >= 0
        BY <1>1, <1>2, AllowedCycle
      <4>2. ~(v[0] > Unit * BoundOf(l, 0))
        <5>1. Unit * 0 = 0
          BY GridAssumption
        <5> QED BY <1>1, <1>2, <5>1
      <4>3. Value(Lowest(v, l, 0, k, a[0])) = 0
        <5>1. Value(Lowest(v, l, 0, k, a[0])) = -a[0]
          <6>1. a[0] \in Nat /\ v[0] = s * a[0]
            BY <1>1, AllowedEntries
          <6> QED BY <1>1, <4>2, <6>1, LowestParts
        <5> QED BY <1>2, <5>1
      <4> QED BY <1>1, <1>2, <4>1, <4>3
    <3>3. a[y] < c /\ k * Value(e[0][y]) <= 0 /\ k * Value(e[0][x]) \in Int
          /\ k * Value(e[0][y]) \in Int
      BY <1>1, <1>2
    <3>4. Value(n) > 0
      BY <1>2, <1>3, <1>7, <1>8, <1>9, <3>1, <3>2, <3>3
    <3> QED BY <3>4
  <2>2. CASE <<y, x>> \in fin /\ b[y][x] = g[y][x]
    <3>1. /\ Value(low) + k * Value(e[y][x]) + a[x] >= 0
          /\ Value(low) + k * Value(e[y][x]) + a[x] = 0 =>
               Comparator(low) = 1 /\ Comparator(e[y][x]) = 1
      BY <2>2, AllowedCycle DEF low
    <3>2. Value(n) = Value(low) + k * Value(e[y][x]) + a[x]
      BY <1>2, <1>8, <1>9, <2>2
    <3>3. Comparator(low) = 1 /\ Comparator(e[y][x]) = 1 => Comparator(n) = 1
      BY <1>2, <1>8, <1>9, <2>2 DEF LeastBound
    <3>4. k * Value(e[y][x]) \in Int
      BY <1>2
    <3> QED BY <1>2, <1>7, <3>1, <3>2, <3>3, <3>4
  <2> QED BY <1>6, <2>1, <2>2
<1>11. LE_ZERO <= n
  BY <1>7, <1>9, <1>10, BoundOrder
<1> QED BY <1>11 DEF n, m, low, b, g, high

(* Products with a natural number keep the order of integers. *)
LEMMA ProductAtLeast ==
  ASSUME NEW u \in Nat, NEW n \in Int, NEW t \in Int, -n <= t
  PROVE  /\ u * (n + 1) = u * n + u
         /\ u * n \in Int /\ u * t \in Int /\ -(u * n) <= u * t
<1>1. u * n \in Int /\ u * t \in Int /\ u * (n + 1) = u * n + u
  BY SMT
<1>2. PICK p \in Nat : t = p - n
  <2>1. t + n \in Nat /\ t = (t + n) - n
    OBVIOUS
  <2> QED BY <2>1
<1>3. u * p \in Nat
  BY SMT
<1>4. u * t = u * p - u * n
  BY <1>2, SMT
<1> QED BY <1>1, <1>3, <1>4

(* A simulating valuation of the zone of e, up to the value max.            *)
Simulation(w, v, e, l, u, max) ==
  /\ w[0] = 0 /\ In(w, e)
  /\ \A x \in Clock0 : w[x] >= 0 /\ w[x] <= max /\ Simulates(v, w[x], l, u, x)

(* There is a simulating valuation, not far above the largest clock z of v. *)
LEMMA AllowedSimulation ==
  ASSUME NEW v, NEW a, NEW s, NEW k, NEW e, NEW l, NEW u, Allowed(v, a, s, k, e, l, u),
         s >= Dim, NEW z \in Clock0, \A i \in Clock0 : a[i] <= a[z]
  PROVE  \E w \in [Clock0 -> Int] :
           Simulation(w, v, e, l, u, v[z] + Unit * (2 * MaxBound + 1))
<1>1. /\ v \in Valuation /\ a \in [Clock0 -> Nat] /\ s \in Nat \ {0} /\ k \in Nat \ {0}
      /\ Unit = s * k /\ \A i \in Clock0 : v[i] = s * a[i]
      /\ e \in Matrix /\ Within(e, 2 * MaxBound) /\ NormalForm(e) /\ Maps(l, u)
  BY DEF Allowed
<1>2. /\ a[0] = 0 /\ v[0] = 0 /\ 0 \in Clock0
      /\ \A i \in Clock0 : v[i] \in Int /\ a[i] \in Nat
      /\ \A i, j \in Clock0 :
           /\ e[i][j] \in Int /\ Value(e[i][j]) \in Int
           /\ Comparator(e[i][j]) \in {0, 1}
           /\ k * Value(e[i][j]) \in Int
           /\ Unit * Value(e[i][j]) = s * (k * Value(e[i][j]))
           /\ Scaled(e, k)[i][j] \in Int
           /\ Value(Scaled(e, k)[i][j]) = k * Value(e[i][j])
           /\ Comparator(Scaled(e, k)[i][j]) = Comparator(e[i][j])
      /\ \A i \in Clock0 : Value(e[0][i]) \in -(2 * MaxBound) .. 0
  BY Clocks, AllowedEntries
<1> DEFINE c == a[z] + 1
           g == Scaled(e, k)
           fin == FiniteEntries(e)
           b == Capped(g, fin, c)
           X == {x \in Clock0 : ~(v[x] > Unit * BoundOf(u, x))}
           hi == [x \in Clock0 |-> Db(LE, a[x])]
           lo == [y \in Clock0 |-> Lowest(v, l, y, k, a[y])]
<1>3. c \in Nat \ {0} /\ \A i \in Clock0 : a[i] < c
  BY <1>2
<1>4. /\ ClosedWhere(e, fin)
      /\ \A i, j \in Clock0 : <<i, j>> \in fin <=> Finite(e[i][j])
  <2>1. 2 * MaxBound \in Nat /\ 2 * MaxBound < InfValue /\ 2 * (2 * MaxBound) < InfValue
    BY Sizes, FourSizes
  <2>2. UpTo(e, 2 * MaxBound)
    BY <1>1, <2>1, BoundedEntries
  <2> QED BY <1>1, <2>1, <2>2, NormalClosed
<1> HIDE DEF fin
<1>5. ClosedWhere(g, fin) /\ g \in Matrix
  <2>1. ClosedWhere(g, fin)
    BY <1>1, <1>4, ScaledClosed
  <2> HIDE DEF g
  <2> QED BY <2>1 DEF ClosedWhere
<1>6. \A x \in Clock0, y \in Clock0 :
        x \in X => LE_ZERO <= Plus(Plus(lo[y], b[y][x]), hi[x])
  <2> SUFFICES ASSUME NEW x \in Clock0, NEW y \in Clock0, x \in X
               PROVE  LE_ZERO <= Plus(Plus(lo[y], b[y][x]), hi[x])
    OBVIOUS
  <2>1. lo[y] = Lowest(v, l, y, k, a[y]) /\ hi[x] = Db(LE, a[x])
        /\ ~(v[x] > Unit * BoundOf(u, x))
    OBVIOUS
  <2> HIDE DEF lo, hi, X, c
  <2> QED BY <1>3, <1>4, <2>1, AllowedPaths
<1>7. ASSUME NEW y \in Clock0
      PROVE  /\ Unit * BoundOf(l, y) = s * (k * BoundOf(l, y)) /\ k * BoundOf(l, y) \in Int
             /\ hi[y] \in Int /\ Value(hi[y]) = a[y] /\ Comparator(hi[y]) = 1
             /\ lo[y] \in Int
             /\ v[y] > Unit * BoundOf(l, y) =>
                  Value(lo[y]) = -(k * BoundOf(l, y)) /\ Comparator(lo[y]) = 0
             /\ ~(v[y] > Unit * BoundOf(l, y)) =>
                  Value(lo[y]) = -a[y] /\ Comparator(lo[y]) = 1
  <2>1. BoundOf(l, y) \in Int /\ a[y] \in Nat /\ v[y] = s * a[y]
    BY <1>1, <1>2 DEF Maps
  <2>2. hi[y] = Db(1, a[y]) /\ lo[y] = Lowest(v, l, y, k, a[y])
    BY DEF LE
  <2>3. hi[y] \in Int /\ Value(hi[y]) = a[y] /\ Comparator(hi[y]) = 1
    BY <2>1, <2>2, DbParts
  <2> HIDE DEF hi, lo
  <2> QED BY <1>1, <2>1, <2>2, <2>3, LowestParts
<1>8. BoundOf(l, 0) = 0 /\ BoundOf(u, 0) = 0 /\ Unit * 0 = 0
  BY GridAssumption DEF BoundOf
<1>9. 0 \in X /\ X \in SUBSET Clock0
  BY <1>2, <1>8
<1>10. hi \in [Clock0 -> Int] /\ lo \in [Clock0 -> Int]
  <2>1. \A y \in Clock0 : Db(LE, a[y]) \in Int /\ Lowest(v, l, y, k, a[y]) \in Int
    BY <1>7
  <2> QED BY <2>1
<1>11. hi[0] = LE_ZERO /\ lo[0] = LE_ZERO
  <2>1. /\ hi[0] \in Int /\ Value(hi[0]) = 0 /\ Comparator(hi[0]) = 1
        /\ lo[0] \in Int /\ Value(lo[0]) = -a[0] /\ Comparator(lo[0]) = 1
    BY <1>2, <1>7, <1>8
  <2> HIDE DEF hi, lo
  <2>2. hi[0] = 2 * 0 + 1 /\ lo[0] = 2 * (-a[0]) + 1
    BY <2>1, BoundParts
  <2> QED BY <1>2, <2>2, SpecialBounds
<1>12. \A x \in Clock0 : x \in X <=> ~(v[x] > Unit * BoundOf(u, x))
  OBVIOUS
<1> HIDE DEF X, hi, lo, c, g
<1>13. /\ Closed(b)
       /\ \A i, j \in Clock0 : /\ b[i][j] \in Int /\ b[i][j] <= Cap(g, c, i, j)
                               /\ <<i, j>> \in fin => b[i][j] <= g[i][j]
  BY <1>3, <1>5, CappedClosed
<1> HIDE DEF b
<1>14. PICK d : /\ Closed(d) /\ \A i, j \in Clock0 : d[i][j] <= b[i][j]
                /\ \A x \in X : d[x][0] <= hi[x]
                /\ \A y \in Clock0 : d[0][y] <= lo[y]
  <2>1. \A x \in X, y \in Clock0 : LE_ZERO <= Plus(Plus(lo[y], b[y][x]), hi[x])
    BY <1>6, <1>9
  <2> QED BY <1>9, <1>10, <1>11, <1>13, <2>1, BoxClosed
<1>15. PICK w \in [Clock0 -> Int] :
         /\ w[0] = 0
         /\ \A i, j \in Clock0 : w[i] - w[j] < s * Value(d[i][j]) + Comparator(d[i][j])
  BY <1>1, <1>14, ClosedPoint
<1>16. \A i, j \in Clock0 : /\ d[i][j] \in Int /\ Value(d[i][j]) \in Int
                            /\ Comparator(d[i][j]) \in {0, 1}
                            /\ s * Value(d[i][j]) \in Int
  <2>1. \A i, j \in Clock0 : /\ d[i][j] \in Int /\ Value(d[i][j]) \in Int
                             /\ Comparator(d[i][j]) \in {0, 1}
    BY <1>14, BoundParts DEF Closed, Matrix
  <2> QED BY <1>1, <2>1, Product
<1>17. ASSUME NEW i \in Clock0, NEW j \in Clock0, NEW f \in Int, d[i][j] <= f
       PROVE  w[i] - w[j] < s * Value(f) + Comparator(f)
  <2>1. s * Value(d[i][j]) + Comparator(d[i][j]) <= s * Value(f) + Comparator(f)
    BY <1>1, <1>16, <1>17, StepMonotone
  <2>2. Value(f) \in Int /\ Comparator(f) \in {0, 1}
    BY BoundParts
  <2>3. s * Value(f) \in Int
    BY <1>1, <2>2, Product
  <2> QED BY <1>15, <1>16, <2>1, <2>2, <2>3
<1>18. In(w, e)
  <2> SUFFICES ASSUME NEW i \in Clock0, NEW j \in Clock0, Finite(e[i][j])
               PROVE  w[i] - w[j] < Grid(e[i][j])
    BY MeetsGrid DEF In, Finite
  <2>1. g[i][j] \in Int /\ Value(g[i][j]) = k * Value(e[i][j])
        /\ Comparator(g[i][j]) = Comparator(e[i][j])
    BY <1>2 DEF g
  <2>2. d[i][j] <= g[i][j]
    <3>1. d[i][j] <= b[i][j] /\ b[i][j] <= g[i][j] /\ b[i][j] \in Int /\ d[i][j] \in Int
      BY <1>4, <1>13, <1>14, <1>16
    <3> QED BY <2>1, <3>1
  <2>3. w[i] - w[j] < s * (k * Value(e[i][j])) + Comparator(e[i][j])
    BY <1>17, <2>1, <2>2
  <2> QED BY <1>2, <2>3 DEF Grid
<1>19. ASSUME NEW x \in Clock0
       PROVE  w[x] >= 0 /\ w[x] <= v[z] + Unit * (2 * MaxBound + 1)
  <2>1. w[x] >= 0
    <3>1. CASE x = 0
      BY <1>15, <3>1
    <3>2. CASE x # 0
      BY <1>1, <1>2, <1>15, <1>18, <3>2, Clocks, NonNegative DEF In
    <3> QED BY <3>1, <3>2
  <2> DEFINE f == Cap(g, c, x, 0)
             m == k * Value(e[0][x])
  <2>2. f \in Int /\ Comparator(f) = 0 /\ Value(f) = c - m
    <3>1. /\ f \in Int /\ Comparator(f) = 0
          /\ Value(f) = c + Value(g[0][0]) - Value(g[0][x])
      BY <1>2, <1>3, <1>5, CapParts
    <3>2. Value(g[0][0]) = k * Value(e[0][0]) /\ Value(g[0][x]) = m
      BY <1>2 DEF g
    <3>3. e[0][0] = LE_ZERO /\ Value(LE_ZERO) = 0 /\ k * 0 = 0
      BY <1>1, <1>2, SpecialBounds DEF NormalForm, IsConsistent
    <3>4. m \in Int /\ c \in Int
      BY <1>2, <1>3
    <3> HIDE DEF f, m
    <3> QED BY <3>1, <3>2, <3>3, <3>4
  <2>3. d[x][0] <= f
    <3> HIDE DEF f
    <3>1. d[x][0] <= b[x][0] /\ b[x][0] <= f /\ b[x][0] \in Int /\ d[x][0] \in Int
      BY <1>2, <1>13, <1>14, <1>16 DEF f
    <3> QED BY <2>2, <3>1
  <2> HIDE DEF f
  <2>4. w[x] - w[0] < s * Value(f) + Comparator(f)
    BY <1>2, <1>17, <2>2, <2>3
  <2>5. s * Value(f) = v[z] + s - Unit * Value(e[0][x])
    <3>1. m \in Int /\ s * m = Unit * Value(e[0][x])
      BY <1>2
    <3> HIDE DEF m
    <3>2. s * (c - m) = s * a[z] + s - s * m
      BY <1>1, <1>2, <3>1, SMT DEF c
    <3>3. v[z] = s * a[z]
      BY <1>1
    <3> QED BY <2>2, <3>1, <3>2, <3>3
  <2>6. Unit * (2 * MaxBound + 1) = Unit * (2 * MaxBound) + Unit
        /\ Unit * (2 * MaxBound) \in Int /\ Unit * Value(e[0][x]) \in Int
        /\ -(Unit * (2 * MaxBound)) <= Unit * Value(e[0][x])
    <3>1. /\ 2 * MaxBound \in Int /\ Value(e[0][x]) \in Int /\ Unit \in Nat
          /\ -(2 * MaxBound) <= Value(e[0][x])
      BY <1>2, Sizes, GridAssumption
    <3> QED BY <3>1, ProductAtLeast
  <2>7. s <= Unit
    BY <1>1, SMT
  <2> DEFINE p == Unit * (2 * MaxBound)
             q == Unit * Value(e[0][x])
             r == Unit * (2 * MaxBound + 1)
             t == s * Value(f)
  <2>8. /\ r = p + Unit /\ p \in Int /\ q \in Int /\ -p <= q
        /\ t = v[z] + s - q /\ w[x] - w[0] < t + 0 /\ w[0] = 0
        /\ w[x] \in Int /\ v[z] \in Int /\ s \in Int /\ Unit \in Int
    BY <1>1, <1>2, <1>15, <2>2, <2>4, <2>5, <2>6, GridAssumption
  <2> HIDE DEF p, q, r, t
  <2>9. w[x] <= v[z] + r
    BY <2>7, <2>8
  <2> QED BY <2>1, <2>9 DEF r
<1>20. ASSUME NEW x \in Clock0
       PROVE  Simulates(v, w[x], l, u, x)
  <2>1. v[x] > Unit * BoundOf(u, x) \/ w[x] <= v[x]
    <3> SUFFICES ASSUME ~(v[x] > Unit * BoundOf(u, x))
                 PROVE  w[x] <= v[x]
      OBVIOUS
    <3>1. d[x][0] <= hi[x] /\ hi[x] \in Int /\ Value(hi[x]) = a[x] /\ Comparator(hi[x]) = 1
      BY <1>7, <1>12, <1>14
    <3>2. w[x] - w[0] < s * a[x] + 1
      BY <1>2, <1>17, <3>1
    <3>3. v[x] = s * a[x] /\ v[x] \in Int /\ w[x] \in Int
      BY <1>1, <1>2
    <3> QED BY <1>15, <3>2, <3>3
  <2>2. d[0][x] <= lo[x] /\ lo[x] \in Int
    BY <1>7, <1>14
  <2>3. w[0] - w[x] < s * Value(lo[x]) + Comparator(lo[x])
    BY <1>2, <1>17, <2>2
  <2>4. CASE v[x] > Unit * BoundOf(l, x)
    <3> DEFINE p == k * BoundOf(l, x)
    <3>1. /\ Unit * BoundOf(l, x) = s * p /\ p \in Int
          /\ Value(lo[x]) = -p /\ Comparator(lo[x]) = 0
      BY <1>7, <2>4
    <3> HIDE DEF p
    <3>2. s * (-p) = -(s * p) /\ s * p \in Int
      BY <1>1, <3>1, SMT
    <3>3. w[x] > Unit * BoundOf(l, x)
      BY <1>15, <2>3, <3>1, <3>2
    <3> QED BY <2>1, <2>4, <3>3 DEF Simulates
  <2>5. CASE ~(v[x] > Unit * BoundOf(l, x))
    <3>1. Value(lo[x]) = -a[x] /\ Comparator(lo[x]) = 1
      BY <1>7, <2>5
    <3>2. s * (-a[x]) = -(s * a[x]) /\ v[x] = s * a[x] /\ v[x] \in Int
      BY <1>1, <1>2, SMT
    <3>3. w[x] >= v[x]
      BY <1>15, <2>3, <3>1, <3>2
    <3> QED BY <2>1, <2>5, <3>3 DEF Simulates
  <2> QED BY <2>4, <2>5
<1> QED BY <1>15, <1>18, <1>19, <1>20 DEF Simulation

(* A valuation is in a_LU of a zone if each bound of the zone allows it. *)
LEMMA ALUAllowed ==
  ASSUME GridWitnesses, NEW v \in Valuation,
         NEW e \in Matrix, Within(e, 2 * MaxBound), NormalForm(e),
         NEW l, NEW u, Maps(l, u)
  PROVE  InALU(v, e, l, u) <=> \A x, y \in Clock0 : Allows(v, e, l, u, x, y)
<1>1. /\ v \in [Clock0 -> Int] /\ v[0] = 0 /\ 0 \in Clock0
      /\ \A i \in Clock0 : v[i] \in Coarse /\ v[i] \in Nat
  BY ValuationType, Clocks
<1>2. InALU(v, e, l, u)
        <=> \/ In(v, e)
            \/ \E w \in [Clock0 -> Int] :
                 /\ w[0] = 0 /\ In(w, e)
                 /\ \A x \in Clock : w[x] \in Simulators(v, x, l, u)
  <2>1. IsConsistent(e)
    BY DEF NormalForm
  <2> QED BY <1>1, <2>1, ALUSimulated
<1>3. ASSUME In(v, e)
      PROVE  \A x, y \in Clock0 : Allows(v, e, l, u, x, y)
  <2>1. \A x \in Clock : Simulates(v, v[x], l, u, x)
    <3> SUFFICES ASSUME NEW x \in Clock PROVE Simulates(v, v[x], l, u, x)
      OBVIOUS
    <3>1. v[x] \in Int
      BY <1>1, Clocks
    <3> QED BY <3>1 DEF Simulates
  <2> QED BY <1>1, <1>3, <2>1, SimulatedAllowed
<1>4. ASSUME NEW w \in [Clock0 -> Int], w[0] = 0, In(w, e),
             \A x \in Clock : w[x] \in Simulators(v, x, l, u)
      PROVE  \A x, y \in Clock0 : Allows(v, e, l, u, x, y)
  <2>1. ASSUME NEW x \in Clock
        PROVE  Simulates(v, w[x], l, u, x)
    <3>1. x \in Clock0 /\ Meets(w, 0, x, e[0][x])
      BY <1>1, <1>4, Clocks DEF In
    <3>2. w[x] >= 0 /\ w[x] \in Int
      BY <1>4, <3>1, NonNegative
    <3>3. w[x] \in Nat /\ w[x] \in Simulators(v, x, l, u)
      BY <1>4, <3>2
    <3> QED BY <3>3, SimulatorCases
  <2> QED BY <1>4, <2>1, SimulatedAllowed
<1>5. ASSUME \A x, y \in Clock0 : Allows(v, e, l, u, x, y)
      PROVE  \E w \in [Clock0 -> Int] :
               /\ w[0] = 0 /\ In(w, e)
               /\ \A x \in Clock : w[x] \in Simulators(v, x, l, u)
  <2>1. PICK s \in 1 .. Unit, k \in 1 .. Unit :
          /\ Unit = s * k /\ s >= Dim
          /\ \A c \in Coarse :
               /\ \E n \in 0 .. c : c = s * n
               /\ 0 .. c + Unit * (2 * MaxBound + 1) \subseteq Fine
    BY DEF GridWitnesses, Witnessing
  <2>2. s \in Nat \ {0} /\ k \in Nat \ {0}
    <3>1. Unit \in Nat
      BY GridAssumption
    <3> QED BY <3>1
  <2> DEFINE steps(c) == CHOOSE n \in 0 .. c : c = s * n
             a == [i \in Clock0 |-> steps(v[i])]
  <2>3. \A i \in Clock0 : a[i] \in Nat /\ v[i] = s * a[i]
    <3> SUFFICES ASSUME NEW i \in Clock0 PROVE a[i] \in Nat /\ v[i] = s * a[i]
      OBVIOUS
    <3>1. \E n \in 0 .. v[i] : v[i] = s * n
      BY <1>1, <2>1
    <3>2. steps(v[i]) \in 0 .. v[i] /\ v[i] = s * steps(v[i])
      BY <3>1, Zenon
    <3> HIDE DEF steps
    <3>3. a[i] = steps(v[i])
      OBVIOUS
    <3> QED BY <1>1, <3>2, <3>3
  <2>4. a \in [Clock0 -> Nat]
    <3>1. a = [i \in Clock0 |-> a[i]]
      OBVIOUS
    <3> HIDE DEF a
    <3>2. [i \in Clock0 |-> a[i]] \in [Clock0 -> Nat]
      BY <2>3
    <3> QED BY <3>1, <3>2
  <2> HIDE DEF a
  <2>5. Allowed(v, a, s, k, e, l, u)
    BY <1>5, <2>1, <2>2, <2>3, <2>4 DEF Allowed
  <2>6. PICK z \in Clock0 : \A i \in Clock0 : a[i] <= a[z]
    <3>1. a \in [Clock0 -> Int] /\ Clock0 \in SUBSET Clock0 /\ Clock0 # {}
      BY <1>1, <2>4
    <3> QED BY <3>1, GreatestAt
  <2> DEFINE max == v[z] + Unit * (2 * MaxBound + 1)
  <2>7. PICK w \in [Clock0 -> Int] : Simulation(w, v, e, l, u, max)
    BY <2>1, <2>5, <2>6, AllowedSimulation
  <2>8. 0 .. max \subseteq Fine /\ max \in Int
    <3>1. Unit * (2 * MaxBound + 1) \in Int
      BY GridAssumption, Sizes, Product
    <3> QED BY <1>1, <2>1, <3>1
  <2> HIDE DEF max
  <2>9. ASSUME NEW x \in Clock
        PROVE  w[x] \in Simulators(v, x, l, u)
    <3>1. /\ x \in Clock0 /\ w[x] \in Int /\ w[x] >= 0 /\ w[x] <= max
          /\ Simulates(v, w[x], l, u, x)
      BY <2>7, Clocks DEF Simulation
    <3>2. w[x] \in Nat /\ w[x] \in Fine
      BY <2>8, <3>1
    <3> QED BY <3>1, <3>2, SimulatorCases
  <2> QED BY <2>7, <2>9 DEF Simulation
<1> QED BY <1>2, <1>3, <1>4, <1>5

-----------------------------------------------------------------------------
(* What is_alu_le looks for: clocks x and y whose bounds in the two zones   *)
(* show that the zone of d is not in a_LU of the one of e.                  *)
Apart(d, e, l, u, x, y) ==
  /\ x # y /\ BoundOf(u, x) # NoBound /\ BoundOf(l, y) # NoBound
  /\ d[0][x] >= Db(LE, -BoundOf(u, x))
  /\ e[y][x] < d[y][x]
  /\ Sum(e[y][x], Db(LT, -BoundOf(l, y))) < d[0][x]

(* A bound of x from below leaves room for one from above, in <=. *)
LEMMA RoomBelow ==
  ASSUME NEW b \in Int, NEW t \in Int
  PROVE  /\ Db(LE, t) \in Int /\ Grid(Db(LE, t)) = Unit * t + 1 /\ Unit * t \in Int
         /\ Db(LE, -t) <= b <=> LE_ZERO <= Plus(b, Db(LE, t))
         /\ Db(LT, -t) < b <=> Db(LE, -t) <= b
         /\ Unit * (-t) = -(Unit * t)
<1>1. /\ Db(LE, t) \in Int /\ Value(Db(LE, t)) = t /\ Comparator(Db(LE, t)) = 1
      /\ Db(LE, -t) \in Int /\ Value(Db(LE, -t)) = -t /\ Comparator(Db(LE, -t)) = 1
      /\ Db(LT, -t) \in Int /\ Value(Db(LT, -t)) = -t /\ Comparator(Db(LT, -t)) = 0
  <2>1. -t \in Int /\ LE \in {0, 1} /\ LT \in {0, 1} /\ LE = 1 /\ LT = 0
    BY DEF LE, LT
  <2> QED BY <2>1, DbParts
<1>2. Unit * t \in Int /\ Unit * (-t) = -(Unit * t)
  BY GridAssumption, SMT
<1>3. Grid(Db(LE, t)) = Unit * t + 1
  BY <1>1 DEF Grid
<1>4. Value(b) \in Int /\ Comparator(b) \in {0, 1} /\ b = 2 * Value(b) + Comparator(b)
  BY BoundParts
<1>5. /\ Plus(b, Db(LE, t)) \in Int /\ Value(Plus(b, Db(LE, t))) = Value(b) + t
      /\ Comparator(Plus(b, Db(LE, t))) = Comparator(b)
  <2>1. /\ Plus(b, Db(LE, t)) \in Int /\ Value(Plus(b, Db(LE, t))) = Value(b) + t
        /\ Comparator(Plus(b, Db(LE, t))) = LeastBound(Comparator(b), 1)
    BY <1>1, PlusParts
  <2>2. LeastBound(Comparator(b), 1) = Comparator(b)
    BY <1>4 DEF LeastBound
  <2> QED BY <2>1, <2>2
<1>6. Db(LE, -t) = 2 * (-t) + 1 /\ Db(LT, -t) = 2 * (-t)
  BY <1>1, BoundParts
<1>7. Plus(b, Db(LE, t)) = 2 * (Value(b) + t) + Comparator(b)
  <2> DEFINE p == Plus(b, Db(LE, t))
  <2>1. p \in Int /\ Value(p) = Value(b) + t /\ Comparator(p) = Comparator(b)
    BY <1>5
  <2> HIDE DEF p
  <2>2. p = 2 * Value(p) + Comparator(p)
    BY <2>1, BoundParts
  <2> QED BY <2>1, <2>2 DEF p
<1>8. LE_ZERO = 1
  BY SpecialBounds
<1> QED BY <1>1, <1>2, <1>3, <1>4, <1>6, <1>7, <1>8

(* A lower map and an upper map. *)
LEMMA MapsOfBounds ==
  ASSUME NEW b \in LUBounds
  PROVE  /\ Maps(b.l, b.u)
         /\ \A x \in Clock0 : BoundOf(b.u, x) \in Nat \cup {NoBound}
<1>1. b.l \in [Clock -> Int] /\ b.u \in [Clock -> Nat \cup {NoBound}]
  BY BoundsAssumption
<1>2. NoBound \in Int
  BY InfValueAssumption DEF NoBound, MINUS_INF_VALUE
<1> QED BY <1>1, <1>2, Clocks DEF Maps, BoundOf

(* If it finds clocks, a valuation of the zone of d is not allowed. *)
LEMMA ApartNotAllowed ==
  ASSUME GridCompares, NEW d \in Matrix, Bounded(d), NormalForm(d),
         NEW e \in Matrix, Within(e, 2 * MaxBound), NormalForm(e),
         NEW l, NEW u, Maps(l, u), NEW x \in Clock0, NEW y \in Clock0,
         Apart(d, e, l, u, x, y)
  PROVE  \E v \in Valuation : In(v, d) /\ ~Allows(v, e, l, u, x, y)
<1> DEFINE b == e[y][x]
           p == BoundOf(u, x)
           q == BoundOf(l, y) - Value(b)
           t == IF p <= q THEN p ELSE q
<1>1. /\ b \in Int /\ d[0][x] \in Int /\ BoundOf(l, y) \in Int /\ p \in Int
      /\ d[y][x] \in Int /\ d[y][x] <= LT_INFINITY
  BY Clocks, EntryMatrixType DEF Maps, Matrix, NormalForm
<1>2. Value(b) \in Int /\ Comparator(b) \in {0, 1}
  BY <1>1, BoundParts
<1>3. /\ Db(LE, -p) <= d[0][x] /\ b < d[y][x] /\ Sum(b, Db(LT, -BoundOf(l, y))) < d[0][x]
  BY <1>1 DEF Apart
<1>4. Finite(b) /\ Value(b) <= 2 * MaxBound
  <2>1. Finite(b)
    BY <1>1, <1>3, SpecialBounds DEF Finite
  <2>2. Value(b) \in -(2 * MaxBound) .. 2 * MaxBound
    BY <2>1 DEF Within, Finite
  <2> QED BY <2>1, <2>2, Sizes
<1>5. Db(LE, -q) <= d[0][x]
  <2> DEFINE f == Db(LT, -BoundOf(l, y))
  <2>1. f \in Int /\ Value(f) = -BoundOf(l, y) /\ Comparator(f) = 0 /\ f # LT_INFINITY
    <3>1. -BoundOf(l, y) \in Int /\ LT \in {0, 1} /\ LT = 0
      BY <1>1 DEF LT
    <3>2. f \in Int /\ Value(f) = -BoundOf(l, y) /\ Comparator(f) = 0
      BY <3>1, DbParts
    <3>3. d[0][x] <= LE_ZERO /\ d[0][x] \in Int /\ LE_ZERO \in Int /\ LE_ZERO < LT_INFINITY
      BY <1>1, SpecialBounds DEF NormalForm, IsPositive
    <3>4. f # LT_INFINITY
      <4> SUFFICES ASSUME f = LT_INFINITY PROVE FALSE
        OBVIOUS
      <4>1. Sum(b, f) = LT_INFINITY
        BY <1>1, <3>2, SumCases
      <4> QED BY <1>3, <3>3, <4>1, SpecialBounds
    <3> QED BY <3>2, <3>4
  <2> HIDE DEF f
  <2>2. Sum(b, f) = Plus(b, f)
    BY <1>1, <1>4, <2>1, SumCases DEF Finite
  <2>3. Plus(b, f) = Db(LT, -q)
    <3>1. LeastBound(Comparator(b), 0) = 0
      BY <1>2 DEF LeastBound
    <3>2. Value(b) - BoundOf(l, y) = -q
      BY <1>1, <1>2
    <3>3. Plus(b, f) = Db(0, Value(b) + (-BoundOf(l, y)))
      BY <2>1, <3>1 DEF Plus
    <3>4. Value(b) + (-BoundOf(l, y)) = -q
      BY <1>1, <1>2
    <3> QED BY <3>3, <3>4 DEF LT
  <2>4. Db(LT, -q) < d[0][x]
    BY <1>3, <2>2, <2>3 DEF f
  <2>5. q \in Int
    BY <1>1, <1>2
  <2> HIDE DEF q
  <2> QED BY <1>1, <2>4, <2>5, RoomBelow
<1>6. t \in Int /\ t <= p /\ t <= q /\ Db(LE, -t) <= d[0][x] /\ q \in Int
  BY <1>1, <1>2, <1>3, <1>5
<1> DEFINE r == Db(LE, t)
<1>7. /\ r \in Int /\ Grid(r) = Unit * t + 1 /\ Unit * t \in Int
      /\ LE_ZERO <= Plus(d[0][x], r)
  <2> HIDE DEF t
  <2> QED BY <1>1, <1>6, RoomBelow
<1> HIDE DEF r
<1>8. PICK v \in Valuation :
        In(v, d) /\ v[x] < Grid(r) /\ v[x] - v[y] < Grid(Opposite(b))
  <2>1. MaxBound \in Nat /\ MaxBound <= 2 * MaxBound /\ Value(b) <= 3 * MaxBound - MaxBound
    BY <1>2, <1>4, Sizes
  <2>2. Within(d, MaxBound)
    BY DEF Bounded
  <2> HIDE DEF b
  <2> QED BY <1>1, <1>3, <1>7, <2>1, <2>2, ValuationAbove
<1>9. Grid(Opposite(b)) = 1 - Grid(b) /\ Grid(b) = Unit * Value(b) + Comparator(b)
      /\ Unit * Value(b) \in Int
  <2>1. /\ Value(Opposite(b)) = -Value(b) /\ Comparator(Opposite(b)) = 1 - Comparator(b)
    BY <1>1, OppositeParts
  <2>2. Unit * Value(b) \in Int /\ Unit * (-Value(b)) = -(Unit * Value(b))
    BY <1>2, GridAssumption, SMT
  <2> HIDE DEF b
  <2> QED BY <1>2, <2>1, <2>2 DEF Grid
<1>10. v[x] \in Int /\ v[y] \in Int
  BY ValuationType
<1>11. v[x] <= Unit * t /\ v[y] - v[x] >= Grid(b) /\ Grid(b) \in Int
  <2> HIDE DEF b, t
  <2> QED BY <1>2, <1>7, <1>8, <1>9, <1>10
<1>12. v[x] <= Unit * p /\ v[x] <= Unit * BoundOf(l, y) - Unit * Value(b)
       /\ Unit * p \in Int /\ Unit * BoundOf(l, y) \in Int
  <2>1. /\ Unit * p \in Int /\ Unit * q \in Int /\ Unit * BoundOf(l, y) \in Int
        /\ Unit * t <= Unit * p /\ Unit * t <= Unit * q
    <3> HIDE DEF p, q, t
    <3>1. Unit \in Nat /\ -(-t) = t /\ -t \in Int
      BY <1>6, GridAssumption
    <3>2. -(-t) <= p /\ -(-t) <= q
      BY <1>6, <3>1
    <3>3. /\ Unit * p \in Int /\ Unit * q \in Int
          /\ -(Unit * (-t)) <= Unit * p /\ -(Unit * (-t)) <= Unit * q
      BY <1>1, <1>6, <3>1, <3>2, ProductAtLeast
    <3>4. -(Unit * (-t)) = Unit * t
      BY <1>6, <3>1, SMT
    <3>5. Unit * BoundOf(l, y) \in Int
      BY <1>1, <3>1, SMT
    <3> QED BY <3>3, <3>4, <3>5
  <2>2. Unit * q = Unit * BoundOf(l, y) - Unit * Value(b)
    <3> HIDE DEF b
    <3> QED BY <1>1, <1>2, GridAssumption, SMT
  <2> HIDE DEF p, q, t, b
  <2> QED BY <1>7, <1>10, <1>11, <2>1, <2>2
<1>13. ~Allows(v, e, l, u, x, y)
  <2>1. ~(v[x] > Unit * p)
    BY <1>10, <1>12
  <2>2. ~(Unit * BoundOf(l, y) - v[x] < Unit * Value(b))
    BY <1>9, <1>10, <1>12
  <2>3. ~(v[y] - v[x] < Grid(b))
    BY <1>10, <1>11
  <2> QED BY <1>4, <2>1, <2>2, <2>3 DEF Allows, Finite
<1> QED BY <1>8, <1>13

(* A valuation below an upper bound or a lower one is not below none. *)
LEMMA BelowNone ==
  ASSUME NEW w \in Nat, NEW b \in Int, w <= Unit * b
  PROVE  b # NoBound
<1>1. ~(w > Unit * b)
  <2>1. Unit * b \in Int
    BY GridAssumption, Product
  <2> QED BY <2>1
<1> QED BY <1>1, AboveBound DEF Above

(* If it finds no clocks, each valuation of the zone of d is allowed. *)
LEMMA NotAllowedApart ==
  ASSUME NEW d \in Matrix, NormalForm(d),
         NEW e \in Matrix, Within(e, 2 * MaxBound), NormalForm(e),
         NEW l, NEW u, Maps(l, u), NEW x \in Clock0, NEW y \in Clock0,
         NEW v \in Valuation, In(v, d), ~Allows(v, e, l, u, x, y)
  PROVE  Apart(d, e, l, u, x, y)
<1> DEFINE b == e[y][x]
           p == BoundOf(u, x)
           q == BoundOf(l, y)
           c == Unit * Value(b)
<1>1. /\ b \in Int /\ d[0][x] \in Int /\ q \in Int /\ p \in Int /\ 0 \in Clock0
      /\ d[y][x] \in Int
  BY Clocks DEF Maps, Matrix
<1>2. /\ v[0] = 0 /\ v[x] \in Nat /\ v[y] \in Nat
  BY <1>1, ValuationType
<1>3. Value(b) \in Int /\ Comparator(b) \in {0, 1} /\ c \in Int /\ Grid(b) = c + Comparator(b)
  <2>1. Value(b) \in Int /\ Comparator(b) \in {0, 1}
    BY <1>1, BoundParts
  <2> HIDE DEF b
  <2> QED BY <2>1, GridAssumption, Product DEF Grid
<1>4. Unit * p \in Int /\ Unit * q \in Int
  <2> HIDE DEF p, q
  <2> QED BY <1>1, GridAssumption, Product
<1>5. /\ ~(v[x] > Unit * p) /\ Finite(b)
      /\ ~(IF v[y] > Unit * q THEN Unit * q - v[x] < c ELSE v[y] - v[x] < Grid(b))
  BY DEF Allows, Finite
<1> HIDE DEF p, q, b, c
<1>6. v[x] <= Unit * p
  BY <1>2, <1>4, <1>5
<1>7. \/ v[y] > Unit * q /\ Unit * q - v[x] >= c
      \/ v[y] <= Unit * q /\ v[y] - v[x] >= Grid(b)
  BY <1>2, <1>3, <1>4, <1>5
<1>8. /\ v[y] - v[x] >= Grid(b)
      /\ Unit * q - v[x] >= c
  BY <1>2, <1>3, <1>4, <1>7
<1>9. x # y
  <2> SUFFICES ASSUME x = y PROVE FALSE
    OBVIOUS
  <2>1. b = LE_ZERO
    BY DEF b, NormalForm, IsConsistent
  <2>2. Grid(b) = 1
    BY <2>1, SpecialBounds
  <2> QED BY <1>2, <1>8, <2>2
<1>10. p # NoBound
  BY <1>1, <1>2, <1>6, BelowNone
<1>11. q # NoBound
  <2> SUFFICES ASSUME q = NoBound PROVE FALSE
    OBVIOUS
  <2>1. Value(b) \in -(2 * MaxBound) .. 2 * MaxBound
    BY <1>5 DEF Within, Finite, b
  <2>2. q < Value(b)
    BY <2>1, Sizes, InfValueAssumption DEF NoBound, MINUS_INF_VALUE
  <2>3. Unit * q + Unit <= Unit * Value(b) /\ Unit \in Nat \ {0}
    BY <1>1, <1>3, <2>2, GridAssumption, Product
  <2> QED BY <1>2, <1>3, <1>4, <1>8, <2>3 DEF c
<1>12. -v[x] < Grid(d[0][x]) /\ Finite(d[0][x]) /\ Grid(d[0][x]) \in Int
  <2>1. Finite(d[0][x]) /\ Grid(d[0][x]) \in Int
    BY PositiveEntry
  <2>2. v[0] - v[x] < Grid(d[0][x])
    BY <1>1, <2>1, MeetsGrid DEF In, Finite
  <2> QED BY <1>2, <2>1, <2>2
<1>13. d[0][x] >= Db(LE, -p)
  <2> SUFFICES ASSUME ~(Db(LE, -p) <= d[0][x]) PROVE FALSE
    <3>1. Db(LE, -p) \in Int
      <4>1. -p \in Int
        BY <1>1
      <4> QED BY <4>1, RoomBelow
    <3> QED BY <1>1, <3>1
  <2>1. /\ ~(Db(LT, -p) < d[0][x]) /\ Unit * (-p) = -(Unit * p)
    BY <1>1, RoomBelow
  <2>2. -p \in Int /\ LT \in {0, 1} /\ LT = 0
    BY <1>1 DEF LT
  <2>3. /\ Db(LT, -p) \in Int /\ Value(Db(LT, -p)) = -p /\ Comparator(Db(LT, -p)) = 0
    BY <2>2, DbParts
  <2>4. d[0][x] <= Db(LT, -p)
    BY <1>1, <2>1, <2>3
  <2>5. Grid(d[0][x]) <= Grid(Db(LT, -p)) /\ Grid(Db(LT, -p)) = -(Unit * p)
    BY <1>1, <1>4, <2>1, <2>3, <2>4, GridMonotone DEF Grid
  <2> QED BY <1>2, <1>4, <1>6, <1>12, <2>5
<1>14. b < d[y][x]
  <2>1. CASE Finite(d[y][x])
    <3>1. v[y] - v[x] < Grid(d[y][x]) /\ Grid(d[y][x]) \in Int
      BY <1>1, <2>1, MeetsGrid, GridParts DEF In, Finite
    <3>2. ~(Grid(d[y][x]) <= Grid(b))
      BY <1>2, <1>3, <1>8, <3>1
    <3>3. ~(d[y][x] <= b)
      BY <1>1, <3>2, GridMonotone
    <3> QED BY <1>1, <3>3
  <2>2. CASE ~Finite(d[y][x])
    <3>1. b <= LT_INFINITY
      BY EntryMatrixType DEF NormalForm, b
    <3> QED BY <1>1, <1>5, <2>2, <3>1, SpecialBounds DEF Finite
  <2> QED BY <2>1, <2>2
<1>15. Sum(b, Db(LT, -q)) < d[0][x]
  <2> DEFINE f == Db(LT, -q)
             s == Sum(b, f)
  <2>1. f \in Int /\ Value(f) = -q /\ Comparator(f) = 0
    <3>1. -q \in Int /\ LT \in {0, 1} /\ LT = 0
      BY <1>1 DEF LT
    <3> QED BY <3>1, DbParts
  <2> HIDE DEF f
  <2>2. f # LT_INFINITY
    <3>1. q > -InfValue
      <4>1. c <= Unit * q
        BY <1>2, <1>3, <1>4, <1>8
      <4>2. ~(q < Value(b))
        <5> SUFFICES ASSUME q < Value(b) PROVE FALSE
          OBVIOUS
        <5>1. Unit * q + Unit <= Unit * Value(b) /\ Unit \in Nat \ {0}
          BY <1>1, <1>3, GridAssumption, Product
        <5> QED BY <1>3, <1>4, <4>1, <5>1 DEF c
      <4>3. Value(b) \in -(2 * MaxBound) .. 2 * MaxBound
        BY <1>5 DEF Within, Finite, b
      <4> QED BY <1>1, <4>2, <4>3, Sizes, InfValueAssumption
    <3>2. Value(f) < InfValue
      BY <1>1, <2>1, <3>1, InfValueAssumption
    <3> QED BY <3>2, SpecialBounds, InfValueAssumption
  <2>3. s = Plus(b, f) /\ s \in Int
    BY <1>1, <1>5, <2>1, <2>2, SumCases DEF Finite
  <2>4. Value(s) = Value(b) - q /\ Comparator(s) = 0
    <3>1. /\ Value(Plus(b, f)) = Value(b) + Value(f)
          /\ Comparator(Plus(b, f)) = LeastBound(Comparator(b), Comparator(f))
      BY <1>1, <2>1, PlusParts
    <3>2. LeastBound(Comparator(b), 0) = 0
      BY <1>3 DEF LeastBound
    <3>3. Value(b) + Value(f) = Value(b) - q
      BY <1>1, <1>3, <2>1
    <3> HIDE DEF s
    <3> QED BY <2>1, <2>3, <3>1, <3>2, <3>3
  <2> HIDE DEF s
  <2>5. Grid(s) = c - Unit * q
    <3>1. Unit * (Value(b) - q) = Unit * Value(b) - Unit * q
      BY <1>1, <1>3, GridAssumption, SMT
    <3> QED BY <1>3, <1>4, <2>4, <3>1 DEF Grid, c
  <2>6. ~(Grid(d[0][x]) <= Grid(s))
    BY <1>2, <1>3, <1>4, <1>8, <1>12, <2>5
  <2>7. ~(d[0][x] <= s)
    BY <1>1, <2>3, <2>6, GridMonotone
  <2>8. s < d[0][x]
    BY <1>1, <2>3, <2>7
  <2> QED BY <2>8 DEF s, f
<1> QED BY <1>9, <1>10, <1>11, <1>13, <1>14, <1>15 DEF Apart, b, p, q

(* is_alu_le compares the zone of d with the abstraction of the one of e. *)
LEMMA ALULeExact ==
  ASSUME GridCompares, GridWitnesses,
         NEW d \in Matrix, Bounded(d), NormalForm(d), NEW e \in Stored, NEW b \in LUBounds
  PROVE  IsALULe(d, e, b.l, b.u) <=> Zone(d) \subseteq StoredAbstraction[e][b]
<1>1. /\ e \in Matrix /\ Within(e, 2 * MaxBound) /\ NormalForm(e) /\ Maps(b.l, b.u)
  BY BoundsAssumption, StoredNormal, MapsOfBounds
<1>2. StoredAbstraction[e][b] = {v \in Valuation : InALU(v, e, b.l, b.u)}
  BY DEF StoredAbstraction
<1>3. \A v \in Valuation :
        InALU(v, e, b.l, b.u) <=> \A x, y \in Clock0 : Allows(v, e, b.l, b.u, x, y)
  BY <1>1, ALUAllowed
<1>4. IsALULe(d, e, b.l, b.u) <=> ~ \E x, y \in Clock0 : Apart(d, e, b.l, b.u, x, y)
  BY Zenon DEF IsALULe, Apart
<1>5. ASSUME NEW x \in Clock0, NEW y \in Clock0
      PROVE  Apart(d, e, b.l, b.u, x, y)
               <=> \E v \in Valuation : In(v, d) /\ ~Allows(v, e, b.l, b.u, x, y)
  <2>1. Apart(d, e, b.l, b.u, x, y) =>
          \E v \in Valuation : In(v, d) /\ ~Allows(v, e, b.l, b.u, x, y)
    BY <1>1, ApartNotAllowed
  <2>2. \A v \in Valuation :
          In(v, d) /\ ~Allows(v, e, b.l, b.u, x, y) => Apart(d, e, b.l, b.u, x, y)
    BY <1>1, NotAllowedApart
  <2> QED BY <2>1, <2>2
<1>6. Zone(d) \subseteq StoredAbstraction[e][b]
        <=> \A v \in Valuation : In(v, d) => InALU(v, e, b.l, b.u)
  BY <1>2 DEF Zone
<1> QED BY <1>3, <1>4, <1>5, <1>6

(* On a grid with room for them, the covering tests compare the sets of     *)
(* valuations they stand for: is_eq, is_le and is_alu_le answer neither yes *)
(* too often nor no too often.                                              *)
THEOREM InclusionTestsExact ==
  ASSUME GridCompares, GridWitnesses
  PROVE  Spec => []InclusionsExact
<1>1. IInv => InclusionsExact
  <2> SUFFICES ASSUME IInv, ~IsEmpty0(dbm)
               PROVE  InclusionsExact
    BY DEF InclusionsExact
  <2>1. dbm \in Matrix /\ Bounded(dbm) /\ NormalForm(dbm)
    BY DEF IInv
  <2>2. ASSUME NEW e \in Stored
        PROVE  /\ IsEqual(dbm, e) <=> Zone(dbm) = StoredZone[e]
               /\ IsLe(dbm, e) <=> Zone(dbm) \subseteq StoredZone[e]
               /\ \A b \in LUBounds :
                    IsALULe(dbm, e, b.l, b.u) <=> Zone(dbm) \subseteq StoredAbstraction[e][b]
    BY <2>1, InclusionExact, ALULeExact
  <2> QED BY <2>2, Zenon DEF InclusionsExact
<1> QED BY <1>1, InductiveInvariant, PTL

-----------------------------------------------------------------------------
(* Extrapolations stay inside a_LU.                                         *)

(* A valuation that meets the bound u strictly below is above u. *)
LEMMA AboveReplaced ==
  ASSUME NEW v \in Valuation, NEW x \in Clock0, NEW y \in Clock0, NEW b \in Nat,
         Meets(v, y, x, Db(LT, -b))
  PROVE  v[x] > Unit * b
<1>1. v[x] \in Nat /\ v[y] \in Nat
  BY ValuationType
<1>2. -b \in Int /\ Db(LT, -b) \in Int /\ Value(Db(LT, -b)) = -b /\ Comparator(Db(LT, -b)) = 0
  <2>1. -b \in Int /\ LT = 0
    BY DEF LT
  <2> QED BY <2>1, DbParts
<1>3. Db(LT, -b) # LT_INFINITY
  <2>1. -b # InfValue
    BY InfValueAssumption
  <2> QED BY <1>2, <2>1, SpecialBounds
<1>4. v[y] - v[x] < Grid(Db(LT, -b))
  BY <1>3, MeetsGrid
<1>5. Unit * (-b) = -(Unit * b) /\ Unit * b \in Int
  BY GridAssumption, SMT
<1>6. Grid(Db(LT, -b)) = -(Unit * b)
  BY <1>2, <1>5 DEF Grid
<1> QED BY <1>1, <1>4, <1>5, <1>6

(* In such a zone, a valuation whose clock is not above its bound u meets   *)
(* the lower bound of the clock.                                            *)
LEMMA WidenedLower ==
  ASSUME NEW v \in Valuation, NEW d \in Matrix, NormalForm(d), NEW e, NEW l, NEW u,
         Maps(l, u), Widened(d, e, l, u), In(v, e), NEW x \in Clock0,
         v[x] <= Unit * BoundOf(u, x)
  PROVE  /\ -v[x] < Grid(d[0][x])
         /\ -Value(d[0][x]) <= BoundOf(u, x)
<1>1. v[0] = 0 /\ v[x] \in Nat /\ BoundOf(u, x) \in Int /\ 0 \in Clock0
  BY ValuationType, Clocks DEF Maps
<1>2. CASE x = 0
  <2>1. d[0][0] = LE_ZERO /\ BoundOf(u, 0) = 0
    BY <1>1 DEF NormalForm, IsConsistent, BoundOf
  <2> QED BY <1>1, <1>2, <2>1, SpecialBounds
<1>3. CASE x # 0
  <2>1. x \in Clock /\ BoundOf(u, x) # NoBound
    BY <1>1, <1>3, BelowNone, Clocks
  <2>2. WidenedRow(d, e, u, x) /\ Meets(v, 0, x, e[0][x])
    BY <1>1, <2>1 DEF Widened, In
  <2>3. ~(BoundOf(u, x) \in Nat /\ e[0][x] = Db(LT, -BoundOf(u, x)))
    <3> SUFFICES ASSUME BoundOf(u, x) \in Nat, e[0][x] = Db(LT, -BoundOf(u, x))
                 PROVE  FALSE
      OBVIOUS
    <3>1. v[x] > Unit * BoundOf(u, x)
      BY <1>1, <2>2, AboveReplaced
    <3>2. Unit * BoundOf(u, x) \in Int
      BY <1>1, GridAssumption, Product
    <3> QED BY <1>1, <3>1, <3>2
  <2>4. -Value(d[0][x]) <= BoundOf(u, x) /\ Meets(v, 0, x, d[0][x])
    BY <2>1, <2>2, <2>3 DEF WidenedRow
  <2>5. v[0] - v[x] < Grid(d[0][x])
    BY <2>4, PositiveEntry, MeetsGrid DEF Finite
  <2>6. v[0] - v[x] = -v[x]
    BY <1>1
  <2> QED BY <2>4, <2>5, <2>6
<1> QED BY <1>2, <1>3

(* Its valuations are allowed by the abstraction of d. *)
LEMMA WidenedAllowed ==
  ASSUME NEW v \in Valuation, NEW d \in Matrix, Bounded(d), NormalForm(d), NEW e, NEW l,
         NEW u, Maps(l, u), Widened(d, e, l, u), In(v, e), NEW x \in Clock0, NEW y \in Clock0
  PROVE  Allows(v, d, l, u, x, y)
<1> DEFINE b == d[y][x]
           c == Unit * Value(b)
           p == BoundOf(u, x)
           q == BoundOf(l, y)
<1>1. /\ b \in Int /\ d[0][x] \in Int /\ d[0][y] \in Int /\ q \in Int /\ p \in Int
      /\ 0 \in Clock0
  BY Clocks DEF Maps, Matrix
<1>2. v[0] = 0 /\ v[x] \in Nat /\ v[y] \in Nat
  BY <1>1, ValuationType
<1>3. Value(b) \in Int /\ Comparator(b) \in {0, 1} /\ c \in Int /\ Grid(b) = c + Comparator(b)
  <2>1. Value(b) \in Int /\ Comparator(b) \in {0, 1}
    BY <1>1, BoundParts
  <2> HIDE DEF b
  <2> QED BY <2>1, GridAssumption, Product DEF Grid
<1>4. Unit * p \in Int /\ Unit * q \in Int
  <2> HIDE DEF p, q
  <2> QED BY <1>1, GridAssumption, Product
<1> SUFFICES ASSUME ~(v[x] > Unit * p), Finite(b)
             PROVE  IF v[y] > Unit * q THEN Unit * q - v[x] < c ELSE v[y] - v[x] < Grid(b)
  BY DEF Allows, Finite
<1>5. v[x] <= Unit * p
  BY <1>2, <1>4
<1>6. /\ -v[x] < Grid(d[0][x]) /\ -Value(d[0][x]) <= p /\ p # NoBound
  <2>1. p # NoBound
    <3> HIDE DEF p
    <3> QED BY <1>1, <1>2, <1>5, BelowNone
  <2> QED BY <1>5, <2>1, WidenedLower
<1>7. CASE Unit * q - v[x] < c
  <2> HIDE DEF b, c, p, q
  <2> QED BY <1>2, <1>3, <1>4, <1>7
<1>8. CASE v[y] - v[x] < Grid(b)
  <2> HIDE DEF b, c, p, q
  <2> QED BY <1>2, <1>3, <1>4, <1>8
<1>9. CASE x = y
  <2>1. b = LE_ZERO
    BY <1>9 DEF NormalForm, IsConsistent
  <2>2. v[y] - v[x] < Grid(b)
    BY <1>2, <1>9, <2>1, SpecialBounds
  <2> QED BY <1>8, <2>2
<1>10. CASE y = 0
  <2>1. v[y] - v[x] = -v[x]
    BY <1>2, <1>10
  <2> QED BY <1>6, <1>8, <1>10, <2>1
<1>11. CASE y # 0
  <2>1. WidenedEntry(d, e, l, u, x, y)
    BY <1>11, Clocks DEF Widened
  <2>2. CASE e[y][x] = b
    <3>1. Meets(v, y, x, b)
      BY <2>2 DEF In
    <3>2. v[y] - v[x] < Grid(b)
      BY <3>1, MeetsGrid DEF Finite
    <3> QED BY <1>8, <3>2
  <2>3. CASE Value(b) > q
    <3>1. Unit * q + Unit <= c
      <4>1. q < Value(b)
        BY <1>1, <1>3, <2>3
      <4> HIDE DEF q, b
      <4> QED BY <1>1, <1>3, <4>1, GridAssumption, Product
    <3>2. Unit * q - v[x] < c
      <4>1. Unit \in Nat \ {0}
        BY GridAssumption
      <4> HIDE DEF c, q, b
      <4> QED BY <1>2, <1>3, <1>4, <3>1, <4>1
    <3> QED BY <1>7, <3>2
  <2>4. CASE -Value(d[0][y]) > q
    <3> DEFINE a == d[0][x]
               t == d[0][y]
    <3>1. a <= Plus(t, b)
      <4>1. UpTo(d, MaxBound) /\ MaxBound \in Nat /\ 2 * MaxBound < InfValue
        BY DbmEntries, Sizes
      <4>2. /\ ClosedWhere(d, FiniteEntries(d))
            /\ \A i, j \in Clock0 : <<i, j>> \in FiniteEntries(d) <=> Finite(d[i][j])
        BY <4>1, NormalClosed
      <4>3. <<0, y>> \in FiniteEntries(d) /\ <<y, x>> \in FiniteEntries(d)
        BY <1>1, <4>2, PositiveEntry
      <4> QED BY <1>1, <4>2, <4>3 DEF ClosedWhere
    <3>2. /\ Value(a) \in Int /\ Value(t) \in Int /\ Comparator(a) \in {0, 1}
          /\ Value(a) <= Value(t) + Value(b)
      <4>1. Value(a) \in Int /\ Value(t) \in Int /\ Comparator(a) \in {0, 1}
        BY <1>1, BoundParts
      <4>2. Plus(t, b) \in Int /\ Value(Plus(t, b)) = Value(t) + Value(b)
        BY <1>1, PlusParts
      <4> HIDE DEF a, t, b
      <4>3. a \in Int
        BY <1>1 DEF a
      <4> QED BY <3>1, <4>1, <4>2, <4>3, ValueOrder
    <3>3. Value(a) + q < Value(b)
      <4> HIDE DEF a, b, q
      <4>1. -Value(t) > q
        BY <2>4 DEF q
      <4> HIDE DEF t
      <4> QED BY <1>1, <1>3, <3>2, <4>1
    <3>4. Unit * (Value(a) + q) + Unit <= c /\ Unit * (Value(a) + q) = Unit * Value(a) + Unit * q
      <4> DEFINE w == Value(a) + q
      <4>1. w \in Int /\ w < Value(b) /\ Unit \in Nat \ {0}
        BY <1>1, <3>2, <3>3, GridAssumption
      <4> HIDE DEF b, w
      <4>2. Unit * w + Unit <= c
        BY <1>3, <4>1, Product
      <4> HIDE DEF a, q
      <4>3. Unit * (Value(a) + q) = Unit * Value(a) + Unit * q
        BY <1>1, <3>2, <4>1, Product
      <4> QED BY <4>2, <4>3 DEF w
    <3>5. -v[x] < Unit * Value(a) + Comparator(a) /\ Unit * Value(a) \in Int
      <4>1. -v[x] < Grid(a)
        BY <1>6
      <4> HIDE DEF a
      <4> QED BY <3>2, <4>1, GridAssumption, Product DEF Grid
    <3>6. Unit * q - v[x] < c
      <4>1. Unit \in Nat \ {0}
        BY GridAssumption
      <4> HIDE DEF a, b, c, q, t
      <4> QED BY <1>2, <1>3, <1>4, <3>2, <3>4, <3>5, <4>1
    <3> QED BY <1>7, <3>6
  <2>5. ~(-Value(d[0][x]) > p)
    <3>1. Value(d[0][x]) \in Int
      BY <1>1, BoundParts
    <3> QED BY <1>1, <1>6, <3>1
  <2>6. ~(p \in Nat /\ e[y][x] = Db(LT, -p))
    <3> SUFFICES ASSUME p \in Nat, e[y][x] = Db(LT, -p)
                 PROVE  FALSE
      OBVIOUS
    <3>1. Meets(v, y, x, Db(LT, -p))
      BY DEF In
    <3>2. v[x] > Unit * p
      <4> HIDE DEF p
      <4> QED BY <3>1, AboveReplaced
    <3> QED BY <1>2, <1>4, <1>5, <3>2
  <2> QED BY <1>6, <2>1, <2>2, <2>3, <2>4, <2>5, <2>6 DEF WidenedEntry, Finite
<1> QED BY <1>10, <1>11

(* An extrapolated zone lies between the zone and its abstraction.          *)
LEMMA ExtrapolationBetween ==
  ASSUME GridWitnesses, NEW d \in Matrix, Bounded(d), NormalForm(d), NEW b \in LUBounds,
         NEW larger \in {ExtraLU(d, b.l, b.u), ExtraLUPlus(d, b.l, b.u)},
         NEW v \in Valuation
  PROVE  /\ In(v, d) => In(v, larger)
         /\ In(v, larger) => InALU(v, d, b.l, b.u)
<1>1. /\ b.l \in [Clock -> Int] /\ b.u \in [Clock -> Nat \cup {NoBound}] /\ Maps(b.l, b.u)
      /\ v \in [Clock0 -> Int]
  BY LUTypes, MapsOfBounds, ValuationType
<1>2. In(v, d) => In(v, larger)
  BY <1>1, Extrapolated
<1>3. ASSUME In(v, larger)
      PROVE  InALU(v, d, b.l, b.u)
  <2>1. PICK e : Enlarged(d, e) /\ Widened(d, e, b.l, b.u) /\ larger = TightenIfModified(d, e)
    <3>1. CASE larger = ExtraLU(d, b.l, b.u)
      BY <1>1, <3>1, ExtraLUWidened
    <3>2. CASE larger = ExtraLUPlus(d, b.l, b.u)
      BY <1>1, <3>2, ExtraLUPlusWidened
    <3> QED BY <3>1, <3>2
  <2>2. In(v, e)
    <3>1. CASE e = d
      BY <1>3, <2>1, <3>1 DEF TightenIfModified
    <3>2. CASE e # d
      <4>1. larger = Tighten(e) /\ e \in EntryMatrix
        BY <2>1, <3>2 DEF TightenIfModified, Enlarged
      <4> QED BY <1>1, <1>3, <4>1, TightenExact
    <3> QED BY <3>1, <3>2
  <2>3. \A x, y \in Clock0 : Allows(v, d, b.l, b.u, x, y)
    BY <1>1, <2>1, <2>2, WidenedAllowed
  <2>4. Within(d, 2 * MaxBound)
    <3>1. MaxBound \in Nat
      BY Sizes
    <3>2. -MaxBound .. MaxBound \subseteq -(2 * MaxBound) .. 2 * MaxBound
      BY <3>1
    <3> QED BY <3>2 DEF Bounded, Within
  <2> QED BY <1>1, <2>3, <2>4, ALUAllowed
<1> QED BY <1>2, <1>3

(* On a grid with room for witnesses, the extrapolations lose no valuation  *)
(* and add only valuations that one of the zone simulates: extra_lu and     *)
(* extra_lu_plus stay inside the abstraction a_LU.                          *)
THEOREM ExtrapolationsBetween ==
  ASSUME GridWitnesses
  PROVE  Spec => []ExtrapolationsSound
<1>1. IInv => ExtrapolationsSound
  <2> SUFFICES ASSUME IInv, ~IsEmpty0(dbm)
               PROVE  ExtrapolationsSound
    BY DEF ExtrapolationsSound
  <2>1. dbm \in Matrix /\ Bounded(dbm) /\ NormalForm(dbm)
    BY DEF IInv
  <2> QED BY <2>1, ExtrapolationBetween DEF ExtrapolationsSound
<1> QED BY <1>1, InductiveInvariant, PTL
=============================================================================
