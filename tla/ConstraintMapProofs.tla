------------------------- MODULE ConstraintMapProofs ------------------------
(***************************************************************************)
(* Proofs about ConstraintMap, for every automaton.  A set of constraints  *)
(* covers those it holds or makes redundant.  The atoms are covered from   *)
(* the start on, a visit covers the preconditions of the target as well,   *)
(* and adding constraints forgets nothing, so a visited edge is sound.     *)
(***************************************************************************)
EXTENDS ConstraintMap, FiniteSetTheorems, WellFoundedInduction, TLAPS

-----------------------------------------------------------------------------
(* Sets of constraints: what is kept when constraints are added.           *)

(* The constraints that occur in the automaton: of one clock, or of the    *)
(* difference of two.                                                      *)
Atom == {phi \in [x : ClockId, y : ClockId \cup {NoClock},
                  op : {"LT", "LE", "EQ", "GE", "GT"}, bound : Int] :
           phi.x # phi.y /\ IsBound(system, phi)}

(* What sets hold: equalities are split.                                   *)
Kept == {phi \in Atom : phi.op # "EQ"}

(* An equality stands for its two halves.                                  *)
Halves(phi) ==
  IF phi.op = "EQ" THEN {[phi EXCEPT !.op = "LE"], [phi EXCEPT !.op = "GE"]} ELSE {phi}

(* The order by which one constraint makes another redundant in a set.     *)
Beats(phi, psi) == IF Generalised THEN GreaterInf(phi, psi) ELSE Greater(phi, psi)

(* A constraint is in a set, or is made redundant by one that is.          *)
Covered(set, phi) == \E psi \in set : psi = phi \/ Beats(psi, phi)

(* The sets that add_constraint keeps: finite, and no constraint makes     *)
(* another redundant.                                                      *)
Reduced(set) ==
  /\ set \subseteq Kept /\ IsFiniteSet(set)
  /\ \A phi, psi \in set : Beats(phi, psi) => phi = psi

(* What is covered before stays covered.                                   *)
Keeps(set, result) == \A psi \in Kept : Covered(set, psi) => Covered(result, psi)

(* One constraint is added: to no effect, or in place of those it beats.   *)
Inserted(set, phi, result) ==
  \/ /\ result = set
     /\ \E old \in set : old = phi \/ Beats(old, phi)
  \/ /\ result = {psi \in set : ~Beats(phi, psi)} \cup {phi}
     /\ ~ \E old \in set : Beats(old, phi)

(* A positive number of grid steps is at least as far from 0 as its        *)
(* factor.                                                                 *)
LEMMA ProductAtLeast ==
  ASSUME NEW u \in Nat \ {0}, NEW b \in Int
  PROVE  u * b \in Int /\ (b >= 0 => u * b >= b) /\ (b <= 0 => u * b <= b)
<1>1. u * b \in Int
  BY SMT
<1>2. CASE b >= 0
  <2>1. (u - 1) * b >= 0
    BY <1>2, SMT
  <2>2. u * b = (u - 1) * b + b
    BY SMT
  <2> QED BY <1>1, <1>2, <2>1, <2>2, SMT
<1>3. CASE b <= 0
  <2>1. (u - 1) * (-b) >= 0
    BY <1>3, SMT
  <2>2. u * b = b - (u - 1) * (-b)
    BY SMT
  <2> QED BY <1>1, <1>3, <2>1, <2>2, SMT
<1> QED BY <1>2, <1>3, SMT

(* Bounds of generalised automata are up to infinity.                      *)
LEMMA BoundRange ==
  ASSUME AutomataAssumption, Generalised, NEW phi \in Atom
  PROVE  /\ phi.bound \in Int /\ -InfValue <= phi.bound /\ phi.bound <= InfValue
         /\ Infinite(phi.bound) <=> phi.bound \in {InfValue, -InfValue}
         /\ ~Infinite(phi.bound) => -InfValue < Unit * phi.bound /\ Unit * phi.bound < InfValue
<1>1. phi.bound \in Int /\ Unit \in Nat \ {0} /\ InfValue \in Nat \ {0}
  BY DEF Atom, AutomataAssumption
<1>2. \/ phi.bound \in {InfValue, -InfValue}
      \/ -InfValue < Unit * phi.bound /\ Unit * phi.bound < InfValue
  BY DEF Atom, IsBound, Generalised
<1>3. Unit * phi.bound \in Int /\ (phi.bound >= 0 => Unit * phi.bound >= phi.bound)
      /\ (phi.bound <= 0 => Unit * phi.bound <= phi.bound)
  BY <1>1, ProductAtLeast
<1>4. -InfValue <= phi.bound /\ phi.bound <= InfValue
  <2> DEFINE b == phi.bound
             ub == Unit * phi.bound
  <2>1. b \in Int /\ ub \in Int /\ (b >= 0 => ub >= b) /\ (b <= 0 => ub <= b)
    BY <1>1, <1>3
  <2>2. b \in {InfValue, -InfValue} \/ (-InfValue < ub /\ ub < InfValue)
    BY <1>2
  <2> HIDE DEF b, ub
  <2>3. -InfValue <= b /\ b <= InfValue
    BY <1>1, <2>1, <2>2, SMT
  <2> QED BY <2>3 DEF b
<1> QED BY <1>1, <1>2, <1>4 DEF Infinite

(* A constraint is as redundant as what makes it redundant.                *)
LEMMA BeatsTransitive ==
  ASSUME AutomataAssumption, NEW p \in Kept, NEW q \in Kept, NEW r \in Kept, Beats(p, q), Beats(q, r)
  PROVE  Beats(p, r)
<1>1. p.bound \in Int /\ q.bound \in Int /\ r.bound \in Int
  BY DEF Kept, Atom
<1>2. ASSUME Greater(p, q), Greater(q, r)
      PROVE  Greater(p, r)
  BY <1>1, <1>2, SMT DEF Greater, SameSide, lleq, ggeq
<1>3. CASE ~Generalised
  BY <1>2, <1>3 DEF Beats
<1>4. CASE Generalised
  <2>1. GreaterInf(p, q) /\ GreaterInf(q, r)
    BY <1>4 DEF Beats
  <2>2. SameSide(p, q) /\ SameSide(q, r)
    BY <2>1 DEF GreaterInf, Greater
  <2>3. SameSide(p, r)
    BY <2>2 DEF SameSide, lleq, ggeq
  <2>4. CASE {InfValue, -InfValue} \cap {p.bound, q.bound, r.bound} = {}
    <3>1. Greater(p, q) /\ Greater(q, r)
      BY <2>1, <2>4 DEF GreaterInf
    <3> QED BY <1>2, <1>4, <2>4, <3>1 DEF Beats, GreaterInf
  <2>5. CASE {InfValue, -InfValue} \cap {p.bound, q.bound, r.bound} # {}
    <3>1. ASSUME NEW a \in Kept, NEW b \in Kept, GreaterInf(a, b),
                 a.bound \in {InfValue, -InfValue} \/ b.bound \in {InfValue, -InfValue}
          PROVE  a.bound = b.bound /\ a.op = b.op
      <4>1. /\ a.bound \in Int /\ -InfValue <= a.bound /\ a.bound <= InfValue
            /\ b.bound \in Int /\ -InfValue <= b.bound /\ b.bound <= InfValue
        BY <1>4, BoundRange DEF Kept
      <4>2. IF a.bound = b.bound THEN a.op = b.op
            ELSE a.bound > b.bound /\ a.bound # InfValue /\ b.bound # -InfValue
        BY <3>1 DEF GreaterInf
      <4>3. InfValue \in Nat \ {0}
        BY DEF AutomataAssumption
      <4> QED BY <3>1, <4>1, <4>2, <4>3, SMT
    <3> QED BY <2>1, <2>3, <2>5, <3>1, <1>4 DEF Beats, GreaterInf
  <2> QED BY <2>4, <2>5
<1> QED BY <1>3, <1>4

(* One insertion keeps a set reduced, forgets nothing and covers the new   *)
(* constraint.                                                             *)
LEMMA InsertedReduced ==
  ASSUME AutomataAssumption, NEW set, Reduced(set), NEW phi \in Kept, NEW result, Inserted(set, phi, result)
  PROVE  Reduced(result) /\ Keeps(set, result) /\ Covered(result, phi)
<1>1. CASE result = set /\ \E old \in set : old = phi \/ Beats(old, phi)
  BY <1>1 DEF Keeps, Covered
<1>2. CASE /\ result = {psi \in set : ~Beats(phi, psi)} \cup {phi}
           /\ ~ \E old \in set : Beats(old, phi)
  <2>1. Covered(result, phi)
    BY <1>2 DEF Covered
  <2>2. IsFiniteSet(result)
    <3>1. IsFiniteSet({psi \in set : ~Beats(phi, psi)})
      BY FS_Subset DEF Reduced
    <3> QED BY <1>2, <3>1, FS_AddElement
  <2>3. Reduced(result)
    <3>1. result \subseteq Kept
      BY <1>2 DEF Reduced
    <3>2. ASSUME NEW p \in result, NEW q \in result, Beats(p, q)
          PROVE  p = q
      BY <1>2, <3>2 DEF Reduced
    <3> QED BY <2>2, <3>1, <3>2 DEF Reduced
  <2>4. Keeps(set, result)
    <3> SUFFICES ASSUME NEW psi \in Kept, NEW q \in set, q = psi \/ Beats(q, psi)
                 PROVE  Covered(result, psi)
      BY DEF Keeps, Covered
    <3>1. CASE ~Beats(phi, q)
      BY <1>2, <3>1 DEF Covered
    <3>2. CASE Beats(phi, q)
      <4>1. q \in Kept
        BY DEF Reduced
      <4>2. Beats(phi, psi)
        BY <3>2, <4>1, BeatsTransitive
      <4> QED BY <1>2, <4>2 DEF Covered
    <3> QED BY <3>1, <3>2
  <2> QED BY <2>1, <2>3, <2>4
<1> QED BY <1>1, <1>2 DEF Inserted

(* The halves of a constraint may be in sets.                              *)
LEMMA HalvesKept ==
  ASSUME NEW phi \in Atom
  PROVE  Halves(phi) \subseteq Kept
<1>1. ASSUME NEW op \in {"LT", "LE", "GE", "GT"}
      PROVE  [phi EXCEPT !.op = op] \in Kept
  <2>1. /\ [phi EXCEPT !.op = op] \in [x : ClockId, y : ClockId \cup {NoClock},
                  op : {"LT", "LE", "EQ", "GE", "GT"}, bound : Int]
        /\ [phi EXCEPT !.op = op].x = phi.x /\ [phi EXCEPT !.op = op].y = phi.y
        /\ [phi EXCEPT !.op = op].op = op /\ [phi EXCEPT !.op = op].bound = phi.bound
    BY DEF Atom
  <2>2. phi.x # phi.y /\ IsBound(system, phi)
    BY DEF Atom
  <2>3. IsBound(system, [phi EXCEPT !.op = op])
    BY <2>1, <2>2 DEF IsBound, IsSimple
  <2> QED BY <2>1, <2>2, <2>3 DEF Kept, Atom
<1> QED BY <1>1 DEF Halves, Kept

(* add_constraint adds both halves of an equality.                         *)
LEMMA AddedHalves ==
  ASSUME AutomataAssumption, ~Generalised, NEW set, Reduced(set), NEW phi \in Atom
  PROVE  /\ Reduced(Added(set, phi)) /\ Keeps(set, Added(set, phi))
         /\ \A psi \in Halves(phi) : Covered(Added(set, phi), psi)
<1>1. ASSUME NEW s, NEW psi
      PROVE  Inserted(s, psi, AddedOne(s, psi))
  <2>1. WithoutLesser(s, psi) = {q \in s : ~Beats(psi, q)}
    BY DEF WithoutLesser, Beats
  <2> QED BY <2>1 DEF Inserted, AddedOne, Beats
<1>2. CASE phi.op # "EQ"
  <2>1. phi \in Kept /\ Halves(phi) = {phi} /\ Added(set, phi) = AddedOne(set, phi)
    BY <1>2 DEF Kept, Halves, Added
  <2> QED BY <1>1, <2>1, InsertedReduced
<1>3. CASE phi.op = "EQ"
  <2> DEFINE le == [phi EXCEPT !.op = "LE"]
             ge == [phi EXCEPT !.op = "GE"]
             mid == AddedOne(set, le)
  <2>1. Halves(phi) = {le, ge} /\ Added(set, phi) = AddedOne(mid, ge)
    BY <1>3 DEF Halves, Added
  <2>2. le \in Kept /\ ge \in Kept
    BY <2>1, HalvesKept
  <2> HIDE DEF le, ge, mid
  <2>3. Reduced(mid) /\ Keeps(set, mid) /\ Covered(mid, le)
    BY <1>1, <2>2, InsertedReduced DEF mid
  <2>4. Reduced(AddedOne(mid, ge)) /\ Keeps(mid, AddedOne(mid, ge)) /\ Covered(AddedOne(mid, ge), ge)
    BY <1>1, <2>2, <2>3, InsertedReduced
  <2> QED BY <2>1, <2>2, <2>3, <2>4 DEF Keeps
<1> QED BY <1>2, <1>3

(* Simple constraints of prophecy clocks are not added.                    *)
Skipped(phi) == Generalised /\ IsSimple(phi) /\ phi.x \in system.prophecy

(* The same for generalised automata, except for the constraints that are  *)
(* not added.                                                              *)
LEMMA GeneralisedAddedHalves ==
  ASSUME AutomataAssumption, Generalised, NEW set, Reduced(set), NEW phi \in Atom
  PROVE  /\ Reduced(GeneralisedAdded(set, phi)) /\ Keeps(set, GeneralisedAdded(set, phi))
         /\ ~Skipped(phi) => \A psi \in Halves(phi) : Covered(GeneralisedAdded(set, phi), psi)
<1> DEFINE one(s, psi) ==
             IF \E old \in s : old = psi \/ GreaterInf(old, psi) THEN s
             ELSE WithoutLesserInf(s, psi) \cup {psi}
<1>1. ASSUME NEW s, NEW psi
      PROVE  Inserted(s, psi, one(s, psi))
  <2>1. WithoutLesserInf(s, psi) = {q \in s : ~Beats(psi, q)}
    BY DEF WithoutLesserInf, Beats
  <2> QED BY <2>1 DEF Inserted, Beats
<1>2. CASE Skipped(phi)
  <2>1. GeneralisedAdded(set, phi) = set
    BY <1>2 DEF GeneralisedAdded, Skipped
  <2> QED BY <1>2, <2>1 DEF Keeps
<1>3. CASE ~Skipped(phi) /\ phi.op # "EQ"
  <2>1. phi \in Kept /\ Halves(phi) = {phi} /\ GeneralisedAdded(set, phi) = one(set, phi)
    BY <1>3 DEF Kept, Halves, GeneralisedAdded, Skipped
  <2> HIDE DEF one
  <2> QED BY <1>1, <2>1, InsertedReduced
<1>4. CASE ~Skipped(phi) /\ phi.op = "EQ"
  <2> DEFINE le == [phi EXCEPT !.op = "LE"]
             ge == [phi EXCEPT !.op = "GE"]
             mid == one(set, le)
  <2>1. Halves(phi) = {le, ge}
    BY <1>4 DEF Halves
  <2>2. GeneralisedAdded(set, phi) = one(mid, ge)
    BY <1>4 DEF GeneralisedAdded, Skipped
  <2>3. le \in Kept /\ ge \in Kept
    BY <2>1, HalvesKept
  <2> HIDE DEF le, ge, mid, one
  <2>4. Reduced(mid) /\ Keeps(set, mid) /\ Covered(mid, le)
    BY <1>1, <2>3, InsertedReduced DEF mid
  <2>5. Reduced(one(mid, ge)) /\ Keeps(mid, one(mid, ge)) /\ Covered(one(mid, ge), ge)
    BY <1>1, <2>3, <2>4, InsertedReduced
  <2> QED BY <2>1, <2>2, <2>3, <2>4, <2>5 DEF Keeps
<1> QED BY <1>2, <1>3, <1>4

(* A set of natural numbers has a least element; from it, induction up to n. *)
LEMMA LeastElement ==
  ASSUME NEW T \in SUBSET Nat, T # {}
  PROVE  \E n \in T : \A m \in T : n <= m
<1> DEFINE R == OpToRel(<, Nat)
<1>1. IsWellFoundedOn(R, Nat)
  BY NatLessThanWellFounded, Zenon
<1>2. \A m, n \in Nat : m < n => <<m, n>> \in R
  BY SMT DEF OpToRel
<1> HIDE DEF R
<1>3. PICK n \in T : \A m \in T : ~ (<<m, n>> \in R)
  BY <1>1, WFMin, Zenon
<1>4. \A m \in T : ~ (m < n)
  BY <1>2, <1>3, Zenon
<1>5. n \in Nat /\ \A m \in T : m \in Nat
  OBVIOUS
<1>6. \A m \in T : n <= m
  BY <1>4, <1>5, SMT
<1> QED BY <1>6

(* A set with 0 and the successors up to N holds all of 0 .. N. *)
LEMMA Induction ==
  ASSUME NEW N \in Nat, NEW T, 0 \in T,
         \A n \in 1 .. N : n - 1 \in T => n \in T
  PROVE  0 .. N \subseteq T
<1> DEFINE missing == (0 .. N) \ T
<1> SUFFICES ASSUME missing # {}
             PROVE  FALSE
  OBVIOUS
<1>1. missing \in SUBSET Nat
  OBVIOUS
<1>2. PICK n \in missing : \A m \in missing : n <= m
  BY <1>1, LeastElement
<1>3. n \in 1 .. N /\ n \notin T
  BY <1>2
<1>4. n - 1 \in T
  <2>1. ~ (n - 1 \in missing)
    <3> HIDE DEF missing
    <3> QED BY <1>2, <1>3
  <2> QED BY <1>3, <2>1
<1> QED BY <1>3, <1>4

(* Induction over the subsets of a finite set.                             *)
LEMMA SubsetInduction ==
  ASSUME NEW S, IsFiniteSet(S), NEW G, {} \in G,
         \A s \in SUBSET S : s # {} /\ (\A x \in s : s \ {x} \in G) => s \in G
  PROVE  S \in G
<1> DEFINE T == {n \in Nat : \A s \in SUBSET S : Cardinality(s) = n => s \in G}
<1>1. PICK N \in Nat : N = Cardinality(S)
  BY FS_CardinalityType
<1>2. \A s \in SUBSET S : IsFiniteSet(s) /\ Cardinality(s) \in Nat /\ (Cardinality(s) = 0 <=> s = {})
  BY FS_Subset, FS_CardinalityType, FS_EmptySet
<1>3. 0 \in T
  BY <1>2
<1>4. ASSUME NEW n \in 1 .. N, n - 1 \in T
      PROVE  n \in T
  <2>1. ASSUME NEW s \in SUBSET S, Cardinality(s) = n
        PROVE  s \in G
    <3>1. s # {}
      BY <1>2, <2>1
    <3>2. ASSUME NEW x \in s
          PROVE  s \ {x} \in G
      <4>1. s \ {x} \in SUBSET S /\ Cardinality(s \ {x}) = n - 1
        BY <1>2, <2>1, FS_RemoveElement
      <4> QED BY <1>4, <4>1
    <3> QED BY <3>1, <3>2
  <2> QED BY <2>1
<1> HIDE DEF T
<1>5. N \in T
  BY <1>3, <1>4, Induction
<1> QED BY <1>1, <1>5 DEF T

(* A choice from the subsets of S, and a function of S and B into B.       *)
ChoosesFrom(c, S) == \A s \in SUBSET S : s # {} => c[s] \in s
StaysIn(g, S, B) == \A x \in S, b \in B : g[<<x, b>>] \in B

(* What a fold iterates, for each of the subsets of S.                     *)
Iterates(h, S, B, base, c, g) ==
  /\ h \in [SUBSET S -> B]
  /\ \A s \in SUBSET S : h[s] = IF s = {} THEN base ELSE g[<<c[s], h[s \ {c[s]}]>>]

(* The iteration that a fold describes exists.                             *)
LEMMA FoldExists ==
  ASSUME NEW S, IsFiniteSet(S), NEW B, NEW base \in B,
         NEW c, ChoosesFrom(c, S), NEW g, StaysIn(g, S, B)
  PROVE  \E h : Iterates(h, S, B, base, c, g)
<1> DEFINE step(h, s) == IF s = {} THEN base ELSE g[<<c[s], h[s \ {c[s]}]>>]
           T == {n \in Nat : \E h \in [SUBSET S -> B] :
                   \A s \in SUBSET S : Cardinality(s) <= n => h[s] = step(h, s)}
<1> USE DEF ChoosesFrom, StaysIn
<1>1. PICK N \in Nat : N = Cardinality(S)
  BY FS_CardinalityType
<1>2. \A s \in SUBSET S : IsFiniteSet(s) /\ Cardinality(s) \in Nat /\ (Cardinality(s) = 0 <=> s = {})
                          /\ Cardinality(s) <= N
  BY <1>1, FS_Subset, FS_CardinalityType, FS_EmptySet
<1>3. 0 \in T
  <2> DEFINE h == [s \in SUBSET S |-> base]
  <2>1. h \in [SUBSET S -> B]
    OBVIOUS
  <2>2. ASSUME NEW s \in SUBSET S, Cardinality(s) <= 0
        PROVE  h[s] = step(h, s)
    <3>1. Cardinality(s) \in Nat /\ (Cardinality(s) = 0 <=> s = {})
      BY <1>2
    <3> DEFINE m == Cardinality(s)
    <3>2. m \in Nat /\ m <= 0
      BY <2>2, <3>1
    <3> HIDE DEF m
    <3>3. m = 0
      BY <3>2, SMT
    <3> QED BY <3>1, <3>3 DEF m
  <2> HIDE DEF h
  <2> QED BY <2>1, <2>2
<1>4. ASSUME NEW n \in 1 .. N, n - 1 \in T
      PROVE  n \in T
  <2>1. PICK f \in [SUBSET S -> B] :
          \A s \in SUBSET S : Cardinality(s) <= n - 1 => f[s] = step(f, s)
    BY <1>4
  <2> DEFINE h == [s \in SUBSET S |-> step(f, s)]
  <2>2. h \in [SUBSET S -> B]
    <3> SUFFICES ASSUME NEW s \in SUBSET S
                 PROVE  step(f, s) \in B
      OBVIOUS
    <3>1. CASE s = {}
      BY <3>1
    <3>2. CASE s # {}
      <4>1. c[s] \in S /\ s \ {c[s]} \in SUBSET S
        BY <3>2
      <4>2. f[s \ {c[s]}] \in B
        BY <4>1
      <4> QED BY <3>2, <4>1, <4>2
    <3> QED BY <3>1, <3>2
  <2>3. ASSUME NEW s \in SUBSET S, Cardinality(s) <= n
        PROVE  h[s] = step(h, s)
    <3>1. CASE s = {}
      BY <3>1
    <3>2. CASE s # {}
      <4> DEFINE t == s \ {c[s]}
      <4>1. t \in SUBSET S /\ Cardinality(t) <= n - 1
        <5>1. c[s] \in s
          BY <3>2
        <5>2. Cardinality(t) = Cardinality(s) - 1
          BY <1>2, <5>1, FS_RemoveElement
        <5>3. Cardinality(s) \in Nat /\ t \in SUBSET S
          BY <1>2
        <5> DEFINE m == Cardinality(s)
                   k == Cardinality(t)
        <5>4. m \in Nat /\ k = m - 1 /\ m <= n
          BY <2>3, <5>2, <5>3
        <5> HIDE DEF t, m, k
        <5>5. k <= n - 1
          BY <5>4, SMT
        <5> QED BY <5>3, <5>5 DEF k
      <4>2. h[t] = f[t]
        BY <2>1, <4>1
      <4>3. h[s] = g[<<c[s], f[t]>>]
        BY <3>2
      <4> HIDE DEF h, t
      <4> QED BY <3>2, <4>2, <4>3 DEF t
    <3> QED BY <3>1, <3>2
  <2> HIDE DEF h
  <2>4. \E k \in [SUBSET S -> B] : \A s \in SUBSET S : Cardinality(s) <= n => k[s] = step(k, s)
    BY <2>2, <2>3
  <2> HIDE DEF step
  <2> QED BY <2>4
<1> HIDE DEF T
<1>5. N \in T
  BY <1>3, <1>4, Induction
<1> QED BY <1>2, <1>5 DEF T, Iterates

(* What adding several constraints comes to.                               *)
Grown(set, phis, result) ==
  /\ Reduced(result) /\ Keeps(set, result)
  /\ \A phi \in phis : ~Skipped(phi) => \A psi \in Halves(phi) : Covered(result, psi)

(* One more constraint of a set of them has been added.                    *)
LEMMA GrownStep ==
  ASSUME NEW set, NEW phis \in SUBSET Atom, NEW phi \in phis,
         NEW mid, Grown(set, phis \ {phi}, mid), NEW result, Reduced(result), Keeps(mid, result),
         ~Skipped(phi) => \A psi \in Halves(phi) : Covered(result, psi)
  PROVE  Grown(set, phis, result)
<1>1. Keeps(set, result)
  BY DEF Grown, Keeps
<1>2. ASSUME NEW p \in phis, ~Skipped(p), NEW psi \in Halves(p)
      PROVE  Covered(result, psi)
  <2>1. CASE p = phi
    BY <1>2, <2>1
  <2>2. CASE p # phi
    <3>1. Covered(mid, psi)
      BY <1>2, <2>2 DEF Grown
    <3>2. psi \in Kept
      BY <1>2, HalvesKept
    <3> QED BY <3>1, <3>2 DEF Keeps
  <2> QED BY <2>1, <2>2
<1> QED BY <1>1, <1>2 DEF Grown

(* Adding the constraints of a finite set, in the order that the fold      *)
(* takes, covers all of them.                                              *)
LEMMA AddedAllGrows ==
  ASSUME AutomataAssumption, ~Generalised, NEW set, Reduced(set),
         NEW phis \in SUBSET Atom, IsFiniteSet(phis)
  PROVE  Grown(set, phis, AddedAll(set, phis))
<1> DEFINE B == {s \in SUBSET Kept : Reduced(s)}
           c == [s \in SUBSET phis |-> CHOOSE x \in s : TRUE]
           g == [p \in phis \X B |-> Added(p[2], p[1])]
           step(h, s) == IF s = {} THEN set ELSE Added(h[s \ {CHOOSE x \in s : TRUE}], CHOOSE x \in s : TRUE)
           iter == CHOOSE h : h = [s \in SUBSET phis |-> step(h, s)]
<1>1. AddedAll(set, phis) = iter[phis]
  BY DEF AddedAll, FoldSet, MapThenFoldSet
<1>2. \E h : h = [s \in SUBSET phis |-> step(h, s)]
  <2>1. set \in B
    BY DEF Reduced
  <2>2. ChoosesFrom(c, phis)
    BY DEF ChoosesFrom
  <2>3. StaysIn(g, phis, B)
    <3> SUFFICES ASSUME NEW x \in phis, NEW b \in B
                 PROVE  Added(b, x) \in B
      BY Zenon DEF StaysIn
    <3>1. x \in Atom /\ Reduced(b)
      OBVIOUS
    <3>2. Reduced(Added(b, x))
      BY <3>1, AddedHalves
    <3> QED BY <3>2 DEF Reduced
  <2>4. PICK h : Iterates(h, phis, B, set, c, g)
    <3> HIDE DEF B, c, g, step, iter
    <3> QED BY <2>1, <2>2, <2>3, FoldExists
  <2>5. ASSUME NEW s \in SUBSET phis
        PROVE  h[s] = step(h, s)
    <3>1. CASE s = {}
      BY <2>4, <3>1 DEF Iterates
    <3>2. CASE s # {}
      <4>1. c[s] \in phis /\ s \ {c[s]} \in SUBSET phis
        BY <2>2, <3>2 DEF ChoosesFrom
      <4>2. h[s \ {c[s]}] \in B
        BY <2>4, <4>1 DEF Iterates
      <4>3. \A x \in phis, b \in B : g[<<x, b>>] = Added(b, x)
        BY Zenon
      <4>4. h[s] = g[<<c[s], h[s \ {c[s]}]>>]
        <5> HIDE DEF B, c, g
        <5> QED BY <2>4, <3>2 DEF Iterates
      <4>5. h[s] = Added(h[s \ {c[s]}], c[s])
        <5> HIDE DEF B, c, g
        <5> QED BY <4>1, <4>2, <4>3, <4>4
      <4>6. c[s] = CHOOSE x \in s : TRUE
        OBVIOUS
      <4> HIDE DEF B, c, g
      <4> QED BY <3>2, <4>5, <4>6
    <3> QED BY <3>1, <3>2
  <2>6. h = [s \in SUBSET phis |-> step(h, s)]
    <3> HIDE DEF step, B
    <3> QED BY <2>4, <2>5 DEF Iterates
  <2> QED BY <2>6
<1>3. iter = [s \in SUBSET phis |-> step(iter, s)]
  <2> HIDE DEF step
  <2> QED BY <1>2
<1> HIDE DEF iter
<1>4. \A s \in SUBSET phis : iter[s] = step(iter, s)
  <2> HIDE DEF step
  <2> QED BY <1>3
<1> DEFINE G == {s \in SUBSET phis : Grown(set, s, iter[s])}
<1>5. {} \in G
  <2>1. iter[{}] = set
    BY <1>4
  <2> QED BY <2>1 DEF Grown, Keeps
<1>6. ASSUME NEW s \in SUBSET phis, s # {}, \A x \in s : s \ {x} \in G
      PROVE  s \in G
  <2> DEFINE x == CHOOSE z \in s : TRUE
  <2>1. x \in s
    BY <1>6
  <2>2. iter[s] = Added(iter[s \ {x}], x)
    BY <1>4, <1>6
  <2> HIDE DEF x
  <2>3. Grown(set, s \ {x}, iter[s \ {x}])
    BY <1>6, <2>1
  <2>4. /\ Reduced(iter[s]) /\ Keeps(iter[s \ {x}], iter[s])
        /\ \A psi \in Halves(x) : Covered(iter[s], psi)
    BY <2>1, <2>2, <2>3, AddedHalves DEF Grown
  <2>5. Grown(set, s, iter[s])
    BY <2>1, <2>3, <2>4, GrownStep
  <2> QED BY <2>5
<1>7. phis \in G
  <2> HIDE DEF G
  <2> QED BY <1>5, <1>6, SubsetInduction
<1> QED BY <1>1, <1>7

(* The same for generalised automata.                                      *)
LEMMA GeneralisedAddedAllGrows ==
  ASSUME AutomataAssumption, Generalised, NEW set, Reduced(set),
         NEW phis \in SUBSET Atom, IsFiniteSet(phis)
  PROVE  Grown(set, phis, GeneralisedAddedAll(set, phis))
<1> DEFINE B == {s \in SUBSET Kept : Reduced(s)}
           c == [s \in SUBSET phis |-> CHOOSE x \in s : TRUE]
           g == [p \in phis \X B |-> GeneralisedAdded(p[2], p[1])]
           step(h, s) == IF s = {} THEN set ELSE GeneralisedAdded(h[s \ {CHOOSE x \in s : TRUE}], CHOOSE x \in s : TRUE)
           iter == CHOOSE h : h = [s \in SUBSET phis |-> step(h, s)]
<1>1. GeneralisedAddedAll(set, phis) = iter[phis]
  BY DEF GeneralisedAddedAll, FoldSet, MapThenFoldSet
<1>2. \E h : h = [s \in SUBSET phis |-> step(h, s)]
  <2>1. set \in B
    BY DEF Reduced
  <2>2. ChoosesFrom(c, phis)
    BY DEF ChoosesFrom
  <2>3. StaysIn(g, phis, B)
    <3> SUFFICES ASSUME NEW x \in phis, NEW b \in B
                 PROVE  GeneralisedAdded(b, x) \in B
      BY Zenon DEF StaysIn
    <3>1. x \in Atom /\ Reduced(b)
      OBVIOUS
    <3>2. Reduced(GeneralisedAdded(b, x))
      BY <3>1, GeneralisedAddedHalves
    <3> QED BY <3>2 DEF Reduced
  <2>4. PICK h : Iterates(h, phis, B, set, c, g)
    <3> HIDE DEF B, c, g, step, iter
    <3> QED BY <2>1, <2>2, <2>3, FoldExists
  <2>5. ASSUME NEW s \in SUBSET phis
        PROVE  h[s] = step(h, s)
    <3>1. CASE s = {}
      BY <2>4, <3>1 DEF Iterates
    <3>2. CASE s # {}
      <4>1. c[s] \in phis /\ s \ {c[s]} \in SUBSET phis
        BY <2>2, <3>2 DEF ChoosesFrom
      <4>2. h[s \ {c[s]}] \in B
        BY <2>4, <4>1 DEF Iterates
      <4>3. \A x \in phis, b \in B : g[<<x, b>>] = GeneralisedAdded(b, x)
        BY Zenon
      <4>4. h[s] = g[<<c[s], h[s \ {c[s]}]>>]
        <5> HIDE DEF B, c, g
        <5> QED BY <2>4, <3>2 DEF Iterates
      <4>5. h[s] = GeneralisedAdded(h[s \ {c[s]}], c[s])
        <5> HIDE DEF B, c, g
        <5> QED BY <4>1, <4>2, <4>3, <4>4
      <4>6. c[s] = CHOOSE x \in s : TRUE
        OBVIOUS
      <4> HIDE DEF B, c, g
      <4> QED BY <3>2, <4>5, <4>6
    <3> QED BY <3>1, <3>2
  <2>6. h = [s \in SUBSET phis |-> step(h, s)]
    <3> HIDE DEF step, B
    <3> QED BY <2>4, <2>5 DEF Iterates
  <2> QED BY <2>6
<1>3. iter = [s \in SUBSET phis |-> step(iter, s)]
  <2> HIDE DEF step
  <2> QED BY <1>2
<1> HIDE DEF iter
<1>4. \A s \in SUBSET phis : iter[s] = step(iter, s)
  <2> HIDE DEF step
  <2> QED BY <1>3
<1> DEFINE G == {s \in SUBSET phis : Grown(set, s, iter[s])}
<1>5. {} \in G
  <2>1. iter[{}] = set
    BY <1>4
  <2> QED BY <2>1 DEF Grown, Keeps
<1>6. ASSUME NEW s \in SUBSET phis, s # {}, \A x \in s : s \ {x} \in G
      PROVE  s \in G
  <2> DEFINE x == CHOOSE z \in s : TRUE
  <2>1. x \in s
    BY <1>6
  <2>2. iter[s] = GeneralisedAdded(iter[s \ {x}], x)
    BY <1>4, <1>6
  <2> HIDE DEF x
  <2>3. Grown(set, s \ {x}, iter[s \ {x}])
    BY <1>6, <2>1
  <2>4. /\ Reduced(iter[s]) /\ Keeps(iter[s \ {x}], iter[s])
        /\ ~Skipped(x) => \A psi \in Halves(x) : Covered(iter[s], psi)
    BY <2>1, <2>2, <2>3, GeneralisedAddedHalves DEF Grown
  <2>5. Grown(set, s, iter[s])
    BY <2>1, <2>3, <2>4, GrownStep
  <2> QED BY <2>5
<1>7. phis \in G
  <2> HIDE DEF G
  <2> QED BY <1>5, <1>6, SubsetInduction
<1> QED BY <1>1, <1>7

-----------------------------------------------------------------------------
(* Simulation by sets of constraints.                                      *)

(* a op b on numbers.                                                      *)
Meets(a, op, b) ==
  CASE op = "LT" -> a < b
    [] op = "LE" -> a <= b
    [] op = "EQ" -> a = b
    [] op = "GE" -> a >= b
    [] op = "GT" -> a > b

(* The value and the bound that a constraint compares.                     *)
ValueOf(v, phi) == IF IsSimple(phi) THEN v[phi.x] ELSE Difference(v[phi.x], v[phi.y])
BoundOf(phi) == IF Infinite(phi.bound) THEN phi.bound ELSE Unit * phi.bound

(* Upper bounds.                                                           *)
Upper(op) == op \in {"LT", "LE"}

(* A constraint holds when the value meets the bound.                      *)
LEMMA HoldsMeets ==
  ASSUME NEW v, NEW phi
  PROVE  Holds(v, phi) <=> Meets(ValueOf(v, phi), phi.op, BoundOf(phi))
BY DEF Holds, Meets, ValueOf, BoundOf

(* Bounds in grid steps are in the order of the bounds.                    *)
LEMMA ProductMonotone ==
  ASSUME NEW u \in Nat \ {0}, NEW a \in Int, NEW b \in Int
  PROVE  /\ u * a \in Int /\ u * b \in Int
         /\ a <= b => u * a <= u * b
         /\ a < b => u * a < u * b
<1>1. u * a \in Int /\ u * b \in Int /\ u * (b - a) = u * b - u * a
  BY SMT
<1>2. b - a \in Int /\ (b - a >= 0 => u * (b - a) >= b - a)
  BY ProductAtLeast
<1> DEFINE p == u * a
           q == u * b
           d == u * (b - a)
<1>3. p \in Int /\ q \in Int /\ d = q - p /\ (b - a >= 0 => d >= b - a)
  BY <1>1, <1>2
<1> HIDE DEF p, q, d
<1>4. (a <= b => p <= q) /\ (a < b => p < q)
  BY <1>3, SMT
<1> QED BY <1>3, <1>4 DEF p, q

(* Valuations are numbers, and so are differences and bounds.              *)
IsValuation(v) == \A x \in ClockId : v[x] \in Int

(* Values and bounds are integers.                                         *)
LEMMA ValueTypes ==
  ASSUME AutomataAssumption, NEW v, IsValuation(v), NEW phi \in Atom
  PROVE  /\ ValueOf(v, phi) \in Int /\ BoundOf(phi) \in Int /\ v[phi.x] \in Int
         /\ ~IsSimple(phi) => phi.y \in ClockId
<1>1. /\ phi.x \in ClockId /\ phi.bound \in Int /\ (~IsSimple(phi) => phi.y \in ClockId)
      /\ Unit \in Nat /\ InfValue \in Nat
  BY DEF Atom, IsSimple, AutomataAssumption
<1>2. v[phi.x] \in Int /\ (~IsSimple(phi) => v[phi.y] \in Int)
  BY <1>1 DEF IsValuation
<1>3. Unit * phi.bound \in Int
  BY <1>1, SMT
<1> QED BY <1>1, <1>2, <1>3 DEF ValueOf, BoundOf, Difference

(* What is simulated by the constraints that stay is simulated by those    *)
(* they stand for.                                                         *)
LEMMA CoveredSimulated ==
  ASSUME AutomataAssumption, NEW set, Reduced(set), NEW phi \in Kept, Covered(set, phi),
         NEW v, NEW w, IsValuation(v), IsValuation(w), SimulatesAll(w, v, set)
  PROVE  Simulates(w, v, phi)
<1>1. PICK psi \in set : psi = phi \/ Beats(psi, phi)
  BY DEF Covered
<1>2. Simulates(w, v, psi) /\ psi \in Kept
  BY DEF SimulatesAll, Reduced
<1>3. CASE psi = phi
  BY <1>2, <1>3
<1>4. CASE Greater(psi, phi) /\ ~Infinite(psi.bound) /\ ~Infinite(phi.bound)
  <2>1. /\ psi.x = phi.x /\ IsSimple(psi) /\ IsSimple(phi)
        /\ psi.bound \in Int /\ phi.bound \in Int /\ phi.bound <= psi.bound
    BY <1>2, <1>4 DEF Greater, SameSide, Kept, Atom
  <2> DEFINE a == v[phi.x]
             b == w[phi.x]
             m == Unit * phi.bound
             n == Unit * psi.bound
  <2>2. a \in Int /\ b \in Int
    BY ValueTypes DEF Kept
  <2>3. m \in Int /\ n \in Int /\ m <= n /\ (phi.bound < psi.bound => m < n)
    BY <2>1, ProductMonotone DEF AutomataAssumption
  <2>4. /\ Simulates(w, v, psi) <=> IF lleq(psi.op) THEN Meets(a, psi.op, n) => b <= a
                                    ELSE Meets(b, psi.op, n) \/ b >= a
        /\ Simulates(w, v, phi) <=> IF lleq(phi.op) THEN Meets(a, phi.op, m) => b <= a
                                    ELSE Meets(b, phi.op, m) \/ b >= a
    BY <1>4, <2>1, HoldsMeets DEF Simulates, ValueOf, BoundOf
  <2>5. psi.bound = phi.bound => m = n
    OBVIOUS
  <2> HIDE DEF a, b, m, n
  <2>6. \/ lleq(psi.op) /\ lleq(phi.op)
        \/ ggeq(psi.op) /\ ggeq(phi.op)
    BY <1>4 DEF Greater, SameSide
  <2>7. phi.bound < psi.bound \/ (phi.bound = psi.bound /\ (psi.op = phi.op \/ psi.op \in {"LE", "GT"}))
    BY <1>4, <2>1 DEF Greater
  <2>8. ASSUME IF lleq(psi.op) THEN Meets(a, psi.op, n) => b <= a ELSE Meets(b, psi.op, n) \/ b >= a
        PROVE  IF lleq(phi.op) THEN Meets(a, phi.op, m) => b <= a ELSE Meets(b, phi.op, m) \/ b >= a
    <3>1. CASE psi.op = "LT" /\ phi.op = "LT"
      BY <2>2, <2>3, <2>5, <2>7, <2>8, <3>1, SMT DEF Meets, lleq
    <3>2. CASE psi.op = "LT" /\ phi.op = "LE"
      BY <2>2, <2>3, <2>5, <2>7, <2>8, <3>2, SMT DEF Meets, lleq
    <3>3. CASE psi.op = "LE" /\ phi.op = "LT"
      BY <2>2, <2>3, <2>5, <2>7, <2>8, <3>3, SMT DEF Meets, lleq
    <3>4. CASE psi.op = "LE" /\ phi.op = "LE"
      BY <2>2, <2>3, <2>5, <2>7, <2>8, <3>4, SMT DEF Meets, lleq
    <3>5. CASE psi.op = "GT" /\ phi.op = "GT"
      BY <2>2, <2>3, <2>5, <2>7, <2>8, <3>5, SMT DEF Meets, lleq
    <3>6. CASE psi.op = "GT" /\ phi.op = "GE"
      BY <2>2, <2>3, <2>5, <2>7, <2>8, <3>6, SMT DEF Meets, lleq
    <3>7. CASE psi.op = "GE" /\ phi.op = "GT"
      BY <2>2, <2>3, <2>5, <2>7, <2>8, <3>7, SMT DEF Meets, lleq
    <3>8. CASE psi.op = "GE" /\ phi.op = "GE"
      BY <2>2, <2>3, <2>5, <2>7, <2>8, <3>8, SMT DEF Meets, lleq
    <3> QED BY <2>6, <3>1, <3>2, <3>3, <3>4, <3>5, <3>6, <3>7, <3>8 DEF lleq, ggeq
  <2> QED BY <1>2, <2>4, <2>8, Zenon
<1>5. CASE Generalised /\ GreaterInf(psi, phi) /\ (Infinite(psi.bound) \/ Infinite(phi.bound))
  <2>1. /\ psi.bound \in Int /\ -InfValue <= psi.bound /\ psi.bound <= InfValue
        /\ phi.bound \in Int /\ -InfValue <= phi.bound /\ phi.bound <= InfValue
    BY <1>2, <1>5, BoundRange DEF Kept
  <2>2. IF psi.bound = phi.bound THEN psi.op = phi.op
        ELSE psi.bound > phi.bound /\ psi.bound # InfValue /\ phi.bound # -InfValue
    BY <1>5 DEF GreaterInf, Infinite
  <2>3. psi.bound = phi.bound /\ psi.op = phi.op
    BY <1>5, <2>1, <2>2, SMT DEF Infinite, AutomataAssumption
  <2>4. SameSide(psi, phi)
    BY <1>5 DEF GreaterInf, Greater
  <2>5. psi.x = phi.x /\ IsSimple(psi) /\ IsSimple(phi)
    BY <2>4 DEF SameSide
  <2> QED BY <1>2, <2>3, <2>5 DEF Simulates, Holds
<1>6. Beats(psi, phi) =>
        \/ Greater(psi, phi) /\ ~Infinite(psi.bound) /\ ~Infinite(phi.bound)
        \/ Generalised /\ GreaterInf(psi, phi) /\ (Infinite(psi.bound) \/ Infinite(phi.bound))
  BY DEF Beats, GreaterInf, Infinite
<1> QED BY <1>1, <1>3, <1>4, <1>5, <1>6

(* Closer to the bound from either side.                                   *)
LEMMA MeetsCloser ==
  ASSUME NEW a \in Int, NEW b \in Int, NEW m \in Int, NEW op, Meets(a, op, m),
         \/ op \in {"LT", "LE"} /\ b <= a
         \/ op \in {"GE", "GT"} /\ b >= a
  PROVE  Meets(b, op, m)
<1>1. CASE op = "LT"
  BY <1>1, SMT DEF Meets
<1>2. CASE op = "LE"
  BY <1>2, SMT DEF Meets
<1>3. CASE op = "GE"
  BY <1>3, SMT DEF Meets
<1>4. CASE op = "GT"
  BY <1>4, SMT DEF Meets
<1> QED BY <1>1, <1>2, <1>3, <1>4

(* Simulated constraints are passed on.                                    *)
LEMMA SimulatedHolds ==
  ASSUME AutomataAssumption, NEW phi \in Kept, NEW v, NEW w, IsValuation(v), IsValuation(w),
         Simulates(w, v, phi), Holds(v, phi)
  PROVE  Holds(w, phi)
<1>1. CASE ~IsSimple(phi) \/ Infinite(phi.bound)
  BY <1>1 DEF Simulates
<1>2. CASE IsSimple(phi) /\ ~Infinite(phi.bound)
  <2> DEFINE a == v[phi.x]
             b == w[phi.x]
             m == Unit * phi.bound
  <2>1. a \in Int /\ b \in Int /\ m \in Int
    BY <1>2, ValueTypes DEF Kept, BoundOf
  <2>2. (Holds(v, phi) <=> Meets(a, phi.op, m)) /\ (Holds(w, phi) <=> Meets(b, phi.op, m))
    BY <1>2, HoldsMeets DEF ValueOf, BoundOf
  <2>3. IF lleq(phi.op) THEN Meets(a, phi.op, m) => b <= a ELSE Meets(b, phi.op, m) \/ b >= a
    BY <1>2, <2>2 DEF Simulates
  <2>4. phi.op \in {"LT", "LE", "GE", "GT"}
    BY DEF Kept, Atom
  <2> HIDE DEF a, b, m
  <2>5. Meets(a, phi.op, m)
    BY <2>2, Zenon
  <2>6. Meets(b, phi.op, m)
    <3>1. CASE phi.op \in {"LT", "LE"}
      <4>1. b <= a
        BY <2>3, <2>5, <3>1 DEF lleq
      <4> QED BY <2>1, <2>5, <3>1, <4>1, MeetsCloser
    <3>2. CASE phi.op \in {"GE", "GT"}
      <4>1. Meets(b, phi.op, m) \/ b >= a
        BY <2>3, <3>2 DEF lleq
      <4>2. CASE Meets(b, phi.op, m)
        BY <4>2
      <4>3. CASE b >= a
        BY <2>1, <2>5, <3>2, <4>3, MeetsCloser
      <4> QED BY <4>1, <4>2, <4>3
    <3> QED BY <2>4, <3>1, <3>2
  <2> QED BY <2>2, <2>6, Zenon
<1> QED BY <1>1, <1>2

(* A constraint holds when its halves do.                                  *)
LEMMA HalvesHold ==
  ASSUME AutomataAssumption, NEW phi \in Atom, NEW v, IsValuation(v)
  PROVE  Holds(v, phi) <=> \A psi \in Halves(phi) : Holds(v, psi)
<1>1. CASE phi.op # "EQ"
  BY <1>1 DEF Halves
<1>2. CASE phi.op = "EQ"
  <2> DEFINE le == [phi EXCEPT !.op = "LE"]
             ge == [phi EXCEPT !.op = "GE"]
             a == ValueOf(v, phi)
             m == BoundOf(phi)
  <2>1. a \in Int /\ m \in Int
    BY ValueTypes
  <2>2. /\ ValueOf(v, le) = a /\ BoundOf(le) = m /\ le.op = "LE"
        /\ ValueOf(v, ge) = a /\ BoundOf(ge) = m /\ ge.op = "GE"
    BY DEF ValueOf, BoundOf, Atom, IsSimple
  <2>3. /\ Holds(v, phi) <=> a = m
        /\ Holds(v, le) <=> a <= m
        /\ Holds(v, ge) <=> a >= m
    <3> HIDE DEF le, ge, a, m
    <3>1. /\ Meets(a, "EQ", m) <=> a = m
          /\ Meets(a, "LE", m) <=> a <= m
          /\ Meets(a, "GE", m) <=> a >= m
      BY DEF Meets
    <3>2. Holds(v, phi) <=> Meets(a, "EQ", m)
      BY <1>2, HoldsMeets DEF a, m
    <3> QED BY <2>2, <3>1, <3>2, HoldsMeets
  <2>4. Halves(phi) = {le, ge}
    BY <1>2 DEF Halves
  <2> HIDE DEF le, ge, a, m
  <2> QED BY <2>1, <2>3, <2>4
<1> QED BY <1>1, <1>2

(* A constraint is passed on when its halves are simulated.                *)
LEMMA HalvesTransfer ==
  ASSUME AutomataAssumption, NEW phi \in Atom, NEW v, NEW w, IsValuation(v), IsValuation(w),
         \A psi \in Halves(phi) : Simulates(w, v, psi), Holds(v, phi)
  PROVE  Holds(w, phi)
<1>1. \A psi \in Halves(phi) : psi \in Kept /\ Holds(v, psi)
  BY HalvesHold, HalvesKept
<1>2. \A psi \in Halves(phi) : Holds(w, psi)
  BY <1>1, SimulatedHolds
<1> QED BY <1>2, HalvesHold

-----------------------------------------------------------------------------
(* Plain automata: updates, up_inverse and the optimisation with guards.   *)

(* The operators of constraints in sets.                                   *)
Comparison == {"LT", "LE", "GE", "GT"}

(* A shift of a value and of its bound changes nothing.                    *)
LEMMA MeetsShifted ==
  ASSUME NEW a \in Int, NEW b \in Int, NEW k \in Int, NEW op \in Comparison
  PROVE  Meets(a + k, op, b + k) <=> Meets(a, op, b)
<1>1. CASE op = "LT"
  BY <1>1, SMT DEF Meets
<1>2. CASE op = "LE"
  BY <1>2, SMT DEF Meets
<1>3. CASE op = "GE"
  BY <1>3, SMT DEF Meets
<1>4. CASE op = "GT"
  BY <1>4, SMT DEF Meets
<1> QED BY <1>1, <1>2, <1>3, <1>4 DEF Comparison

(* reverse_operator is right about opposite numbers.                       *)
LEMMA MeetsNegated ==
  ASSUME NEW a \in Int, NEW b \in Int, NEW op \in Comparison
  PROVE  Meets(-a, reverse_operator(op), -b) <=> Meets(a, op, b)
<1>1. CASE op = "LT"
  BY <1>1, SMT DEF Meets, reverse_operator
<1>2. CASE op = "LE"
  BY <1>2, SMT DEF Meets, reverse_operator
<1>3. CASE op = "GE"
  BY <1>3, SMT DEF Meets, reverse_operator
<1>4. CASE op = "GT"
  BY <1>4, SMT DEF Meets, reverse_operator
<1> QED BY <1>1, <1>2, <1>3, <1>4 DEF Comparison

(* On either side of a bound.                                              *)
LEMMA MeetsDecided ==
  ASSUME NEW a \in Int, NEW b \in Int, NEW op \in Comparison
  PROVE  /\ a > b => (Meets(a, op, b) <=> ggeq(op))
         /\ a < b => (Meets(a, op, b) <=> lleq(op))
         /\ lleq(op) <=> ~ggeq(op)
<1>1. CASE op = "LT"
  BY <1>1, SMT DEF Meets, lleq, ggeq
<1>2. CASE op = "LE"
  BY <1>2, SMT DEF Meets, lleq, ggeq
<1>3. CASE op = "GE"
  BY <1>3, SMT DEF Meets, lleq, ggeq
<1>4. CASE op = "GT"
  BY <1>4, SMT DEF Meets, lleq, ggeq
<1> QED BY <1>1, <1>2, <1>3, <1>4 DEF Comparison

(* What Simulates says of a simple and finite constraint, and of another.  *)
LEMMA SimulatesMeans ==
  ASSUME NEW phi \in Kept, NEW v, NEW w
  PROVE  /\ IsSimple(phi) /\ ~Infinite(phi.bound) /\ lleq(phi.op) =>
              (Simulates(w, v, phi) <=> (Holds(v, phi) => w[phi.x] <= v[phi.x]))
         /\ IsSimple(phi) /\ ~Infinite(phi.bound) /\ ~lleq(phi.op) =>
              (Simulates(w, v, phi) <=> Holds(w, phi) \/ w[phi.x] >= v[phi.x])
         /\ ~IsSimple(phi) \/ Infinite(phi.bound) =>
              (Simulates(w, v, phi) <=> (Holds(v, phi) => Holds(w, phi)))
BY DEF Simulates

(* An assignment, and the value it gives.                                  *)
Assignment == [z : ClockId \cup {NoClock}, d : Int]

(* The value that an assignment reads, and the one that it gives.          *)
Source(v, u) == IF u.z = NoClock THEN 0 ELSE v[u.z]
After(v, u) == Source(v, u) + Unit * u.d

(* A constraint after the updates is the shifted one before them: the      *)
(* bound of up_inverse.                                                    *)
LEMMA AfterMeets ==
  ASSUME AutomataAssumption, ~Generalised, NEW phi \in Kept, NEW u1 \in Assignment, NEW u2 \in Assignment,
         IsSimple(phi) => u2 = [z |-> NoClock, d |-> 0],
         NEW v \in Valuation, NEW v1,
         v1[phi.x] = After(v, u1), ~IsSimple(phi) => v1[phi.y] = After(v, u2)
  PROVE  /\ Source(v, u1) \in Nat /\ Source(v, u2) \in Nat
         /\ Unit * (phi.bound - u1.d + u2.d) \in Int
         /\ Holds(v1, phi) <=> Meets(Source(v, u1) - Source(v, u2), phi.op, Unit * (phi.bound - u1.d + u2.d))
<1>1. Unit \in Nat \ {0} /\ phi.bound \in Int /\ u1.d \in Int /\ u2.d \in Int
      /\ phi.op \in Comparison
  BY DEF AutomataAssumption, Kept, Atom, Assignment, Comparison
<1>2. Source(v, u1) \in Nat /\ Source(v, u2) \in Nat
  BY DEF Source, Valuation, Assignment, AutomataAssumption
<1> DEFINE a == Source(v, u1)
           b == Source(v, u2)
           m == Unit * phi.bound
           p == Unit * u1.d
           q == Unit * u2.d
<1>3. m \in Int /\ p \in Int /\ q \in Int /\ Unit * (phi.bound - u1.d + u2.d) = m - p + q
  BY <1>1, SMT
<1>4. ValueOf(v1, phi) = (a + p) - (b + q)
  <2>1. CASE IsSimple(phi)
    <3>1. b = 0 /\ q = 0
      BY <1>1, <2>1, SMT DEF Source
    <3>2. ValueOf(v1, phi) = a + p
      BY <2>1 DEF ValueOf, After
    <3> HIDE DEF a, b, p, q
    <3>3. a \in Int /\ p \in Int
      BY <1>2, <1>3 DEF a
    <3> QED BY <3>1, <3>2, <3>3, SMT
  <2>2. CASE ~IsSimple(phi)
    BY <2>2 DEF ValueOf, After, Difference, Infinite
  <2> QED BY <2>1, <2>2
<1>5. Holds(v1, phi) <=> Meets((a + p) - (b + q), phi.op, m)
  <2> HIDE DEF a, b, p, q
  <2> QED BY <1>4, HoldsMeets DEF BoundOf, Infinite
<1>6. a \in Int /\ b \in Int
  BY <1>2
<1> HIDE DEF a, b, p, q, m
<1>7. /\ (a + p) - (b + q) = (a - b) + (p - q) /\ m = (m - p + q) + (p - q)
      /\ a - b \in Int /\ p - q \in Int /\ m - p + q \in Int
  BY <1>3, <1>6, SMT
<1>8. Meets((a + p) - (b + q), phi.op, m) <=> Meets(a - b, phi.op, m - p + q)
  <2> DEFINE s == a - b
             t == m - p + q
             k == p - q
  <2>1. s \in Int /\ t \in Int /\ k \in Int /\ (a + p) - (b + q) = s + k /\ m = t + k
    BY <1>7
  <2> HIDE DEF s, t, k
  <2>2. Meets(s + k, phi.op, t + k) <=> Meets(s, phi.op, t)
    <3>1. s \in Int /\ t \in Int /\ k \in Int /\ phi.op \in Comparison
      BY <1>1, <2>1
    <3> QED BY <3>1, MeetsShifted, Zenon
  <2>3. Meets((a + p) - (b + q), phi.op, m) <=> Meets(s, phi.op, t)
    BY <2>1, <2>2
  <2> QED BY <2>3 DEF s, t
<1> QED BY <1>2, <1>3, <1>5, <1>7, <1>8 DEF a, b

(* Valuations of plain automata are natural numbers.                       *)
LEMMA ValuesNatural ==
  ASSUME AutomataAssumption, NEW v \in Valuation
  PROVE  IsValuation(v) /\ \A x \in ClockId : v[x] \in Nat
<1>1. Values \subseteq Nat
  BY DEF AutomataAssumption
<1>2. \A x \in ClockId : v[x] \in Nat
  BY <1>1 DEF Valuation
<1>3. \A x \in ClockId : v[x] \in Int
  BY <1>2
<1> QED BY <1>2, <1>3, Zenon DEF IsValuation

(* reverse_operator yields operators of constraints in sets.               *)
LEMMA ReversedOperators ==
  ASSUME NEW op \in Comparison
  PROVE  reverse_operator(op) \in Comparison
BY DEF Comparison, reverse_operator

(* The parts of a constraint in a set.                                     *)
LEMMA AtomFields ==
  ASSUME NEW phi \in Kept
  PROVE  /\ phi.x \in ClockId /\ phi.y \in ClockId \cup {NoClock} /\ phi.x # phi.y
         /\ phi.op \in Comparison /\ phi.bound \in Int
         /\ IsSimple(phi) <=> phi.y = NoClock
         /\ ~IsSimple(phi) => phi.y \in ClockId
BY DEF Kept, Atom, Comparison, IsSimple

(* A constraint with a natural bound may be in sets.                       *)
LEMMA ConstraintKept ==
  ASSUME ~Generalised, NEW x \in ClockId, NEW y \in ClockId \cup {NoClock}, x # y, NEW op \in Comparison,
         NEW bound \in Nat
  PROVE  Constraint(x, y, op, bound) \in Kept
<1>1. Constraint(x, y, op, bound) \in [x : ClockId, y : ClockId \cup {NoClock},
         op : {"LT", "LE", "EQ", "GE", "GT"}, bound : Int]
  BY DEF Constraint, Comparison
<1>2. Constraint(x, y, op, bound).op # "EQ" /\ Constraint(x, y, op, bound).x = x
      /\ Constraint(x, y, op, bound).y = y /\ Constraint(x, y, op, bound).bound = bound
  BY DEF Constraint, Comparison
<1>3. IsBound(system, Constraint(x, y, op, bound))
  BY <1>2 DEF IsBound, Generalised
<1> QED BY <1>1, <1>2, <1>3 DEF Kept, Atom

(* up_inverse: what it returns makes one assignment simulate another.      *)
LEMMA UpInverseKept ==
  ASSUME ~Generalised, NEW phi \in Kept, NEW u1 \in Assignment, NEW u2 \in Assignment,
         NEW pre \in UpInverse(u1, u2, phi.op, phi.bound)
  PROVE  pre \in Kept
<1> DEFINE bound == phi.bound - u1.d + u2.d
           reversed == bound < 0 \/ (u1.z = NoClock /\ u2.z # NoClock)
           final == IF reversed THEN -bound ELSE bound
           newop == IF reversed THEN reverse_operator(phi.op) ELSE phi.op
<1>1. bound \in Int
  BY AtomFields DEF Assignment
<1>2. newop \in Comparison
  BY AtomFields, ReversedOperators
<1>3. u1.z # u2.z /\ ~(final < 0)
  BY DEF UpInverse
<1>4. final \in Nat
  <2> HIDE DEF bound
  <2> QED BY <1>1, <1>3, SMT
<1>5. \/ /\ u1.z = NoClock \/ u2.z = NoClock
         /\ pre = Constraint(IF u1.z = NoClock THEN u2.z ELSE u1.z, NoClock, newop, final)
      \/ /\ u1.z # NoClock /\ u2.z # NoClock
         /\ pre = Constraint(u1.z, u2.z, newop, final) \/ pre = Constraint(u2.z, u1.z, newop, final)
  BY <1>3 DEF UpInverse
<1> HIDE DEF newop, final
<1>6. NoClock \notin ClockId
  BY DEF NoClock, ClockId
<1>7. u1.z \in ClockId \cup {NoClock} /\ u2.z \in ClockId \cup {NoClock}
  BY DEF Assignment
<1> QED BY <1>2, <1>3, <1>4, <1>5, <1>6, <1>7, ConstraintKept

(* What up_inverse returns, when simulated, simulates the constraint after *)
(* the updates.                                                            *)
LEMMA UpInverseSimulates ==
  ASSUME AutomataAssumption, ~Generalised, NEW phi \in Kept, NEW u1 \in Assignment, NEW u2 \in Assignment,
         IsSimple(phi) => u2 = [z |-> NoClock, d |-> 0],
         NEW v \in Valuation, NEW v1, v1[phi.x] = After(v, u1), ~IsSimple(phi) => v1[phi.y] = After(v, u2),
         NEW w \in Valuation, NEW w1, w1[phi.x] = After(w, u1), ~IsSimple(phi) => w1[phi.y] = After(w, u2),
         \A pre \in UpInverse(u1, u2, phi.op, phi.bound) : Simulates(w, v, pre)
  PROVE  Simulates(w1, v1, phi)
<1> DEFINE bound == phi.bound - u1.d + u2.d
           m == Unit * bound
           a == Source(v, u1)
           b == Source(v, u2)
           c == Source(w, u1)
           d == Source(w, u2)
           reversed == bound < 0 \/ (u1.z = NoClock /\ u2.z # NoClock)
           final == IF reversed THEN -bound ELSE bound
           newop == IF reversed THEN reverse_operator(phi.op) ELSE phi.op
<1>1. /\ a \in Nat /\ b \in Nat /\ c \in Nat /\ d \in Nat /\ m \in Int
      /\ Holds(v1, phi) <=> Meets(a - b, phi.op, m)
      /\ Holds(w1, phi) <=> Meets(c - d, phi.op, m)
  BY AfterMeets
<1>2. /\ phi.op \in Comparison /\ bound \in Int /\ Unit \in Nat \ {0} /\ ~Infinite(phi.bound)
      /\ Unit * u1.d \in Int
  BY AtomFields, SMT DEF Assignment, AutomataAssumption, Infinite
<1>3. /\ bound < 0 => m < 0
      /\ bound > 0 => m > 0
      /\ Unit * (-bound) = -m
  <2> HIDE DEF bound
  <2>1. (bound >= 0 => m >= bound) /\ (bound <= 0 => m <= bound)
    BY <1>2, ProductAtLeast
  <2>2. Unit * (-bound) = -m
    BY <1>2, SMT
  <2> QED BY <1>1, <1>2, <2>1, <2>2, SMT
<1>4. IsSimple(phi) => u2.z = NoClock /\ b = 0 /\ d = 0
  BY DEF Source
<1>5. v1[phi.x] = a + Unit * u1.d /\ w1[phi.x] = c + Unit * u1.d
  BY DEF After
(* The sides of the bound are the same before and after. *)
<1>6. ASSUME Holds(v1, phi) => Holds(w1, phi), ~IsSimple(phi)
      PROVE  Simulates(w1, v1, phi)
  BY <1>6, SimulatesMeans
<1>7. CASE u1.z = u2.z
  <2>1. a = b /\ c = d
    BY <1>7 DEF Source
  <2> HIDE DEF a, b, c, d, m
  <2>2. a - b = 0 /\ c - d = 0
    BY <1>1, <2>1
  <2>3. Holds(v1, phi) <=> Holds(w1, phi)
    BY <1>1, <2>2, Zenon
  <2>4. CASE IsSimple(phi)
    <3>1. v1[phi.x] = Unit * u1.d /\ w1[phi.x] = Unit * u1.d
      BY <1>1, <1>2, <1>4, <1>5, <2>1, <2>4
    <3>2. v1[phi.x] = w1[phi.x] /\ v1[phi.x] \in Int
      BY <1>2, <3>1
    <3> QED BY <1>2, <2>4, <3>2, SimulatesMeans
  <2> QED BY <1>6, <2>3, <2>4
<1>8. CASE u1.z # NoClock /\ u2.z # NoClock /\ u1.z # u2.z
  <2> DEFINE pre == IF bound >= 0 THEN Constraint(u1.z, u2.z, newop, final)
                    ELSE Constraint(u2.z, u1.z, newop, final)
  <2>1. ~(final < 0)
    <3> HIDE DEF bound
    <3> QED BY <1>2, <1>8
  <2>2. pre \in UpInverse(u1, u2, phi.op, phi.bound)
    BY <1>8, <2>1 DEF UpInverse
  <2>3. ~IsSimple(pre) /\ ~IsSimple(phi)
    BY <1>4, <1>8 DEF IsSimple, Constraint
  <2>4. ASSUME NEW t \in Valuation
        PROVE  Holds(t, pre) <=> Meets(Source(t, u1) - Source(t, u2), phi.op, m)
    <3>1. Source(t, u1) = t[u1.z] /\ Source(t, u2) = t[u2.z] /\ t[u1.z] \in Nat /\ t[u2.z] \in Nat
      BY <1>8 DEF Source, Valuation, Assignment, AutomataAssumption
    <3>2. CASE bound >= 0
      <4>1. ~reversed /\ pre = Constraint(u1.z, u2.z, phi.op, bound)
        <5> HIDE DEF bound
        <5> QED BY <1>2, <1>8, <3>2
      <4>2. ValueOf(t, pre) = t[u1.z] - t[u2.z] /\ BoundOf(pre) = m /\ pre.op = phi.op
        BY <4>1, <2>3 DEF ValueOf, BoundOf, Infinite, Difference, Constraint
      <4> HIDE DEF m, pre
      <4> QED BY <3>1, <4>2, HoldsMeets
    <3>3. CASE bound < 0
      <4>1. pre = Constraint(u2.z, u1.z, reverse_operator(phi.op), -bound)
        <5>1. ~(bound >= 0)
          <6> HIDE DEF bound
          <6> QED BY <1>2, <3>3
        <5> QED BY <3>3, <5>1
      <4>2. /\ ValueOf(t, pre) = t[u2.z] - t[u1.z] /\ BoundOf(pre) = Unit * (-bound)
            /\ pre.op = reverse_operator(phi.op)
        BY <4>1, <2>3 DEF ValueOf, BoundOf, Infinite, Difference, Constraint
      <4> DEFINE s == t[u1.z] - t[u2.z]
      <4>3. s \in Int /\ t[u2.z] - t[u1.z] = -s
        BY <3>1
      <4> HIDE DEF m, pre, s, bound
      <4>4. Holds(t, pre) <=> Meets(-s, reverse_operator(phi.op), -m)
        BY <1>3, <4>2, <4>3, HoldsMeets
      <4>5. Meets(-s, reverse_operator(phi.op), -m) <=> Meets(s, phi.op, m)
        BY <1>1, <1>2, <4>3, MeetsNegated
      <4> QED BY <3>1, <4>4, <4>5 DEF s
    <3>4. bound >= 0 \/ bound < 0
      <4> HIDE DEF bound
      <4> QED BY <1>2
    <3> QED BY <3>2, <3>3, <3>4
  <2>5. Holds(v, pre) => Holds(w, pre)
    <3>1. Simulates(w, v, pre) /\ pre \in Kept
      BY <2>2, UpInverseKept
    <3> HIDE DEF pre
    <3> QED BY <2>3, <3>1, SimulatesMeans
  <2> HIDE DEF pre, m
  <2> QED BY <1>1, <1>6, <2>3, <2>4, <2>5
(* A simple constraint of one clock. *)
<1>9. ASSUME NEW x \in ClockId, NEW op \in Comparison, NEW n \in Int, NEW t \in Valuation
      PROVE  /\ Holds(t, Constraint(x, NoClock, op, n)) <=> Meets(t[x], op, Unit * n)
             /\ t[x] \in Nat
  <2>1. IsSimple(Constraint(x, NoClock, op, n))
    BY DEF IsSimple, Constraint
  <2>2. ValueOf(t, Constraint(x, NoClock, op, n)) = t[x] /\ BoundOf(Constraint(x, NoClock, op, n)) = Unit * n
    BY <2>1 DEF ValueOf, BoundOf, Infinite, Constraint
  <2>3. Constraint(x, NoClock, op, n).op = op
    BY DEF Constraint
  <2> QED BY <2>2, <2>3, HoldsMeets DEF Valuation, AutomataAssumption
<1>10. CASE u1.z # NoClock /\ u2.z = NoClock
  <2>1. b = 0 /\ d = 0 /\ a = v[u1.z] /\ c = w[u1.z] /\ u1.z \in ClockId
    BY <1>10 DEF Source, Assignment
  <2>2. CASE bound < 0
    <3> HIDE DEF a, b, c, d, m, bound
    <3>1. a - b > m /\ c - d > m /\ a - b \in Int /\ c - d \in Int
      BY <1>1, <1>2, <1>3, <2>1, <2>2, SMT
    <3>2. (Holds(v1, phi) <=> ggeq(phi.op)) /\ (Holds(w1, phi) <=> ggeq(phi.op))
      <4>1. Meets(a - b, phi.op, m) <=> ggeq(phi.op)
        BY <1>1, <1>2, <3>1, MeetsDecided
      <4>2. Meets(c - d, phi.op, m) <=> ggeq(phi.op)
        BY <1>1, <1>2, <3>1, MeetsDecided
      <4> QED BY <1>1, <4>1, <4>2, Zenon
    <3>3. lleq(phi.op) <=> ~ggeq(phi.op)
      BY <1>1, <1>2, MeetsDecided
    <3> QED BY <1>2, <1>6, <3>2, <3>3, SimulatesMeans
  <2>3. CASE bound >= 0
    <3> DEFINE pre == Constraint(u1.z, NoClock, phi.op, bound)
    <3>1. pre \in UpInverse(u1, u2, phi.op, phi.bound)
      <4>1. ~reversed /\ final = bound /\ ~(final < 0)
        <5> HIDE DEF bound
        <5> QED BY <1>2, <1>10, <2>3
      <4> QED BY <1>10, <4>1 DEF UpInverse
    <3>2. Simulates(w, v, pre) /\ pre \in Kept
      BY <3>1, UpInverseKept
    <3>3. IsSimple(pre) /\ ~Infinite(pre.bound) /\ pre.op = phi.op /\ pre.x = u1.z
      BY DEF IsSimple, Constraint, Infinite
    <3>4. /\ Holds(v, pre) <=> Meets(a, phi.op, m)
          /\ Holds(w, pre) <=> Meets(c, phi.op, m)
      BY <1>2, <1>9, <2>1
    <3> HIDE DEF a, b, c, d, m, pre, bound
    <3>5. a - b = a /\ c - d = c
      BY <1>1, <2>1
    <3>6. (Holds(v, pre) <=> Holds(v1, phi)) /\ (Holds(w, pre) <=> Holds(w1, phi))
      BY <1>1, <3>4, <3>5, Zenon
    <3>7. CASE ~IsSimple(phi)
      <4>1. IsValuation(v) /\ IsValuation(w)
        BY ValuesNatural
      <4>2. Holds(v, pre) => Holds(w, pre)
        BY <3>2, <4>1, SimulatedHolds
      <4> QED BY <1>6, <3>6, <3>7, <4>2
    <3>8. CASE IsSimple(phi)
      <4>1. /\ lleq(phi.op) => (Holds(v, pre) => c <= a)
            /\ ~lleq(phi.op) => Holds(w, pre) \/ c >= a
        BY <2>1, <3>2, <3>3, SimulatesMeans
      <4>2. /\ c <= a <=> w1[phi.x] <= v1[phi.x]
            /\ c >= a <=> w1[phi.x] >= v1[phi.x]
        BY <1>1, <1>2, <1>5, SMT
      <4> QED BY <1>2, <3>6, <3>8, <4>1, <4>2, SimulatesMeans
    <3> QED BY <3>7, <3>8
  <2>4. bound >= 0 \/ bound < 0
    <3> HIDE DEF bound
    <3> QED BY <1>2
  <2> QED BY <2>2, <2>3, <2>4
<1>11. CASE u1.z = NoClock /\ u2.z # NoClock
  <2>1. a = 0 /\ c = 0 /\ b = v[u2.z] /\ d = w[u2.z] /\ u2.z \in ClockId /\ ~IsSimple(phi)
    BY <1>4, <1>11 DEF Source, Assignment
  <2>2. CASE bound > 0
    <3> HIDE DEF a, b, c, d, m, bound
    <3>1. a - b < m /\ c - d < m /\ a - b \in Int /\ c - d \in Int
      BY <1>1, <1>2, <1>3, <2>1, <2>2, SMT
    <3>2. (Holds(v1, phi) <=> lleq(phi.op)) /\ (Holds(w1, phi) <=> lleq(phi.op))
      <4>1. Meets(a - b, phi.op, m) <=> lleq(phi.op)
        BY <1>1, <1>2, <3>1, MeetsDecided
      <4>2. Meets(c - d, phi.op, m) <=> lleq(phi.op)
        BY <1>1, <1>2, <3>1, MeetsDecided
      <4> QED BY <1>1, <4>1, <4>2, Zenon
    <3> QED BY <1>6, <2>1, <3>2
  <2>3. CASE bound <= 0
    <3> DEFINE rev == reverse_operator(phi.op)
               pre == Constraint(u2.z, NoClock, rev, -bound)
    <3>1. pre \in UpInverse(u1, u2, phi.op, phi.bound)
      <4>1. reversed /\ final = -bound /\ ~(final < 0)
        <5> HIDE DEF bound
        <5> QED BY <1>2, <1>11, <2>3
      <4> QED BY <1>11, <4>1 DEF UpInverse
    <3>2. Simulates(w, v, pre) /\ pre \in Kept
      BY <3>1, UpInverseKept
    <3>3. rev \in Comparison
      BY <1>2, ReversedOperators
    <3>4. /\ Holds(v, pre) <=> Meets(b, rev, -m)
          /\ Holds(w, pre) <=> Meets(d, rev, -m)
      <4> HIDE DEF rev, bound
      <4>1. -bound \in Int
        BY <1>2
      <4>2. /\ Holds(v, Constraint(u2.z, NoClock, rev, -bound)) <=> Meets(v[u2.z], rev, Unit * (-bound))
            /\ Holds(w, Constraint(u2.z, NoClock, rev, -bound)) <=> Meets(w[u2.z], rev, Unit * (-bound))
        BY <1>9, <2>1, <3>3, <4>1
      <4> QED BY <1>3, <2>1, <4>2
    <3> HIDE DEF a, b, c, d, m, pre, bound
    <3>5. ASSUME NEW s \in Nat
          PROVE  Meets(s, rev, -m) <=> Meets(-s, phi.op, m)
      <4>1. -s \in Int /\ -(-s) = s
        BY SMT
      <4>2. Meets(-(-s), rev, -m) <=> Meets(-s, phi.op, m)
        BY <1>1, <1>2, <4>1, MeetsNegated
      <4> QED BY <4>1, <4>2
    <3>6. a - b = -b /\ c - d = -d
      BY <1>1, <2>1
    <3>7. (Holds(v, pre) <=> Holds(v1, phi)) /\ (Holds(w, pre) <=> Holds(w1, phi))
      BY <1>1, <3>4, <3>5, <3>6
    <3>8. IsValuation(v) /\ IsValuation(w)
      BY ValuesNatural
    <3>9. Holds(v, pre) => Holds(w, pre)
      BY <3>2, <3>8, SimulatedHolds
    <3> QED BY <1>6, <2>1, <3>7, <3>9
  <2>4. bound > 0 \/ bound <= 0
    <3> HIDE DEF bound
    <3> QED BY <1>2
  <2> QED BY <2>2, <2>3, <2>4
<1> QED BY <1>7, <1>8, <1>10, <1>11

(* Max of positions is one of them.                                        *)
LEMMA LastPosition ==
  ASSUME NEW N \in Nat, NEW T \in SUBSET (1 .. N), T # {}
  PROVE  Max(T) \in T
<1> DEFINE U == {n \in Nat : N - n \in T}
<1>1. U \in SUBSET Nat
  OBVIOUS
<1>2. U # {}
  <2>1. PICK i \in T : TRUE
    OBVIOUS
  <2>2. N - i \in Nat /\ N - (N - i) = i
    BY <2>1
  <2> QED BY <2>1, <2>2
<1>3. PICK n \in U : \A m \in U : n <= m
  <2> HIDE DEF U
  <2> QED BY <1>1, <1>2, LeastElement
<1>4. N - n \in T
  BY <1>3
<1>5. \A j \in T : N - n >= j
  <2> SUFFICES ASSUME NEW j \in T
               PROVE  N - n >= j
    OBVIOUS
  <2>1. N - j \in Nat /\ N - (N - j) = j /\ j \in Int
    OBVIOUS
  <2>2. N - j \in U
    BY <2>1
  <2>3. n <= N - j /\ n \in Nat
    BY <1>1, <1>3, <2>2
  <2> HIDE DEF U
  <2> QED BY <2>1, <2>3, SMT
<1> QED BY <1>4, <1>5 DEF Max

(* extract_updates finds an assignment of the edge, or the identity.       *)
LEMMA AssignmentOf ==
  ASSUME NEW update, IsSequence(update), \A i \in DOMAIN update : IsUpdate(update[i]), NEW x \in ClockId
  PROVE  ExtractUpdates(update, x) \in Assignment
<1> DEFINE assigned == {i \in DOMAIN update : update[i].x = x}
<1>1. CASE assigned = {}
  <2>1. ExtractUpdates(update, x) = [z |-> x, d |-> 0]
    BY <1>1 DEF ExtractUpdates
  <2> QED BY <2>1 DEF Assignment
<1>2. CASE assigned # {}
  <2>1. Len(update) \in Nat /\ DOMAIN update = 1 .. Len(update)
    BY DEF IsSequence
  <2>2. Max(assigned) \in assigned
    BY <1>2, <2>1, LastPosition
  <2>3. IsUpdate(update[Max(assigned)])
    BY <2>2
  <2>4. ExtractUpdates(update, x) = [z |-> update[Max(assigned)].z, d |-> update[Max(assigned)].d]
    BY <1>2 DEF ExtractUpdates
  <2> QED BY <2>3, <2>4 DEF Assignment, IsUpdate
<1> QED BY <1>1, <1>2

(* A guard g is known to hold for both, and its halves are simulated.      *)
Guarded(w, v, g) == Holds(v, g) /\ Holds(w, g) /\ \A psi \in Halves(g) : Simulates(w, v, psi)

(* A guard from above bounds both valuations, and the larger one has the   *)
(* smaller value.                                                          *)
LEMMA UpperGuard ==
  ASSUME AutomataAssumption, ~Generalised, NEW g \in Atom, IsSimple(g), lleq(g.op),
         NEW v \in Valuation, NEW w \in Valuation, Guarded(w, v, g)
  PROVE  v[g.x] <= Unit * g.bound /\ w[g.x] <= Unit * g.bound /\ w[g.x] <= v[g.x]
<1>1. g \in Kept /\ Halves(g) = {g} /\ ~Infinite(g.bound)
  BY DEF Kept, Halves, lleq, Infinite
<1>2. w[g.x] <= v[g.x]
  BY <1>1, SimulatesMeans DEF Guarded
<1>3. v[g.x] \in Int /\ w[g.x] \in Int /\ Unit * g.bound \in Int
  BY <1>1, ValuesNatural, ValueTypes DEF BoundOf
<1>4. Meets(v[g.x], g.op, Unit * g.bound) /\ Meets(w[g.x], g.op, Unit * g.bound)
  BY <1>1, HoldsMeets DEF Guarded, ValueOf, BoundOf
<1>5. g.op = "LT" \/ g.op = "LE"
  BY DEF lleq
<1> DEFINE a == v[g.x]
           b == w[g.x]
           m == Unit * g.bound
<1>6. a <= m /\ b <= m
  <2>1. a \in Int /\ b \in Int /\ m \in Int /\ Meets(a, g.op, m) /\ Meets(b, g.op, m)
    BY <1>3, <1>4
  <2> HIDE DEF a, b, m
  <2>2. CASE g.op = "LT"
    BY <2>1, <2>2, SMT DEF Meets
  <2>3. CASE g.op = "LE"
    BY <2>1, <2>3, SMT DEF Meets
  <2> QED BY <1>5, <2>2, <2>3
<1> QED BY <1>2, <1>6

(* guard_based_optimization: what it leaves is enough where the guard holds. *)
LEMMA OptimisationSimulates ==
  ASSUME AutomataAssumption, ~Generalised, NEW guard, IsSequence(guard), ToSet(guard) \subseteq Atom,
         NEW pre \in Kept, NEW v \in Valuation, NEW w \in Valuation,
         \A g \in ToSet(guard) : Guarded(w, v, g),
         \A p \in GuardBasedOptimization(pre, guard) : Simulates(w, v, p)
  PROVE  Simulates(w, v, pre)
<1> DEFINE uppers == {i \in DOMAIN guard : IsSimple(guard[i]) /\ guard[i].x = pre.x /\ lleq(guard[i].op)}
           lower == {i \in uppers : guard[i].bound < pre.bound}
           decided(g) ==
             /\ ~IsSimple(g) /\ g.x = pre.x /\ g.y = pre.y
             /\ (lleq(g.op) /\ g.bound < pre.bound) \/ (ggeq(g.op) /\ pre.bound < g.bound)
<1>1. \A i \in DOMAIN guard : guard[i] \in Atom /\ Guarded(w, v, guard[i])
  BY DEF ToSet
<1>2. ASSUME NEW i \in uppers
      PROVE  v[pre.x] <= Unit * guard[i].bound /\ w[pre.x] <= Unit * guard[i].bound /\ w[pre.x] <= v[pre.x]
  <2>1. guard[i] \in Atom /\ Guarded(w, v, guard[i]) /\ IsSimple(guard[i]) /\ lleq(guard[i].op)
        /\ guard[i].x = pre.x
    BY <1>1
  <2> HIDE DEF uppers
  <2> QED BY <2>1, UpperGuard
<1>3. /\ pre.op \in Comparison /\ pre.bound \in Int /\ v[pre.x] \in Nat /\ w[pre.x] \in Nat /\ Unit \in Nat \ {0}
      /\ ~Infinite(pre.bound) /\ Unit * pre.bound \in Int
  BY AtomFields, ValuesNatural, SMT DEF AutomataAssumption, Infinite
<1>4. ASSUME NEW i \in lower
      PROVE  /\ guard[i].bound \in Int /\ Unit * guard[i].bound \in Int
             /\ Unit * guard[i].bound < Unit * pre.bound
  <2>1. guard[i].bound \in Int /\ guard[i].bound < pre.bound
    BY <1>1 DEF Atom
  <2> QED BY <1>3, <2>1, ProductMonotone
<1>5. lleq(pre.op) <=> ~ggeq(pre.op)
  BY <1>3 DEF Comparison, lleq, ggeq
<1>6. CASE IsSimple(pre) /\ lleq(pre.op)
  <2>1. CASE uppers = {}
    <3>1. pre \in GuardBasedOptimization(pre, guard)
      BY <1>6, <2>1, <1>5 DEF GuardBasedOptimization
    <3> QED BY <3>1
  <2>2. CASE uppers # {}
    <3>1. w[pre.x] <= v[pre.x]
      BY <1>2, <2>2
    <3> QED BY <1>3, <1>6, <3>1, SimulatesMeans
  <2> QED BY <2>1, <2>2
<1>7. CASE IsSimple(pre) /\ ~lleq(pre.op)
  <2>1. CASE lower = {}
    <3>1. pre \in GuardBasedOptimization(pre, guard)
      BY <1>5, <1>7, <2>1 DEF GuardBasedOptimization
    <3> QED BY <3>1
  <2>2. CASE lower # {}
    <3> DEFINE i == Max(lower)
               p == Constraint(pre.x, NoClock, "GE", guard[i].bound)
    <3>1. i \in lower
      <4>1. Len(guard) \in Nat /\ DOMAIN guard = 1 .. Len(guard)
        BY DEF IsSequence
      <4>2. lower \in SUBSET (1 .. Len(guard))
        BY <4>1
      <4> QED BY <2>2, <4>1, <4>2, LastPosition
    <3>2. GuardBasedOptimization(pre, guard) = {p}
      BY <1>5, <1>7, <2>2 DEF GuardBasedOptimization
    <3>3. Simulates(w, v, p)
      BY <3>2
    <3>4. IsSimple(p) /\ ~Infinite(p.bound) /\ ~lleq(p.op) /\ p.x = pre.x /\ p.op = "GE" /\ p.bound = guard[i].bound
      BY DEF IsSimple, Constraint, Infinite, lleq
    <3>5. Holds(w, p) \/ w[pre.x] >= v[pre.x]
      BY <3>3, <3>4 DEF Simulates
    <3>6. Holds(w, p) <=> w[pre.x] >= Unit * guard[i].bound
      BY <3>4, HoldsMeets DEF ValueOf, BoundOf, Meets
    <3> DEFINE a == v[pre.x]
               b == w[pre.x]
               m == Unit * guard[i].bound
    <3>7. a \in Int /\ b \in Int /\ m \in Int /\ a <= m
      BY <1>2, <1>3, <1>4, <3>1
    <3> HIDE DEF i, p, a, b, m
    <3>8. b >= m => b >= a
      BY <3>7, SMT
    <3>9. w[pre.x] >= v[pre.x]
      BY <3>5, <3>6, <3>8 DEF a, b, m
    <3> QED BY <1>3, <1>7, <3>9, SimulatesMeans
  <2> QED BY <2>1, <2>2
<1>8. CASE ~IsSimple(pre)
  <2> DEFINE s == v[pre.x] - v[pre.y]
             t == w[pre.x] - w[pre.y]
             m == Unit * pre.bound
  <2>1. v[pre.y] \in Nat /\ w[pre.y] \in Nat
    BY <1>8, AtomFields, ValuesNatural
  <2>2. s \in Int /\ t \in Int /\ m \in Int /\ s <= v[pre.x] /\ t <= w[pre.x]
    BY <1>3, <2>1, SMT
  <2>3. (Holds(v, pre) <=> Meets(s, pre.op, m)) /\ (Holds(w, pre) <=> Meets(t, pre.op, m))
    BY <1>3, <1>8, HoldsMeets DEF ValueOf, BoundOf, Difference, Infinite
  <2>4. Simulates(w, v, pre) <=> (Holds(v, pre) => Holds(w, pre))
    BY <1>8, SimulatesMeans
  <2>5. CASE s < m /\ t < m
    <3> HIDE DEF s, t, m
    <3>1. Meets(s, pre.op, m) <=> lleq(pre.op)
      BY <1>3, <2>2, <2>5, MeetsDecided
    <3>2. Meets(t, pre.op, m) <=> lleq(pre.op)
      BY <1>3, <2>2, <2>5, MeetsDecided
    <3> QED BY <2>3, <2>4, <3>1, <3>2, Zenon
  <2>6. CASE s > m /\ t > m
    <3> HIDE DEF s, t, m
    <3>1. Meets(s, pre.op, m) <=> ggeq(pre.op)
      BY <1>3, <2>2, <2>6, MeetsDecided
    <3>2. Meets(t, pre.op, m) <=> ggeq(pre.op)
      BY <1>3, <2>2, <2>6, MeetsDecided
    <3> QED BY <2>3, <2>4, <3>1, <3>2, Zenon
  <2>7. CASE lower = {} /\ ~ \E g \in ToSet(guard) : decided(g)
    <3>1. pre \in GuardBasedOptimization(pre, guard)
      BY <1>8, <2>7 DEF GuardBasedOptimization
    <3> QED BY <3>1
  <2>8. CASE lower # {}
    <3>1. PICK i \in lower : TRUE
      BY <2>8
    <3> DEFINE n == Unit * guard[i].bound
               a == v[pre.x]
               b == w[pre.x]
    <3>2. a \in Int /\ b \in Int /\ n \in Int /\ a <= n /\ b <= n /\ n < m /\ s <= a /\ t <= b
      BY <1>2, <1>3, <1>4, <2>2, <3>1
    <3> HIDE DEF n, a, b, s, t, m
    <3>3. s < m /\ t < m
      BY <2>2, <3>2, SMT
    <3> QED BY <2>5, <3>3
  <2>9. ASSUME NEW g \in ToSet(guard), decided(g)
        PROVE  Simulates(w, v, pre)
    <3>1. g \in Atom /\ g.bound \in Int /\ g.op \in Comparison /\ Guarded(w, v, g)
      BY <2>9 DEF Atom, Comparison, lleq, ggeq
    <3> DEFINE n == Unit * g.bound
    <3>2. /\ n \in Int
          /\ g.bound < pre.bound => n < m
          /\ pre.bound < g.bound => m < n
      BY <1>3, <3>1, ProductMonotone
    <3>3. Meets(s, g.op, n) /\ Meets(t, g.op, n)
      BY <2>9, <3>1, HoldsMeets DEF Guarded, ValueOf, BoundOf, Difference, Infinite
    <3>4. CASE lleq(g.op) /\ g.bound < pre.bound
      <4> HIDE DEF n, s, t, m
      <4>1. ~(s > n) /\ ~(t > n)
        BY <2>2, <3>1, <3>2, <3>3, <3>4, MeetsDecided
      <4>2. s < m /\ t < m
        BY <2>2, <3>2, <3>4, <4>1, SMT
      <4> QED BY <2>5, <4>2
    <3>5. CASE ggeq(g.op) /\ pre.bound < g.bound
      <4> HIDE DEF n, s, t, m
      <4>1. ~(s < n) /\ ~(t < n)
        BY <2>2, <3>1, <3>2, <3>3, <3>5, MeetsDecided
      <4>2. s > m /\ t > m
        BY <2>2, <3>2, <3>5, <4>1, SMT
      <4> QED BY <2>6, <4>2
    <3> QED BY <2>9, <3>4, <3>5
  <2> QED BY <2>7, <2>8, <2>9
<1> QED BY <1>6, <1>7, <1>8

(* Guards and invariants are finite sets of constraints.                   *)
LEMMA AtomsAre ==
  ASSUME NEW phis, AreAtoms(system, phis)
  PROVE  phis \subseteq Atom /\ IsFiniteSet(phis)
BY DEF AreAtoms, Atom

(* The parts of an edge of a plain automaton.                              *)
LEMMA PlainEdge ==
  ASSUME ~Generalised, NEW e, IsEdge(system, e)
  PROVE  /\ IsSequence(e.guard) /\ ToSet(e.guard) \subseteq Atom /\ IsFiniteSet(ToSet(e.guard))
         /\ \A x \in ClockId : ExtractUpdates(e.update, x) \in Assignment
<1>1. /\ IsSequence(e.guard) /\ AreAtoms(system, ToSet(e.guard))
      /\ IsSequence(e.update) /\ \A i \in DOMAIN e.update : IsUpdate(e.update[i])
  BY DEF IsEdge, Generalised
<1>2. ToSet(e.guard) \subseteq Atom /\ IsFiniteSet(ToSet(e.guard))
  BY <1>1, AtomsAre
<1>3. \A x \in ClockId : ExtractUpdates(e.update, x) \in Assignment
  BY <1>1, AssignmentOf
<1> QED BY <1>1, <1>2, <1>3

(* guard_based_optimization returns constraints that may be in sets.       *)
LEMMA OptimisationKept ==
  ASSUME ~Generalised, NEW guard, IsSequence(guard), ToSet(guard) \subseteq Atom, NEW pre \in Kept,
         NEW p \in GuardBasedOptimization(pre, guard)
  PROVE  p \in Kept
<1> DEFINE uppers == {i \in DOMAIN guard : IsSimple(guard[i]) /\ guard[i].x = pre.x /\ lleq(guard[i].op)}
           lower == {i \in uppers : guard[i].bound < pre.bound}
<1>1. p = pre \/ (lower # {} /\ p = Constraint(pre.x, NoClock, "GE", guard[Max(lower)].bound))
  <2>1. (IsSimple(pre) /\ lleq(pre.op)) \/ (IsSimple(pre) /\ ggeq(pre.op)) \/ ~IsSimple(pre)
    BY AtomFields DEF Comparison, lleq, ggeq
  <2>2. ~ (lleq(pre.op) /\ ggeq(pre.op))
    BY DEF lleq, ggeq
  <2> QED BY <2>1, <2>2 DEF GuardBasedOptimization
<1>2. CASE lower # {} /\ p = Constraint(pre.x, NoClock, "GE", guard[Max(lower)].bound)
  <2>1. Len(guard) \in Nat /\ lower \in SUBSET (1 .. Len(guard)) /\ DOMAIN guard = 1 .. Len(guard)
    BY DEF IsSequence
  <2>2. Max(lower) \in lower
    BY <1>2, <2>1, LastPosition
  <2>3. guard[Max(lower)] \in Atom /\ IsSimple(guard[Max(lower)])
    BY <2>2 DEF ToSet
  <2>4. guard[Max(lower)].bound \in Nat
    BY <2>3 DEF Atom, IsBound, Generalised
  <2>5. pre.x \in ClockId /\ pre.x # NoClock /\ "GE" \in Comparison
    BY AtomFields DEF ClockId, NoClock, Comparison
  <2> QED BY <1>2, <2>4, <2>5, ConstraintKept
<1> QED BY <1>1, <1>2

(* compute_up_inverse and compute_pre on a constraint of the target.       *)
LEMMA PreKept ==
  ASSUME AutomataAssumption, ~Generalised, NEW e, IsEdge(system, e), NEW phi \in Kept, NEW p \in ComputePre(phi, e)
  PROVE  p \in Kept
<1> DEFINE u1 == ExtractUpdates(e.update, phi.x)
           u2 == IF IsSimple(phi) THEN [z |-> NoClock, d |-> 0] ELSE ExtractUpdates(e.update, phi.y)
<1>1. u1 \in Assignment /\ u2 \in Assignment
  <2>1. [z |-> NoClock, d |-> 0] \in Assignment
    BY DEF Assignment
  <2> QED BY <2>1, PlainEdge, AtomFields
<1>2. PICK pre \in UpInverse(u1, u2, phi.op, phi.bound) : p \in GuardBasedOptimization(pre, e.guard)
  BY DEF ComputePre, ComputeUpInverse
<1> HIDE DEF u1, u2
<1>3. pre \in Kept
  BY <1>1, <1>2, UpInverseKept
<1> QED BY <1>2, <1>3, PlainEdge, OptimisationKept

(* The guard of an edge is simulated where its atoms are covered.          *)
LEMMA GuardTransfers ==
  ASSUME AutomataAssumption, NEW set, Reduced(set), NEW g \in Atom, \A psi \in Halves(g) : Covered(set, psi),
         NEW v, NEW w, IsValuation(v), IsValuation(w), SimulatesAll(w, v, set)
  PROVE  /\ \A psi \in Halves(g) : Simulates(w, v, psi)
         /\ Holds(v, g) => Holds(w, g)
<1>1. \A psi \in Halves(g) : Simulates(w, v, psi)
  BY HalvesKept, CoveredSimulated
<1> QED BY <1>1, HalvesTransfer

(* An edge whose guard and preconditions the source covers is sound: the   *)
(* core of PropagationSound.                                               *)
LEMMA EdgeIsSound ==
  ASSUME AutomataAssumption, ~Generalised, NEW e, IsEdge(system, e),
         NEW source, Reduced(source), NEW target, target \subseteq Kept,
         \A g \in ToSet(e.guard) : \A psi \in Halves(g) : Covered(source, psi),
         \A phi \in target : \A p \in ComputePre(phi, e) : Covered(source, p)
  PROVE  EdgeSound(e, source, target)
<1> SUFFICES ASSUME NEW v \in Valuation, NEW w \in Valuation, SimulatesAll(w, v, source),
                    \A g \in ToSet(e.guard) : Holds(v, g)
             PROVE  /\ \A g \in ToSet(e.guard) : Holds(w, g)
                    /\ SimulatesAll(Updated(w, e.update), Updated(v, e.update), target)
  BY DEF EdgeSound
<1>1. IsValuation(v) /\ IsValuation(w)
  BY ValuesNatural
<1>2. ToSet(e.guard) \subseteq Atom /\ IsSequence(e.guard)
  BY PlainEdge
<1>3. \A g \in ToSet(e.guard) : Guarded(w, v, g)
  <2> SUFFICES ASSUME NEW g \in ToSet(e.guard)
               PROVE  Guarded(w, v, g)
    OBVIOUS
  <2>1. g \in Atom /\ Holds(v, g) /\ \A psi \in Halves(g) : Covered(source, psi)
    BY <1>2
  <2>2. (\A psi \in Halves(g) : Simulates(w, v, psi)) /\ (Holds(v, g) => Holds(w, g))
    BY <1>1, <2>1, GuardTransfers
  <2> QED BY <2>1, <2>2 DEF Guarded
<1>4. ASSUME NEW phi \in target
      PROVE  Simulates(Updated(w, e.update), Updated(v, e.update), phi)
  <2> DEFINE u1 == ExtractUpdates(e.update, phi.x)
             u2 == IF IsSimple(phi) THEN [z |-> NoClock, d |-> 0] ELSE ExtractUpdates(e.update, phi.y)
             v1 == Updated(v, e.update)
             w1 == Updated(w, e.update)
  <2>1. phi \in Kept
    OBVIOUS
  <2>2. u1 \in Assignment /\ u2 \in Assignment
    <3>1. [z |-> NoClock, d |-> 0] \in Assignment
      BY DEF Assignment
    <3> QED BY <2>1, <3>1, PlainEdge, AtomFields
  <2>3. ASSUME NEW x \in ClockId, NEW t
        PROVE  Updated(t, e.update)[x] = After(t, ExtractUpdates(e.update, x))
    BY DEF Updated, After, Source
  <2>4. /\ v1[phi.x] = After(v, u1) /\ (~IsSimple(phi) => v1[phi.y] = After(v, u2))
        /\ w1[phi.x] = After(w, u1) /\ (~IsSimple(phi) => w1[phi.y] = After(w, u2))
    <3>1. phi.x \in ClockId /\ (~IsSimple(phi) => phi.y \in ClockId)
      BY <2>1, AtomFields
    <3> QED BY <2>3, <3>1
  <2>5. IsSimple(phi) => u2 = [z |-> NoClock, d |-> 0]
    OBVIOUS
  <2>6. \A pre \in UpInverse(u1, u2, phi.op, phi.bound) : \A p \in GuardBasedOptimization(pre, e.guard) :
          p \in ComputePre(phi, e)
    BY DEF ComputePre, ComputeUpInverse
  <2> HIDE DEF u1, u2, v1, w1
  <2>7. ASSUME NEW pre \in UpInverse(u1, u2, phi.op, phi.bound)
        PROVE  Simulates(w, v, pre)
    <3>1. pre \in Kept
      BY <2>1, <2>2, UpInverseKept
    <3>2. \A p \in GuardBasedOptimization(pre, e.guard) : p \in Kept /\ Covered(source, p)
      BY <1>2, <2>6, <3>1, OptimisationKept
    <3>3. \A p \in GuardBasedOptimization(pre, e.guard) : Simulates(w, v, p)
      BY <1>1, <3>2, CoveredSimulated
    <3> QED BY <1>2, <1>3, <3>1, <3>3, OptimisationSimulates
  <2>8. Simulates(w1, v1, phi)
    BY <2>1, <2>2, <2>4, <2>5, <2>7, UpInverseSimulates
  <2> QED BY <2>8 DEF v1, w1
<1>5. \A g \in ToSet(e.guard) : Holds(w, g)
  BY <1>3 DEF Guarded
<1> QED BY <1>4, <1>5 DEF SimulatesAll

-----------------------------------------------------------------------------
(* Generalised automata: undefined clocks, and programs block by block.    *)

(* Values of clocks of generalised automata.                               *)
Defined(r) == r \in Int /\ -InfValue < 2 * r /\ 2 * r < InfValue
Extended(r) == r = InfValue \/ r = -InfValue \/ Defined(r)

(* History clocks are never negative, and prophecy clocks never positive.  *)
Proper(v) ==
  \A x \in ClockId : Extended(v[x]) /\ IF x \in system.prophecy THEN v[x] <= 0 ELSE v[x] >= 0

(* Such valuations are integers.                                           *)
LEMMA ProperValuation ==
  ASSUME AutomataAssumption, NEW v, Proper(v)
  PROVE  IsValuation(v)
<1>1. InfValue \in Int /\ -InfValue \in Int
  BY DEF AutomataAssumption
<1>2. \A x \in ClockId : v[x] \in Int
  BY <1>1 DEF Proper, Extended, Defined
<1> QED BY <1>2 DEF IsValuation

(* The valuations of generalised automata are such valuations.             *)
LEMMA GeneralisedProper ==
  ASSUME AutomataAssumption, NEW v \in GeneralisedValuation
  PROVE  Proper(v)
<1> SUFFICES ASSUME NEW x \in ClockId
             PROVE  Extended(v[x]) /\ IF x \in system.prophecy THEN v[x] <= 0 ELSE v[x] >= 0
  BY DEF Proper
<1>1. v[x] \in UNION {{u, -u} : u \in Values \cup {InfValue}}
  BY DEF GeneralisedValuation
<1>2. PICK u \in Values \cup {InfValue} : v[x] = u \/ v[x] = -u
  BY <1>1
<1>3. InfValue \in Nat /\ (u \in Values => u \in Nat /\ 2 * u < InfValue)
  BY DEF AutomataAssumption
<1>4. Extended(v[x])
  <2>1. CASE u = InfValue
    BY <1>2, <2>1 DEF Extended
  <2>2. CASE u \in Values
    <3>1. Defined(u) /\ Defined(-u)
      BY <1>3, <2>2, SMT DEF Defined
    <3> QED BY <1>2, <3>1 DEF Extended
  <2> QED BY <2>1, <2>2
<1> QED BY <1>4 DEF GeneralisedValuation

(* On the same side of a bound.                                            *)
LEMMA MeetsAlike ==
  ASSUME NEW a \in Int, NEW b \in Int, NEW m \in Int, NEW op \in Comparison,
         a < m <=> b < m, a = m <=> b = m
  PROVE  Meets(a, op, m) <=> Meets(b, op, m)
<1>1. CASE op = "LT"
  BY <1>1, SMT DEF Meets
<1>2. CASE op = "LE"
  BY <1>2, SMT DEF Meets
<1>3. CASE op = "GE"
  BY <1>3, SMT DEF Meets
<1>4. CASE op = "GT"
  BY <1>4, SMT DEF Meets
<1> QED BY <1>1, <1>2, <1>3, <1>4 DEF Comparison

(* Equal values simulate each other.                                       *)
LEMMA EqualSimulates ==
  ASSUME AutomataAssumption, NEW phi \in Kept, NEW v, NEW w, IsValuation(v),
         v[phi.x] = w[phi.x], ~IsSimple(phi) => v[phi.y] = w[phi.y]
  PROVE  Simulates(w, v, phi)
<1>1. ValueOf(v, phi) = ValueOf(w, phi)
  BY DEF ValueOf
<1>2. Holds(v, phi) <=> Holds(w, phi)
  BY <1>1, HoldsMeets
<1>3. v[phi.x] \in Int
  BY AtomFields DEF IsValuation
<1>4. w[phi.x] <= v[phi.x] /\ w[phi.x] >= v[phi.x]
  BY <1>3
<1> QED BY <1>2, <1>4, SimulatesMeans

(* Differences to a clock that is at most 0.                               *)
LEMMA DifferenceGrows ==
  ASSUME AutomataAssumption, Generalised, NEW r, Extended(r), r <= 0,
         NEW a, Extended(a), a >= 0
  PROVE  /\ a \in Int /\ Difference(a, r) \in Int /\ Difference(r, a) = -Difference(a, r)
         /\ r = -InfValue => Difference(a, r) = InfValue
         /\ a <= InfValue
         /\ r # -InfValue => /\ Defined(r)
                             /\ a = InfValue => Difference(a, r) = InfValue
                             /\ a # InfValue => /\ Defined(a) /\ Difference(a, r) = a - r
                                                /\ a - r < InfValue
<1>1. InfValue \in Nat \ {0}
  BY DEF AutomataAssumption
<1>2. r = -InfValue \/ Defined(r)
  BY <1>1, SMT DEF Extended
<1>3. a = InfValue \/ Defined(a)
  BY <1>1, SMT DEF Extended
<1>4. /\ Defined(r) => r \in Int /\ r # InfValue /\ r # -InfValue /\ -InfValue < 2 * r
      /\ Defined(a) => a \in Int /\ a # InfValue /\ a # -InfValue /\ 2 * a < InfValue
  BY <1>1, SMT DEF Defined
<1>5. InfValue # -InfValue /\ InfValue \in Int /\ -InfValue \in Int
  BY <1>1, SMT
<1>6. CASE r = -InfValue
  <2>1. Difference(a, r) = InfValue
    BY <1>5, <1>6 DEF Difference, Infinite
  <2>2. Difference(r, a) = -InfValue
    BY <1>3, <1>4, <1>5, <1>6 DEF Difference, Infinite
  <2> QED BY <1>1, <1>3, <1>4, <1>6, <2>1, <2>2, SMT
<1>7. CASE Defined(r) /\ a = InfValue
  <2>1. Difference(a, r) = InfValue /\ Difference(r, a) = -InfValue
    BY <1>4, <1>5, <1>7 DEF Difference, Infinite
  <2> QED BY <1>1, <1>4, <1>7, <2>1, SMT
<1>8. CASE Defined(r) /\ Defined(a)
  <2>1. Difference(a, r) = a - r /\ Difference(r, a) = r - a
    BY <1>4, <1>8 DEF Difference, Infinite
  <2> QED BY <1>1, <1>4, <1>8, <2>1, SMT
<1> QED BY <1>2, <1>3, <1>6, <1>7, <1>8

(* A constraint of one clock stands for one of its difference to a clock   *)
(* that both valuations set to the same value.                             *)
LEMMA ReleaseTransfers ==
  ASSUME AutomataAssumption, Generalised, NEW psi \in Kept, IsSimple(psi), NEW v, NEW w, Simulates(w, v, psi),
         NEW r, Extended(r), r <= 0,
         NEW a, a = v[psi.x], Extended(a), a >= 0, NEW b, b = w[psi.x], Extended(b), b >= 0,
         Meets(Difference(a, r), psi.op, BoundOf(psi))
  PROVE  Meets(Difference(b, r), psi.op, BoundOf(psi))
<1> DEFINE m == BoundOf(psi)
           p == Difference(a, r)
           q == Difference(b, r)
<1>1. /\ a \in Int /\ p \in Int /\ (r = -InfValue => p = InfValue) /\ a <= InfValue
      /\ r # -InfValue => /\ Defined(r)
                          /\ a = InfValue => p = InfValue
                          /\ a # InfValue => /\ Defined(a) /\ p = a - r /\ a - r < InfValue
  BY DifferenceGrows
<1>2. /\ b \in Int /\ q \in Int /\ (r = -InfValue => q = InfValue) /\ b <= InfValue
      /\ r # -InfValue => /\ Defined(r)
                          /\ b = InfValue => q = InfValue
                          /\ b # InfValue => /\ Defined(b) /\ q = b - r /\ b - r < InfValue
  BY DifferenceGrows
<1>3. InfValue \in Nat \ {0} /\ psi.op \in Comparison
  BY AtomFields DEF AutomataAssumption
<1>4. /\ Infinite(psi.bound) => m \in {InfValue, -InfValue}
      /\ ~Infinite(psi.bound) => m \in Int
  <2>1. Unit * psi.bound \in Int
    BY AtomFields, SMT DEF AutomataAssumption
  <2> QED BY <2>1 DEF BoundOf, Infinite
<1>5. (Holds(v, psi) <=> Meets(a, psi.op, m)) /\ (Holds(w, psi) <=> Meets(b, psi.op, m))
  BY HoldsMeets DEF ValueOf
<1>6. Meets(p, psi.op, m)
  OBVIOUS
<1> HIDE DEF m, p, q
<1>7. CASE r = -InfValue
  BY <1>1, <1>2, <1>6, <1>7 DEF m, q
<1>8. CASE r # -InfValue /\ Infinite(psi.bound)
  <2>1. m \in Int /\ m \in {InfValue, -InfValue}
    BY <1>3, <1>4, <1>8
  <2>2. /\ a < m <=> p < m
        /\ a = m <=> p = m
    BY <1>1, <1>3, <1>8, <2>1, SMT DEF Defined
  <2>3. /\ b < m <=> q < m
        /\ b = m <=> q = m
    BY <1>2, <1>3, <1>8, <2>1, SMT DEF Defined
  <2>4. Meets(a, psi.op, m)
    BY <1>1, <1>3, <1>6, <2>1, <2>2, MeetsAlike
  <2>5. Meets(b, psi.op, m)
    BY <1>5, <1>8, <2>4, SimulatesMeans
  <2>6. Meets(q, psi.op, m)
    BY <1>2, <1>3, <2>1, <2>3, <2>5, MeetsAlike
  <2> QED BY <2>6 DEF m, q
<1>9. CASE r # -InfValue /\ ~Infinite(psi.bound)
  <2>1. p >= a /\ q >= b /\ (b <= a => q <= p) /\ (b >= a => q >= p) /\ m \in Int
    BY <1>1, <1>2, <1>3, <1>4, <1>9, SMT DEF Defined
  <2>2. CASE lleq(psi.op)
    <3>1. psi.op \in {"LT", "LE"}
      BY <2>2 DEF lleq
    <3>2. Meets(a, psi.op, m)
      BY <1>1, <1>6, <2>1, <3>1, MeetsCloser
    <3>3. b <= a
      BY <1>5, <1>9, <2>2, <3>2, SimulatesMeans
    <3>4. Meets(q, psi.op, m)
      BY <1>1, <1>2, <1>6, <2>1, <3>1, <3>3, MeetsCloser
    <3> QED BY <3>4 DEF m, q
  <2>3. CASE ~lleq(psi.op)
    <3>1. psi.op \in {"GE", "GT"}
      BY <1>3, <2>3 DEF lleq, Comparison
    <3>2. Meets(b, psi.op, m) \/ b >= a
      BY <1>5, <1>9, <2>3, SimulatesMeans
    <3>3. CASE Meets(b, psi.op, m)
      BY <1>2, <2>1, <3>1, <3>3, MeetsCloser DEF m, q
    <3>4. CASE b >= a
      BY <1>1, <1>2, <1>6, <2>1, <3>1, <3>4, MeetsCloser DEF m, q
    <3> QED BY <3>2, <3>3, <3>4
  <2> QED BY <2>2, <2>3
<1> QED BY <1>7, <1>8, <1>9

(* Clocks in "to" have the same values in v1 and w1, from 0 downwards; the *)
(* others are as in v and in w.                                            *)
Carried(v, w, v1, w1, to) ==
  \A x \in ClockId : IF x \in to THEN v1[x] = w1[x] /\ v1[x] <= 0
                     ELSE v1[x] = v[x] /\ w1[x] = w[x]

(* Both valuations agree on the prophecy clocks.                           *)
ProphecyEqual(v, w) == \A x \in ClockId \cap system.prophecy : v[x] = w[x]

(* A finite or infinite bound, or its opposite, makes a constraint of one  *)
(* clock.                                                                  *)
LEMMA GeneralisedKept ==
  ASSUME AutomataAssumption, Generalised, NEW phi \in Kept, NEW x \in ClockId, NEW op \in Comparison, NEW bound,
         (bound = phi.bound) \/ bound = -phi.bound
  PROVE  Constraint(x, NoClock, op, bound) \in Kept
<1> DEFINE psi == Constraint(x, NoClock, op, bound)
<1>1. bound \in Int /\ phi.bound \in Int
  BY AtomFields
<1>2. psi \in [x : ClockId, y : ClockId \cup {NoClock}, op : {"LT", "LE", "EQ", "GE", "GT"}, bound : Int]
      /\ psi.x # psi.y /\ psi.op # "EQ" /\ psi.bound = bound
  BY <1>1 DEF Constraint, Comparison, ClockId, NoClock
<1> DEFINE b == phi.bound
           m == Unit * b
<1>3. b \in {InfValue, -InfValue} \/ (-InfValue < m /\ m < InfValue)
  BY DEF Kept, Atom, IsBound, Generalised
<1>4. bound \in {InfValue, -InfValue} \/ (-InfValue < Unit * bound /\ Unit * bound < InfValue)
  <2>1. InfValue \in Int /\ Unit \in Int /\ m \in Int /\ b \in Int /\ Unit * (-b) = -m
    BY <1>1, SMT DEF AutomataAssumption
  <2>2. CASE bound = b
    BY <1>3, <2>2
  <2>3. CASE bound = -b
    <3>1. Unit * bound = -m
      BY <2>1, <2>3
    <3> HIDE DEF b, m
    <3> QED BY <1>3, <2>1, <2>3, <3>1, SMT
  <2> QED BY <2>2, <2>3
<1>5. IsBound(system, psi)
  BY <1>2, <1>4 DEF IsBound, Generalised
<1> QED BY <1>2, <1>5 DEF Kept, Atom

(* What is taken back over an update simulates what comes after it.        *)
LEMMA BackSimulates ==
  ASSUME AutomataAssumption, Generalised, NEW phi \in Kept, NEW to,
         NEW v, NEW w, NEW v1, NEW w1, Proper(v), Proper(w), Proper(v1), Proper(w1),
         Carried(v, w, v1, w1, to), ProphecyEqual(v, w),
         \A psi \in GeneralisedUpInverse(phi, to) : ~Skipped(psi) => Simulates(w, v, psi)
  PROVE  Simulates(w1, v1, phi)
<1>1. /\ phi.x \in ClockId /\ phi.op \in Comparison /\ phi.bound \in Int
      /\ ~IsSimple(phi) => phi.y \in ClockId
  BY AtomFields
<1>2. IsValuation(v) /\ IsValuation(w) /\ IsValuation(v1) /\ IsValuation(w1)
  BY ProperValuation
<1>3. CASE /\ phi.x \in to \/ v[phi.x] = w[phi.x]
           /\ ~IsSimple(phi) => phi.y \in to \/ v[phi.y] = w[phi.y]
  <2>1. v1[phi.x] = w1[phi.x] /\ (~IsSimple(phi) => v1[phi.y] = w1[phi.y])
    BY <1>1, <1>3 DEF Carried
  <2> QED BY <1>2, <2>1, EqualSimulates
<1>4. CASE phi.x \notin to /\ (~IsSimple(phi) => phi.y \notin to)
  <2>1. GeneralisedUpInverse(phi, to) = {phi}
    <3>1. CASE ~IsSimple(phi)
      BY <1>4, <3>1 DEF GeneralisedUpInverse
    <3>2. CASE IsSimple(phi)
      <4>1. GeneralisedUpInverse(phi, to) = {Constraint(phi.x, NoClock, phi.op, phi.bound)}
        BY <1>4, <3>2 DEF GeneralisedUpInverse
      <4>2. Constraint(phi.x, NoClock, phi.op, phi.bound) = phi
        BY <3>2 DEF Constraint, IsSimple, Kept, Atom
      <4> QED BY <4>1, <4>2
    <3> QED BY <3>1, <3>2
  <2>2. /\ v1[phi.x] = v[phi.x] /\ w1[phi.x] = w[phi.x]
        /\ ~IsSimple(phi) => v1[phi.y] = v[phi.y] /\ w1[phi.y] = w[phi.y]
    BY <1>1, <1>4 DEF Carried
  <2>3. CASE Skipped(phi)
    <3>1. IsSimple(phi) /\ v[phi.x] = w[phi.x]
      BY <1>1, <2>3 DEF Skipped, ProphecyEqual
    <3> QED BY <1>3, <3>1
  <2>4. CASE ~Skipped(phi)
    <3>1. Simulates(w, v, phi)
      BY <2>1, <2>4
    <3>2. (Holds(v1, phi) <=> Holds(v, phi)) /\ (Holds(w1, phi) <=> Holds(w, phi))
      <4>1. ValueOf(v1, phi) = ValueOf(v, phi) /\ ValueOf(w1, phi) = ValueOf(w, phi)
        BY <2>2 DEF ValueOf
      <4> QED BY <4>1, HoldsMeets
    <3>3. CASE IsSimple(phi) /\ ~Infinite(phi.bound) /\ lleq(phi.op)
      BY <2>2, <3>1, <3>2, <3>3, SimulatesMeans
    <3>4. CASE IsSimple(phi) /\ ~Infinite(phi.bound) /\ ~lleq(phi.op)
      BY <2>2, <3>1, <3>2, <3>4, SimulatesMeans
    <3>5. CASE ~IsSimple(phi) \/ Infinite(phi.bound)
      BY <3>1, <3>2, <3>5, SimulatesMeans
    <3> QED BY <3>3, <3>4, <3>5
  <2> QED BY <2>3, <2>4
<1>5. CASE /\ phi.x \notin to /\ v[phi.x] # w[phi.x] /\ ~IsSimple(phi) /\ phi.y \in to
  <2> DEFINE psi == Constraint(phi.x, NoClock, phi.op, phi.bound)
             a == v[phi.x]
             b == w[phi.x]
             r == v1[phi.y]
  <2>1. psi \in Kept
    BY <1>1, GeneralisedKept
  <2>2. psi \in GeneralisedUpInverse(phi, to)
    BY <1>5 DEF GeneralisedUpInverse
  <2>3. psi.x = phi.x /\ psi.op = phi.op /\ psi.bound = phi.bound /\ IsSimple(psi)
    BY DEF Constraint, IsSimple
  <2>4. phi.x \notin system.prophecy
    BY <1>1, <1>5 DEF ProphecyEqual
  <2>5. Simulates(w, v, psi)
    <3>1. ~Skipped(psi)
      BY <2>3, <2>4 DEF Skipped
    <3> QED BY <2>2, <3>1
  <2>6. Extended(a) /\ a >= 0 /\ Extended(b) /\ b >= 0
    BY <1>1, <2>4 DEF Proper
  <2>7. Extended(r) /\ r <= 0 /\ w1[phi.y] = r
    BY <1>1, <1>5 DEF Proper, Carried
  <2>8. ValueOf(v1, phi) = Difference(a, r) /\ ValueOf(w1, phi) = Difference(b, r)
    BY <1>1, <1>5, <2>7 DEF ValueOf, Carried
  <2>9. BoundOf(psi) = BoundOf(phi)
    BY <2>3 DEF BoundOf
  <2>10. a = v[psi.x] /\ b = w[psi.x]
    BY <2>3
  <2> HIDE DEF psi, a, b, r
  <2>11. Meets(Difference(a, r), psi.op, BoundOf(psi)) => Meets(Difference(b, r), psi.op, BoundOf(psi))
    BY <2>1, <2>3, <2>5, <2>6, <2>7, <2>10, ReleaseTransfers
  <2>12. Holds(v1, phi) => Holds(w1, phi)
    BY <2>3, <2>8, <2>9, <2>11, HoldsMeets
  <2> QED BY <1>5, <2>12, SimulatesMeans
<1>6. CASE /\ phi.x \in to /\ ~IsSimple(phi) /\ phi.y \notin to /\ v[phi.y] # w[phi.y]
  <2> DEFINE psi == Constraint(phi.y, NoClock, reverse_operator(phi.op), -phi.bound)
             a == v[phi.y]
             b == w[phi.y]
             r == v1[phi.x]
             m == BoundOf(phi)
  <2>1. psi \in Kept
    BY <1>1, <1>6, GeneralisedKept, ReversedOperators
  <2>2. psi \in GeneralisedUpInverse(phi, to)
    BY <1>6 DEF GeneralisedUpInverse
  <2>3. psi.x = phi.y /\ psi.op = reverse_operator(phi.op) /\ psi.bound = -phi.bound /\ IsSimple(psi)
    BY DEF Constraint, IsSimple
  <2>4. phi.y \notin system.prophecy
    BY <1>1, <1>6 DEF ProphecyEqual
  <2>5. Simulates(w, v, psi)
    <3>1. ~Skipped(psi)
      BY <2>3, <2>4 DEF Skipped
    <3> QED BY <2>2, <3>1
  <2>6. Extended(a) /\ a >= 0 /\ Extended(b) /\ b >= 0
    BY <1>1, <1>6, <2>4 DEF Proper
  <2>7. Extended(r) /\ r <= 0 /\ w1[phi.x] = r
    BY <1>1, <1>6 DEF Proper, Carried
  <2>8. ValueOf(v1, phi) = Difference(r, a) /\ ValueOf(w1, phi) = Difference(r, b)
    BY <1>1, <1>6, <2>7 DEF ValueOf, Carried
  <2>9. BoundOf(psi) = -m /\ m \in Int
    <3>1. InfValue \in Int /\ Unit * (-phi.bound) = -(Unit * phi.bound) /\ Unit * phi.bound \in Int
      BY <1>1, SMT DEF AutomataAssumption
    <3>2. -phi.bound \in {InfValue, -InfValue} <=> phi.bound \in {InfValue, -InfValue}
      BY <1>1, <3>1
    <3>3. Infinite(-phi.bound) <=> Infinite(phi.bound)
      BY <3>2 DEF Infinite
    <3> QED BY <1>1, <2>3, <3>1, <3>3 DEF BoundOf
  <2>10. a = v[psi.x] /\ b = w[psi.x]
    BY <2>3
  <2> HIDE DEF psi, a, b, r, m
  <2>11. Meets(Difference(a, r), psi.op, BoundOf(psi)) => Meets(Difference(b, r), psi.op, BoundOf(psi))
    BY <2>1, <2>3, <2>5, <2>6, <2>7, <2>10, ReleaseTransfers
  <2>12. ASSUME NEW s, Extended(s), s >= 0
         PROVE  Meets(Difference(s, r), psi.op, BoundOf(psi)) <=> Meets(Difference(r, s), phi.op, m)
    <3> DEFINE d == Difference(r, s)
    <3>1. Difference(s, r) \in Int /\ d = -Difference(s, r)
      BY <2>7, <2>12, DifferenceGrows
    <3>2. d \in Int /\ Difference(s, r) = -d
      BY <3>1
    <3> HIDE DEF d
    <3>3. Meets(-d, reverse_operator(phi.op), -m) <=> Meets(d, phi.op, m)
      BY <1>1, <2>9, <3>2, MeetsNegated
    <3> QED BY <2>3, <2>9, <3>2, <3>3 DEF d
  <2>13. Holds(v1, phi) => Holds(w1, phi)
    <3>1. (Holds(v1, phi) <=> Meets(Difference(r, a), phi.op, m))
          /\ (Holds(w1, phi) <=> Meets(Difference(r, b), phi.op, m))
      BY <2>8, HoldsMeets DEF m
    <3> QED BY <2>6, <2>11, <2>12, <3>1
  <2> QED BY <1>6, <2>13, SimulatesMeans
<1> QED BY <1>3, <1>4, <1>5, <1>6

(* The states that Run goes through, before and after each block.          *)
Step(now, blocks, k, released) ==
  IF now = Stuck \/ (\E g \in blocks[k].guard : ~Holds(now, g)) THEN Stuck
  ELSE [x \in ClockId |->
         CASE x \notin blocks[k].do -> now[x]
           [] x \in blocks[k].do \ system.prophecy -> 0
           [] OTHER -> released[k]]

Walks(now, v, blocks, released) ==
  /\ now[0] = v
  /\ \A k \in 1 .. Len(blocks) : now[k] = Step(now[k - 1], blocks, k, released)

(* Run is the last of the states that it goes through, for every number of *)
(* blocks.                                                                 *)
LEMMA RunWalks ==
  ASSUME NEW blocks, IsSequence(blocks), NEW released, NEW v \in [ClockId -> Int],
         \A k \in DOMAIN blocks : blocks[k].do \cap system.prophecy # {} => released[k] \in Int
  PROVE  \E now : Walks(now, v, blocks, released) /\ Run(v, blocks, released) = now[Len(blocks)]
<1> DEFINE N == Len(blocks)
           S == 1 .. N
           B == {Stuck} \cup [ClockId -> Int]
           c == [s \in SUBSET S |-> Max(s)]
           g == [p \in S \X B |-> Step(p[2], blocks, p[1], released)]
           seq == [i \in DOMAIN blocks |-> i]
           step(h, s) == IF s = {} THEN v ELSE Step(h[s \ {Max(s)}], blocks, seq[Max(s)], released)
           iter == CHOOSE h : h = [s \in SUBSET (DOMAIN seq) |-> step(h, s)]
<1>1. N \in Nat /\ DOMAIN blocks = S /\ DOMAIN seq = S
  BY DEF IsSequence
<1>2. Run(v, blocks, released) = iter[DOMAIN seq]
  BY DEF Run, FoldLeftDomain, FoldLeft, MapThenFoldSet, Step
<1>3. \A s \in SUBSET S : s # {} => Max(s) \in s
  <2> HIDE DEF N
  <2> QED BY <1>1, LastPosition
<1>4. \E h : Iterates(h, S, B, v, c, g)
  <2>1. IsFiniteSet(S)
    <3> HIDE DEF N
    <3> QED BY <1>1, FS_Interval
  <2>2. v \in B
    OBVIOUS
  <2>3. ChoosesFrom(c, S)
    BY <1>3 DEF ChoosesFrom
  <2>4. StaysIn(g, S, B)
    <3> SUFFICES ASSUME NEW k \in S, NEW now \in B
                 PROVE  Step(now, blocks, k, released) \in B
      BY Zenon DEF StaysIn
    <3>1. CASE now = Stuck \/ (\E a \in blocks[k].guard : ~Holds(now, a))
      BY <3>1 DEF Step
    <3>2. CASE now # Stuck /\ ~(\E a \in blocks[k].guard : ~Holds(now, a))
      <4>1. now \in [ClockId -> Int]
        BY <3>2
      <4>2. Step(now, blocks, k, released) =
              [x \in ClockId |->
                 CASE x \notin blocks[k].do -> now[x]
                   [] x \in blocks[k].do \ system.prophecy -> 0
                   [] OTHER -> released[k]]
        BY <3>2 DEF Step
      <4>3. ASSUME NEW x \in ClockId
            PROVE  (CASE x \notin blocks[k].do -> now[x]
                      [] x \in blocks[k].do \ system.prophecy -> 0
                      [] OTHER -> released[k]) \in Int
        <5>1. CASE x \notin blocks[k].do
          BY <4>1, <5>1
        <5>2. CASE x \in blocks[k].do \ system.prophecy
          BY <5>2
        <5>3. CASE x \in blocks[k].do \cap system.prophecy
          <6>1. released[k] \in Int
            BY <1>1, <5>3
          <6> QED BY <5>3, <6>1
        <5> QED BY <5>1, <5>2, <5>3
      <4> QED BY <4>2, <4>3
    <3> QED BY <3>1, <3>2
  <2> HIDE DEF S, B, c, g
  <2> QED BY <2>1, <2>2, <2>3, <2>4, FoldExists
<1>5. PICK f : Iterates(f, S, B, v, c, g)
  BY <1>4
<1>6. \A s \in SUBSET S : f[s] = step(f, s)
  <2> SUFFICES ASSUME NEW s \in SUBSET S
               PROVE  f[s] = step(f, s)
    OBVIOUS
  <2>1. CASE s = {}
    BY <1>5, <2>1 DEF Iterates
  <2>2. CASE s # {}
    <3>1. c[s] = Max(s) /\ Max(s) \in S /\ s \ {Max(s)} \in SUBSET S
      BY <1>3, <2>2
    <3>2. f[s \ {Max(s)}] \in B
      BY <1>5, <3>1 DEF Iterates
    <3>3. \A k \in S, b \in B : g[<<k, b>>] = Step(b, blocks, k, released)
      BY Zenon
    <3>4. f[s] = g[<<c[s], f[s \ {c[s]}]>>]
      <4> HIDE DEF B, c, g, S
      <4> QED BY <1>5, <2>2 DEF Iterates
    <3>5. seq[Max(s)] = Max(s)
      BY <1>1, <3>1
    <3>6. f[s] = Step(f[s \ {Max(s)}], blocks, Max(s), released)
      <4> HIDE DEF B, c, g, S
      <4> QED BY <3>1, <3>2, <3>3, <3>4
    <3> HIDE DEF seq
    <3> QED BY <2>2, <3>5, <3>6
  <2> QED BY <2>1, <2>2
<1>7. f = [s \in SUBSET (DOMAIN seq) |-> step(f, s)]
  <2>1. f = [s \in SUBSET S |-> step(f, s)]
    <3> HIDE DEF step, B, S, c, g
    <3> QED BY <1>5, <1>6 DEF Iterates
  <2> HIDE DEF step, seq, S
  <2> QED BY <1>1, <2>1
<1>8. iter = [s \in SUBSET (DOMAIN seq) |-> step(iter, s)]
  <2> HIDE DEF step, seq
  <2> QED BY <1>7
<1> HIDE DEF iter
<1>9. \A s \in SUBSET S : iter[s] = step(iter, s)
  <2> HIDE DEF step, seq, S
  <2> QED BY <1>1, <1>8
<1> DEFINE now == [k \in 0 .. N |-> iter[1 .. k]]
<1>10. now[0] = v
  <2>1. 1 .. 0 = {} /\ 0 \in 0 .. N
    BY <1>1
  <2>2. iter[{}] = v
    BY <1>9
  <2> HIDE DEF N
  <2> QED BY <2>1, <2>2
<1>11. ASSUME NEW k \in 1 .. N
       PROVE  now[k] = Step(now[k - 1], blocks, k, released)
  <2> HIDE DEF N
  <2>1. 1 .. k \in SUBSET S /\ 1 .. k # {} /\ k - 1 \in 0 .. N /\ k \in 0 .. N
    <3>1. k \in Nat /\ 1 <= k /\ k <= N /\ N \in Nat
      BY <1>1
    <3>2. k \in 1 .. k
      BY <3>1
    <3>3. \A i \in 1 .. k : i \in S
      BY <3>1
    <3> QED BY <3>1, <3>2, <3>3
  <2>2. Max(1 .. k) = k
    <3>1. Max(1 .. k) \in 1 .. k
      BY <1>3, <2>1
    <3>2. \E m \in 1 .. k : \A y \in 1 .. k : m >= y
      BY <1>1
    <3>3. \A y \in 1 .. k : Max(1 .. k) >= y
      BY <3>2 DEF Max
    <3> QED BY <1>1, <3>1, <3>3
  <2>3. (1 .. k) \ {k} = 1 .. k - 1
    BY <1>1
  <2>4. seq[k] = k
    BY <1>1
  <2>5. iter[1 .. k] = Step(iter[1 .. k - 1], blocks, k, released)
    <3>1. iter[1 .. k] = Step(iter[(1 .. k) \ {Max(1 .. k)}], blocks, seq[Max(1 .. k)], released)
      BY <1>9, <2>1
    <3> HIDE DEF seq
    <3> QED BY <2>2, <2>3, <2>4, <3>1
  <2> QED BY <2>1, <2>5
<1>12. Run(v, blocks, released) = now[N]
  BY <1>1, <1>2
<1> HIDE DEF now
<1> QED BY <1>10, <1>11, <1>12 DEF Walks

(* The parts of an edge of a generalised automaton.                        *)
LEMMA GeneralisedEdge ==
  ASSUME Generalised, NEW e, IsEdge(system, e)
  PROVE  /\ IsSequence(e.blocks) /\ Len(e.blocks) \in Nat /\ DOMAIN e.blocks = 1 .. Len(e.blocks)
         /\ \A k \in DOMAIN e.blocks : e.blocks[k].guard \subseteq Atom /\ IsFiniteSet(e.blocks[k].guard)
<1>1. /\ IsSequence(e.blocks)
      /\ \A k \in DOMAIN e.blocks : e.blocks[k].do \subseteq ClockId /\ AreAtoms(system, e.blocks[k].guard)
  BY DEF IsEdge, Generalised
<1>2. Len(e.blocks) \in Nat /\ DOMAIN e.blocks = 1 .. Len(e.blocks)
  BY <1>1 DEF IsSequence
<1>3. \A k \in DOMAIN e.blocks : e.blocks[k].guard \subseteq Atom /\ IsFiniteSet(e.blocks[k].guard)
  BY <1>1, AtomsAre
<1> QED BY <1>1, <1>2, <1>3

(* What a guard demands before the updates of "to" is simulated.           *)
BackSimulated(w, v, phi, to) ==
  \A psi \in GeneralisedUpInverse(phi, to) : ~Skipped(psi) => Simulates(w, v, psi)

(* The program of w follows that of v.                                     *)
Follows(v, w, before, after, to) ==
  /\ after # Stuck /\ Proper(before) /\ Proper(after) /\ Carried(v, w, before, after, to)

(* One block: the guard holds of both, and both change the same clocks to  *)
(* the same values.                                                        *)
LEMMA StepFollows ==
  ASSUME AutomataAssumption, Generalised, NEW v, NEW w, Proper(v), Proper(w), ProphecyEqual(v, w),
         NEW blocks, NEW k \in Nat \ {0}, blocks[k].guard \subseteq Atom,
         \A g \in blocks[k].guard : \A h \in Halves(g) : BackSimulated(w, v, h, UpdatedBefore(blocks, k)),
         NEW released, blocks[k].do \cap system.prophecy # {} => Extended(released[k]) /\ released[k] <= 0,
         NEW before, NEW after, Follows(v, w, before, after, UpdatedBefore(blocks, k)),
         Step(before, blocks, k, released) # Stuck
  PROVE  Follows(v, w, Step(before, blocks, k, released), Step(after, blocks, k, released),
                 UpdatedBefore(blocks, k + 1))
<1> DEFINE to == UpdatedBefore(blocks, k)
           do == blocks[k].do
           before1 == Step(before, blocks, k, released)
           after1 == Step(after, blocks, k, released)
           put(now) == [x \in ClockId |->
                          CASE x \notin do -> now[x] [] x \in do \ system.prophecy -> 0 [] OTHER -> released[k]]
<1>1. /\ after # Stuck /\ Proper(before) /\ Proper(after) /\ Carried(v, w, before, after, to)
      /\ before # Stuck /\ \A g \in blocks[k].guard : Holds(before, g)
  BY DEF Follows, Step
<1>2. \A g \in blocks[k].guard : Holds(after, g)
  <2> SUFFICES ASSUME NEW g \in blocks[k].guard
               PROVE  Holds(after, g)
    OBVIOUS
  <2>1. g \in Atom /\ Holds(before, g) /\ IsValuation(before) /\ IsValuation(after)
    BY <1>1, ProperValuation
  <2>2. \A h \in Halves(g) : h \in Kept /\ BackSimulated(w, v, h, to)
    BY <2>1, HalvesKept
  <2>3. \A h \in Halves(g) : Simulates(after, before, h)
    <3> HIDE DEF to
    <3> QED BY <1>1, <2>2, BackSimulates DEF BackSimulated
  <2> QED BY <2>1, <2>3, HalvesTransfer
<1>3. before1 = put(before) /\ after1 = put(after)
  BY <1>1, <1>2 DEF Step
<1>4. UpdatedBefore(blocks, k + 1) = to \cup do
  <2>1. \A i \in Int : i \in 1 .. (k + 1) - 1 <=> i \in 1 .. k - 1 \/ i = k
    BY SMT
  <2> QED BY <2>1 DEF UpdatedBefore
<1>5. after1 # Stuck
  <2>1. CASE ClockId = {}
    <3>1. before1 = after1
      BY <1>3, <2>1
    <3> QED BY <3>1
  <2>2. CASE ClockId # {}
    <3>1. DOMAIN after1 = ClockId
      BY <1>3
    <3>2. DOMAIN Stuck = {}
      BY DEF Stuck
    <3> QED BY <2>2, <3>1, <3>2
  <2> QED BY <2>1, <2>2
<1>6. Extended(0)
  BY DEF Extended, Defined, AutomataAssumption
<1>7. ASSUME NEW x \in ClockId
      PROVE  /\ x \notin do => before1[x] = before[x] /\ after1[x] = after[x]
             /\ x \in do \ system.prophecy => before1[x] = 0 /\ after1[x] = 0
             /\ x \in do \cap system.prophecy =>
                  /\ before1[x] = released[k] /\ after1[x] = released[k]
                  /\ Extended(released[k]) /\ released[k] <= 0
  BY <1>3
<1> HIDE DEF before1, after1, to, do
<1>8. Proper(before1) /\ Proper(after1)
  <2> SUFFICES ASSUME NEW x \in ClockId
               PROVE  /\ Extended(before1[x]) /\ IF x \in system.prophecy THEN before1[x] <= 0 ELSE before1[x] >= 0
                      /\ Extended(after1[x]) /\ IF x \in system.prophecy THEN after1[x] <= 0 ELSE after1[x] >= 0
    BY DEF Proper
  <2>1. CASE x \notin do
    BY <1>1, <1>7, <2>1 DEF Proper
  <2>2. CASE x \in do \ system.prophecy
    BY <1>6, <1>7, <2>2
  <2>3. CASE x \in do \cap system.prophecy
    BY <1>7, <2>3
  <2> QED BY <2>1, <2>2, <2>3
<1>9. Carried(v, w, before1, after1, to \cup do)
  <2> SUFFICES ASSUME NEW x \in ClockId
               PROVE  IF x \in to \cup do THEN before1[x] = after1[x] /\ before1[x] <= 0
                      ELSE before1[x] = v[x] /\ after1[x] = w[x]
    BY DEF Carried
  <2>1. CASE x \notin do
    BY <1>1, <1>7, <2>1 DEF Carried
  <2>2. CASE x \in do \ system.prophecy
    BY <1>7, <2>2
  <2>3. CASE x \in do \cap system.prophecy
    BY <1>7, <2>3
  <2> QED BY <2>1, <2>2, <2>3
<1> QED BY <1>4, <1>5, <1>8, <1>9 DEF Follows, before1, after1

(* All the blocks of a program: a run from v is followed from w.           *)
LEMMA RunFollows ==
  ASSUME AutomataAssumption, Generalised, NEW v, NEW w, Proper(v), Proper(w), ProphecyEqual(v, w),
         v \in [ClockId -> Int], w \in [ClockId -> Int],
         NEW e, IsEdge(system, e),
         \A k \in DOMAIN e.blocks : \A g \in e.blocks[k].guard : \A h \in Halves(g) :
           BackSimulated(w, v, h, UpdatedBefore(e.blocks, k)),
         NEW released,
         \A k \in DOMAIN e.blocks : e.blocks[k].do \cap system.prophecy # {} =>
           Extended(released[k]) /\ released[k] <= 0,
         Run(v, e.blocks, released) # Stuck
  PROVE  Follows(v, w, Run(v, e.blocks, released), Run(w, e.blocks, released),
                 UpdatedBefore(e.blocks, Len(e.blocks) + 1))
<1> DEFINE N == Len(e.blocks)
<1>1. IsSequence(e.blocks) /\ N \in Nat /\ DOMAIN e.blocks = 1 .. N
      /\ \A k \in DOMAIN e.blocks : e.blocks[k].guard \subseteq Atom
  BY GeneralisedEdge
<1>2. \A r : Extended(r) => r \in Int
  BY DEF Extended, Defined, AutomataAssumption
<1>3. PICK now : Walks(now, v, e.blocks, released) /\ Run(v, e.blocks, released) = now[N]
  BY <1>1, <1>2, RunWalks
<1>4. PICK then : Walks(then, w, e.blocks, released) /\ Run(w, e.blocks, released) = then[N]
  BY <1>1, <1>2, RunWalks
<1> DEFINE T == {k \in 0 .. N : now[k] # Stuck => Follows(v, w, now[k], then[k], UpdatedBefore(e.blocks, k + 1))}
<1>5. 0 \in T
  <2>1. now[0] = v /\ then[0] = w
    BY <1>3, <1>4 DEF Walks
  <2>2. UpdatedBefore(e.blocks, 0 + 1) = {}
    BY DEF UpdatedBefore
  <2>3. Carried(v, w, v, w, {})
    BY DEF Carried
  <2>4. v # Stuck => w # Stuck
    <3>1. CASE ClockId = {}
      <4>1. v = w
        BY <3>1
      <4> QED BY <4>1
    <3>2. CASE ClockId # {}
      <4>1. DOMAIN w = ClockId /\ DOMAIN Stuck = {}
        BY DEF Stuck
      <4> QED BY <3>2, <4>1
    <3> QED BY <3>1, <3>2
  <2> HIDE DEF N
  <2>5. 0 \in 0 .. N
    BY <1>1
  <2> QED BY <2>1, <2>2, <2>3, <2>4, <2>5 DEF Follows
<1>6. ASSUME NEW k \in 1 .. N, k - 1 \in T
      PROVE  k \in T
  <2>1. k \in 0 .. N /\ k \in DOMAIN e.blocks /\ k \in Nat \ {0} /\ (k - 1) + 1 = k
    <3> HIDE DEF N
    <3> QED BY <1>1
  <2> SUFFICES ASSUME now[k] # Stuck
               PROVE  Follows(v, w, now[k], then[k], UpdatedBefore(e.blocks, k + 1))
    BY <2>1
  <2>2. /\ now[k] = Step(now[k - 1], e.blocks, k, released)
        /\ then[k] = Step(then[k - 1], e.blocks, k, released)
    BY <1>3, <1>4 DEF Walks
  <2>3. now[k - 1] # Stuck
    BY <2>2 DEF Step
  <2>4. Follows(v, w, now[k - 1], then[k - 1], UpdatedBefore(e.blocks, k))
    <3>1. Follows(v, w, now[k - 1], then[k - 1], UpdatedBefore(e.blocks, (k - 1) + 1))
      BY <1>6, <2>3
    <3> QED BY <2>1, <3>1
  <2>5. e.blocks[k].guard \subseteq Atom
    BY <1>1, <2>1
  <2> HIDE DEF T, N
  <2>6. \A g \in e.blocks[k].guard : \A h \in Halves(g) : BackSimulated(w, v, h, UpdatedBefore(e.blocks, k))
    BY <2>1
  <2>7. e.blocks[k].do \cap system.prophecy # {} => Extended(released[k]) /\ released[k] <= 0
    BY <2>1
  <2>8. Step(now[k - 1], e.blocks, k, released) # Stuck
    BY <2>2
  <2>9. Follows(v, w, Step(now[k - 1], e.blocks, k, released), Step(then[k - 1], e.blocks, k, released),
                UpdatedBefore(e.blocks, k + 1))
    BY <2>1, <2>4, <2>5, <2>6, <2>7, <2>8, StepFollows
  <2> QED BY <2>2, <2>9
<1>7. N \in T
  <2>1. 0 .. N \subseteq T
    <3> HIDE DEF T, N
    <3> QED BY <1>1, <1>5, <1>6, Induction
  <2> HIDE DEF T, N
  <2> QED BY <1>1, <2>1
<1> QED BY <1>3, <1>4, <1>7

(* Prophecy clocks are at most and at least 0 in all the sets.             *)
ProphecyBounds == {Constraint(p, NoClock, op, 0) : p \in system.prophecy, op \in {"LE", "GE"}}

(* The bounds on prophecy clocks may be in sets.                           *)
LEMMA ProphecyKept ==
  ASSUME AutomataAssumption, Generalised, NEW p \in ClockId, NEW op \in {"LE", "GE"}
  PROVE  /\ Constraint(p, NoClock, op, 0) \in Kept
         /\ ~Infinite(Constraint(p, NoClock, op, 0).bound) /\ IsSimple(Constraint(p, NoClock, op, 0))
<1> DEFINE psi == Constraint(p, NoClock, op, 0)
<1>1. psi \in [x : ClockId, y : ClockId \cup {NoClock}, op : {"LT", "LE", "EQ", "GE", "GT"}, bound : Int]
      /\ psi.x # psi.y /\ psi.op # "EQ" /\ psi.bound = 0
  BY DEF Constraint, ClockId, NoClock
<1>2. InfValue \in Nat \ {0} /\ Unit * 0 = 0
  BY SMT DEF AutomataAssumption
<1>3. IsBound(system, psi)
  BY <1>1, <1>2 DEF IsBound, Generalised
<1> QED BY <1>1, <1>2, <1>3 DEF Kept, Atom, Infinite, IsSimple, Constraint

(* A valuation that simulates another one has the same prophecy clocks.    *)
LEMMA ProphecyClocksEqual ==
  ASSUME AutomataAssumption, Generalised, NEW source, Reduced(source),
         \A psi \in ProphecyBounds : Covered(source, psi),
         NEW v, NEW w, Proper(v), Proper(w), SimulatesAll(w, v, source)
  PROVE  ProphecyEqual(v, w)
<1> SUFFICES ASSUME NEW p \in ClockId \cap system.prophecy
             PROVE  v[p] = w[p]
  BY DEF ProphecyEqual
<1> DEFINE le == Constraint(p, NoClock, "LE", 0)
           ge == Constraint(p, NoClock, "GE", 0)
<1>1. IsValuation(v) /\ IsValuation(w)
  BY ProperValuation
<1>2. v[p] \in Int /\ w[p] \in Int /\ v[p] <= 0 /\ w[p] <= 0
  BY <1>1 DEF Proper, IsValuation
<1>3. /\ le \in Kept /\ ~Infinite(le.bound) /\ IsSimple(le) /\ le.x = p /\ le.op = "LE" /\ le.bound = 0
      /\ ge \in Kept /\ ~Infinite(ge.bound) /\ IsSimple(ge) /\ ge.x = p /\ ge.op = "GE" /\ ge.bound = 0
  BY ProphecyKept DEF Constraint
<1>4. le \in ProphecyBounds /\ ge \in ProphecyBounds
  BY DEF ProphecyBounds
<1> HIDE DEF le, ge
<1>5. Simulates(w, v, le) /\ Simulates(w, v, ge)
  BY <1>1, <1>3, <1>4, CoveredSimulated
<1>6. Unit * 0 = 0
  BY SMT DEF AutomataAssumption
<1>7. /\ Holds(v, le) <=> v[p] <= 0
      /\ Holds(w, ge) <=> w[p] >= 0
  BY <1>3, <1>6, HoldsMeets DEF ValueOf, BoundOf, Meets
<1>8. w[p] <= v[p]
  BY <1>2, <1>3, <1>5, <1>7 DEF Simulates, lleq
<1>9. w[p] >= 0 \/ w[p] >= v[p]
  BY <1>3, <1>5, <1>7 DEF Simulates, lleq
<1> QED BY <1>2, <1>8, <1>9, SMT

(* What is taken back over a program may be in sets.                       *)
LEMMA GeneralisedUpInverseKept ==
  ASSUME AutomataAssumption, Generalised, NEW phi \in Kept, NEW to, NEW psi \in GeneralisedUpInverse(phi, to)
  PROVE  psi \in Kept
<1>1. /\ phi.x \in ClockId /\ phi.op \in Comparison /\ reverse_operator(phi.op) \in Comparison
      /\ ~IsSimple(phi) => phi.y \in ClockId
  BY AtomFields, ReversedOperators
<1>2. \/ psi = phi
      \/ psi = Constraint(phi.x, NoClock, phi.op, phi.bound)
      \/ ~IsSimple(phi) /\ psi = Constraint(phi.y, NoClock, reverse_operator(phi.op), -phi.bound)
  BY DEF GeneralisedUpInverse
<1> QED BY <1>1, <1>2, GeneralisedKept

(* The halves of a guard are taken back to the halves of what the guard is *)
(* taken back to.                                                          *)
LEMMA HalvesBack ==
  ASSUME AutomataAssumption, Generalised, NEW g \in Atom, NEW to, NEW h \in Halves(g),
         NEW psi \in GeneralisedUpInverse(h, to)
  PROVE  \E phi \in GeneralisedUpInverse(g, to) :
           psi \in Halves(phi) /\ (Skipped(phi) <=> Skipped(psi))
<1>1. CASE g.op # "EQ"
  <2>1. h = g
    BY <1>1 DEF Halves
  <2>2. psi.op # "EQ"
    <3>1. h \in Kept
      BY HalvesKept
    <3>2. psi \in Kept
      BY <3>1, GeneralisedUpInverseKept
    <3> QED BY <3>2 DEF Kept
  <2>3. psi \in Halves(psi)
    BY <2>2 DEF Halves
  <2> QED BY <2>1, <2>3
<1>2. CASE g.op = "EQ"
  <2>1. g \in [x : ClockId, y : ClockId \cup {NoClock}, op : {"LT", "LE", "EQ", "GE", "GT"}, bound : Int]
    BY DEF Atom
  <2>2. PICK op \in {"LE", "GE"} : h = [g EXCEPT !.op = op]
    BY <1>2 DEF Halves
  <2>3. h.x = g.x /\ h.y = g.y /\ h.op = op /\ h.bound = g.bound
    BY <2>1, <2>2
  <2>4. IsSimple(h) <=> IsSimple(g)
    BY <2>3 DEF IsSimple
  <2>5. ASSUME NEW x, NEW b, NEW o \in {"LE", "GE"}
        PROVE  /\ Constraint(x, NoClock, o, b) \in Halves(Constraint(x, NoClock, "EQ", b))
               /\ Skipped(Constraint(x, NoClock, "EQ", b)) <=> Skipped(Constraint(x, NoClock, o, b))
    BY DEF Constraint, Halves, Skipped, IsSimple
  <2> DEFINE first == g.x \notin to
             second == ~IsSimple(g) /\ g.y \notin to
  <2>6. CASE first /\ second
    <3>1. psi = h /\ g \in GeneralisedUpInverse(g, to)
      BY <2>3, <2>4, <2>6 DEF GeneralisedUpInverse
    <3> QED BY <2>3, <2>4, <3>1 DEF Skipped
  <2>7. CASE first /\ ~second
    <3>1. psi = Constraint(g.x, NoClock, op, g.bound)
      BY <2>3, <2>4, <2>7 DEF GeneralisedUpInverse
    <3>2. Constraint(g.x, NoClock, "EQ", g.bound) \in GeneralisedUpInverse(g, to)
      BY <1>2, <2>7 DEF GeneralisedUpInverse
    <3> QED BY <2>5, <3>1, <3>2
  <2>8. CASE ~first /\ second
    <3>1. psi = Constraint(g.y, NoClock, reverse_operator(op), -g.bound)
      BY <2>3, <2>4, <2>8 DEF GeneralisedUpInverse
    <3>2. reverse_operator("EQ") = "EQ" /\ reverse_operator(op) \in {"LE", "GE"}
      BY DEF reverse_operator
    <3>3. Constraint(g.y, NoClock, "EQ", -g.bound) \in GeneralisedUpInverse(g, to)
      BY <1>2, <2>8, <3>2 DEF GeneralisedUpInverse
    <3> QED BY <2>5, <3>1, <3>2, <3>3
  <2>9. CASE ~first /\ ~second
    BY <2>3, <2>4, <2>9 DEF GeneralisedUpInverse
  <2> QED BY <2>6, <2>7, <2>8, <2>9
<1> QED BY <1>1, <1>2

(* The edge of a generalised automaton is sound where its guards and       *)
(* preconditions are covered.                                              *)
LEMMA ProgramIsSound ==
  ASSUME AutomataAssumption, Generalised, NEW e, IsEdge(system, e), NEW source, Reduced(source),
         \A psi \in ProphecyBounds : Covered(source, psi),
         \A phi \in ProgramGuardPre(e.blocks) : ~Skipped(phi) => \A psi \in Halves(phi) : Covered(source, psi),
         NEW target, target \subseteq Kept,
         \A phi \in target : \A psi \in GeneralisedUpInverse(phi, UpdatedBefore(e.blocks, Len(e.blocks) + 1)) :
           ~Skipped(psi) => Covered(source, psi)
  PROVE  ProgramSound(e, source, target)
<1> DEFINE releasing == {k \in DOMAIN e.blocks : e.blocks[k].do \cap system.prophecy # {}}
           releases == {-u : u \in Values \cup {InfValue}}
           last == UpdatedBefore(e.blocks, Len(e.blocks) + 1)
<1> SUFFICES ASSUME NEW v \in GeneralisedValuation, NEW w \in GeneralisedValuation, SimulatesAll(w, v, source),
                    NEW released \in [releasing -> releases], Run(v, e.blocks, released) # Stuck
             PROVE  /\ Run(w, e.blocks, released) # Stuck
                    /\ SimulatesAll(Run(w, e.blocks, released), Run(v, e.blocks, released), target)
  BY DEF ProgramSound
<1>1. Proper(v) /\ Proper(w)
  BY GeneralisedProper
<1>2. ProphecyEqual(v, w)
  BY <1>1, ProphecyClocksEqual
<1>3. IsValuation(v) /\ IsValuation(w)
  BY <1>1, ProperValuation
<1>4. v \in [ClockId -> Int] /\ w \in [ClockId -> Int]
  BY <1>3 DEF GeneralisedValuation, IsValuation
<1>5. ASSUME NEW k \in DOMAIN e.blocks, NEW g \in e.blocks[k].guard, NEW h \in Halves(g)
      PROVE  BackSimulated(w, v, h, UpdatedBefore(e.blocks, k))
  <2> DEFINE to == UpdatedBefore(e.blocks, k)
  <2>1. g \in Atom
    BY GeneralisedEdge
  <2>2. h \in Kept
    BY <2>1, HalvesKept
  <2> SUFFICES ASSUME NEW psi \in GeneralisedUpInverse(h, to), ~Skipped(psi)
               PROVE  Simulates(w, v, psi)
    BY DEF BackSimulated
  <2>3. \A phi \in GeneralisedUpInverse(g, to) : phi \in ProgramGuardPre(e.blocks)
    BY DEF ProgramGuardPre
  <2> HIDE DEF to
  <2>4. PICK phi \in GeneralisedUpInverse(g, to) : psi \in Halves(phi) /\ (Skipped(phi) <=> Skipped(psi))
    BY <2>1, HalvesBack
  <2>5. Covered(source, psi)
    BY <2>3, <2>4
  <2>6. psi \in Kept
    BY <2>2, GeneralisedUpInverseKept
  <2> QED BY <1>3, <2>5, <2>6, CoveredSimulated
<1>6. ASSUME NEW k \in DOMAIN e.blocks, e.blocks[k].do \cap system.prophecy # {}
      PROVE  Extended(released[k]) /\ released[k] <= 0
  <2>1. released[k] \in releases
    BY <1>6
  <2>2. PICK u \in Values \cup {InfValue} : released[k] = -u
    BY <2>1
  <2>3. InfValue \in Nat /\ (u \in Values => u \in Nat /\ 2 * u < InfValue)
    BY DEF AutomataAssumption
  <2>4. CASE u = InfValue
    BY <2>2, <2>3, <2>4 DEF Extended
  <2>5. CASE u \in Values
    <3>1. Defined(-u) /\ -u <= 0
      BY <2>3, <2>5, SMT DEF Defined
    <3> QED BY <2>2, <3>1 DEF Extended
  <2> QED BY <2>4, <2>5
<1> HIDE DEF releasing, releases
<1>7. Follows(v, w, Run(v, e.blocks, released), Run(w, e.blocks, released), last)
  BY <1>1, <1>2, <1>4, <1>5, <1>6, RunFollows
<1>8. ASSUME NEW phi \in target
      PROVE  Simulates(Run(w, e.blocks, released), Run(v, e.blocks, released), phi)
  <2>1. phi \in Kept
    OBVIOUS
  <2>2. ASSUME NEW psi \in GeneralisedUpInverse(phi, last), ~Skipped(psi)
        PROVE  Simulates(w, v, psi)
    <3>1. Covered(source, psi)
      BY <2>2
    <3>2. psi \in Kept
      BY <2>1, GeneralisedUpInverseKept
    <3> QED BY <1>3, <3>1, <3>2, CoveredSimulated
  <2> HIDE DEF last
  <2> QED BY <1>1, <1>2, <1>7, <2>1, <2>2, BackSimulates DEF Follows
<1> QED BY <1>7, <1>8 DEF Follows, SimulatesAll

-----------------------------------------------------------------------------
(* The inductive invariant, its proof and the theorems.                    *)

(* A finite union of finite sets is finite.                                *)
LEMMA UnionFinite ==
  ASSUME NEW S, IsFiniteSet(S), NEW f, \A x \in S : IsFiniteSet(f[x])
  PROVE  IsFiniteSet(UNION {f[x] : x \in S})
<1> DEFINE T == {f[x] : x \in S}
           h == [x \in S |-> f[x]]
<1>1. h \in Surjection(S, T)
  <2>1. h \in [S -> T] /\ \A t \in T : \E x \in S : h[x] = t
    OBVIOUS
  <2> HIDE DEF h, T
  <2> QED BY <2>1 DEF Surjection
<1>2. IsFiniteSet(T)
  <2> HIDE DEF h, T
  <2> QED BY <1>1, FS_Surjection
<1>3. \A t \in T : IsFiniteSet(t)
  OBVIOUS
<1>4. IsFiniteSet(UNION T)
  <2> HIDE DEF T
  <2> QED BY <1>2, <1>3, FS_UNION
<1> QED BY <1>4

(* A set of at most one element is finite.                                 *)
LEMMA AtMostOneFinite ==
  ASSUME NEW T, NEW x, T = {} \/ T = {x}
  PROVE  IsFiniteSet(T)
BY FS_EmptySet, FS_Singleton

(* The elements of a sequence are finitely many.                           *)
LEMMA ToSetFinite ==
  ASSUME NEW q, IsSequence(q)
  PROVE  IsFiniteSet(ToSet(q)) /\ Len(q) \in Nat /\ DOMAIN q = 1 .. Len(q)
<1>1. Len(q) \in Nat /\ DOMAIN q = 1 .. Len(q)
  BY DEF IsSequence
<1>2. IsFiniteSet(1 .. Len(q))
  BY <1>1, FS_Interval
<1>3. q \in Surjection(1 .. Len(q), ToSet(q))
  <2>1. q \in [1 .. Len(q) -> ToSet(q)]
    BY DEF IsSequence
  <2>2. \A t \in ToSet(q) : \E i \in 1 .. Len(q) : q[i] = t
    BY <1>1 DEF ToSet
  <2> QED BY <2>1, <2>2 DEF Surjection
<1> QED BY <1>1, <1>2, <1>3, FS_Surjection

(* What is added to the source of an edge.                                 *)
PlainPre(target, e) == UNION {ComputePre(phi, e) : phi \in target}
GeneralisedPre(target, e) ==
  UNION {GeneralisedUpInverse(phi, UpdatedBefore(e.blocks, Len(e.blocks) + 1)) : phi \in target}

(* What a visit adds are finitely many constraints.                        *)
LEMMA PlainPreAtoms ==
  ASSUME AutomataAssumption, ~Generalised, NEW e, IsEdge(system, e), NEW target, Reduced(target)
  PROVE  PlainPre(target, e) \subseteq Kept /\ IsFiniteSet(PlainPre(target, e))
<1>1. PlainPre(target, e) \subseteq Kept
  BY PreKept DEF PlainPre, Reduced
<1>2. ASSUME NEW phi \in target
      PROVE  IsFiniteSet(ComputePre(phi, e))
  <2> DEFINE up == ComputeUpInverse(phi, e.update)
             f == [pre \in up |-> GuardBasedOptimization(pre, e.guard)]
  <2>1. \E x : up = {} \/ up = {x}
    BY DEF ComputeUpInverse, UpInverse
  <2>2. IsFiniteSet(up)
    BY <2>1, AtMostOneFinite
  <2>3. ASSUME NEW pre \in up
        PROVE  IsFiniteSet(f[pre])
    <3>1. pre \in Kept
      <4>1. [z |-> NoClock, d |-> 0] \in Assignment
        BY DEF Assignment
      <4>2. phi \in Kept
        BY DEF Reduced
      <4>3. /\ ExtractUpdates(e.update, phi.x) \in Assignment
            /\ ~IsSimple(phi) => ExtractUpdates(e.update, phi.y) \in Assignment
        BY <4>2, AtomFields, PlainEdge
      <4> QED BY <4>1, <4>2, <4>3, UpInverseKept DEF ComputeUpInverse
    <3>2. (IsSimple(pre) /\ lleq(pre.op)) \/ (IsSimple(pre) /\ ggeq(pre.op)) \/ ~IsSimple(pre)
      BY <3>1, AtomFields DEF Comparison, lleq, ggeq
    <3>3. \E x : GuardBasedOptimization(pre, e.guard) = {} \/ GuardBasedOptimization(pre, e.guard) = {x}
      BY <3>2 DEF GuardBasedOptimization
    <3> QED BY <3>3, AtMostOneFinite
  <2>4. ComputePre(phi, e) = UNION {f[pre] : pre \in up}
    BY DEF ComputePre
  <2> HIDE DEF up, f
  <2> QED BY <2>2, <2>3, <2>4, UnionFinite
<1>3. IsFiniteSet(PlainPre(target, e))
  <2> DEFINE f == [phi \in target |-> ComputePre(phi, e)]
  <2>1. PlainPre(target, e) = UNION {f[phi] : phi \in target}
    BY DEF PlainPre
  <2>2. \A phi \in target : IsFiniteSet(f[phi])
    BY <1>2
  <2>3. IsFiniteSet(target)
    BY DEF Reduced
  <2> HIDE DEF f
  <2> QED BY <2>1, <2>2, <2>3, UnionFinite
<1> QED BY <1>1, <1>3

(* The same for generalised automata.                                      *)
LEMMA GeneralisedPreAtoms ==
  ASSUME AutomataAssumption, Generalised, NEW e, NEW target, Reduced(target)
  PROVE  GeneralisedPre(target, e) \subseteq Kept /\ IsFiniteSet(GeneralisedPre(target, e))
<1> DEFINE to == UpdatedBefore(e.blocks, Len(e.blocks) + 1)
           f == [phi \in target |-> GeneralisedUpInverse(phi, to)]
<1>1. GeneralisedPre(target, e) \subseteq Kept
  BY GeneralisedUpInverseKept DEF GeneralisedPre, Reduced
<1>2. \A phi \in target : IsFiniteSet(f[phi])
  <2> SUFFICES ASSUME NEW phi \in target
               PROVE  IsFiniteSet(f[phi])
    OBVIOUS
  <2>1. \E x : f[phi] = {} \/ f[phi] = {x}
    <3> HIDE DEF to
    <3> QED BY DEF GeneralisedUpInverse
  <2> HIDE DEF f
  <2> QED BY <2>1, AtMostOneFinite
<1>3. GeneralisedPre(target, e) = UNION {f[phi] : phi \in target}
  BY DEF GeneralisedPre
<1>4. IsFiniteSet(target)
  BY DEF Reduced
<1> HIDE DEF f, to
<1> QED BY <1>1, <1>2, <1>3, <1>4, UnionFinite

(* The guards of a program, taken back to its start, are finitely many     *)
(* constraints.                                                            *)
LEMMA ProgramGuardAtoms ==
  ASSUME AutomataAssumption, Generalised, NEW e, IsEdge(system, e)
  PROVE  ProgramGuardPre(e.blocks) \subseteq Atom /\ IsFiniteSet(ProgramGuardPre(e.blocks))
<1> DEFINE back(k) == UNION {GeneralisedUpInverse(g, UpdatedBefore(e.blocks, k)) : g \in e.blocks[k].guard}
           f == [k \in DOMAIN e.blocks |-> back(k)]
<1>1. ASSUME NEW g \in Atom, NEW to, NEW psi \in GeneralisedUpInverse(g, to)
      PROVE  psi \in Atom
  <2>1. /\ g \in [x : ClockId, y : ClockId \cup {NoClock}, op : {"LT", "LE", "EQ", "GE", "GT"}, bound : Int]
        /\ ~IsSimple(g) => g.y \in ClockId
    BY DEF Atom, IsSimple
  <2>2. \/ psi = g
        \/ psi = Constraint(g.x, NoClock, g.op, g.bound)
        \/ ~IsSimple(g) /\ psi = Constraint(g.y, NoClock, reverse_operator(g.op), -g.bound)
    BY DEF GeneralisedUpInverse
  <2>3. reverse_operator(g.op) \in {"LT", "LE", "EQ", "GE", "GT"}
    BY <2>1 DEF reverse_operator
  <2>4. psi \in [x : ClockId, y : ClockId \cup {NoClock}, op : {"LT", "LE", "EQ", "GE", "GT"}, bound : Int]
        /\ psi.x # psi.y /\ (psi.bound = g.bound \/ psi.bound = -g.bound)
    BY <2>1, <2>2, <2>3 DEF Constraint, ClockId, NoClock, Atom
  <2>5. IsBound(system, psi)
    <3> DEFINE b == g.bound
               m == Unit * b
    <3>1. b \in {InfValue, -InfValue} \/ (-InfValue < m /\ m < InfValue)
      BY DEF Atom, IsBound, Generalised
    <3>2. InfValue \in Int /\ Unit \in Int /\ m \in Int /\ b \in Int /\ Unit * (-b) = -m
      BY <2>1, SMT DEF AutomataAssumption
    <3>3. psi.bound \in {InfValue, -InfValue} \/ (-InfValue < Unit * psi.bound /\ Unit * psi.bound < InfValue)
      <4>1. CASE psi.bound = b
        BY <3>1, <4>1
      <4>2. CASE psi.bound = -b
        <5>1. Unit * psi.bound = -m
          BY <3>2, <4>2
        <5> HIDE DEF b, m
        <5> QED BY <3>1, <3>2, <4>2, <5>1, SMT
      <4> QED BY <2>4, <4>1, <4>2
    <3> QED BY <3>3 DEF IsBound, Generalised
  <2> QED BY <2>4, <2>5 DEF Atom
<1>2. ProgramGuardPre(e.blocks) \subseteq Atom
  <2> SUFFICES ASSUME NEW psi \in ProgramGuardPre(e.blocks)
               PROVE  psi \in Atom
    OBVIOUS
  <2>2. PICK k \in DOMAIN e.blocks : psi \in back(k)
    BY DEF ProgramGuardPre
  <2>3. PICK g \in e.blocks[k].guard : psi \in GeneralisedUpInverse(g, UpdatedBefore(e.blocks, k))
    BY <2>2
  <2>1. g \in Atom
    BY GeneralisedEdge
  <2> QED BY <1>1, <2>1, <2>3
<1>3. ASSUME NEW k \in DOMAIN e.blocks
      PROVE  IsFiniteSet(back(k))
  <2> DEFINE to == UpdatedBefore(e.blocks, k)
             h == [g \in e.blocks[k].guard |-> GeneralisedUpInverse(g, to)]
  <2>1. ASSUME NEW g \in e.blocks[k].guard
        PROVE  IsFiniteSet(h[g])
    <3>1. \E x : h[g] = {} \/ h[g] = {x}
      <4> HIDE DEF to
      <4> QED BY DEF GeneralisedUpInverse
    <3> HIDE DEF h
    <3> QED BY <3>1, AtMostOneFinite
  <2>2. IsFiniteSet(e.blocks[k].guard)
    BY GeneralisedEdge
  <2>3. back(k) = UNION {h[g] : g \in e.blocks[k].guard}
    OBVIOUS
  <2> HIDE DEF h, back
  <2> QED BY <2>1, <2>2, <2>3, UnionFinite
<1>4. IsFiniteSet(DOMAIN e.blocks)
  <2>1. Len(e.blocks) \in Nat /\ DOMAIN e.blocks = 1 .. Len(e.blocks)
    BY GeneralisedEdge
  <2> QED BY <2>1, FS_Interval
<1>5. ProgramGuardPre(e.blocks) = UNION {f[k] : k \in DOMAIN e.blocks}
  <2>1. ProgramGuardPre(e.blocks) = UNION {back(k) : k \in DOMAIN e.blocks}
    BY Zenon DEF ProgramGuardPre
  <2>2. \A k \in DOMAIN e.blocks : f[k] = back(k)
    OBVIOUS
  <2> HIDE DEF f, back
  <2> QED BY <2>1, <2>2
<1>6. \A k \in DOMAIN e.blocks : IsFiniteSet(f[k])
  BY <1>3
<1> HIDE DEF f, back
<1> QED BY <1>2, <1>4, <1>5, <1>6, UnionFinite

(* The atoms that an edge puts at its source.                              *)
SourceAtoms(e) == IF Generalised THEN ProgramGuardPre(e.blocks) ELSE ToSet(e.guard)

(* The sets of all locations are reduced.                                  *)
ReducedSets(map) == DOMAIN map = Location /\ \A l \in Location : Reduced(map[l])

(* What is demanded from the start: prophecy clocks at 0, and the guards.  *)
Demanded(map) ==
  /\ Generalised => \A l \in Location : \A psi \in ProphecyBounds : Covered(map[l], psi)
  /\ \A i \in DOMAIN system.edges : \A phi \in SourceAtoms(system.edges[i]) :
       ~Skipped(phi) => \A psi \in Halves(phi) : Covered(map[system.edges[i].src], psi)

(* The inductive invariant. Irredundant alone is not inductive: it says    *)
(* nothing of the equalities, of what is comparable up to infinity, nor of *)
(* the guards that soundness needs at the sources.                         *)
SetsInv ==
  /\ system \in Systems
  /\ edge \in {0, 1} \cup DOMAIN system.edges /\ stabilized \in BOOLEAN /\ done \in BOOLEAN
  /\ edge > 0 /\ ~done => edge \in DOMAIN system.edges
  /\ ReducedSets(amap)
  /\ edge > 0 => Demanded(amap)

(* The automaton does not change.                                          *)
LEMMA SameAutomaton ==
  ASSUME system' = system
  PROVE  /\ ReducedSets(amap)' <=> ReducedSets(amap')
         /\ Demanded(amap)' <=> Demanded(amap')
<1>1. Generalised' <=> Generalised
  BY DEF Generalised
<1>2. Atom' = Atom
  BY DEF Atom
<1>3. Kept' = Kept
  BY <1>2 DEF Kept
<1>4. \A p, q : Beats(p, q)' <=> Beats(p, q)
  BY <1>1 DEF Beats
<1>5. \A p : Skipped(p)' <=> Skipped(p)
  BY <1>1 DEF Skipped
<1>6. \A e : SourceAtoms(e)' = SourceAtoms(e)
  BY <1>1 DEF SourceAtoms
<1>7. ProphecyBounds' = ProphecyBounds
  BY DEF ProphecyBounds
<1>8. ReducedSets(amap)' <=> ReducedSets(amap')
  BY <1>3, <1>4 DEF ReducedSets, Reduced
<1>9. Demanded(amap)' <=> Demanded(amap')
  BY <1>1, <1>4, <1>5, <1>6, <1>7 DEF Demanded, Covered
<1> QED BY <1>8, <1>9

(* Sets are empty at first.                                                *)
LEMMA EmptyReduced == Reduced({})
BY FS_EmptySet DEF Reduced

(* The edges of the automaton and their atoms.                             *)
LEMMA EdgeOf ==
  ASSUME AutomataAssumption, system \in Systems
  PROVE  /\ IsSequence(system.edges) /\ Len(system.edges) \in Nat /\ DOMAIN system.edges = 1 .. Len(system.edges)
         /\ \A i \in DOMAIN system.edges :
              /\ IsEdge(system, system.edges[i])
              /\ system.edges[i].src \in Location /\ system.edges[i].tgt \in Location
              /\ SourceAtoms(system.edges[i]) \subseteq Atom /\ IsFiniteSet(SourceAtoms(system.edges[i]))
<1>1. IsSequence(system.edges) /\ \A i \in DOMAIN system.edges : IsEdge(system, system.edges[i])
  BY DEF AutomataAssumption, IsAutomaton
<1>2. \A i \in DOMAIN system.edges : system.edges[i].src \in Location /\ system.edges[i].tgt \in Location
  BY <1>1 DEF IsEdge
<1>3. ASSUME NEW i \in DOMAIN system.edges
      PROVE  SourceAtoms(system.edges[i]) \subseteq Atom /\ IsFiniteSet(SourceAtoms(system.edges[i]))
  <2>1. IsEdge(system, system.edges[i])
    BY <1>1
  <2>2. CASE Generalised
    BY <2>1, <2>2, ProgramGuardAtoms DEF SourceAtoms
  <2>3. CASE ~Generalised
    BY <2>1, <2>3, PlainEdge DEF SourceAtoms
  <2> QED BY <2>2, <2>3
<1> QED BY <1>1, <1>2, <1>3, ToSetFinite

(* The atoms of a location: its invariant and those of edges from it.      *)
LocationAtoms(l) ==
  system.invariant[l] \cup UNION {SourceAtoms(e) : e \in {f \in ToSet(system.edges) : f.src = l}}

(* The atoms of a location are finitely many constraints.                  *)
LEMMA LocationAtomsAre ==
  ASSUME AutomataAssumption, system \in Systems, NEW l \in Location
  PROVE  LocationAtoms(l) \subseteq Atom /\ IsFiniteSet(LocationAtoms(l))
<1> DEFINE S == {f \in ToSet(system.edges) : f.src = l}
           h == [e \in S |-> SourceAtoms(e)]
<1>1. AreAtoms(system, system.invariant[l])
  BY DEF AutomataAssumption, IsAutomaton
<1>2. system.invariant[l] \subseteq Atom /\ IsFiniteSet(system.invariant[l])
  BY <1>1, AtomsAre
<1>3. \A e \in S : SourceAtoms(e) \subseteq Atom /\ IsFiniteSet(SourceAtoms(e))
  BY EdgeOf DEF ToSet
<1>4. IsFiniteSet(S)
  <2>1. IsFiniteSet(ToSet(system.edges))
    BY EdgeOf, ToSetFinite
  <2> QED BY <2>1, FS_Subset
<1>5. UNION {SourceAtoms(e) : e \in S} = UNION {h[e] : e \in S}
  <2>1. \A e \in S : h[e] = SourceAtoms(e)
    OBVIOUS
  <2> HIDE DEF h, S
  <2> QED BY <2>1
<1>6. IsFiniteSet(UNION {SourceAtoms(e) : e \in S})
  <2>1. \A e \in S : IsFiniteSet(h[e])
    BY <1>3
  <2> HIDE DEF h, S
  <2> QED BY <1>4, <1>5, <2>1, UnionFinite
<1>7. UNION {SourceAtoms(e) : e \in S} \subseteq Atom
  BY <1>3
<1> QED BY <1>2, <1>6, <1>7, FS_Union DEF LocationAtoms

(* The map of the atoms.                                                   *)
LEMMA AtomsGood ==
  ASSUME AutomataAssumption, system \in Systems, NEW base, Reduced(base),
         Generalised => \A psi \in ProphecyBounds : Covered(base, psi),
         NEW map, DOMAIN map = Location, \A l \in Location : Grown(base, LocationAtoms(l), map[l])
  PROVE  ReducedSets(map) /\ Demanded(map)
<1>1. ReducedSets(map)
  BY DEF ReducedSets, Grown
<1>2. ASSUME Generalised, NEW l \in Location, NEW psi \in ProphecyBounds
      PROVE  Covered(map[l], psi)
  <2>1. Covered(base, psi)
    BY <1>2
  <2>2. psi \in Kept
    <3>1. system.prophecy \subseteq ClockId
      BY <1>2 DEF AutomataAssumption, IsAutomaton, Generalised
    <3> QED BY <1>2, <3>1, ProphecyKept DEF ProphecyBounds
  <2>3. Grown(base, LocationAtoms(l), map[l])
    BY <1>2
  <2> QED BY <2>1, <2>2, <2>3 DEF Grown, Keeps
<1>3. ASSUME NEW i \in DOMAIN system.edges, NEW phi \in SourceAtoms(system.edges[i]), ~Skipped(phi),
             NEW psi \in Halves(phi)
      PROVE  Covered(map[system.edges[i].src], psi)
  <2> DEFINE l == system.edges[i].src
  <2>1. l \in Location
    BY EdgeOf
  <2>2. system.edges[i] \in {f \in ToSet(system.edges) : f.src = l}
    BY DEF ToSet
  <2>3. phi \in LocationAtoms(l)
    BY <2>2 DEF LocationAtoms
  <2> HIDE DEF l
  <2>4. Grown(base, LocationAtoms(l), map[l])
    BY <2>1
  <2>5. Covered(map[l], psi)
    BY <1>3, <2>3, <2>4 DEF Grown
  <2> QED BY <2>5 DEF l
<1> QED BY <1>1, <1>2, <1>3 DEF Demanded

(* The atoms of plain automata are reduced sets and cover what is          *)
(* demanded.                                                               *)
LEMMA AddAtomsGood ==
  ASSUME AutomataAssumption, system \in Systems, ~Generalised
  PROVE  ReducedSets(Atoms(system)) /\ Demanded(Atoms(system))
<1> DEFINE map == Atoms(system)
<1>1. DOMAIN map = Location
  BY DEF Atoms
<1>2. ASSUME NEW l \in Location
      PROVE  Grown({}, LocationAtoms(l), map[l])
  <2>1. map[l] = AddedAll({}, LocationAtoms(l))
    BY DEF Atoms, LocationAtoms, SourceAtoms
  <2>2. LocationAtoms(l) \in SUBSET Atom /\ IsFiniteSet(LocationAtoms(l))
    BY LocationAtomsAre
  <2> HIDE DEF map
  <2> QED BY <2>1, <2>2, EmptyReduced, AddedAllGrows
<1> HIDE DEF map
<1>3. ReducedSets(map) /\ Demanded(map)
  BY <1>1, <1>2, EmptyReduced, AtomsGood
<1> QED BY <1>3 DEF map

(* The bounds on prophecy clocks alone are a reduced set.                  *)
LEMMA ProphecyReduced ==
  ASSUME AutomataAssumption, system \in Systems, Generalised
  PROVE  Reduced(ProphecyBounds) /\ \A psi \in ProphecyBounds : Covered(ProphecyBounds, psi)
<1>1. system.prophecy \subseteq ClockId
  BY DEF AutomataAssumption, IsAutomaton, Generalised
<1>2. ProphecyBounds \subseteq Kept
  BY <1>1, ProphecyKept DEF ProphecyBounds
<1>3. IsFiniteSet(ProphecyBounds)
  <2> DEFINE ops == {"LE", "GE"}
             S == system.prophecy \X ops
             h == [p \in S |-> {Constraint(p[1], NoClock, p[2], 0)}]
  <2>1. IsFiniteSet(ClockId)
    BY FS_Interval DEF ClockId, AutomataAssumption
  <2>2. IsFiniteSet(system.prophecy)
    BY <1>1, <2>1, FS_Subset
  <2>3. IsFiniteSet(ops)
    <3>1. ops = {"LE"} \cup {"GE"}
      OBVIOUS
    <3>2. IsFiniteSet({"LE"}) /\ IsFiniteSet({"GE"})
      BY FS_Singleton
    <3> HIDE DEF ops
    <3> QED BY <3>1, <3>2, FS_Union
  <2>4. IsFiniteSet(S)
    <3> HIDE DEF ops
    <3> QED BY <2>2, <2>3, FS_Product
  <2>5. \A p \in S : IsFiniteSet(h[p])
    BY FS_Singleton
  <2>6. ProphecyBounds = UNION {h[p] : p \in S}
    <3>1. ASSUME NEW x \in system.prophecy, NEW o \in ops
          PROVE  <<x, o>> \in S /\ h[<<x, o>>] = {Constraint(x, NoClock, o, 0)}
      OBVIOUS
    <3>2. ASSUME NEW p \in S
          PROVE  \E x \in system.prophecy, o \in ops : h[p] = {Constraint(x, NoClock, o, 0)}
      OBVIOUS
    <3>3. ProphecyBounds = {Constraint(x, NoClock, o, 0) : x \in system.prophecy, o \in ops}
      BY DEF ProphecyBounds
    <3> HIDE DEF S, h, ops
    <3>4. ProphecyBounds \subseteq UNION {h[p] : p \in S}
      <4> SUFFICES ASSUME NEW psi \in ProphecyBounds
                   PROVE  \E p \in S : psi \in h[p]
        OBVIOUS
      <4>1. PICK x \in system.prophecy, o \in ops : psi = Constraint(x, NoClock, o, 0)
        BY <3>3
      <4>2. <<x, o>> \in S /\ psi \in h[<<x, o>>]
        BY <3>1, <4>1
      <4> QED BY <4>2
    <3>5. UNION {h[p] : p \in S} \subseteq ProphecyBounds
      BY <3>2, <3>3
    <3> QED BY <3>4, <3>5
  <2> HIDE DEF S, h
  <2> QED BY <2>4, <2>5, <2>6, UnionFinite
<1>4. ASSUME NEW p \in ProphecyBounds, NEW q \in ProphecyBounds, Beats(p, q)
      PROVE  p = q
  <2>1. SameSide(p, q)
    BY <1>4 DEF Beats, GreaterInf, Greater
  <2>2. PICK x \in system.prophecy, o \in {"LE", "GE"} : p = Constraint(x, NoClock, o, 0)
    BY DEF ProphecyBounds
  <2>3. PICK y \in system.prophecy, r \in {"LE", "GE"} : q = Constraint(y, NoClock, r, 0)
    BY DEF ProphecyBounds
  <2>4. x = y /\ o = r
    BY <2>1, <2>2, <2>3 DEF SameSide, Constraint, lleq, ggeq
  <2> QED BY <2>2, <2>3, <2>4
<1> QED BY <1>2, <1>3, <1>4 DEF Reduced, Covered

(* The atoms of generalised automata as well.                              *)
LEMMA AddGeneralisedAtomsGood ==
  ASSUME AutomataAssumption, system \in Systems, Generalised, NEW map, DOMAIN map = Location,
         \A l \in Location : map[l] = GeneralisedAddedAll(ProphecyBounds, LocationAtoms(l))
  PROVE  ReducedSets(map) /\ Demanded(map)
<1>1. ASSUME NEW l \in Location
      PROVE  Grown(ProphecyBounds, LocationAtoms(l), map[l])
  <2>1. LocationAtoms(l) \in SUBSET Atom /\ IsFiniteSet(LocationAtoms(l))
    BY LocationAtomsAre
  <2> QED BY <2>1, ProphecyReduced, GeneralisedAddedAllGrows
<1> QED BY <1>1, ProphecyReduced, AtomsGood

(* A visit keeps the sets reduced and what they demand, and is sound.      *)
LEMMA VisitGood ==
  ASSUME AutomataAssumption, system \in Systems, NEW map, ReducedSets(map), Demanded(map),
         NEW i \in DOMAIN system.edges, NEW result, result = Visited(map, system.edges[i]).map
  PROVE  /\ ReducedSets(result) /\ Demanded(result)
         /\ IF Generalised THEN ProgramSound(system.edges[i], result[system.edges[i].src], map[system.edges[i].tgt])
            ELSE EdgeSound(system.edges[i], result[system.edges[i].src], map[system.edges[i].tgt])
<1> DEFINE e == system.edges[i]
           pre == IF Generalised THEN GeneralisedPre(map[e.tgt], e) ELSE PlainPre(map[e.tgt], e)
           set == IF Generalised THEN GeneralisedAddedAll(map[e.src], pre) ELSE AddedAll(map[e.src], pre)
<1>1. /\ IsEdge(system, e) /\ e.src \in Location /\ e.tgt \in Location
      /\ SourceAtoms(e) \subseteq Atom
  BY EdgeOf
<1>2. result = [map EXCEPT ![e.src] = set]
  BY DEF Visited, GeneralisedPropagated, Propagated, GeneralisedPre, PlainPre
<1> HIDE DEF e
<1>3. Reduced(map[e.src]) /\ Reduced(map[e.tgt]) /\ DOMAIN map = Location
  BY <1>1 DEF ReducedSets
<1>4. pre \subseteq Kept /\ IsFiniteSet(pre)
  BY <1>1, <1>3, GeneralisedPreAtoms, PlainPreAtoms
<1>5. Grown(map[e.src], pre, set)
  <2>1. pre \in SUBSET Atom
    BY <1>4 DEF Kept
  <2> HIDE DEF pre
  <2> QED BY <1>3, <1>4, <2>1, GeneralisedAddedAllGrows, AddedAllGrows
<1>6. /\ DOMAIN result = Location
      /\ result[e.src] = set
      /\ \A l \in Location : l # e.src => result[l] = map[l]
  BY <1>1, <1>2, <1>3
<1>7. ReducedSets(result)
  BY <1>5, <1>6 DEF ReducedSets, Grown
<1>8. ASSUME NEW l \in Location, NEW psi \in Kept, Covered(map[l], psi)
      PROVE  Covered(result[l], psi)
  BY <1>5, <1>6, <1>8 DEF Grown, Keeps
<1>9. Demanded(result)
  <2>1. ASSUME Generalised, NEW l \in Location, NEW psi \in ProphecyBounds
        PROVE  Covered(result[l], psi)
    <3>1. psi \in Kept
      BY <2>1, ProphecyReduced DEF Reduced
    <3>2. Covered(map[l], psi)
      BY <2>1 DEF Demanded
    <3> QED BY <1>8, <3>1, <3>2
  <2>2. ASSUME NEW j \in DOMAIN system.edges, NEW phi \in SourceAtoms(system.edges[j]), ~Skipped(phi),
               NEW psi \in Halves(phi)
        PROVE  Covered(result[system.edges[j].src], psi)
    <3>1. psi \in Kept /\ system.edges[j].src \in Location
      BY EdgeOf, HalvesKept
    <3>2. Covered(map[system.edges[j].src], psi)
      BY <2>2 DEF Demanded
    <3> QED BY <1>8, <3>1, <3>2
  <2> QED BY <2>1, <2>2 DEF Demanded
<1>10. \A phi \in SourceAtoms(e) : ~Skipped(phi) => \A psi \in Halves(phi) : Covered(result[e.src], psi)
  BY <1>9 DEF Demanded, e
<1>11. ASSUME NEW psi \in pre, ~Skipped(psi)
       PROVE  Covered(result[e.src], psi)
  <2>1. psi \in Kept
    BY <1>4
  <2>2. psi \in Halves(psi)
    BY <2>1 DEF Halves, Kept
  <2> HIDE DEF pre, set
  <2> QED BY <1>5, <1>6, <1>11, <2>2 DEF Grown
<1>12. Reduced(result[e.src]) /\ map[e.tgt] \subseteq Kept
  BY <1>1, <1>3, <1>7 DEF ReducedSets, Reduced
<1>13. CASE Generalised
  <2>1. \A phi \in ProgramGuardPre(e.blocks) : ~Skipped(phi) => \A psi \in Halves(phi) : Covered(result[e.src], psi)
    BY <1>10, <1>13 DEF SourceAtoms
  <2>2. \A psi \in ProphecyBounds : Covered(result[e.src], psi)
    BY <1>1, <1>9, <1>13 DEF Demanded
  <2>3. \A phi \in map[e.tgt] : \A psi \in GeneralisedUpInverse(phi, UpdatedBefore(e.blocks, Len(e.blocks) + 1)) :
          psi \in pre
    BY <1>13 DEF GeneralisedPre
  <2> HIDE DEF pre, set
  <2>4. ProgramSound(e, result[e.src], map[e.tgt])
    BY <1>1, <1>11, <1>12, <1>13, <2>1, <2>2, <2>3, ProgramIsSound
  <2> QED BY <1>7, <1>9, <1>13, <2>4 DEF e
<1>14. CASE ~Generalised
  <2>1. \A phi : ~Skipped(phi)
    BY <1>14 DEF Skipped
  <2>2. \A g \in ToSet(e.guard) : \A psi \in Halves(g) : Covered(result[e.src], psi)
    BY <1>10, <1>14, <2>1 DEF SourceAtoms
  <2>3. \A phi \in map[e.tgt] : \A p \in ComputePre(phi, e) : p \in pre
    BY <1>14 DEF PlainPre
  <2> HIDE DEF pre, set
  <2>4. EdgeSound(e, result[e.src], map[e.tgt])
    BY <1>1, <1>11, <1>12, <1>14, <2>1, <2>2, <2>3, EdgeIsSound
  <2> QED BY <1>7, <1>9, <1>14, <2>4 DEF e
<1> QED BY <1>13, <1>14

(* The invariant holds of the empty map.                                   *)
LEMMA SetsInit ==
  ASSUME AutomataAssumption
  PROVE  Init => SetsInv
<1> SUFFICES ASSUME Init
             PROVE  SetsInv
  OBVIOUS
<1>1. DOMAIN amap = Location /\ \A l \in Location : amap[l] = {}
  BY DEF Init, a_map
<1>2. ReducedSets(amap)
  BY <1>1, EmptyReduced DEF ReducedSets
<1>3. system \in Systems /\ edge = 0 /\ stabilized = FALSE /\ done = FALSE
  BY DEF Init
<1>4. ~(edge > 0)
  BY <1>3
<1> QED BY <1>2, <1>3, <1>4, Zenon DEF SetsInv

(* Every step keeps the invariant, and every visit is sound.               *)
LEMMA SetsStep ==
  ASSUME AutomataAssumption
  PROVE  SetsInv /\ [Next]_vars => SetsInv' /\ [VisitSound]_vars
<1> SUFFICES ASSUME SetsInv, [Next]_vars
             PROVE  SetsInv' /\ [VisitSound]_vars
  OBVIOUS
<1> USE DEF SetsInv
<1>1. system' = system
  BY DEF Next, AddAtoms, AddGeneralisedAtoms, PropagateEdge, vars
<1>2. ASSUME /\ edge' \in {0, 1} \cup DOMAIN system.edges /\ stabilized' \in BOOLEAN /\ done' \in BOOLEAN
             /\ edge' > 0 /\ ~done' => edge' \in DOMAIN system.edges
             /\ ReducedSets(amap') /\ (edge' > 0 => Demanded(amap'))
      PROVE  SetsInv'
  BY <1>1, <1>2, SameAutomaton
<1>3. Len(system.edges) \in Nat /\ DOMAIN system.edges = 1 .. Len(system.edges) /\ IsSequence(system.edges)
  BY EdgeOf
<1>4. system.edges = <<>> \/ 1 \in DOMAIN system.edges
  <2>1. CASE Len(system.edges) = 0
    BY <1>3, <2>1 DEF IsSequence
  <2>2. CASE Len(system.edges) # 0
    BY <1>3, <2>2
  <2> QED BY <2>1, <2>2
<1>5. CASE AddAtoms
  <2>1. ReducedSets(amap') /\ Demanded(amap')
    <3>1. ~Generalised /\ amap' = Atoms(system)
      BY <1>5 DEF AddAtoms
    <3> QED BY <3>1, AddAtomsGood
  <2>2. edge = 0 /\ edge' = 1 /\ stabilized' = TRUE /\ done' = (system.edges = <<>>)
    BY <1>5 DEF AddAtoms
  <2>3. ~(edge > 0) /\ edge' > 0
    BY <2>2
  <2>4. VisitSound
    BY <2>3 DEF VisitSound
  <2>5. done' \in BOOLEAN /\ (~done' => 1 \in DOMAIN system.edges)
    BY <1>4, <2>2
  <2>6. SetsInv'
    BY <1>2, <2>1, <2>2, <2>3, <2>5
  <2> QED BY <2>4, <2>6
<1>6. CASE AddGeneralisedAtoms
  <2>1. ReducedSets(amap') /\ Demanded(amap')
    <3>1. Generalised /\ DOMAIN amap' = Location
      BY <1>6 DEF AddGeneralisedAtoms
    <3>2. \A l \in Location : amap'[l] = GeneralisedAddedAll(ProphecyBounds, LocationAtoms(l))
      BY <1>6, <3>1 DEF AddGeneralisedAtoms, ProphecyBounds, LocationAtoms, SourceAtoms
    <3> QED BY <3>1, <3>2, AddGeneralisedAtomsGood
  <2>2. edge = 0 /\ edge' = 1 /\ stabilized' = TRUE /\ done' = (system.edges = <<>>)
    BY <1>6 DEF AddGeneralisedAtoms
  <2>3. ~(edge > 0) /\ edge' > 0
    BY <2>2
  <2>4. VisitSound
    BY <2>3 DEF VisitSound
  <2>5. done' \in BOOLEAN /\ (~done' => 1 \in DOMAIN system.edges)
    BY <1>4, <2>2
  <2>6. SetsInv'
    BY <1>2, <2>1, <2>2, <2>3, <2>5
  <2> QED BY <2>4, <2>6
<1>7. CASE PropagateEdge
  <2>1. /\ edge > 0 /\ ~done /\ edge \in DOMAIN system.edges
        /\ amap' = Visited(amap, system.edges[edge]).map
    BY <1>7 DEF PropagateEdge
  <2>2. /\ ReducedSets(amap') /\ Demanded(amap')
        /\ IF Generalised THEN ProgramSound(system.edges[edge], amap'[system.edges[edge].src], amap[system.edges[edge].tgt])
           ELSE EdgeSound(system.edges[edge], amap'[system.edges[edge].src], amap[system.edges[edge].tgt])
    BY <2>1, VisitGood
  <2>3. VisitSound
    BY <2>2 DEF VisitSound
  <2>4. /\ edge' = IF edge = Len(system.edges) THEN 1 ELSE edge + 1
        /\ stabilized' \in BOOLEAN /\ done' \in BOOLEAN
    BY <1>7 DEF PropagateEdge
  <2>5. edge' \in DOMAIN system.edges
    BY <1>3, <2>1, <2>4
  <2> QED BY <1>2, <2>2, <2>3, <2>4, <2>5
<1>8. CASE UNCHANGED vars
  <2>1. amap' = amap /\ edge' = edge /\ stabilized' = stabilized /\ done' = done
    BY <1>8 DEF vars
  <2>2. SetsInv'
    BY <1>2, <2>1
  <2> QED BY <1>8, <2>2
<1> QED BY <1>5, <1>6, <1>7, <1>8 DEF Next

(* The invariant implies the property that the run checks.                 *)
LEMMA SetsIrredundant ==
  ASSUME AutomataAssumption, SetsInv
  PROVE  Irredundant
<1>1. \A l \in Location : Reduced(amap[l])
  BY DEF SetsInv, ReducedSets
<1>2. is_a_map(amap)
  <2> SUFFICES ASSUME NEW l \in Location, NEW phi \in amap[l]
               PROVE  /\ phi.x \in ClockId /\ phi.y \in (ClockId \cup {NoClock}) \ {phi.x}
                      /\ phi.op \in {"LT", "LE", "GE", "GT"}
                      /\ phi.bound \in IF Generalised \/ ~IsSimple(phi) THEN Int ELSE Nat
    BY DEF is_a_map
  <2>1. phi \in Kept
    BY <1>1 DEF Reduced
  <2>2. ~Generalised /\ IsSimple(phi) => phi.bound \in Nat
    BY <2>1 DEF Kept, Atom, IsBound, Generalised
  <2> QED BY <2>1, <2>2, AtomFields DEF Comparison
<1>3. \A l \in Location : \A phi, psi \in amap[l] :
        Greater(phi, psi) /\ ~Infinite(phi.bound) /\ ~Infinite(psi.bound) => phi = psi
  <2> SUFFICES ASSUME NEW l \in Location, NEW phi \in amap[l], NEW psi \in amap[l],
                      Greater(phi, psi), ~Infinite(phi.bound), ~Infinite(psi.bound)
               PROVE  phi = psi
    OBVIOUS
  <2>1. Beats(phi, psi)
    BY DEF Beats, GreaterInf, Infinite
  <2> QED BY <1>1, <2>1 DEF Reduced
<1> QED BY <1>2, <1>3 DEF Irredundant, TypeOK, SetsInv

(* For every plain and generalised automaton, whatever its clocks,         *)
(* locations and edges: the map is well typed and no constraint of a       *)
(* location makes another one redundant.                                   *)
THEOREM SetsAreIrredundant ==
  ASSUME AutomataAssumption
  PROVE  Spec => []Irredundant
<1>1. Init => SetsInv
  BY SetsInit
<1>2. SetsInv /\ [Next]_vars => SetsInv'
  BY SetsStep
<1>3. SetsInv => Irredundant
  BY SetsIrredundant
<1> QED BY <1>1, <1>2, <1>3, PTL DEF Spec

(* For every plain and generalised automaton: once an edge is visited, the *)
(* constraints of its source simulate those that its target had.           *)
THEOREM PropagationIsSound ==
  ASSUME AutomataAssumption
  PROVE  Spec => PropagationSound
<1>1. Init => SetsInv
  BY SetsInit
<1>2. SetsInv /\ [Next]_vars => SetsInv'
  BY SetsStep
<1>3. SetsInv /\ [Next]_vars => [VisitSound]_vars
  BY SetsStep
<1> QED BY <1>1, <1>2, <1>3, PTL DEF Spec, PropagationSound
=============================================================================
