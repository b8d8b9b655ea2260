------------------------ MODULE FastRemoveWaitingProofs -----------------------
(***************************************************************************)
(* Proof that fast_remove_waiting_t implements the waiting list without    *)
(* marks, for every set of elements and both policies.                     *)
(***************************************************************************)
EXTENDS FastRemoveWaiting, Integers, FiniteSetTheorems, SequenceTheorems,
        WellFoundedInduction, TLAPS

-----------------------------------------------------------------------------
(* Among some positions of a deque, there is a first and a last one.       *)
LEMMA EndPositions ==
  ASSUME NEW n \in Nat, NEW S \in SUBSET (1 .. n), S # {}
  PROVE  /\ \E i \in S : \A j \in S : i <= j
         /\ \E i \in S : \A j \in S : i >= j
<1>1. IsFiniteSet(S)
  <2>1. IsFiniteSet(1 .. n)
    BY FS_Interval
  <2>2. QED
    BY <2>1, FS_Subset
<1>2. IsWellFoundedOn(StrictSubsetOrdering(S), FiniteSubsetsOf(S))
  BY FS_StrictSubsetOrderingWellFounded
<1>3. FiniteSubsetsOf(S) = SUBSET S
  BY <1>1, FS_FiniteSubsetsOfFinite
<1>4. \E i \in S : \A j \in S : i <= j
  <2> DEFINE below(i) == {j \in S : ~ (i < j)}
             B == {T \in SUBSET S : \E i \in S : T = below(i)}
  <2>1. \A i \in S : /\ below(i) \in SUBSET S /\ i \in below(i)
                     /\ \A j \in S : ~ (i <= j) =>
                          below(j) \subseteq below(i) /\ i \notin below(j)
    <3>1. \A i \in S : ~ (i < i)
      OBVIOUS
    <3>2. \A i, j \in S : ~ (i <= j) => j < i
      OBVIOUS
    <3>3. \A i, j, k \in S : ~ (i <= j) /\ ~ (j < k) => ~ (i < k)
      OBVIOUS
    <3>4. QED
      BY <3>1, <3>2, <3>3, Zenon
  <2> HIDE DEF below
  <2>2. B \subseteq FiniteSubsetsOf(S) /\ B # {}
    <3>1. PICK i \in S : TRUE
      OBVIOUS
    <3>2. below(i) \in B
      BY <2>1
    <3>3. QED
      BY <1>3, <3>2
  <2>3. PICK T \in B : \A U \in B : ~ (<<U, T>> \in StrictSubsetOrdering(S))
    <3> HIDE DEF B
    <3>1. QED
      BY <1>2, <2>2, WFMin
  <2>4. PICK i \in S : T = below(i)
    BY <2>3
  <2>5. ASSUME NEW j \in S, ~ (i <= j)
        PROVE  FALSE
    <3>1. below(j) \in B /\ below(j) \in SUBSET T /\ i \in T /\ i \notin below(j)
      BY <2>1, <2>4, <2>5
    <3>2. <<below(j), T>> \in StrictSubsetOrdering(S)
      BY <2>3, <3>1 DEF StrictSubsetOrdering
    <3>3. QED
      BY <2>3, <3>1, <3>2
  <2>6. QED
    BY <2>5
<1>5. \E i \in S : \A j \in S : i >= j
  <2> DEFINE above(i) == {j \in S : ~ (i > j)}
             B == {T \in SUBSET S : \E i \in S : T = above(i)}
  <2>1. \A i \in S : /\ above(i) \in SUBSET S /\ i \in above(i)
                     /\ \A j \in S : ~ (i >= j) =>
                          above(j) \subseteq above(i) /\ i \notin above(j)
    <3>1. \A i \in S : ~ (i > i)
      OBVIOUS
    <3>2. \A i, j \in S : ~ (i >= j) => j > i
      OBVIOUS
    <3>3. \A i, j, k \in S : ~ (i >= j) /\ ~ (j > k) => ~ (i > k)
      OBVIOUS
    <3>4. QED
      BY <3>1, <3>2, <3>3, Zenon
  <2> HIDE DEF above
  <2>2. B \subseteq FiniteSubsetsOf(S) /\ B # {}
    <3>1. PICK i \in S : TRUE
      OBVIOUS
    <3>2. above(i) \in B
      BY <2>1
    <3>3. QED
      BY <1>3, <3>2
  <2>3. PICK T \in B : \A U \in B : ~ (<<U, T>> \in StrictSubsetOrdering(S))
    <3> HIDE DEF B
    <3>1. QED
      BY <1>2, <2>2, WFMin
  <2>4. PICK i \in S : T = above(i)
    BY <2>3
  <2>5. ASSUME NEW j \in S, ~ (i >= j)
        PROVE  FALSE
    <3>1. above(j) \in B /\ above(j) \in SUBSET T /\ i \in T /\ i \notin above(j)
      BY <2>1, <2>4, <2>5
    <3>2. <<above(j), T>> \in StrictSubsetOrdering(S)
      BY <2>3, <3>1 DEF StrictSubsetOrdering
    <3>3. QED
      BY <2>3, <3>1, <3>2
  <2>6. QED
    BY <2>5
<1>6. QED
  BY <1>4, <1>5

-----------------------------------------------------------------------------
(* A deque without repetitions, and statuses.                              *)
IsDeque(q) ==
  q \in Seq(Element) /\ \A i, j \in DOMAIN q : q[i] = q[j] => i = j

Statuses == [Element -> {"WAITING", "NOT_WAITING"}]

ListInv ==
  /\ policy \in {"queue", "stack"}
  /\ IsDeque(dq)
  /\ status \in Statuses

(* A part of a deque that has its waiting elements: p is q from position   *)
(* a to position b.                                                        *)
PartOf(p, q, a, b) ==
  /\ DOMAIN p = 1 .. b - a + 1
  /\ \A i \in 1 .. b - a + 1 : p[i] = q[a + i - 1]

LEMMA SubSeqPart ==
  ASSUME NEW q, IsDeque(q), NEW a \in 1 .. Len(q), NEW b \in a .. Len(q)
  PROVE  /\ SubSeq(q, a, b) \in Seq(Element)
         /\ PartOf(SubSeq(q, a, b), q, a, b)
         /\ Len(SubSeq(q, a, b)) = b - a + 1
<1>1. q \in Seq(Element) /\ Len(q) \in Nat
  BY DEF IsDeque
<1>2. /\ SubSeq(q, a, b) \in Seq(Element)
      /\ Len(SubSeq(q, a, b)) = b - a + 1
      /\ \A i \in 1 .. b - a + 1 : SubSeq(q, a, b)[i] = q[a + i - 1]
  BY <1>1, SubSeqProperties
<1>3. QED
  BY <1>2 DEF PartOf

(* Leaving out elements that do not wait leaves the waiting elements and   *)
(* their order as they were.                                               *)
LEMMA PartKeeps ==
  ASSUME NEW q, IsDeque(q), NEW a \in 1 .. Len(q), NEW b \in a .. Len(q),
         NEW st, NEW p, p \in Seq(Element), PartOf(p, q, a, b),
         \A i \in DOMAIN q : IsWaiting(st, q[i]) => i \in a .. b
  PROVE  /\ IsDeque(p)
         /\ MembersOf(p, st) = MembersOf(q, st)
         /\ AheadOf(p, st) = AheadOf(q, st)
<1> DEFINE n == b - a + 1
<1>1. /\ DOMAIN q = 1 .. Len(q) /\ Len(q) \in Nat /\ a \in Nat /\ b \in Nat
      /\ \A i, j \in DOMAIN q : q[i] = q[j] => i = j
      /\ DOMAIN p = 1 .. n /\ \A i \in 1 .. n : p[i] = q[a + i - 1]
  BY DEF IsDeque, PartOf
<1>2. \A i \in DOMAIN p : a + i - 1 \in DOMAIN q /\ p[i] = q[a + i - 1]
  BY <1>1
<1>3. \A k \in DOMAIN q : IsWaiting(st, q[k]) =>
        k - a + 1 \in DOMAIN p /\ p[k - a + 1] = q[k]
  <2>1. SUFFICES ASSUME NEW k \in DOMAIN q, IsWaiting(st, q[k])
                 PROVE  k - a + 1 \in DOMAIN p /\ p[k - a + 1] = q[k]
    OBVIOUS
  <2>2. k \in a .. b
    BY <2>1
  <2>3. k - a + 1 \in 1 .. n /\ a + (k - a + 1) - 1 = k
    BY <1>1, <2>2
  <2>4. QED
    BY <1>1, <2>3
<1>4. IsDeque(p)
  <2>1. ASSUME NEW i \in DOMAIN p, NEW j \in DOMAIN p, p[i] = p[j]
        PROVE  i = j
    <3>1. a + i - 1 = a + j - 1
      BY <1>1, <1>2, <2>1
    <3>2. i \in Nat /\ j \in Nat
      BY <1>1
    <3>3. QED
      BY <1>1, <3>1, <3>2
  <2>2. QED
    BY <2>1 DEF IsDeque
<1>5. MembersOf(p, st) = MembersOf(q, st)
  <2>1. ASSUME NEW t \in Element, IsWaiting(st, t)
        PROVE  (\E i \in DOMAIN p : p[i] = t) <=> \E i \in DOMAIN q : q[i] = t
    BY <1>2, <1>3, <2>1
  <2>2. QED
    BY <2>1 DEF MembersOf
<1>6. ASSUME NEW t \in MembersOf(q, st), NEW u \in MembersOf(q, st)
      PROVE  (\E i, j \in DOMAIN p : i < j /\ p[i] = t /\ p[j] = u)
               <=> \E i, j \in DOMAIN q : i < j /\ q[i] = t /\ q[j] = u
  <2>1. ASSUME NEW i \in DOMAIN p, NEW j \in DOMAIN p, i < j, p[i] = t, p[j] = u
        PROVE  \E k, l \in DOMAIN q : k < l /\ q[k] = t /\ q[l] = u
    <3>1. a + i - 1 < a + j - 1
      BY <1>1, <2>1
    <3>2. QED
      BY <1>2, <2>1, <3>1
  <2>2. ASSUME NEW k \in DOMAIN q, NEW l \in DOMAIN q, k < l, q[k] = t, q[l] = u
        PROVE  \E i, j \in DOMAIN p : i < j /\ p[i] = t /\ p[j] = u
    <3>1. IsWaiting(st, q[k]) /\ IsWaiting(st, q[l])
      BY <2>2 DEF MembersOf
    <3>2. k - a + 1 < l - a + 1
      BY <1>1, <2>2
    <3>3. QED
      BY <1>3, <2>2, <3>1, <3>2
  <2>3. QED
    BY <2>1, <2>2
<1>7. AheadOf(p, st) = AheadOf(q, st)
  BY <1>5, <1>6 DEF AheadOf
<1>8. QED
  BY <1>4, <1>5, <1>7

(* remove_non_waiting_first keeps the waiting elements and their order,    *)
(* and brings a waiting element in front.                                  *)
LEMMA PurgedKeeps ==
  ASSUME NEW q, IsDeque(q), NEW st \in Statuses, policy \in {"queue", "stack"}
  PROVE  /\ IsDeque(Purged(q, st))
         /\ MembersOf(Purged(q, st), st) = MembersOf(q, st)
         /\ AheadOf(Purged(q, st), st) = AheadOf(q, st)
         /\ Purged(q, st) # <<>> => IsWaiting(st, FirstOf(Purged(q, st)))
         /\ Purged(q, st) = <<>> <=> MembersOf(q, st) = {}
<1> DEFINE kept == {i \in DOMAIN q : IsWaiting(st, q[i])}
           p == Purged(q, st)
<1>1. /\ q \in Seq(Element) /\ Len(q) \in Nat /\ DOMAIN q = 1 .. Len(q)
      /\ \A i \in 1 .. Len(q) : q[i] \in Element
  BY DEF IsDeque
<1>2. MembersOf(q, st) = {} <=> kept = {}
  BY <1>1 DEF MembersOf
<1>3. CASE kept = {}
  <2>1. p = <<>>
    BY <1>3 DEF Purged
  <2>2. /\ IsDeque(<<>>) /\ MembersOf(<<>>, st) = {}
    BY DEF IsDeque, MembersOf
  <2>3. MembersOf(q, st) = {}
    BY <1>2, <1>3
  <2>4. AheadOf(<<>>, st) = {} /\ AheadOf(q, st) = {}
    BY <2>2, <2>3 DEF AheadOf
  <2>5. QED
    BY <2>1, <2>2, <2>3, <2>4
<1>4. CASE kept # {}
  <2>1. kept \in SUBSET (1 .. Len(q))
    BY <1>1
  <2>2. /\ \E i \in kept : \A j \in kept : i <= j
        /\ \E i \in kept : \A j \in kept : i >= j
    BY <1>1, <1>4, <2>1, EndPositions
  <2>3. ASSUME NEW a \in 1 .. Len(q), NEW b \in a .. Len(q),
               p = SubSeq(q, a, b), \A i \in kept : i \in a .. b,
               IF policy = "queue" THEN a \in kept ELSE b \in kept
        PROVE  /\ IsDeque(p)
               /\ MembersOf(p, st) = MembersOf(q, st)
               /\ AheadOf(p, st) = AheadOf(q, st)
               /\ IsWaiting(st, FirstOf(p)) /\ p # <<>>
    <3>1. p \in Seq(Element) /\ PartOf(p, q, a, b) /\ Len(p) = b - a + 1
      BY <2>3, SubSeqPart
    <3> HIDE DEF p
    <3>2. \A i \in DOMAIN q : IsWaiting(st, q[i]) => i \in a .. b
      BY <2>3
    <3>3. /\ IsDeque(p) /\ MembersOf(p, st) = MembersOf(q, st)
          /\ AheadOf(p, st) = AheadOf(q, st)
      BY <3>1, <3>2, PartKeeps
    <3>4. p[1] = q[a] /\ p[Len(p)] = q[b] /\ Len(p) # 0
      BY <1>1, <3>1 DEF PartOf
    <3>5. p # <<>> /\ Head(p) = p[1]
      BY <3>1, <3>4
    <3>6. IsWaiting(st, FirstOf(p))
      BY <2>3, <3>4, <3>5 DEF FirstOf
    <3>7. QED
      BY <3>3, <3>5, <3>6
  <2>4. \E a \in 1 .. Len(q) : \E b \in a .. Len(q) :
          /\ p = SubSeq(q, a, b) /\ \A i \in kept : i \in a .. b
          /\ IF policy = "queue" THEN a \in kept ELSE b \in kept
    <3>1. CASE policy = "queue"
      <4> DEFINE a == CHOOSE i \in kept : \A j \in kept : i <= j
      <4>1. p = SubSeq(q, a, Len(q))
        BY <1>4, <3>1 DEF Purged
      <4>2. a \in kept /\ \A j \in kept : a <= j
        BY <2>2
      <4> HIDE DEF a, p
      <4>3. a \in 1 .. Len(q) /\ Len(q) \in a .. Len(q) /\ \A i \in kept : i \in a .. Len(q)
        BY <1>1, <2>1, <4>2
      <4> HIDE DEF kept
      <4>4. QED
        BY <3>1, <4>1, <4>2, <4>3
    <3>2. CASE policy # "queue"
      <4> DEFINE b == CHOOSE i \in kept : \A j \in kept : i >= j
      <4>1. p = SubSeq(q, 1, b)
        BY <1>4, <3>2 DEF Purged
      <4>2. b \in kept /\ \A j \in kept : b >= j
        BY <2>2
      <4> HIDE DEF b, p
      <4>3. 1 \in 1 .. Len(q) /\ b \in 1 .. Len(q) /\ \A i \in kept : i \in 1 .. b
        BY <1>1, <2>1, <4>2
      <4> HIDE DEF kept
      <4>4. QED
        BY <3>2, <4>1, <4>2, <4>3
    <3>3. QED
      BY <3>1, <3>2
  <2> HIDE DEF p, kept
  <2>5. QED
    BY <1>2, <1>4, <2>3, <2>4 DEF p
<1>5. QED
  BY <1>3, <1>4

(* The element in front of a deque leads the waiting elements.             *)
Front(m, a) ==
  CHOOSE t \in m : \A u \in m \ {t} :
    IF policy = "queue" THEN <<t, u>> \in a ELSE <<u, t>> \in a

LEMMA FrontIsFirst ==
  ASSUME NEW q, IsDeque(q), q # <<>>, NEW st, IsWaiting(st, FirstOf(q))
  PROVE  /\ FirstOf(q) \in MembersOf(q, st)
         /\ Front(MembersOf(q, st), AheadOf(q, st)) = FirstOf(q)
<1> DEFINE f == FirstOf(q)
           k == IF policy = "queue" THEN 1 ELSE Len(q)
           M == MembersOf(q, st)
           A == AheadOf(q, st)
           Leads(t) == \A u \in M \ {t} :
                         IF policy = "queue" THEN <<t, u>> \in A ELSE <<u, t>> \in A
<1>1. /\ q \in Seq(Element) /\ Len(q) \in Nat /\ Len(q) >= 1 /\ DOMAIN q = 1 .. Len(q)
      /\ \A i, j \in DOMAIN q : q[i] = q[j] => i = j
      /\ \A i \in DOMAIN q : q[i] \in Element
  BY DEF IsDeque
<1>2. k \in DOMAIN q /\ f = q[k]
  BY <1>1 DEF FirstOf
<1>3. \A i \in DOMAIN q : i # k => IF policy = "queue" THEN k < i ELSE i < k
  BY <1>1
<1> HIDE DEF k, f
<1>4. f \in M
  <2>1. f \in Element
    BY <1>1, <1>2
  <2>2. QED
    BY <1>2, <2>1 DEF MembersOf, f
<1>5. \A t, u \in M : <<t, u>> \in A <=> \E i, j \in DOMAIN q : i < j /\ q[i] = t /\ q[j] = u
  BY DEF AheadOf
<1>6. \A t \in M : \E i \in DOMAIN q : q[i] = t
  BY DEF MembersOf
<1>7. \A t, u \in M : ~ (<<t, u>> \in A /\ <<u, t>> \in A)
  <2>1. SUFFICES ASSUME NEW t \in M, NEW u \in M, <<t, u>> \in A, <<u, t>> \in A
                 PROVE  FALSE
    OBVIOUS
  <2>2. PICK i \in DOMAIN q, j \in DOMAIN q : i < j /\ q[i] = t /\ q[j] = u
    BY <1>5, <2>1
  <2>3. PICK v \in DOMAIN q, w \in DOMAIN q : v < w /\ q[v] = u /\ q[w] = t
    BY <1>5, <2>1
  <2>4. i = w /\ j = v
    BY <1>1, <2>2, <2>3
  <2>5. QED
    BY <1>1, <2>2, <2>3, <2>4
<1> HIDE DEF M, A
<1>8. Leads(f)
  <2>1. SUFFICES ASSUME NEW u \in M \ {f}
                 PROVE  IF policy = "queue" THEN <<f, u>> \in A ELSE <<u, f>> \in A
    OBVIOUS
  <2>2. PICK i \in DOMAIN q : q[i] = u
    BY <1>6
  <2>3. i # k
    BY <1>2, <2>2
  <2>4. QED
    BY <1>2, <1>3, <1>4, <1>5, <2>2, <2>3
<1>9. \A t \in M : Leads(t) => t = f
  BY <1>4, <1>7, <1>8
<1>10. (CHOOSE t \in M : Leads(t)) = f
  <2> HIDE DEF Leads
  <2>1. QED
    BY <1>4, <1>8, <1>9
<1>11. QED
  BY <1>4, <1>10 DEF Front, f, M, A

(* The statuses once that of t is w.                                       *)
Become(st, t, w) == [st EXCEPT ![t] = w]

(* Marking an element, or taking the first one out, removes it.            *)
LEMMA MarkedMembers ==
  ASSUME NEW q, NEW st \in Statuses, NEW t \in Element,
         NEW s, s = Become(st, t, "NOT_WAITING")
  PROVE  /\ s \in Statuses
         /\ MembersOf(q, s) = MembersOf(q, st) \ {t}
         /\ AheadOf(q, s) = {p \in AheadOf(q, st) : p[1] # t /\ p[2] # t}
<1>1. s \in Statuses /\ \A u \in Element : IsWaiting(s, u) <=> IsWaiting(st, u) /\ u # t
  BY DEF Statuses, IsWaiting, Become
<1>2. MembersOf(q, s) = MembersOf(q, st) \ {t}
  BY <1>1 DEF MembersOf
<1> DEFINE M == MembersOf(q, st)
           R(u, v) == \E i, j \in DOMAIN q : i < j /\ q[i] = u /\ q[j] = v
<1>3. AheadOf(q, s) = {p \in (M \ {t}) \X (M \ {t}) : R(p[1], p[2])}
  BY <1>2 DEF AheadOf
<1>4. AheadOf(q, st) = {p \in M \X M : R(p[1], p[2])}
  BY DEF AheadOf
<1> HIDE DEF M, R
<1>5. AheadOf(q, s) = {p \in AheadOf(q, st) : p[1] # t /\ p[2] # t}
  BY <1>3, <1>4
<1>6. QED
  BY <1>1, <1>2, <1>5 DEF M

(* The first element, which waits no more, leaves the deque.               *)
LEMMA WithoutFirstKeeps ==
  ASSUME NEW q, IsDeque(q), q # <<>>, NEW st, ~ IsWaiting(st, FirstOf(q)),
         policy \in {"queue", "stack"}
  PROVE  /\ IsDeque(WithoutFirst(q))
         /\ MembersOf(WithoutFirst(q), st) = MembersOf(q, st)
         /\ AheadOf(WithoutFirst(q), st) = AheadOf(q, st)
<1> DEFINE p == WithoutFirst(q)
<1>1. /\ q \in Seq(Element) /\ Len(q) \in Nat /\ Len(q) >= 1 /\ DOMAIN q = 1 .. Len(q)
      /\ \A i \in DOMAIN q : q[i] \in Element
  BY DEF IsDeque
<1>2. CASE Len(q) = 1
  <2>1. p = <<>>
    <3>1. Tail(q) = <<>>
      <4>1. Tail(q) \in Seq(Element) /\ Len(Tail(q)) = 0
        BY <1>1, <1>2, HeadTailProperties
      <4>2. QED
        BY <4>1, EmptySeq
    <3>2. SubSeq(q, 1, Len(q) - 1) = <<>>
      BY <1>1, <1>2
    <3>3. QED
      BY <3>1, <3>2 DEF WithoutFirst
  <2>2. MembersOf(q, st) = {}
    <3>1. FirstOf(q) = q[1]
      BY <1>1, <1>2 DEF FirstOf
    <3>2. \A i \in DOMAIN q : q[i] = FirstOf(q)
      BY <1>1, <1>2, <3>1
    <3>3. QED
      BY <3>2 DEF MembersOf
  <2>3. IsDeque(<<>>) /\ MembersOf(<<>>, st) = {}
    BY DEF IsDeque, MembersOf
  <2>4. AheadOf(<<>>, st) = {} /\ AheadOf(q, st) = {}
    BY <2>2, <2>3 DEF AheadOf
  <2>5. QED
    BY <2>1, <2>2, <2>3, <2>4
<1>3. CASE Len(q) > 1 /\ policy = "queue"
  <2>1. p = Tail(q) /\ ~ IsWaiting(st, q[1])
    BY <1>1, <1>3 DEF WithoutFirst, FirstOf
  <2>2. Tail(q) = SubSeq(q, 2, Len(q))
    BY <1>1
  <2>3. 2 \in 1 .. Len(q) /\ Len(q) \in 2 .. Len(q)
    BY <1>1, <1>3
  <2>4. p \in Seq(Element) /\ PartOf(p, q, 2, Len(q))
    BY <2>1, <2>2, <2>3, SubSeqPart
  <2>5. \A i \in DOMAIN q : IsWaiting(st, q[i]) => i \in 2 .. Len(q)
    BY <1>1, <2>1
  <2>6. QED
    BY <2>3, <2>4, <2>5, PartKeeps
<1>4. CASE Len(q) > 1 /\ policy # "queue"
  <2>1. p = SubSeq(q, 1, Len(q) - 1) /\ ~ IsWaiting(st, q[Len(q)])
    BY <1>1, <1>4 DEF WithoutFirst, FirstOf
  <2>2. 1 \in 1 .. Len(q) /\ Len(q) - 1 \in 1 .. Len(q)
    BY <1>1, <1>4
  <2>3. p \in Seq(Element) /\ PartOf(p, q, 1, Len(q) - 1)
    BY <2>1, <2>2, SubSeqPart
  <2>4. \A i \in DOMAIN q : IsWaiting(st, q[i]) => i \in 1 .. Len(q) - 1
    BY <1>1, <2>1
  <2>5. QED
    BY <2>2, <2>3, <2>4, PartKeeps
<1>5. QED
  BY <1>1, <1>2, <1>3, <1>4

(* Two relations that hold of the same pairs.                              *)
LEMMA SamePairs ==
  ASSUME NEW S, NEW A \in SUBSET (S \X S), NEW B \in SUBSET (S \X S),
         \A u, v \in S : <<u, v>> \in A <=> <<u, v>> \in B
  PROVE  A = B
<1>1. \A x \in S \X S : x \in A <=> x \in B
  <2>1. SUFFICES ASSUME NEW x \in S \X S
                 PROVE  x \in A <=> x \in B
    OBVIOUS
  <2>2. PICK u \in S, v \in S : x = <<u, v>>
    OBVIOUS
  <2>3. QED
    BY <2>2
<1>2. QED
  BY <1>1

(* An element inserted comes after all others.                             *)
LEMMA InsertedMembers ==
  ASSUME NEW q, IsDeque(q), NEW st \in Statuses, NEW t \in Element,
         \A i \in DOMAIN q : q[i] # t,
         NEW s, s = Become(st, t, "WAITING")
  PROVE  /\ s \in Statuses /\ IsDeque(Append(q, t))
         /\ MembersOf(Append(q, t), s) = MembersOf(q, st) \cup {t}
         /\ AheadOf(Append(q, t), s) = AheadOf(q, st) \cup (MembersOf(q, st) \X {t})
<1> DEFINE p == Append(q, t)
           M == MembersOf(q, st)
           n == Len(q)
<1>1. /\ q \in Seq(Element) /\ n \in Nat /\ DOMAIN q = 1 .. n
      /\ \A i, j \in DOMAIN q : q[i] = q[j] => i = j
  BY DEF IsDeque
<1>2. /\ p \in Seq(Element) /\ DOMAIN p = 1 .. n + 1
      /\ p[n + 1] = t /\ \A i \in 1 .. n : p[i] = q[i]
  BY <1>1, AppendProperties
<1>3. s \in Statuses /\ \A u \in Element : IsWaiting(s, u) <=> IsWaiting(st, u) \/ u = t
  BY DEF Statuses, IsWaiting, Become
<1> HIDE DEF p, n
<1>4. IsDeque(p)
  <2>1. \A i, j \in 1 .. n + 1 : p[i] = p[j] => i = j
    BY <1>1, <1>2
  <2>2. QED
    BY <1>2, <2>1 DEF IsDeque
<1>5. \A u \in Element : (\E i \in DOMAIN p : p[i] = u) <=> (\E i \in DOMAIN q : q[i] = u) \/ u = t
  BY <1>1, <1>2
<1>6. MembersOf(p, s) = M \cup {t}
  BY <1>3, <1>5 DEF MembersOf
<1>7. t \notin M /\ \A u \in M : \E i \in DOMAIN q : q[i] = u
  BY DEF MembersOf
<1>8. \A u, v \in M \cup {t} :
        (\E i, j \in DOMAIN p : i < j /\ p[i] = u /\ p[j] = v)
          <=> \/ u \in M /\ v \in M /\ \E i, j \in DOMAIN q : i < j /\ q[i] = u /\ q[j] = v
              \/ u \in M /\ v = t
  <2>1. ASSUME NEW u \in M, NEW v \in M
        PROVE  (\E i, j \in DOMAIN p : i < j /\ p[i] = u /\ p[j] = v)
                 <=> \E i, j \in DOMAIN q : i < j /\ q[i] = u /\ q[j] = v
    <3>1. \A i \in DOMAIN p : p[i] \in {u, v} => i \in DOMAIN q /\ q[i] = p[i]
      BY <1>1, <1>2, <1>7
    <3>2. \A i \in DOMAIN q : i \in DOMAIN p /\ p[i] = q[i]
      BY <1>1, <1>2
    <3>3. QED
      BY <3>1, <3>2
  <2>2. ASSUME NEW u \in M
        PROVE  \E i, j \in DOMAIN p : i < j /\ p[i] = u /\ p[j] = t
    <3>1. PICK i \in DOMAIN q : q[i] = u
      BY <1>7
    <3>2. i < n + 1 /\ i \in DOMAIN p /\ n + 1 \in DOMAIN p /\ p[i] = u
      BY <1>1, <1>2, <3>1
    <3>3. QED
      BY <1>2, <3>2
  <2>3. ASSUME NEW v \in M \cup {t}
        PROVE  ~ \E i, j \in DOMAIN p : i < j /\ p[i] = t /\ p[j] = v
    BY <1>1, <1>2
  <2>4. QED
    BY <1>7, <2>1, <2>2, <2>3
<1> DEFINE R(u, v) == \E i, j \in DOMAIN q : i < j /\ q[i] = u /\ q[j] = v
           T(u, v) == \E i, j \in DOMAIN p : i < j /\ p[i] = u /\ p[j] = v
<1>9. \A u, v \in M \cup {t} : T(u, v) <=> (u \in M /\ v \in M /\ R(u, v)) \/ (u \in M /\ v = t)
  BY <1>8
<1>10. /\ AheadOf(q, st) = {x \in M \X M : R(x[1], x[2])}
       /\ AheadOf(p, s) = {x \in (M \cup {t}) \X (M \cup {t}) : T(x[1], x[2])}
  BY <1>6 DEF AheadOf
<1> HIDE DEF R, T, M
<1>11. AheadOf(p, s) = AheadOf(q, st) \cup (M \X {t})
  <2>1. ASSUME NEW u \in M \cup {t}, NEW v \in M \cup {t}
        PROVE  <<u, v>> \in AheadOf(p, s) <=> <<u, v>> \in AheadOf(q, st) \cup (M \X {t})
    BY <1>7, <1>9, <1>10
  <2>2. /\ AheadOf(p, s) \subseteq (M \cup {t}) \X (M \cup {t})
        /\ AheadOf(q, st) \cup (M \X {t}) \subseteq (M \cup {t}) \X (M \cup {t})
    BY <1>10
  <2> DEFINE N == M \cup {t}
             A == AheadOf(p, s)
             B == AheadOf(q, st) \cup (M \X {t})
  <2>3. /\ A \in SUBSET (N \X N) /\ B \in SUBSET (N \X N)
        /\ \A u, v \in N : <<u, v>> \in A <=> <<u, v>> \in B
    BY <2>1, <2>2
  <2> HIDE DEF N, A, B
  <2>4. A = B
    BY <2>3, SamePairs
  <2>5. QED
    BY <2>4 DEF A, B
<1>12. QED
  BY <1>3, <1>4, <1>6, <1>11 DEF M, p

-----------------------------------------------------------------------------
(* The waiting list that a deque with its statuses stands for.             *)
LEMMA LeaderIsFront ==
  Waiting!Leader = Front(MembersOf(dq, status), AheadOf(dq, status))
BY DEF Waiting!Leader, Front

LEMMA StepInsert ==
  ASSUME ListInv, NEW t \in Element, Insert(t)
  PROVE  ListInv' /\ Waiting!Insert(t)
<1>1. /\ IsDeque(dq) /\ status \in Statuses /\ policy \in {"queue", "stack"}
      /\ \A i \in DOMAIN dq : dq[i] # t
      /\ dq' = Append(dq, t) /\ status' = Become(status, t, "WAITING")
      /\ answer' = "none" /\ policy' = policy
  BY DEF ListInv, Insert, Holds, Become
<1>2. /\ status' \in Statuses /\ IsDeque(dq')
      /\ MembersOf(dq', status') = MembersOf(dq, status) \cup {t}
      /\ AheadOf(dq', status') = AheadOf(dq, status) \cup (MembersOf(dq, status) \X {t})
  BY <1>1, InsertedMembers
<1>3. t \notin MembersOf(dq, status)
  BY <1>1 DEF MembersOf
<1>4. ListInv'
  BY <1>1, <1>2 DEF ListInv, IsDeque, Statuses
<1>5. (MembersOf(dq, status))' = MembersOf(dq', status') /\ (AheadOf(dq, status))' = AheadOf(dq', status')
  BY DEF MembersOf, AheadOf, IsWaiting
<1>6. QED
  BY <1>1, <1>2, <1>3, <1>4, <1>5 DEF Waiting!Insert, Waiting!Becomes

LEMMA StepEmpty ==
  ASSUME ListInv, Empty
  PROVE  ListInv' /\ Waiting!Empty
<1>1. /\ IsDeque(dq) /\ status \in Statuses /\ policy \in {"queue", "stack"}
      /\ dq' = Purged(dq, status) /\ policy' = policy /\ status' = status
      /\ answer' = IF dq' = <<>> THEN "empty" ELSE "not_empty"
  BY DEF ListInv, Empty
<1>2. /\ IsDeque(dq')
      /\ MembersOf(dq', status) = MembersOf(dq, status)
      /\ AheadOf(dq', status) = AheadOf(dq, status)
      /\ dq' = <<>> <=> MembersOf(dq, status) = {}
  BY <1>1, PurgedKeeps
<1>3. (MembersOf(dq, status))' = MembersOf(dq', status') /\ (AheadOf(dq, status))' = AheadOf(dq', status')
  BY DEF MembersOf, AheadOf, IsWaiting
<1>4. ListInv'
  BY <1>1, <1>2 DEF ListInv, IsDeque, Statuses
<1>5. QED
  BY <1>1, <1>2, <1>3, <1>4 DEF Waiting!Empty, Waiting!Answers

LEMMA StepFirst ==
  ASSUME ListInv, First
  PROVE  ListInv' /\ Waiting!First
<1>1. /\ IsDeque(dq) /\ status \in Statuses /\ policy \in {"queue", "stack"}
      /\ Purged(dq, status) # <<>>
      /\ dq' = Purged(dq, status) /\ policy' = policy /\ status' = status
      /\ answer' = FirstOf(dq')
  BY DEF ListInv, First
<1>2. /\ IsDeque(dq')
      /\ MembersOf(dq', status) = MembersOf(dq, status)
      /\ AheadOf(dq', status) = AheadOf(dq, status)
      /\ MembersOf(dq, status) # {}
      /\ IsWaiting(status, FirstOf(dq'))
  BY <1>1, PurgedKeeps
<1>3. Front(MembersOf(dq', status), AheadOf(dq', status)) = FirstOf(dq')
  BY <1>1, <1>2, FrontIsFirst
<1>4. answer' = Waiting!Leader
  BY <1>1, <1>2, <1>3, LeaderIsFront
<1>5. (MembersOf(dq, status))' = MembersOf(dq', status') /\ (AheadOf(dq, status))' = AheadOf(dq', status')
  BY DEF MembersOf, AheadOf, IsWaiting
<1>6. ListInv'
  BY <1>1, <1>2 DEF ListInv, IsDeque, Statuses
<1>7. QED
  BY <1>1, <1>2, <1>4, <1>5, <1>6 DEF Waiting!First, Waiting!Answers

LEMMA StepRemoveFirst ==
  ASSUME ListInv, RemoveFirst
  PROVE  ListInv' /\ Waiting!RemoveFirst
<1> DEFINE q == Purged(dq, status)
           t == FirstOf(q)
<1>1. /\ IsDeque(dq) /\ status \in Statuses /\ policy \in {"queue", "stack"}
      /\ q # <<>>
      /\ status' = Become(status, t, "NOT_WAITING")
      /\ dq' = WithoutFirst(q) /\ answer' = "none" /\ policy' = policy
  BY DEF ListInv, RemoveFirst, Become
<1>2. /\ IsDeque(q)
      /\ MembersOf(q, status) = MembersOf(dq, status)
      /\ AheadOf(q, status) = AheadOf(dq, status)
      /\ MembersOf(dq, status) # {}
      /\ IsWaiting(status, t)
  BY <1>1, PurgedKeeps
<1> HIDE DEF q
<1>3. /\ t \in MembersOf(q, status)
      /\ Front(MembersOf(q, status), AheadOf(q, status)) = t
  BY <1>1, <1>2, FrontIsFirst
<1>4. t = Waiting!Leader
  BY <1>2, <1>3, LeaderIsFront
<1>5. t \in Element
  BY <1>3 DEF MembersOf
<1>6. /\ status' \in Statuses
      /\ MembersOf(q, status') = MembersOf(q, status) \ {t}
      /\ AheadOf(q, status') = {p \in AheadOf(q, status) : p[1] # t /\ p[2] # t}
  BY <1>1, <1>5, MarkedMembers
<1>7. ~ IsWaiting(status', t)
  BY <1>1, <1>5 DEF IsWaiting, Statuses, Become
<1>8. /\ IsDeque(dq')
      /\ MembersOf(dq', status') = MembersOf(q, status')
      /\ AheadOf(dq', status') = AheadOf(q, status')
  BY <1>1, <1>2, <1>7, WithoutFirstKeeps
<1>9. (MembersOf(dq, status))' = MembersOf(dq', status') /\ (AheadOf(dq, status))' = AheadOf(dq', status')
  BY DEF MembersOf, AheadOf, IsWaiting
<1>10. ListInv'
  BY <1>1, <1>6, <1>8 DEF ListInv, IsDeque, Statuses
<1> HIDE DEF t
<1>11. Waiting!Remove(t)
  BY <1>1, <1>2, <1>6, <1>8, <1>9 DEF Waiting!Remove, Waiting!Becomes
<1>12. QED
  BY <1>2, <1>4, <1>10, <1>11 DEF Waiting!RemoveFirst

LEMMA StepRemove ==
  ASSUME ListInv, NEW t \in Element, Remove(t)
  PROVE  ListInv' /\ Waiting!Remove(t)
<1>1. /\ IsDeque(dq) /\ status \in Statuses /\ policy \in {"queue", "stack"}
      /\ status' = Become(status, t, "NOT_WAITING")
      /\ dq' = Purged(dq, status') /\ answer' = "none" /\ policy' = policy
  BY DEF ListInv, Remove, Become
<1>2. /\ status' \in Statuses
      /\ MembersOf(dq, status') = MembersOf(dq, status) \ {t}
      /\ AheadOf(dq, status') = {p \in AheadOf(dq, status) : p[1] # t /\ p[2] # t}
  BY <1>1, MarkedMembers
<1>3. /\ IsDeque(dq')
      /\ MembersOf(dq', status') = MembersOf(dq, status')
      /\ AheadOf(dq', status') = AheadOf(dq, status')
  BY <1>1, <1>2, PurgedKeeps
<1>4. (MembersOf(dq, status))' = MembersOf(dq', status') /\ (AheadOf(dq, status))' = AheadOf(dq', status')
  BY DEF MembersOf, AheadOf, IsWaiting
<1>5. ListInv'
  BY <1>1, <1>2, <1>3 DEF ListInv, IsDeque, Statuses
<1>6. QED
  BY <1>1, <1>2, <1>3, <1>4, <1>5 DEF Waiting!Remove, Waiting!Becomes

LEMMA StepClear ==
  ASSUME ListInv, Clear
  PROVE  ListInv' /\ Waiting!Clear
<1>1. dq' = <<>> /\ answer' = "none" /\ policy' = policy /\ status' = status
  BY DEF Clear
<1>2. (MembersOf(dq, status))' = {} /\ (AheadOf(dq, status))' = {}
  BY <1>1 DEF MembersOf, AheadOf
<1>3. ListInv'
  BY <1>1 DEF ListInv, IsDeque, Statuses
<1>4. QED
  BY <1>1, <1>2, <1>3 DEF Waiting!Clear, Waiting!Becomes

LEMMA ListStep ==
  ASSUME ListInv, [Next]_vars
  PROVE  ListInv' /\ [Waiting!Next]_(Waiting!vars)
<1>1. CASE UNCHANGED vars
  <2>1. dq' = dq /\ status' = status /\ policy' = policy /\ answer' = answer
    BY <1>1 DEF vars
  <2>2. (MembersOf(dq, status))' = MembersOf(dq, status) /\ (AheadOf(dq, status))' = AheadOf(dq, status)
    BY <2>1 DEF MembersOf, AheadOf, IsWaiting
  <2>3. ListInv'
    BY <2>1 DEF ListInv, IsDeque, Statuses
  <2>4. QED
    BY <2>1, <2>2, <2>3 DEF Waiting!vars
<1>2. CASE Next
  BY <1>2, StepInsert, StepEmpty, StepFirst, StepRemoveFirst, StepRemove, StepClear
     DEF Next, Waiting!Next
<1>3. QED
  BY <1>1, <1>2

(* The deque never holds an element twice, whatever the calls of insert    *)
(* and remove of fast_remove_waiting_t.                                    *)
THEOREM DequeInvariant == Spec => []ListInv
<1>1. Init => ListInv
  BY DEF Init, ListInv, IsDeque, Statuses
<1>2. ListInv /\ [Next]_vars => ListInv'
  BY ListStep
<1>3. QED
  BY <1>1, <1>2, PTL DEF Spec

(* Removing by marks cannot be told from removing at once: empty and first *)
(* of fast_remove_waiting_t answer as those of the waiting list.           *)
THEOREM MarkedRemovalCorrect == Spec => ImplementsWaitingList
<1>1. Init => Waiting!Init
  BY DEF Init, Waiting!Init, MembersOf, AheadOf
<1>2. ListInv /\ [Next]_vars => [Waiting!Next]_(Waiting!vars)
  BY ListStep
<1>3. QED
  BY <1>1, <1>2, DequeInvariant, PTL DEF Spec, ImplementsWaitingList, Waiting!Spec
=============================================================================
