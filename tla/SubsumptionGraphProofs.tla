------------------------- MODULE SubsumptionGraphProofs -----------------------
(***************************************************************************)
(* Proofs about SubsumptionGraph and the two graphs it composes, for every *)
(* set of nodes, hash function, table size and finite set of edges: first  *)
(* the hash table of CoverGraph, whose positions and entries agree however *)
(* additions and removals alternate, then the linked lists of              *)
(* DirectedGraph, then the graph with its edge types.                      *)
(***************************************************************************)
EXTENDS SubsumptionGraph, SequenceTheorems, FiniteSetTheorems, WellFoundedInduction,
        TLAPS

-----------------------------------------------------------------------------
(* The hash table of nodes. *)
(* The container of a hash code exists.                                    *)
LEMMA BucketRange ==
  ASSUME NEW n \in Node, TypeOK, table # <<>>
  PROVE  Bucket(n) \in 1 .. Len(table)
<1>1. Len(table) \in Nat \ {0} /\ Hash[n] \in Nat
  BY GraphAssumption, EmptySeq DEF TypeOK
<1>2. Hash[n] % Len(table) \in 0 .. Len(table) - 1
  BY <1>1
<1>3. QED
  BY <1>1, <1>2 DEF Bucket

(* What moving the back node into position i does to a container.          *)
LEMMA SwapWithBackProperties ==
  ASSUME NEW c \in Seq(Node), NEW i \in 1 .. Len(c)
  PROVE  /\ SwapWithBack(c, i) \in Seq(Node)
         /\ Len(SwapWithBack(c, i)) = Len(c) - 1
         /\ \A j \in 1 .. Len(c) - 1 :
              SwapWithBack(c, i)[j] = IF j = i THEN c[Len(c)] ELSE c[j]
<1>1. Len(c) - 1 \in Nat /\ Len(c) \in 1 .. Len(c)
  BY LenProperties
<1>2. \A j \in 1 .. Len(c) - 1 : (IF j = i THEN c[Len(c)] ELSE c[j]) \in Node
  BY <1>1, ElementOfSeq
<1>3. SwapWithBack(c, i) \in [1 .. Len(c) - 1 -> Node]
  BY <1>2 DEF SwapWithBack
<1>4. SwapWithBack(c, i) \in Seq(Node)
  BY <1>1, <1>3, SeqDef
<1>5. Len(SwapWithBack(c, i)) = Len(c) - 1
  BY <1>1, <1>3, <1>4, LenProperties
<1>6. QED
  BY <1>4, <1>5 DEF SwapWithBack

(* The empty table satisfies the invariant.                                *)
LEMMA InitIInv == Init => IInv
<1> SUFFICES ASSUME Init
             PROVE  IInv
  OBVIOUS
<1>1. table \in Seq(Seq(Node)) /\ Len(table) = TableSize
  <2>1. <<>> \in Seq(Node)
    BY EmptySeq
  <2>2. table \in [1 .. TableSize -> Seq(Node)]
    BY <2>1 DEF Init
  <2>3. QED
    BY <2>2, SeqDef, LenProperties, GraphAssumption
<1>2. \A b \in 1 .. Len(table) : Len(table[b]) = 0
  BY <1>1, EmptySeq DEF Init
<1>3. TypeOK
  BY <1>1 DEF Init, TypeOK
<1>4. StoredFound
  BY DEF Init, StoredFound, IsStored
<1>5. EntriesKnown
  BY <1>2 DEF EntriesKnown
<1>6. Stored = {}
  BY DEF Init, Stored, IsStored
<1>7. QED
  BY <1>3, <1>4, <1>5, <1>6, FS_EmptySet DEF Init, IInv, SizeCorrect

(* push_back records the position of the new last entry.                   *)
LEMMA StepAddNode ==
  ASSUME IInv, NEW n \in Node, AddNode(n)
  PROVE  IInv' /\ Stored' = Stored \cup {n} /\ n \notin Stored
<1> DEFINE b == Bucket(n)
           c == table[b]
           d == Append(c, n)
           p == [bucket |-> b, index |-> Len(c) + 1]
<1>1. b \in 1 .. Len(table) /\ table \in Seq(Seq(Node)) /\ c \in Seq(Node)
  BY BucketRange, ElementOfSeq DEF IInv, AddNode, TypeOK
<1>2. /\ table' = [table EXCEPT ![b] = d]
      /\ position' = [position EXCEPT ![n] = p]
      /\ size' = size + 1
  BY DEF AddNode
<1>3. /\ d \in Seq(Node) /\ Len(d) = Len(c) + 1
      /\ \A i \in 1 .. Len(c) : d[i] = c[i]
      /\ d[Len(c) + 1] = n
  BY <1>1, AppendProperties
<1>4. /\ table' \in Seq(Seq(Node)) /\ Len(table') = Len(table)
      /\ \A a \in 1 .. Len(table) : table'[a] = IF a = b THEN d ELSE table[a]
  BY <1>1, <1>2, <1>3, ExceptSeq
<1>5. Len(c) \in Nat /\ Len(table) \in Nat /\ p \in Position
  BY <1>1, LenProperties DEF Position
<1>6. TypeOK'
  BY <1>2, <1>4, <1>5 DEF IInv, TypeOK
<1>7. \A m \in Node : Bucket(m)' = Bucket(m)
  BY <1>4 DEF Bucket
<1>8. /\ position'[n] = p /\ p.bucket = b /\ p.index = Len(c) + 1
      /\ \A m \in Node : m # n => position'[m] = position[m]
  BY <1>2 DEF IInv, TypeOK
<1>c. c = table[b] /\ b = Bucket(n) /\ p = [bucket |-> b, index |-> Len(c) + 1]
  OBVIOUS
<1> HIDE DEF b, c, d, p
<1>9. ASSUME NEW m \in Node, IsStored(m)'
      PROVE  Found(m)' /\ position'[m].bucket = Bucket(m)'
  <2>1. CASE m = n
    BY <1>1, <1>3, <1>4, <1>5, <1>7, <1>8, <1>c, <2>1 DEF Found
  <2>2. CASE m # n
    <3>1. position'[m] = position[m] /\ IsStored(m)
      BY <1>8, <1>9, <2>2 DEF IsStored
    <3>2. Found(m) /\ position[m].bucket = Bucket(m) /\ position[m] \in Position
      BY <3>1 DEF IInv, StoredFound, TypeOK, IsStored
    <3>3. QED
      <4> DEFINE a == position[m].bucket
                 i == position[m].index
      <4>1. a \in 1 .. Len(table) /\ i \in Nat \ {0} /\ i <= Len(table[a]) /\ table[a][i] = m
        BY <1>5, <3>2 DEF Found, Position
      <4> HIDE DEF a, i
      <4>2. i <= Len(table'[a]) /\ table'[a][i] = m
        <5>1. CASE a = b
          <6>1. i \in 1 .. Len(c) /\ c[i] = m /\ table'[a] = d
            BY <1>c, <1>4, <1>5, <4>1, <5>1
          <6>2. QED
            BY <1>3, <1>5, <6>1
        <5>2. CASE a # b
          BY <1>4, <4>1, <5>2
        <5>3. QED
          BY <5>1, <5>2
      <4>3. QED
        BY <1>4, <1>7, <3>1, <3>2, <4>1, <4>2 DEF Found, a, i
  <2>3. QED
    BY <2>1, <2>2
<1>10. ASSUME NEW a \in 1 .. Len(table'), NEW i \in 1 .. Len(table'[a])
       PROVE  position'[table'[a][i]] = [bucket |-> a, index |-> i]
  <2>1. a \in 1 .. Len(table) /\ table[a] \in Seq(Node) /\ Len(table[a]) \in Nat
    BY <1>1, <1>4, ElementOfSeq, LenProperties
  <2>2. CASE a = b /\ i = Len(c) + 1
    BY <1>3, <1>4, <1>8, <1>c, <2>1, <2>2
  <2>3. CASE ~ (a = b /\ i = Len(c) + 1)
    <3>1. i \in 1 .. Len(table[a]) /\ table'[a][i] = table[a][i]
      <4>1. CASE a = b
        <5>1. table[a] = c /\ table'[a] = d /\ i \in 1 .. Len(c)
          BY <1>3, <1>4, <1>5, <1>c, <2>1, <2>3, <4>1
        <5>2. QED
          BY <1>3, <5>1
      <4>2. CASE a # b
        BY <1>4, <2>1, <4>2
      <4>3. QED
        BY <4>1, <4>2
    <3>2. position[table[a][i]] = [bucket |-> a, index |-> i] /\ table[a][i] \in Node
      BY <2>1, <3>1, ElementOfSeq DEF IInv, EntriesKnown
    <3>3. [bucket |-> a, index |-> i] \in Position
      BY <2>1, <3>1 DEF Position
    <3>4. table[a][i] # n
      BY <3>2, <3>3, NotStoredAssumption DEF AddNode, IsStored
    <3>5. QED
      BY <1>8, <3>1, <3>2, <3>4
  <2>4. QED
    BY <2>2, <2>3
<1>11. Stored' = Stored \cup {n} /\ n \notin Stored
  BY <1>5, <1>8, NotStoredAssumption DEF Stored, IsStored, AddNode
<1>12. SizeCorrect'
  BY <1>2, <1>11, FS_AddElement DEF IInv, SizeCorrect
<1>13. QED
  BY <1>6, <1>9, <1>10, <1>11, <1>12 DEF IInv, StoredFound, EntriesKnown

(* The back node takes the place of the removed node and learns about it.  *)
LEMMA StepRemoveNode ==
  ASSUME IInv, NEW n \in Node, RemoveNode(n)
  PROVE  IInv' /\ Stored' = Stored \ {n} /\ n \in Stored
<1> DEFINE b == position[n].bucket
           i == position[n].index
           c == table[b]
           k == Len(c)
           back == c[k]
           d == SwapWithBack(c, i)
<1>1. position[n] \in Position /\ Found(n) /\ IsStored(n)
  BY DEF RemoveNode, IsStored, IInv, TypeOK
<1>2. /\ b \in 1 .. Len(table) /\ table \in Seq(Seq(Node)) /\ Len(table) \in Nat
      /\ c \in Seq(Node) /\ k \in Nat /\ i \in 1 .. k /\ c[i] = n
  <2>1. b \in 1 .. Len(table) /\ table \in Seq(Seq(Node)) /\ Len(table) \in Nat
    BY <1>1, LenProperties DEF Found, Position, IInv, TypeOK
  <2>2. c \in Seq(Node) /\ k \in Nat
    BY <2>1, ElementOfSeq, LenProperties
  <2>3. i \in 1 .. k /\ c[i] = n
    BY <1>1, <2>2 DEF Found, Position
  <2>4. QED
    BY <2>1, <2>2, <2>3
<1>3. /\ k \in 1 .. k /\ back \in Node
      /\ position[back] = [bucket |-> b, index |-> k]
  <2>1. k \in 1 .. k /\ back \in Node
    BY <1>2, ElementOfSeq, SMTT(20)
  <2>2. QED
    BY <1>2, <2>1 DEF IInv, EntriesKnown
<1>4. d \in Seq(Node) /\ Len(d) = k - 1
      /\ \A j \in 1 .. k - 1 : d[j] = IF j = i THEN back ELSE c[j]
  BY <1>2, SwapWithBackProperties
<1>5. /\ table' = [table EXCEPT ![b] = d]
      /\ position' = [position EXCEPT ![back].index = i, ![n] = NotStored]
      /\ size' = size - 1
  BY DEF RemoveNode
<1>6. /\ table' \in Seq(Seq(Node)) /\ Len(table') = Len(table)
      /\ \A a \in 1 .. Len(table) : table'[a] = IF a = b THEN d ELSE table[a]
  BY <1>2, <1>4, <1>5, ExceptSeq, SMTT(20)
<1>7. [position[back] EXCEPT !.index = i] = [bucket |-> b, index |-> i]
  BY <1>3
<1>8. /\ position' \in [Node -> Position \cup {NotStored}]
      /\ position'[n] = NotStored
      /\ back # n => position'[back] = [bucket |-> b, index |-> i]
      /\ \A m \in Node : m # n /\ m # back => position'[m] = position[m]
  <2> DEFINE q == [bucket |-> b, index |-> i]
  <2>1. q \in Position
    BY <1>2 DEF Position
  <2>2. position' = [[position EXCEPT ![back] = q] EXCEPT ![n] = NotStored]
    BY <1>5, <1>7
  <2> HIDE DEF q
  <2>3. QED
    BY <1>3, <2>1, <2>2 DEF IInv, TypeOK, q
<1>9. ASSUME NEW m \in Node, position[m] = [bucket |-> b, index |-> k]
      PROVE  m = back
  <2>1. Found(m)
    BY <1>9, NotStoredAssumption, <1>2, <1>3 DEF IInv, StoredFound, IsStored, Position
  <2>2. QED
    BY <1>9, <2>1 DEF Found
<1>10. \A m \in Node : Bucket(m)' = Bucket(m)
  BY <1>6 DEF Bucket
<1>c. b = position[n].bucket /\ i = position[n].index /\ c = table[b]
  OBVIOUS
<1> HIDE DEF b, i, c, k, back, d
<1>11. ASSUME NEW m \in Node, IsStored(m)'
       PROVE  Found(m)' /\ position'[m].bucket = Bucket(m)'
  <2>1. m # n
    BY <1>8, <1>11 DEF IsStored
  <2>2. CASE m = back
    <3>1. b = Bucket(back)
      BY <1>3, NotStoredAssumption, <1>2 DEF IInv, StoredFound, IsStored, Position
    <3>2. i <= k - 1 /\ d[i] = back
      BY <1>2, <1>3, <1>4, <2>1, <2>2 DEF back
    <3>3. position'[m].bucket = b /\ position'[m].index = i
      BY <1>8, <2>1, <2>2
    <3>4. QED
      <4>1. table'[b] = d /\ b <= Len(table') /\ i <= Len(d)
        BY <1>2, <1>4, <1>6, <3>2
      <4>2. QED
        BY <1>10, <2>2, <3>1, <3>2, <3>3, <4>1 DEF Found
  <2>3. CASE m # back
    <3> DEFINE a == position[m].bucket
               j == position[m].index
    <3>1. position'[m] = position[m] /\ IsStored(m)
      BY <1>8, <1>11, <2>1, <2>3 DEF IsStored
    <3>2. Found(m) /\ a = Bucket(m) /\ position[m] \in Position
      BY <3>1 DEF IInv, StoredFound, TypeOK, IsStored
    <3>3. /\ a \in 1 .. Len(table) /\ j \in Nat \ {0} /\ j <= Len(table[a])
          /\ table[a][j] = m
      BY <1>2, <3>2 DEF Found, Position
    <3>4. ~ (a = b /\ j = k)
      BY <2>3, <3>3, <1>c DEF back
    <3>5. ~ (a = b /\ j = i)
      BY <2>1, <3>3, <1>2, <1>c
    <3>6. position'[m].bucket = a /\ position'[m].index = j
      BY <3>1
    <3> HIDE DEF a, j
    <3>7. j <= Len(table'[a]) /\ table'[a][j] = m
      <4>1. CASE a = b
        <5>1. table[a] = c /\ table'[a] = d /\ Len(table[a]) = k
          BY <1>6, <1>c, <3>3, <4>1 DEF k
        <5>2. j \in 1 .. k - 1 /\ j # i
          BY <1>2, <3>3, <3>4, <3>5, <4>1, <5>1
        <5>3. QED
          BY <1>4, <1>2, <3>3, <5>1, <5>2
      <4>2. CASE a # b
        BY <1>6, <3>3, <4>2
      <4>3. QED
        BY <4>1, <4>2
    <3>8. QED
      BY <1>6, <1>10, <3>2, <3>3, <3>6, <3>7 DEF Found
  <2>4. QED
    BY <2>2, <2>3
<1>12. ASSUME NEW a \in 1 .. Len(table'), NEW j \in 1 .. Len(table'[a])
       PROVE  position'[table'[a][j]] = [bucket |-> a, index |-> j]
  <2>1. a \in 1 .. Len(table) /\ table[a] \in Seq(Node) /\ Len(table[a]) \in Nat
    BY <1>2, <1>6, ElementOfSeq, LenProperties
  <2>2. CASE a = b /\ j = i
    <3>1. table'[a][j] = back /\ j <= k - 1
      BY <1>2, <1>4, <1>6, <2>1, <2>2
    <3>2. back # n
      <4>1. position[n].index # k
        BY <1>2, <2>2, <3>1, <1>c
      <4>2. QED
        BY <1>3, <4>1
    <3>3. QED
      BY <1>8, <2>2, <3>1, <3>2
  <2>3. CASE ~ (a = b /\ j = i)
    <3>1. /\ j \in 1 .. Len(table[a]) /\ table'[a][j] = table[a][j]
          /\ ~ (a = b /\ j = k)
      <4>1. CASE a = b
        <5>1. table[a] = c /\ table'[a] = d /\ Len(table[a]) = k
          BY <1>6, <1>c, <2>1, <4>1 DEF k
        <5>2. j \in 1 .. k - 1 /\ j # i /\ j # k
          BY <1>2, <1>4, <2>3, <4>1, <5>1
        <5>3. QED
          <6>1. d[j] = c[j]
            BY <1>4, <5>2
          <6>2. QED
            BY <1>2, <5>1, <5>2, <6>1
      <4>2. CASE a # b
        BY <1>6, <2>1, <4>2
      <4>3. QED
        BY <4>1, <4>2
    <3>2. position[table[a][j]] = [bucket |-> a, index |-> j] /\ table[a][j] \in Node
      BY <2>1, <3>1, ElementOfSeq DEF IInv, EntriesKnown
    <3>3. table[a][j] # n
      BY <3>2, <2>3, <1>c
    <3>4. table[a][j] # back
      BY <1>3, <3>1, <3>2
    <3>5. QED
      BY <1>8, <3>1, <3>2, <3>3, <3>4
  <2>4. QED
    BY <2>2, <2>3
<1>13. Stored' = Stored \ {n} /\ n \in Stored
  <2>1. \A m \in Node : m # n => (IsStored(m)' <=> IsStored(m))
    <3>1. back # n => position'[back] \in Position /\ position[back] \in Position
      BY <1>2, <1>3, <1>8 DEF Position
    <3>2. QED
      BY <1>8, <3>1, NotStoredAssumption DEF IsStored
  <2>2. QED
    BY <1>1, <1>8, <2>1 DEF Stored, IsStored
<1>14. SizeCorrect' /\ size' \in Nat
  <2>1. IsFiniteSet(Stored') /\ Cardinality(Stored') = Cardinality(Stored) - 1
    BY <1>13, FS_RemoveElement DEF IInv, SizeCorrect
  <2>2. QED
    BY <1>5, <2>1, FS_CardinalityType DEF IInv, SizeCorrect
<1>15. TypeOK'
  BY <1>6, <1>8, <1>14 DEF IInv, TypeOK
<1>16. QED
  BY <1>11, <1>12, <1>13, <1>14, <1>15 DEF IInv, StoredFound, EntriesKnown
(* clear reaches every stored node, since it is in some container.         *)
LEMMA StepClear ==
  ASSUME IInv, Clear
  PROVE  IInv' /\ Stored' = {}
<1>1. ASSUME NEW n \in Node
      PROVE  position'[n] = NotStored
  <2>1. CASE IsStored(n)
    <3>1. Found(n) /\ position[n] \in Position
      BY <2>1 DEF IInv, StoredFound, TypeOK, IsStored
    <3>2. Len(table) \in Nat /\ position[n].bucket \in 1 .. Len(table)
      BY <3>1, LenProperties DEF IInv, TypeOK, Found, Position
    <3>3. Len(table[position[n].bucket]) \in Nat
      BY <3>2, ElementOfSeq, LenProperties DEF IInv, TypeOK
    <3>4. position[n].index \in 1 .. Len(table[position[n].bucket])
      BY <3>1, <3>3 DEF Found, Position
    <3>5. QED
      BY <3>1, <3>2, <3>4 DEF Clear, Found
  <2>2. CASE ~ IsStored(n)
    BY <2>2 DEF Clear, IsStored
  <2>3. QED
    BY <2>1, <2>2
<1>2. Stored' = {}
  BY <1>1 DEF Stored, IsStored
<1>3. table' = <<>> /\ size' = 0 /\ Len(<<>>) = 0 /\ <<>> \in Seq(Seq(Node))
  BY EmptySeq DEF Clear
<1>4. position' \in [Node -> Position \cup {NotStored}]
  BY DEF Clear, IInv, TypeOK
<1>5. TypeOK'
  BY <1>3, <1>4 DEF TypeOK
<1>6. StoredFound'
  BY <1>1 DEF StoredFound, IsStored
<1>7. EntriesKnown'
  BY <1>3 DEF EntriesKnown
<1>8. SizeCorrect'
  BY <1>2, <1>3, FS_EmptySet DEF SizeCorrect
<1>9. QED
  BY <1>2, <1>5, <1>6, <1>7, <1>8 DEF IInv

(* The inductive invariant of the hash table: positions, entries and size. *)
THEOREM InductiveInvariant == Spec => []IInv
<1>1. Init => IInv
  BY InitIInv
<1>2. IInv /\ [Next]_vars => IInv'
  <2> SUFFICES ASSUME IInv, [Next]_vars
               PROVE  IInv'
    OBVIOUS
  <2>1. CASE Clear
    BY <2>1, StepClear
  <2>2. ASSUME NEW n \in Node, AddNode(n)
        PROVE  IInv'
    BY <2>2, StepAddNode
  <2>3. ASSUME NEW n \in Node, RemoveNode(n)
        PROVE  IInv'
    BY <2>3, StepRemoveNode
  <2>4. CASE UNCHANGED vars
    BY <2>4 DEF vars, IInv, TypeOK, StoredFound, EntriesKnown, SizeCorrect,
       Stored, IsStored, Found, Bucket
  <2>5. QED
    BY <2>1, <2>2, <2>3, <2>4 DEF Next
<1>3. QED
  BY <1>1, <1>2, PTL DEF Spec

(* remove_node never throws on a stored node, whatever was moved before.   *)
THEOREM PositionsCorrect == Spec => [](StoredFound /\ EntriesKnown)
<1>1. IInv => StoredFound /\ EntriesKnown
  BY DEF IInv
<1>2. QED
  BY <1>1, InductiveInvariant, PTL

(* nodes_count() is the number of stored nodes.                            *)
THEOREM CountCorrect == Spec => []SizeCorrect
<1>1. IInv => SizeCorrect
  BY DEF IInv
<1>2. QED
  BY <1>1, InductiveInvariant, PTL

(* The set of entries of the container of n is the set of stored nodes     *)
(* with the same bucket, hence every node comparable to n is in it.        *)
LEMMA BucketContents ==
  ASSUME IInv, table # <<>>, NEW n \in Node, NEW m \in Stored, Hash[m] = Hash[n]
  PROVE  \E i \in 1 .. Len(table[Bucket(n)]) : table[Bucket(n)][i] = m
<1>1. m \in Node /\ Found(m) /\ position[m].bucket = Bucket(m) /\ position[m] \in Position
  BY DEF Stored, IInv, StoredFound, TypeOK, IsStored
<1>2. Bucket(m) = Bucket(n) /\ Bucket(n) \in 1 .. Len(table)
  BY BucketRange DEF Bucket, IInv
<1>3. Len(table[Bucket(n)]) \in Nat
  BY <1>2, ElementOfSeq, LenProperties DEF IInv, TypeOK
<1>4. position[m].index \in 1 .. Len(table[Bucket(n)])
  BY <1>1, <1>2, <1>3 DEF Found, Position
<1>5. QED
  BY <1>1, <1>2, <1>4 DEF Found

(* Conversely, the entries of a container are stored nodes.                *)
LEMMA EntriesStored ==
  ASSUME IInv, table # <<>>, NEW n \in Node, NEW i \in 1 .. Len(table[Bucket(n)])
  PROVE  table[Bucket(n)][i] \in Stored
<1>1. Bucket(n) \in 1 .. Len(table) /\ i \in Nat \ {0} /\ Bucket(n) \in Nat \ {0}
  <2>1. Bucket(n) \in 1 .. Len(table) /\ Len(table) \in Nat
    BY BucketRange, LenProperties DEF IInv, TypeOK
  <2>2. Len(table[Bucket(n)]) \in Nat
    BY <2>1, ElementOfSeq, LenProperties DEF IInv, TypeOK
  <2>3. QED
    BY <2>1, <2>2
<1>2. table[Bucket(n)][i] \in Node
  BY <1>1, ElementOfSeq DEF IInv, TypeOK
<1>3. position[table[Bucket(n)][i]] = [bucket |-> Bucket(n), index |-> i]
  BY <1>1 DEF IInv, EntriesKnown
<1>4. [bucket |-> Bucket(n), index |-> i] \in Position
  BY <1>1 DEF Position
<1>5. QED
  BY <1>2, <1>3, <1>4, NotStoredAssumption DEF Stored, IsStored
(* Nodes comparable to n share its hash code, hence its container.         *)
LEMMA InvariantQueries == IInv => QueriesExact
<1> SUFFICES ASSUME IInv, table # <<>>, NEW n \in Node
             PROVE  /\ IsCovered(n) <=> \E m \in Stored : Covers(m, n)
                    /\ \A m \in Node : IsCoveringNode(m, n) => m \in Stored /\ Covers(m, n)
                    /\ CoveredNodes(n) = {m \in Stored : Covers(n, m)}
  BY DEF QueriesExact
<1> DEFINE c == table[Bucket(n)]
<1>1. \A i \in 1 .. Len(c) : c[i] \in Stored
  BY EntriesStored
<1>2. \A m \in Stored : Hash[m] = Hash[n] => \E i \in 1 .. Len(c) : c[i] = m
  BY BucketContents
<1>3. \A m \in Stored : Covers(m, n) \/ Covers(n, m) => Hash[m] = Hash[n]
  BY GraphAssumption DEF Covers, Stored
<1>4. IsCovered(n) <=> \E m \in Stored : Covers(m, n)
  BY <1>1, <1>2, <1>3 DEF IsCovered, CoveringIndices
<1>5. \A m \in Node : IsCoveringNode(m, n) => m \in Stored /\ Covers(m, n)
  BY <1>1 DEF IsCoveringNode, CoveringIndices
<1>6. CoveredNodes(n) = {m \in Stored : Covers(n, m)}
  BY <1>1, <1>2, <1>3 DEF CoveredNodes
<1>7. QED
  BY <1>4, <1>5, <1>6

(* is_covered and covered_nodes are exact although they look at one        *)
(* container only: this is what CovReach assumes of the graph.             *)
THEOREM QueriesCorrect == Spec => []QueriesExact
BY InvariantQueries, InductiveInvariant, PTL

(* The hash table with positions implements a set of nodes.                *)
THEOREM Refinement == Spec => ImplementsNodeSet
<1>1. Init => Contents!Init
  BY DEF Init, Contents!Init, Stored, IsStored
<1>2. ASSUME IInv, [Next]_vars
      PROVE  [Contents!Next]_Stored
  <2>1. CASE Clear
    BY <1>2, <2>1, StepClear DEF Contents!Next, Contents!Clear
  <2>2. ASSUME NEW n \in Node, AddNode(n)
        PROVE  Contents!Next
    <3>1. Stored' = Stored \cup {n} /\ n \notin Stored
      BY <1>2, <2>2, StepAddNode
    <3>2. QED
      BY <3>1 DEF Contents!Next, Contents!Add
  <2>3. ASSUME NEW n \in Node, RemoveNode(n)
        PROVE  Contents!Next
    BY <1>2, <2>3, StepRemoveNode DEF Contents!Next, Contents!Remove
  <2>4. CASE UNCHANGED vars
    BY <2>4 DEF vars, Stored, IsStored
  <2>5. QED
    BY <1>2, <2>1, <2>2, <2>3, <2>4 DEF Next
<1>3. QED
  BY <1>1, <1>2, InductiveInvariant, PTL DEF Spec, ImplementsNodeSet, Contents!Spec

-----------------------------------------------------------------------------
(* The linked lists of edges. *)

(* A set of natural numbers has a least element; from it, induction up to n. *)
LEMMA LeastElement ==
  ASSUME NEW T \in SUBSET Nat, T # {}
  PROVE  \E n \in T : \A m \in T : n <= m
<1> DEFINE R == OpToRel(<, Nat)
<1>1. IsWellFoundedOn(R, Nat)
  BY NatLessThanWellFounded, Zenon
<1>2. \A m, n \in Nat : m < n => <<m, n>> \in R
  BY SMT DEF OpToRel
<1> HIDE DEF R
<1>3. PICK n \in T : \A m \in T : ~ (<<m, n>> \in R)
  BY <1>1, WFMin, Zenon
<1>4. \A m \in T : ~ (m < n)
  BY <1>2, <1>3, Zenon
<1>5. n \in Nat /\ \A m \in T : m \in Nat
  OBVIOUS
<1>6. \A m \in T : n <= m
  BY <1>4, <1>5, SMT
<1> QED BY <1>6

(* A set with 0 and the successors up to N holds all of 0 .. N. *)
LEMMA Induction ==
  ASSUME NEW N \in Nat, NEW T, 0 \in T,
         \A n \in 1 .. N : n - 1 \in T => n \in T
  PROVE  0 .. N \subseteq T
<1> DEFINE missing == (0 .. N) \ T
<1> SUFFICES ASSUME missing # {}
             PROVE  FALSE
  OBVIOUS
<1>1. missing \in SUBSET Nat
  OBVIOUS
<1>2. PICK n \in missing : \A m \in missing : n <= m
  BY <1>1, LeastElement
<1>3. n \in 1 .. N /\ n \notin T
  BY <1>2
<1>4. n - 1 \in T
  <2>1. ~ (n - 1 \in missing)
    <3> HIDE DEF missing
    <3> QED BY <1>2, <1>3
  <2> QED BY <1>3, <2>1
<1> QED BY <1>3, <1>4

(* The first N states of a loop, which starts in x and whose body is F[k]   *)
(* in lap k.                                                               *)
Iterates(f, N, x, F) == f = [k \in 0 .. N |-> IF k = 0 THEN x ELSE F[k][f[k - 1]]]

(* A loop that goes from state to state within S has a sequence of states. *)
LEMMA IterationExists ==
  ASSUME NEW N \in Nat, NEW S, NEW x \in S, NEW F,
         \A k \in 1 .. N, y \in S : F[k][y] \in S
  PROVE  \E f : Iterates(f, N, x, F) /\ \A k \in 0 .. N : f[k] \in S
<1> DEFINE Runs(f, n) == /\ Iterates(f, n, x, F)
                         /\ \A k \in 0 .. n : f[k] \in S
           T == {n \in 0 .. N : \E f : Runs(f, n)}
<1>1. 0 \in T
  <2> DEFINE f == [k \in 0 .. 0 |-> x]
  <2>1. f = [k \in 0 .. 0 |-> IF k = 0 THEN x ELSE F[k][f[k - 1]]]
    <3>1. \A k \in 0 .. 0 : k = 0
      OBVIOUS
    <3>2. QED
      BY <3>1, Zenon
  <2>2. \A k \in 0 .. 0 : f[k] \in S
    OBVIOUS
  <2> HIDE DEF f
  <2>3. Runs(f, 0)
    BY <2>1, <2>2, Zenon DEF Iterates
  <2>4. 0 \in 0 .. N
    OBVIOUS
  <2> QED BY <2>3, <2>4, Zenon
<1>2. ASSUME NEW n \in 1 .. N, n - 1 \in T
      PROVE  n \in T
  <2>1. PICK f : Runs(f, n - 1)
    BY <1>2
  <2> DEFINE h == [k \in 0 .. n |-> IF k < n THEN f[k] ELSE F[n][f[n - 1]]]
  <2>2. \A k \in 0 .. n - 1 : h[k] = f[k]
    BY SMT
  <2>3. h[n] = F[n][f[n - 1]] /\ n - 1 \in 0 .. n - 1 /\ n \in 0 .. n
    BY SMT
  <2>4. ASSUME NEW k \in 0 .. n
        PROVE  /\ h[k] = IF k = 0 THEN x ELSE F[k][h[k - 1]]
               /\ h[k] \in S
    <3>1. CASE k < n
      <4>1. k \in 0 .. n - 1 /\ (k # 0 => k - 1 \in 0 .. n - 1)
        BY <3>1
      <4>2. f[k] = IF k = 0 THEN x ELSE F[k][f[k - 1]]
        BY <2>1, <4>1 DEF Iterates
      <4>3. QED
        BY <2>1, <2>2, <4>1, <4>2
    <3>2. CASE k = n
      <4>1. h[k - 1] = f[n - 1] /\ k # 0
        BY <2>2, <2>3, <3>2
      <4>2. f[n - 1] \in S
        BY <2>1, <2>3
      <4>3. QED
        BY <2>3, <3>2, <4>1, <4>2
    <3>3. QED
      BY <3>1, <3>2
  <2>5. h = [k \in 0 .. n |-> h[k]]
    OBVIOUS
  <2> HIDE DEF h
  <2>6. h = [k \in 0 .. n |-> IF k = 0 THEN x ELSE F[k][h[k - 1]]]
    BY <2>4, <2>5, Zenon
  <2>7. Runs(h, n)
    BY <2>4, <2>6, Zenon DEF Iterates
  <2>8. n \in 0 .. N
    OBVIOUS
  <2> QED BY <2>7, <2>8, Zenon
<1>3. N \in T
  <2> HIDE DEF T
  <2>1. 0 .. N \subseteq T
    BY <1>1, <1>2, Induction
  <2> QED BY <2>1
<1> QED BY <1>3, Zenon

(* The number of edge objects, the bound of the loops over a list. *)
Laps == Links!Cardinality(Edge)

LEMMA LinksCardinality == \A S : Links!Cardinality(S) = Cardinality(S)
BY Zenon DEF Links!Cardinality, Cardinality

LEMMA LapsType == Laps = Cardinality(Edge) /\ Laps \in Nat
BY EdgeAssumption, FS_CardinalityType, LinksCardinality DEF Laps

LEMMA PointersType ==
  ASSUME NEW g \in Links!Pointers, NEW tag \in Links!Tag
  PROVE  /\ \A n \in Node : g.head[tag][n] \in Edge \cup {NoEdge}
         /\ \A e \in Edge : /\ g.next[tag][e] \in Edge \cup {NoEdge}
                            /\ g.node[tag][e] \in Node \cup {NoNode}
BY DEF Links!Pointers

(* The iterator of a list moves on until it is null. *)
Successor(g, tag, e) == IF e = NoEdge THEN NoEdge ELSE g.next[tag][e]

Walk(at, g, tag, n) ==
  at = [k \in 0 .. Laps |->
          IF k = 0 THEN g.head[tag][n]
          ELSE IF at[k - 1] = NoEdge THEN NoEdge ELSE g.next[tag][at[k - 1]]]

Met(at) == [k \in {j \in 1 .. Laps + 1 : at[j - 1] # NoEdge} |-> at[k - 1]]

LEMMA WalkExists ==
  ASSUME NEW g \in Links!Pointers, NEW tag \in Links!Tag, NEW n \in Node
  PROVE  \E at : Walk(at, g, tag, n)
<1> DEFINE S == Edge \cup {NoEdge}
           x == g.head[tag][n]
           F == [k \in 1 .. Laps |-> [e \in S |-> Successor(g, tag, e)]]
<1>1. x \in S
  BY PointersType
<1>2. \A k \in 1 .. Laps, e \in S : F[k][e] = Successor(g, tag, e) /\ F[k][e] \in S
  BY PointersType DEF Successor
<1> HIDE DEF F
<1>3. PICK f : Iterates(f, Laps, x, F) /\ \A k \in 0 .. Laps : f[k] \in S
  <2> HIDE DEF S, x
  <2>1. \A k \in 1 .. Laps, e \in S : F[k][e] \in S
    BY <1>2
  <2> QED BY <1>1, <2>1, LapsType, IterationExists, Zenon
<1>4. ASSUME NEW k \in 0 .. Laps
      PROVE  f[k] = IF k = 0 THEN x ELSE Successor(g, tag, f[k - 1])
  <2>1. CASE k = 0
    BY <1>3, <2>1 DEF Iterates
  <2>2. CASE k # 0
    <3>1. k \in 1 .. Laps /\ k - 1 \in 0 .. Laps
      BY <2>2, LapsType
    <3>2. f[k - 1] \in S
      BY <1>3, <3>1
    <3>3. f[k] = F[k][f[k - 1]]
      BY <1>3, <2>2 DEF Iterates
    <3> QED BY <1>2, <2>2, <3>1, <3>2, <3>3
  <2> QED BY <2>1, <2>2
<1>5. f = [k \in 0 .. Laps |-> f[k]]
  BY <1>3 DEF Iterates
<1>6. f = [k \in 0 .. Laps |-> IF k = 0 THEN x ELSE Successor(g, tag, f[k - 1])]
  BY <1>4, <1>5, Zenon
<1> QED BY <1>6, Zenon DEF Walk, Successor

(* What the iterator of a list does, lap after lap. *)
LEMMA EdgesWalked ==
  ASSUME NEW g \in Links!Pointers, NEW tag \in Links!Tag, NEW n \in Node
  PROVE  \E at : /\ at[0] = g.head[tag][n]
                 /\ \A k \in 1 .. Laps : at[k] = Successor(g, tag, at[k - 1])
                 /\ \A k \in 0 .. Laps : at[k] \in Edge \cup {NoEdge}
                 /\ Links!EdgesOf(g, tag, n) = Met(at)
<1> DEFINE at == CHOOSE f : Walk(f, g, tag, n)
<1>1. Walk(at, g, tag, n)
  BY WalkExists, Zenon
<1>2. Links!EdgesOf(g, tag, n) = Met(at)
  BY Zenon DEF Links!EdgesOf, Met, Walk, Laps
<1> HIDE DEF at
<1>3. at[0] = g.head[tag][n]
  BY <1>1, LapsType DEF Walk
<1>4. \A k \in 1 .. Laps : at[k] = Successor(g, tag, at[k - 1])
  BY <1>1, LapsType DEF Walk, Successor
<1>5. \A k \in 0 .. Laps : at[k] \in Edge \cup {NoEdge}
  <2> DEFINE T == {k \in 0 .. Laps : at[k] \in Edge \cup {NoEdge}}
  <2>1. 0 \in T
    BY <1>3, LapsType, PointersType
  <2>2. ASSUME NEW k \in 1 .. Laps, k - 1 \in T
        PROVE  k \in T
    BY <1>4, <2>2, LapsType, PointersType DEF Successor
  <2> HIDE DEF T
  <2>3. 0 .. Laps \subseteq T
    BY <2>1, <2>2, LapsType, Induction
  <2> QED BY <2>3 DEF T
<1> QED BY <1>2, <1>3, <1>4, <1>5

LEMMA FunctionSeq ==
  ASSUME NEW S, NEW m \in Nat, NEW s \in [1 .. m -> S]
  PROVE  s \in Seq(S) /\ Len(s) = m
<1>1. s \in Seq(S)
  BY SeqDef
<1>2. Len(s) \in Nat /\ 1 .. Len(s) = 1 .. m
  <2>1. s \in [1 .. Len(s) -> S] /\ Len(s) \in Nat
    BY <1>1, LenProperties
  <2> QED BY <2>1
<1> QED BY <1>1, <1>2

(* The i-th edge of a list, null behind its end. *)
At(s, i) == IF i \in 1 .. Len(s) THEN s[i] ELSE NoEdge

(* What the lists of a well-formed graph look like: the head and the next  *)
(* pointers run through s, which has every edge that names n, once.        *)
IsList(g, tag, n, s) ==
  /\ s \in Seq(Edge)
  /\ g.head[tag][n] = At(s, 1)
  /\ \A i \in 1 .. Len(s) : g.next[tag][s[i]] = At(s, i + 1)
  /\ \A i, j \in 1 .. Len(s) : s[i] = s[j] => i = j
  /\ \A e \in Edge : g.node[tag][e] = n <=> \E i \in 1 .. Len(s) : s[i] = e

LEMMA AtType ==
  ASSUME NEW s \in Seq(Edge), NEW i \in Int
  PROVE  /\ At(s, i) \in Edge \cup {NoEdge}
         /\ At(s, i) = NoEdge <=> i \notin 1 .. Len(s)
<1>1. i \in 1 .. Len(s) => s[i] \in Edge
  BY ElementOfSeq
<1> QED BY <1>1, NullAssumption DEF At

(* A list without repetition is not longer than there are edges. *)
LEMMA ListLength ==
  ASSUME NEW s \in Seq(Edge), \A i, j \in 1 .. Len(s) : s[i] = s[j] => i = j
  PROVE  Len(s) \in 0 .. Laps
<1>1. s \in [1 .. Len(s) -> Edge] /\ Len(s) \in Nat
  BY LenProperties
<1>2. s \in Injection(1 .. Len(s), Edge)
  <2>1. \A i, j \in 1 .. Len(s) : s[i] = s[j] => i = j
    OBVIOUS
  <2> QED BY <1>1, <2>1 DEF Injection, IsInjective
<1>3. Cardinality(1 .. Len(s)) <= Laps
  BY <1>2, EdgeAssumption, LapsType, FS_Injection
<1>4. Cardinality(1 .. Len(s)) = Len(s)
  <2>1. \A m \in Nat : Cardinality(1 .. m) = IF 1 > m THEN 0 ELSE m - 1 + 1
    BY FS_Interval
  <2> QED BY <1>1, <2>1
<1> QED BY <1>1, <1>3, <1>4, LapsType

(* The iterator meets the edges of a well-formed list in order. *)
LEMMA ListMet ==
  ASSUME NEW g \in Links!Pointers, NEW tag \in Links!Tag, NEW n \in Node,
         NEW s, IsList(g, tag, n, s)
  PROVE  Links!EdgesOf(g, tag, n) = s
<1>1. PICK at : /\ at[0] = g.head[tag][n]
                /\ \A k \in 1 .. Laps : at[k] = Successor(g, tag, at[k - 1])
                /\ Links!EdgesOf(g, tag, n) = Met(at)
  BY EdgesWalked
<1>2. s \in Seq(Edge) /\ Len(s) \in 0 .. Laps /\ Len(s) \in Nat /\ Laps \in Nat
  BY ListLength, LapsType DEF IsList
<1>3. \A k \in 0 .. Laps : at[k] = At(s, k + 1)
  <2> DEFINE T == {k \in 0 .. Laps : at[k] = At(s, k + 1)}
  <2>1. 0 \in T
    BY <1>1, <1>2 DEF IsList
  <2>2. ASSUME NEW k \in 1 .. Laps, k - 1 \in T
        PROVE  k \in T
    <3>1. at[k - 1] = At(s, k) /\ k \in Nat \ {0}
      BY <2>2
    <3>2. CASE k \in 1 .. Len(s)
      <4>1. At(s, k) = s[k] /\ s[k] \in Edge /\ s[k] # NoEdge
        BY <1>2, <3>2, ElementOfSeq, NullAssumption DEF At
      <4>2. g.next[tag][s[k]] = At(s, k + 1)
        BY <3>2 DEF IsList
      <4> QED BY <1>1, <3>1, <4>1, <4>2 DEF Successor
    <3>3. CASE k \notin 1 .. Len(s)
      <4>1. At(s, k) = NoEdge /\ At(s, k + 1) = NoEdge
        BY <1>2, <3>1, <3>3 DEF At
      <4> QED BY <1>1, <3>1, <4>1 DEF Successor
    <3> QED BY <3>2, <3>3
  <2> HIDE DEF T
  <2>3. 0 .. Laps \subseteq T
    BY <2>1, <2>2, <1>2, Induction
  <2> QED BY <2>3 DEF T
<1>4. {j \in 1 .. Laps + 1 : at[j - 1] # NoEdge} = 1 .. Len(s)
  <2>1. \A j \in 1 .. Laps + 1 : at[j - 1] = At(s, j)
    BY <1>2, <1>3
  <2>2. \A j \in 1 .. Laps + 1 : At(s, j) = NoEdge <=> j \notin 1 .. Len(s)
    BY <1>2, AtType
  <2> QED BY <1>2, <2>1, <2>2
<1>5. \A j \in 1 .. Len(s) : at[j - 1] = s[j]
  BY <1>2, <1>3 DEF At
<1>6. Met(at) = [j \in 1 .. Len(s) |-> at[j - 1]]
  BY <1>4, Zenon DEF Met
<1>7. Met(at) = [j \in 1 .. Len(s) |-> s[j]]
  BY <1>5, <1>6, Zenon
<1>8. s = [j \in 1 .. Len(s) |-> s[j]]
  BY <1>2, LenProperties
<1> QED BY <1>1, <1>7, <1>8

(* The edges that the iterator meets, also those of a list that is not     *)
(* terminated, are edge objects; an exact list is well-formed.             *)
LEMMA MetList ==
  ASSUME NEW g \in Links!Pointers, NEW tag \in Links!Tag, NEW n \in Node
  PROVE  LET s == Links!EdgesOf(g, tag, n) IN
         /\ s \in Seq(Edge)
         /\ /\ Len(s) <= Laps
            /\ \A i, j \in 1 .. Len(s) : s[i] = s[j] => i = j
            /\ \A e \in Edge : g.node[tag][e] = n <=> \E i \in 1 .. Len(s) : s[i] = e
            => IsList(g, tag, n, s)
<1> DEFINE s == Links!EdgesOf(g, tag, n)
<1>1. PICK at : /\ at[0] = g.head[tag][n]
                /\ \A k \in 1 .. Laps : at[k] = Successor(g, tag, at[k - 1])
                /\ \A k \in 0 .. Laps : at[k] \in Edge \cup {NoEdge}
                /\ s = Met(at)
  BY EdgesWalked
<1> DEFINE D == {j \in 1 .. Laps + 1 : at[j - 1] # NoEdge}
<1>2. PICK m \in 0 .. Laps + 1 : D = 1 .. m /\ (m <= Laps => at[m] = NoEdge)
  <2> DEFINE gone == (1 .. Laps + 1) \ D
  <2>1. CASE gone = {}
    <3>1. D = 1 .. Laps + 1 /\ Laps + 1 \in 0 .. Laps + 1 /\ ~ (Laps + 1 <= Laps)
      BY <2>1, LapsType
    <3> HIDE DEF D
    <3> QED BY <3>1
  <2>2. CASE gone # {}
    <3>1. PICK l \in gone : \A j \in gone : l <= j
      <4>1. gone \in SUBSET Nat
        BY LapsType
      <4> HIDE DEF gone
      <4> QED BY <2>2, <4>1, LeastElement
    <3>2. l \in 1 .. Laps + 1 /\ at[l - 1] = NoEdge /\ l \in Nat
      BY <3>1, LapsType
    <3>3. \A j \in 1 .. Laps + 1 : j < l => j \in D
      <4>1. \A j \in gone : j \in Nat
        BY LapsType
      <4>2. \A j \in 1 .. Laps + 1 : j < l => j \notin gone
        <5> HIDE DEF gone
        <5> QED BY <3>1, <3>2, <4>1
      <4> QED BY <4>2
    <3>4. \A k \in 0 .. Laps : l - 1 <= k => at[k] = NoEdge
      <4> DEFINE T == {k \in 0 .. Laps : l - 1 <= k => at[k] = NoEdge}
      <4>1. 0 \in T
        BY <3>2, LapsType
      <4>2. ASSUME NEW k \in 1 .. Laps, k - 1 \in T
            PROVE  k \in T
        <5>1. CASE l - 1 <= k - 1
          BY <1>1, <4>2, <5>1, LapsType DEF Successor
        <5>2. CASE ~ (l - 1 <= k - 1)
          <6>1. l - 1 <= k => k = l - 1
            BY <3>2, <5>2, LapsType
          <6> QED BY <3>2, <6>1, LapsType
        <5> QED BY <5>1, <5>2
      <4> HIDE DEF T
      <4>3. 0 .. Laps \subseteq T
        BY <4>1, <4>2, LapsType, Induction
      <4> QED BY <4>3 DEF T
    <3>5. \A j \in 1 .. Laps + 1 : l <= j => j \notin D
      <4>1. \A j \in 1 .. Laps + 1 : l <= j => j - 1 \in 0 .. Laps /\ l - 1 <= j - 1
        BY <3>2, LapsType
      <4> QED BY <3>4, <4>1
    <3>6. D = 1 .. l - 1
      <4>1. D \subseteq 1 .. Laps + 1
        OBVIOUS
      <4> HIDE DEF D
      <4>2. \A j \in 1 .. Laps + 1 : j \in D <=> j < l
        BY <3>2, <3>3, <3>5, LapsType
      <4>3. \A j : j \in 1 .. l - 1 <=> j \in 1 .. Laps + 1 /\ j < l
        BY <3>2, LapsType
      <4> QED BY <4>1, <4>2, <4>3, Zenon
    <3>7. l - 1 \in 0 .. Laps + 1 /\ (l - 1 <= Laps => at[l - 1] = NoEdge)
      BY <3>2, LapsType
    <3> HIDE DEF D
    <3> QED BY <3>6, <3>7
  <2> QED BY <2>1, <2>2
<1>3. s = [j \in 1 .. m |-> at[j - 1]]
  <2>1. s = [j \in D |-> at[j - 1]]
    BY <1>1, Zenon DEF Met
  <2> HIDE DEF D, s
  <2> QED BY <1>2, <2>1
<1>4. \A j \in 1 .. m : at[j - 1] \in Edge
  <2>1. \A j \in 1 .. m : j \in D
    BY <1>2
  <2>2. \A j \in D : j - 1 \in 0 .. Laps /\ at[j - 1] # NoEdge
    BY LapsType
  <2> QED BY <1>1, <2>1, <2>2
<1>5. s \in Seq(Edge) /\ Len(s) = m
  <2>1. s \in [1 .. m -> Edge] /\ m \in Nat
    BY <1>3, <1>4, LapsType
  <2> HIDE DEF s
  <2> QED BY <2>1, FunctionSeq
<1> HIDE DEF s, D
<1>6. ASSUME Len(s) <= Laps
      PROVE  /\ g.head[tag][n] = At(s, 1)
             /\ \A i \in 1 .. Len(s) : g.next[tag][s[i]] = At(s, i + 1)
  <2>1. m \in 0 .. Laps /\ m \in Nat /\ at[m] = NoEdge
    BY <1>2, <1>5, <1>6, LapsType
  <2>2. \A k \in 0 .. m : At(s, k + 1) = at[k]
    BY <1>3, <1>5, <2>1 DEF At
  <2>3. ASSUME NEW i \in 1 .. Len(s)
        PROVE  g.next[tag][s[i]] = At(s, i + 1)
    <3>1. i \in 1 .. m /\ i \in 0 .. m /\ i \in 1 .. Laps /\ s[i] = at[i - 1]
      BY <1>3, <1>5, <2>1, LapsType
    <3>2. at[i - 1] # NoEdge
      BY <1>4, <3>1, NullAssumption
    <3> QED BY <1>1, <2>2, <3>1, <3>2 DEF Successor
  <2>4. g.head[tag][n] = At(s, 1)
    BY <1>1, <2>1, <2>2
  <2> QED BY <2>3, <2>4
<1>7. s = Links!EdgesOf(g, tag, n)
  BY DEF s
<1> QED BY <1>5, <1>6, <1>7 DEF IsList

(* All the lists of a graph are well-formed, and its edges are in the      *)
(* lists of both their ends or of none.                                    *)
Linked(g) ==
  /\ g \in Links!Pointers
  /\ \A tag \in Links!Tag, n \in Node : IsList(g, tag, n, Links!EdgesOf(g, tag, n))

ConnectedTwice(g) ==
  \A e \in Edge :
    /\ g.node["incoming"][e] = NoNode <=> g.node["outgoing"][e] = NoNode
    /\ g.node["incoming"][e] = NoNode => \A tag \in Links!Tag : g.next[tag][e] = NoEdge

LEMMA LinkedInvariant ==
  Links!IInv <=> Linked(Links!Graph) /\ ConnectedTwice(Links!Graph)
<1> DEFINE g == Links!Graph
<1>1. g.head = head /\ g.next = next /\ g.node = node
  BY DEF Links!Graph
<1>2. Links!EdgesConnectedTwice <=> ConnectedTwice(g)
  BY <1>1 DEF Links!EdgesConnectedTwice, ConnectedTwice
<1>3. ASSUME g \in Links!Pointers
      PROVE  Links!ListsExact <=>
               \A tag \in Links!Tag, n \in Node : IsList(g, tag, n, Links!EdgesOf(g, tag, n))
  <2> DEFINE s(tag, n) == Links!EdgesOf(g, tag, n)
             Exact(tag, n) ==
               /\ Len(s(tag, n)) <= Laps
               /\ \A i, j \in DOMAIN s(tag, n) : s(tag, n)[i] = s(tag, n)[j] => i = j
               /\ {s(tag, n)[i] : i \in DOMAIN s(tag, n)} = {e \in Edge : node[tag][e] = n}
  <2>1. Links!ListsExact <=> \A tag \in Links!Tag, n \in Node : Exact(tag, n)
    BY DEF Links!ListsExact, Laps
  <2>2. ASSUME NEW tag \in Links!Tag, NEW n \in Node
        PROVE  Exact(tag, n) <=> IsList(g, tag, n, s(tag, n))
    <3> DEFINE l == s(tag, n)
    <3>1. /\ l \in Seq(Edge)
          /\ /\ Len(l) <= Laps
             /\ \A i, j \in 1 .. Len(l) : l[i] = l[j] => i = j
             /\ \A e \in Edge : g.node[tag][e] = n <=> \E i \in 1 .. Len(l) : l[i] = e
             => IsList(g, tag, n, l)
      BY <1>3, MetList
    <3>2. DOMAIN l = 1 .. Len(l) /\ \A i \in 1 .. Len(l) : l[i] \in Edge
      BY <3>1, LenProperties, ElementOfSeq
    <3>3. g.node = node
      BY <1>1
    <3>4. Exact(tag, n) <=>
            /\ Len(l) <= Laps
            /\ \A i, j \in DOMAIN l : l[i] = l[j] => i = j
            /\ {l[i] : i \in DOMAIN l} = {e \in Edge : node[tag][e] = n}
      OBVIOUS
    <3>5. IsList(g, tag, n, l) => Len(l) <= Laps
      BY <3>1, ListLength, LapsType DEF IsList
    <3> HIDE DEF l, g
    <3>6. {l[i] : i \in DOMAIN l} = {e \in Edge : node[tag][e] = n} <=>
            \A e \in Edge : g.node[tag][e] = n <=> \E i \in 1 .. Len(l) : l[i] = e
      BY <3>2, <3>3
    <3>7. Exact(tag, n) <=> IsList(g, tag, n, l)
      <4> HIDE DEF Exact
      <4> QED BY <3>1, <3>2, <3>4, <3>5, <3>6 DEF IsList
    <3> QED BY <3>7 DEF l
  <2> HIDE DEF Exact
  <2> QED BY <2>1, <2>2
<1>4. Links!TypeOK <=> g \in Links!Pointers
  BY DEF Links!TypeOK
<1> QED BY <1>2, <1>3, <1>4 DEF Links!IInv, Linked

(* A list whose pointers were not touched is as it was. *)
LEMMA SameList ==
  ASSUME NEW g, NEW h, NEW tag, NEW n, NEW s, IsList(g, tag, n, s),
         h.head[tag][n] = g.head[tag][n],
         \A e \in Edge : /\ g.node[tag][e] = n => h.next[tag][e] = g.next[tag][e]
                         /\ h.node[tag][e] = n <=> g.node[tag][e] = n
  PROVE  IsList(h, tag, n, s)
<1>1. \A i \in 1 .. Len(s) : s[i] \in Edge /\ g.node[tag][s[i]] = n
  BY ElementOfSeq DEF IsList
<1> QED BY <1>1 DEF IsList

LEMMA LinkPointers ==
  ASSUME NEW g \in Links!Pointers, NEW tag \in Links!Tag, NEW n \in Node, NEW e \in Edge
  PROVE  LET h == Links!Link(g, tag, n, e) IN
         /\ h \in Links!Pointers
         /\ \A t \in Links!Tag, m \in Node :
              h.head[t][m] = IF t = tag /\ m = n THEN e ELSE g.head[t][m]
         /\ \A t \in Links!Tag, f \in Edge :
              /\ h.next[t][f] = IF t = tag /\ f = e THEN g.head[tag][n] ELSE g.next[t][f]
              /\ h.node[t][f] = IF t = tag /\ f = e THEN n ELSE g.node[t][f]
<1> DEFINE h == Links!Link(g, tag, n, e)
<1>1. h = [head |-> [g.head EXCEPT ![tag][n] = e],
           next |-> [g.next EXCEPT ![tag][e] = g.head[tag][n]],
           node |-> [g.node EXCEPT ![tag][e] = n]]
  <2> DEFINE gh == g.head
             gx == g.next
             gn == g.node
             x == gh[tag][n]
  <2>1. g = [head |-> gh, next |-> gx, node |-> gn]
    BY DEF Links!Pointers
  <2>2. h = [g EXCEPT !.next[tag][e] = x, !.head[tag][n] = e, !.node[tag][e] = n]
    BY DEF Links!Link
  <2> HIDE DEF gh, gx, gn, x, h
  <2>3. h = [head |-> [gh EXCEPT ![tag][n] = e], next |-> [gx EXCEPT ![tag][e] = x],
             node |-> [gn EXCEPT ![tag][e] = n]]
    BY <2>1, <2>2
  <2> QED BY <2>3 DEF gh, gx, gn, x
<1>2. g.head[tag][n] \in Edge \cup {NoEdge}
  BY PointersType
<1>3. /\ h.head \in [Links!Tag -> [Node -> Edge \cup {NoEdge}]]
      /\ h.next \in [Links!Tag -> [Edge -> Edge \cup {NoEdge}]]
      /\ h.node \in [Links!Tag -> [Edge -> Node \cup {NoNode}]]
  <2> HIDE DEF h
  <2> QED BY <1>1, <1>2 DEF Links!Pointers
<1> HIDE DEF h
<1>4. h \in Links!Pointers
  BY <1>1, <1>3 DEF Links!Pointers
<1>5. \A t \in Links!Tag, m \in Node :
        h.head[t][m] = IF t = tag /\ m = n THEN e ELSE g.head[t][m]
  BY <1>1 DEF Links!Pointers
<1>6. \A t \in Links!Tag, f \in Edge :
        /\ h.next[t][f] = IF t = tag /\ f = e THEN g.head[tag][n] ELSE g.next[t][f]
        /\ h.node[t][f] = IF t = tag /\ f = e THEN n ELSE g.node[t][f]
  BY <1>1 DEF Links!Pointers
<1> QED BY <1>4, <1>5, <1>6 DEF h

(* add_edge<TAG>: e comes first in the list of n; no other list changes. *)
LEMMA LinkStep ==
  ASSUME NEW g, Linked(g), NEW tag \in Links!Tag, NEW n \in Node, NEW e \in Edge,
         g.node[tag][e] = NoNode
  PROVE  LET h == Links!Link(g, tag, n, e) IN
         /\ Linked(h)
         /\ Links!EdgesOf(h, tag, n) = <<e>> \o Links!EdgesOf(g, tag, n)
         /\ \A t \in Links!Tag, m \in Node :
              ~ (t = tag /\ m = n) => Links!EdgesOf(h, t, m) = Links!EdgesOf(g, t, m)
<1> DEFINE h == Links!Link(g, tag, n, e)
           s == Links!EdgesOf(g, tag, n)
           r == <<e>> \o s
<1>1. /\ g \in Links!Pointers /\ h \in Links!Pointers
      /\ \A t \in Links!Tag, m \in Node :
           h.head[t][m] = IF t = tag /\ m = n THEN e ELSE g.head[t][m]
      /\ \A t \in Links!Tag, f \in Edge :
           /\ h.next[t][f] = IF t = tag /\ f = e THEN g.head[tag][n] ELSE g.next[t][f]
           /\ h.node[t][f] = IF t = tag /\ f = e THEN n ELSE g.node[t][f]
  BY LinkPointers DEF Linked
<1>2. IsList(g, tag, n, s) /\ s \in Seq(Edge) /\ Len(s) \in Nat
  BY LenProperties DEF Linked, IsList
<1>3. /\ r \in Seq(Edge) /\ Len(r) = Len(s) + 1 /\ r[1] = e
      /\ \A i \in 1 .. Len(s) : r[i + 1] = s[i]
      /\ \A i \in 2 .. Len(s) + 1 : r[i] = s[i - 1]
  <2>1. <<e>> \in Seq(Edge) /\ Len(<<e>>) = 1 /\ <<e>>[1] = e
    OBVIOUS
  <2>2. /\ r \in Seq(Edge) /\ Len(r) = 1 + Len(s)
        /\ \A i \in 1 .. 1 + Len(s) : r[i] = IF i <= 1 THEN <<e>>[i] ELSE s[i - 1]
    <3> HIDE DEF s
    <3> QED BY <1>2, <2>1, ConcatProperties
  <2> HIDE DEF r, s
  <2> QED BY <1>2, <2>1, <2>2
<1>4. g.node[tag][e] # n /\ \A m \in Node : g.node[tag][e] # m
  BY NullAssumption
<1> HIDE DEF h, s, r
<1>5. \A i \in 1 .. Len(s) : s[i] \in Edge /\ s[i] # e /\ g.node[tag][s[i]] = n
  BY <1>2, <1>4, ElementOfSeq DEF IsList
<1>6. IsList(h, tag, n, r)
  <2>1. h.head[tag][n] = At(r, 1)
    BY <1>1, <1>2, <1>3 DEF At
  <2>2. ASSUME NEW i \in 1 .. Len(r)
        PROVE  h.next[tag][r[i]] = At(r, i + 1)
    <3>1. CASE i = 1
      <4>1. h.next[tag][r[i]] = g.head[tag][n]
        BY <1>1, <1>3, <3>1
      <4>2. At(r, 2) = At(s, 1)
        BY <1>2, <1>3 DEF At
      <4> QED BY <1>2, <3>1, <4>1, <4>2 DEF IsList
    <3>2. CASE i # 1
      <4>1. i - 1 \in 1 .. Len(s) /\ r[i] = s[i - 1]
        BY <1>2, <1>3, <3>2
      <4>2. h.next[tag][r[i]] = g.next[tag][s[i - 1]]
        BY <1>1, <1>5, <4>1
      <4>3. g.next[tag][s[i - 1]] = At(s, i - 1 + 1)
        BY <1>2, <4>1 DEF IsList
      <4>4. At(s, i - 1 + 1) = At(r, i + 1)
        BY <1>2, <1>3, <4>1 DEF At
      <4> QED BY <4>2, <4>3, <4>4
    <3> QED BY <3>1, <3>2
  <2>3. ASSUME NEW i \in 1 .. Len(r), NEW j \in 1 .. Len(r), r[i] = r[j]
        PROVE  i = j
    <3>1. \A k \in 1 .. Len(r) : k # 1 => k - 1 \in 1 .. Len(s) /\ r[k] = s[k - 1]
      BY <1>2, <1>3
    <3>2. \A k \in 1 .. Len(r) : k # 1 => r[k] # e
      BY <1>5, <3>1
    <3>3. CASE i # 1 /\ j # 1
      <4>1. i - 1 = j - 1
        BY <1>2, <2>3, <3>1, <3>3 DEF IsList
      <4> QED BY <1>2, <1>3, <4>1
    <3>4. CASE i = 1 \/ j = 1
      BY <1>3, <2>3, <3>2, <3>4
    <3> QED BY <3>3, <3>4
  <2>4. ASSUME NEW f \in Edge
        PROVE  h.node[tag][f] = n <=> \E i \in 1 .. Len(r) : r[i] = f
    <3>1. CASE f = e
      BY <1>1, <1>2, <1>3, <3>1
    <3>2. CASE f # e
      <4>1. h.node[tag][f] = n <=> \E i \in 1 .. Len(s) : s[i] = f
        BY <1>1, <1>2, <3>2 DEF IsList
      <4>2. (\E i \in 1 .. Len(s) : s[i] = f) <=> \E i \in 1 .. Len(r) : r[i] = f
        <5>1. ASSUME NEW i \in 1 .. Len(s)
              PROVE  i + 1 \in 1 .. Len(r) /\ r[i + 1] = s[i]
          BY <1>2, <1>3
        <5>2. ASSUME NEW i \in 1 .. Len(r), r[i] = f
              PROVE  i - 1 \in 1 .. Len(s) /\ s[i - 1] = f
          BY <1>2, <1>3, <3>2, <5>2
        <5> QED BY <5>1, <5>2
      <4> QED BY <4>1, <4>2
    <3> QED BY <3>1, <3>2
  <2> QED BY <1>3, <2>1, <2>2, <2>3, <2>4 DEF IsList
<1>7. ASSUME NEW t \in Links!Tag, NEW m \in Node, ~ (t = tag /\ m = n)
      PROVE  IsList(h, t, m, Links!EdgesOf(g, t, m))
  <2>1. IsList(g, t, m, Links!EdgesOf(g, t, m)) /\ h.head[t][m] = g.head[t][m]
    BY <1>1, <1>7 DEF Linked
  <2>2. \A f \in Edge : /\ g.node[t][f] = m => h.next[t][f] = g.next[t][f]
                        /\ h.node[t][f] = m <=> g.node[t][f] = m
    BY <1>1, <1>4, <1>7
  <2> QED BY <2>1, <2>2, SameList
<1>8. Links!EdgesOf(h, tag, n) = r
  BY <1>1, <1>6, ListMet
<1>9. \A t \in Links!Tag, m \in Node :
        ~ (t = tag /\ m = n) => Links!EdgesOf(h, t, m) = Links!EdgesOf(g, t, m)
  BY <1>1, <1>7, ListMet
<1>10. Linked(h)
  BY <1>1, <1>6, <1>7, <1>8, <1>9 DEF Linked
<1> QED BY <1>8, <1>9, <1>10 DEF h, r, s

LEMMA BypassPointers ==
  ASSUME NEW g, Linked(g), NEW tag \in Links!Tag, NEW n \in Node,
         NEW k \in 1 .. Len(Links!EdgesOf(g, tag, n))
  PROVE  LET b == Links!Bypass(g, tag, n, k)
             s == Links!EdgesOf(g, tag, n) IN
         /\ b \in Links!Pointers
         /\ \A t \in Links!Tag, m \in Node :
              b.head[t][m] = IF t = tag /\ m = n /\ k = 1 THEN At(s, k + 1) ELSE g.head[t][m]
         /\ \A t \in Links!Tag, f \in Edge :
              /\ b.next[t][f] = IF t = tag /\ k # 1 /\ f = s[k - 1] THEN At(s, k + 1)
                                ELSE g.next[t][f]
              /\ b.node[t][f] = g.node[t][f]
<1> DEFINE b == Links!Bypass(g, tag, n, k)
           s == Links!EdgesOf(g, tag, n)
           after == IF k < Len(s) THEN s[k + 1] ELSE NoEdge
           gh == g.head
           gx == g.next
           gn == g.node
<1>1. g = [head |-> gh, next |-> gx, node |-> gn]
  BY DEF Linked, Links!Pointers
<1>2. /\ gh \in [Links!Tag -> [Node -> Edge \cup {NoEdge}]]
      /\ gx \in [Links!Tag -> [Edge -> Edge \cup {NoEdge}]]
      /\ gn \in [Links!Tag -> [Edge -> Node \cup {NoNode}]]
  BY DEF Linked, Links!Pointers
<1>3. s \in Seq(Edge) /\ Len(s) \in Nat /\ k \in 1 .. Len(s)
  BY LenProperties DEF Linked, IsList
<1>4. b = IF k = 1 THEN [g EXCEPT !.head[tag][n] = after]
          ELSE [g EXCEPT !.next[tag][s[k - 1]] = after]
  BY Zenon DEF Links!Bypass
<1> HIDE DEF b, s, gh, gx, gn
<1>5. after = At(s, k + 1) /\ after \in Edge \cup {NoEdge}
  <2>1. after = At(s, k + 1)
    BY <1>3 DEF At
  <2> QED BY <1>3, <2>1, AtType
<1> HIDE DEF after
<1>6. CASE k = 1
  <2>1. b = [head |-> [gh EXCEPT ![tag][n] = after], next |-> gx, node |-> gn]
    BY <1>1, <1>4, <1>6
  <2>2. b \in Links!Pointers
    BY <1>2, <1>5, <2>1 DEF Links!Pointers
  <2>3. /\ \A t \in Links!Tag, m \in Node :
             b.head[t][m] = IF t = tag /\ m = n THEN after ELSE gh[t][m]
        /\ b.next = gx /\ b.node = gn
    BY <1>2, <2>1
  <2> QED BY <1>5, <1>6, <2>2, <2>3 DEF b, s, gh, gx, gn
<1>7. CASE k # 1
  <2>1. b = [head |-> gh, next |-> [gx EXCEPT ![tag][s[k - 1]] = after], node |-> gn]
    BY <1>1, <1>4, <1>7
  <2>2. s[k - 1] \in Edge
    BY <1>3, <1>7, ElementOfSeq
  <2>3. b \in Links!Pointers
    BY <1>2, <1>5, <2>1, <2>2 DEF Links!Pointers
  <2>4. /\ \A t \in Links!Tag, f \in Edge :
             b.next[t][f] = IF t = tag /\ f = s[k - 1] THEN after ELSE gx[t][f]
        /\ b.head = gh /\ b.node = gn
    BY <1>2, <2>1
  <2> QED BY <1>5, <1>7, <2>3, <2>4 DEF b, s, gh, gx, gn
<1> QED BY <1>6, <1>7

(* remove_edge<TAG>: the edge is found where it is, and bypassed. *)
LEMMA UnlinkPointers ==
  ASSUME NEW g, Linked(g), NEW tag \in Links!Tag, NEW e \in Edge,
         g.node[tag][e] \in Node
  PROVE  LET h == Links!Unlink(g, tag, e)
             n == g.node[tag][e]
             s == Links!EdgesOf(g, tag, n) IN
         /\ h \in Links!Pointers
         /\ \E k \in 1 .. Len(s) :
              /\ s[k] = e
              /\ \A t \in Links!Tag, m \in Node :
                   h.head[t][m] = IF t = tag /\ m = n /\ k = 1 THEN At(s, k + 1) ELSE g.head[t][m]
              /\ \A t \in Links!Tag, f \in Edge :
                   /\ h.next[t][f] = IF t = tag /\ f = e THEN NoEdge
                                     ELSE IF t = tag /\ k # 1 /\ f = s[k - 1] THEN At(s, k + 1)
                                     ELSE g.next[t][f]
                   /\ h.node[t][f] = IF t = tag /\ f = e THEN NoNode ELSE g.node[t][f]
<1> DEFINE h == Links!Unlink(g, tag, e)
           n == g.node[tag][e]
           s == Links!EdgesOf(g, tag, n)
           places == {i \in DOMAIN s : s[i] = e}
           k == CHOOSE i \in places : \A j \in places : i <= j
           b == Links!Bypass(g, tag, n, k)
<1>1. h = IF places = {} THEN g
          ELSE [b EXCEPT !.next[tag][e] = NoEdge, !.node[tag][e] = NoNode]
  BY Zenon DEF Links!Unlink
<1>n. n \in Node /\ g.node[tag][e] = n
  OBVIOUS
<1> HIDE DEF n
<1>2. k \in 1 .. Len(s) /\ s[k] = e /\ places # {}
  <2>1. IsList(g, tag, n, s) /\ DOMAIN s = 1 .. Len(s)
    BY <1>n, LenProperties DEF Linked, IsList
  <2>2. \E i \in 1 .. Len(s) : s[i] = e
    BY <1>n, <2>1 DEF IsList
  <2> HIDE DEF s
  <2>3. places # {} /\ places \in SUBSET Nat
    BY <2>1, <2>2
  <2>4. \E i \in places : \A j \in places : i <= j
    <3> HIDE DEF places
    <3> QED BY <2>3, LeastElement
  <2>5. k \in places
    <3> HIDE DEF places
    <3> QED BY <2>4, Zenon
  <2> HIDE DEF k
  <2> QED BY <2>1, <2>5
<1> HIDE DEF places, k
<1>3. /\ b \in Links!Pointers
      /\ \A t \in Links!Tag, m \in Node :
           b.head[t][m] = IF t = tag /\ m = n /\ k = 1 THEN At(s, k + 1) ELSE g.head[t][m]
      /\ \A t \in Links!Tag, f \in Edge :
           /\ b.next[t][f] = IF t = tag /\ k # 1 /\ f = s[k - 1] THEN At(s, k + 1)
                             ELSE g.next[t][f]
           /\ b.node[t][f] = g.node[t][f]
  BY <1>n, <1>2, BypassPointers
<1> DEFINE bh == b.head
           bx == b.next
           bn == b.node
<1>4. b = [head |-> bh, next |-> bx, node |-> bn]
  BY <1>3 DEF Links!Pointers
<1>5. /\ bh \in [Links!Tag -> [Node -> Edge \cup {NoEdge}]]
      /\ bx \in [Links!Tag -> [Edge -> Edge \cup {NoEdge}]]
      /\ bn \in [Links!Tag -> [Edge -> Node \cup {NoNode}]]
  BY <1>3 DEF Links!Pointers
<1> HIDE DEF h, s, b, bh, bx, bn
<1>6. h = [head |-> bh, next |-> [bx EXCEPT ![tag][e] = NoEdge],
           node |-> [bn EXCEPT ![tag][e] = NoNode]]
  BY <1>1, <1>2, <1>4
<1>7. h \in Links!Pointers
  BY <1>5, <1>6 DEF Links!Pointers
<1>8. \A t \in Links!Tag, f \in Edge :
        /\ h.next[t][f] = IF t = tag /\ f = e THEN NoEdge ELSE bx[t][f]
        /\ h.node[t][f] = IF t = tag /\ f = e THEN NoNode ELSE bn[t][f]
  BY <1>5, <1>6
<1>9. h.head = bh
  BY <1>6
<1>10. \A t \in Links!Tag, m \in Node :
         h.head[t][m] = IF t = tag /\ m = n /\ k = 1 THEN At(s, k + 1) ELSE g.head[t][m]
  BY <1>3, <1>9 DEF bh
<1>11. \A t \in Links!Tag, f \in Edge :
         /\ h.next[t][f] = IF t = tag /\ f = e THEN NoEdge
                           ELSE IF t = tag /\ k # 1 /\ f = s[k - 1] THEN At(s, k + 1)
                           ELSE g.next[t][f]
         /\ h.node[t][f] = IF t = tag /\ f = e THEN NoNode ELSE g.node[t][f]
  BY <1>3, <1>8 DEF bx, bn
<1> QED BY <1>2, <1>7, <1>10, <1>11 DEF h, s, n

(* The list s without its k-th edge. *)
Without(s, k) == [i \in 1 .. Len(s) - 1 |-> IF i < k THEN s[i] ELSE s[i + 1]]

LEMMA WithoutProperties ==
  ASSUME NEW s \in Seq(Edge), NEW k \in 1 .. Len(s)
  PROVE  /\ Without(s, k) \in Seq(Edge) /\ Len(Without(s, k)) = Len(s) - 1
         /\ \A i \in 1 .. Len(s) - 1 : Without(s, k)[i] = IF i < k THEN s[i] ELSE s[i + 1]
<1>1. Len(s) \in Nat /\ Len(s) - 1 \in Nat /\ \A i \in 1 .. Len(s) : s[i] \in Edge
  BY LenProperties, ElementOfSeq
<1>2. \A i \in 1 .. Len(s) - 1 : (IF i < k THEN s[i] ELSE s[i + 1]) \in Edge
  BY <1>1
<1>3. Without(s, k) \in [1 .. Len(s) - 1 -> Edge]
  BY <1>2 DEF Without
<1>4. Without(s, k) \in Seq(Edge) /\ Len(Without(s, k)) = Len(s) - 1
  BY <1>1, <1>3, FunctionSeq
<1> QED BY <1>4 DEF Without

(* remove_edge<TAG>: e leaves the list of its node; no other list changes. *)
LEMMA UnlinkStep ==
  ASSUME NEW g, Linked(g), NEW tag \in Links!Tag, NEW e \in Edge, g.node[tag][e] \in Node
  PROVE  LET h == Links!Unlink(g, tag, e)
             n == g.node[tag][e]
             s == Links!EdgesOf(g, tag, n) IN
         /\ Linked(h)
         /\ \E k \in 1 .. Len(s) : s[k] = e /\ Links!EdgesOf(h, tag, n) = Without(s, k)
         /\ \A t \in Links!Tag, m \in Node :
              ~ (t = tag /\ m = n) => Links!EdgesOf(h, t, m) = Links!EdgesOf(g, t, m)
         /\ \A t \in Links!Tag, f \in Edge :
              /\ h.node[t][f] = IF t = tag /\ f = e THEN NoNode ELSE g.node[t][f]
              /\ t = tag /\ f = e => h.next[t][f] = NoEdge
              /\ ~ (t = tag /\ g.node[t][f] = n) => h.next[t][f] = g.next[t][f]
<1> DEFINE h == Links!Unlink(g, tag, e)
           n == g.node[tag][e]
           s == Links!EdgesOf(g, tag, n)
<1>1. PICK k \in 1 .. Len(s) :
        /\ s[k] = e
        /\ \A t \in Links!Tag, m \in Node :
             h.head[t][m] = IF t = tag /\ m = n /\ k = 1 THEN At(s, k + 1) ELSE g.head[t][m]
        /\ \A t \in Links!Tag, f \in Edge :
             /\ h.next[t][f] = IF t = tag /\ f = e THEN NoEdge
                               ELSE IF t = tag /\ k # 1 /\ f = s[k - 1] THEN At(s, k + 1)
                               ELSE g.next[t][f]
             /\ h.node[t][f] = IF t = tag /\ f = e THEN NoNode ELSE g.node[t][f]
  BY UnlinkPointers
<1>2. h \in Links!Pointers /\ n \in Node /\ g.node[tag][e] = n
  BY UnlinkPointers
<1> DEFINE r == Without(s, k)
<1> HIDE DEF h, n, s
<1>3. IsList(g, tag, n, s) /\ s \in Seq(Edge) /\ Len(s) \in Nat
  BY <1>2, LenProperties DEF Linked, IsList, s
<1>4. /\ r \in Seq(Edge) /\ Len(r) = Len(s) - 1
      /\ \A i \in 1 .. Len(s) - 1 : r[i] = IF i < k THEN s[i] ELSE s[i + 1]
  BY <1>3, WithoutProperties
<1> HIDE DEF r
<1>5. \A i \in 1 .. Len(s) : s[i] \in Edge /\ g.node[tag][s[i]] = n /\ (s[i] = e => i = k)
  BY <1>1, <1>3, ElementOfSeq DEF IsList
<1>6. IsList(h, tag, n, r)
  <2>1. h.head[tag][n] = At(r, 1)
    <3>1. CASE k = 1
      BY <1>1, <1>2, <1>3, <1>4, <3>1 DEF At
    <3>2. CASE k # 1
      <4>1. h.head[tag][n] = At(s, 1)
        BY <1>1, <1>2, <1>3, <3>2 DEF IsList
      <4> QED BY <1>3, <1>4, <3>2, <4>1 DEF At
    <3> QED BY <3>1, <3>2
  <2>2. ASSUME NEW i \in 1 .. Len(r)
        PROVE  h.next[tag][r[i]] = At(r, i + 1)
    <3>1. i \in 1 .. Len(s) - 1 /\ i \in 1 .. Len(s) /\ i + 1 \in 1 .. Len(s) /\ i \in Nat
      BY <1>3, <1>4
    <3>2. CASE i < k - 1
      <4>1. r[i] = s[i] /\ s[i] # e /\ s[i] # s[k - 1] /\ s[i] \in Edge
        BY <1>3, <1>4, <1>5, <3>1, <3>2 DEF IsList
      <4>2. h.next[tag][r[i]] = At(s, i + 1)
        <5>1. h.next[tag][s[i]] = g.next[tag][s[i]]
          BY <1>1, <4>1
        <5>2. g.next[tag][s[i]] = At(s, i + 1)
          BY <1>3, <3>1 DEF IsList
        <5> QED BY <4>1, <5>1, <5>2
      <4>3. At(r, i + 1) = At(s, i + 1)
        BY <1>3, <1>4, <3>1, <3>2 DEF At
      <4> QED BY <4>2, <4>3
    <3>3. CASE i = k - 1
      <4>1. r[i] = s[k - 1] /\ s[i] # e /\ s[i] \in Edge /\ k # 1
        BY <1>4, <1>5, <3>1, <3>3
      <4>2. h.next[tag][r[i]] = At(s, k + 1)
        BY <1>1, <3>3, <4>1
      <4>3. At(r, i + 1) = At(s, k + 1)
        BY <1>3, <1>4, <3>1, <3>3 DEF At
      <4> QED BY <4>2, <4>3
    <3>4. CASE i >= k
      <4>1. r[i] = s[i + 1] /\ s[i + 1] # e /\ s[i + 1] \in Edge
        BY <1>3, <1>4, <1>5, <3>1, <3>4
      <4>2. k # 1 => s[i + 1] # s[k - 1]
        BY <1>3, <3>1, <3>4 DEF IsList
      <4>3. h.next[tag][r[i]] = At(s, i + 1 + 1)
        <5>1. h.next[tag][s[i + 1]] = g.next[tag][s[i + 1]]
          BY <1>1, <4>1, <4>2
        <5>2. g.next[tag][s[i + 1]] = At(s, i + 1 + 1)
          BY <1>3, <3>1 DEF IsList
        <5> QED BY <4>1, <5>1, <5>2
      <4>4. At(r, i + 1) = At(s, i + 1 + 1)
        BY <1>3, <1>4, <3>1, <3>4 DEF At
      <4> QED BY <4>3, <4>4
    <3> QED BY <3>1, <3>2, <3>3, <3>4
  <2> DEFINE place(i) == IF i < k THEN i ELSE i + 1
  <2>3. \A i \in 1 .. Len(r) : /\ place(i) \in 1 .. Len(s) /\ place(i) # k
                               /\ r[i] = s[place(i)]
    BY <1>3, <1>4
  <2>4. ASSUME NEW i \in 1 .. Len(r), NEW j \in 1 .. Len(r), r[i] = r[j]
        PROVE  i = j
    <3>1. place(i) = place(j)
      <4> HIDE DEF place
      <4>1. \A a, b \in 1 .. Len(s) : s[a] = s[b] => a = b
        BY <1>3 DEF IsList
      <4>2. /\ place(i) \in 1 .. Len(s) /\ r[i] = s[place(i)]
            /\ place(j) \in 1 .. Len(s) /\ r[j] = s[place(j)]
        BY <2>3
      <4> QED BY <2>4, <4>1, <4>2
    <3>2. i \in Nat /\ j \in Nat
      BY <1>3, <1>4
    <3>3. place(i) # k /\ place(j) # k
      BY <2>3
    <3> QED BY <3>1, <3>2, <3>3
  <2>5. ASSUME NEW f \in Edge
        PROVE  h.node[tag][f] = n <=> \E i \in 1 .. Len(r) : r[i] = f
    <3>1. CASE f = e
      <4>1. h.node[tag][f] # n
        BY <1>1, <1>2, <3>1, NullAssumption
      <4>2. \A i \in 1 .. Len(r) : r[i] # e
        <5> HIDE DEF place
        <5> QED BY <1>5, <2>3
      <4> QED BY <3>1, <4>1, <4>2
    <3>2. CASE f # e
      <4>1. h.node[tag][f] = n <=> \E i \in 1 .. Len(s) : s[i] = f
        BY <1>1, <1>3, <3>2 DEF IsList
      <4>2. ASSUME NEW i \in 1 .. Len(s), s[i] = f
            PROVE  \E j \in 1 .. Len(r) : r[j] = f
        <5>1. i # k
          BY <1>1, <3>2, <4>2
        <5>2. CASE i < k
          <6>1. i \in 1 .. Len(r) /\ r[i] = s[i]
            BY <1>3, <1>4, <5>2
          <6> QED BY <4>2, <6>1
        <5>3. CASE i > k
          <6>1. i - 1 \in 1 .. Len(r) /\ r[i - 1] = s[i]
            BY <1>3, <1>4, <5>3
          <6> QED BY <4>2, <6>1
        <5> QED BY <5>1, <5>2, <5>3
      <4>3. ASSUME NEW j \in 1 .. Len(r), r[j] = f
            PROVE  \E i \in 1 .. Len(s) : s[i] = f
        BY <2>3, <4>3
      <4> QED BY <4>1, <4>2, <4>3
    <3> QED BY <3>1, <3>2
  <2> QED BY <1>4, <2>1, <2>2, <2>4, <2>5 DEF IsList
<1>7. ASSUME NEW t \in Links!Tag, NEW m \in Node, ~ (t = tag /\ m = n)
      PROVE  IsList(h, t, m, Links!EdgesOf(g, t, m))
  <2>1. IsList(g, t, m, Links!EdgesOf(g, t, m)) /\ h.head[t][m] = g.head[t][m]
    BY <1>1, <1>7 DEF Linked
  <2>2. ASSUME NEW f \in Edge
        PROVE  /\ g.node[t][f] = m => h.next[t][f] = g.next[t][f]
               /\ h.node[t][f] = m <=> g.node[t][f] = m
    <3>1. k # 1 => k - 1 \in 1 .. Len(s)
      BY <1>3
    <3>2. t = tag /\ g.node[t][f] = m => f # e /\ (k # 1 => f # s[k - 1])
      BY <1>2, <1>5, <1>7, <3>1
    <3> QED BY <1>1, <1>2, <1>7, <3>2, NullAssumption
  <2> QED BY <2>1, <2>2, SameList
<1>8. Links!EdgesOf(h, tag, n) = r
  BY <1>2, <1>6, ListMet
<1>9. \A t \in Links!Tag, m \in Node :
        ~ (t = tag /\ m = n) => Links!EdgesOf(h, t, m) = Links!EdgesOf(g, t, m)
  BY <1>2, <1>7, ListMet
<1>10. Linked(h)
  BY <1>2, <1>6, <1>7, <1>8, <1>9 DEF Linked
<1>11. ASSUME NEW t \in Links!Tag, NEW f \in Edge
       PROVE  /\ h.node[t][f] = IF t = tag /\ f = e THEN NoNode ELSE g.node[t][f]
              /\ t = tag /\ f = e => h.next[t][f] = NoEdge
              /\ ~ (t = tag /\ g.node[t][f] = n) => h.next[t][f] = g.next[t][f]
  <2>1. k # 1 => k - 1 \in 1 .. Len(s) /\ g.node[tag][s[k - 1]] = n
    BY <1>3, <1>5
  <2> QED BY <1>1, <1>2, <2>1
<1> QED BY <1>1, <1>8, <1>9, <1>10, <1>11 DEF h, n, s, r

LEMMA TagCases ==
  /\ "incoming" \in Links!Tag /\ "outgoing" \in Links!Tag /\ "incoming" # "outgoing"
  /\ \A t \in Links!Tag : t = "incoming" \/ t = "outgoing"
BY DEF Links!Tag

(* A well-formed graph between two operations. *)
WellFormed(g) == Linked(g) /\ ConnectedTwice(g)

(* remove_edge: e leaves the lists of both its ends. *)
LEMMA DisconnectStep ==
  ASSUME NEW g, WellFormed(g), NEW tag \in Links!Tag, NEW e \in Edge, g.node[tag][e] \in Node
  PROVE  LET h == Links!Disconnect(g, e)
             n == g.node[tag][e]
             s == Links!EdgesOf(g, tag, n) IN
         /\ WellFormed(h)
         /\ \E k \in 1 .. Len(s) : s[k] = e /\ Links!EdgesOf(h, tag, n) = Without(s, k)
         /\ \A t \in Links!Tag, f \in Edge :
              h.node[t][f] = IF f = e THEN NoNode ELSE g.node[t][f]
<1> DEFINE u == Links!Unlink(g, "incoming", e)
           h == Links!Unlink(u, "outgoing", e)
           n == g.node[tag][e]
           s == Links!EdgesOf(g, tag, n)
           ni == g.node["incoming"][e]
           no == g.node["outgoing"][e]
<1>1. Linked(g) /\ ni \in Node /\ no \in Node /\ n \in Node
  <2>1. \A t \in Links!Tag : g.node[t][e] \in Node \cup {NoNode}
    BY PointersType DEF WellFormed, Linked
  <2>2. g.node["incoming"][e] = NoNode <=> g.node["outgoing"][e] = NoNode
    BY DEF WellFormed, ConnectedTwice
  <2>3. g.node["incoming"][e] # NoNode \/ g.node["outgoing"][e] # NoNode
    BY TagCases, NullAssumption
  <2> QED BY <2>1, <2>2, <2>3, TagCases DEF WellFormed
<1>2. /\ Linked(u)
      /\ \E k \in 1 .. Len(Links!EdgesOf(g, "incoming", ni)) :
           /\ Links!EdgesOf(g, "incoming", ni)[k] = e
           /\ Links!EdgesOf(u, "incoming", ni) = Without(Links!EdgesOf(g, "incoming", ni), k)
      /\ \A t \in Links!Tag, m \in Node :
           ~ (t = "incoming" /\ m = ni) => Links!EdgesOf(u, t, m) = Links!EdgesOf(g, t, m)
      /\ \A t \in Links!Tag, f \in Edge :
           /\ u.node[t][f] = IF t = "incoming" /\ f = e THEN NoNode ELSE g.node[t][f]
           /\ t = "incoming" /\ f = e => u.next[t][f] = NoEdge
           /\ ~ (t = "incoming" /\ g.node[t][f] = ni) => u.next[t][f] = g.next[t][f]
  BY <1>1, TagCases, UnlinkStep
<1>3. u.node["outgoing"][e] = no
  BY <1>2, TagCases
<1> HIDE DEF u
<1>4. /\ Linked(h)
      /\ \E k \in 1 .. Len(Links!EdgesOf(u, "outgoing", no)) :
           /\ Links!EdgesOf(u, "outgoing", no)[k] = e
           /\ Links!EdgesOf(h, "outgoing", no) = Without(Links!EdgesOf(u, "outgoing", no), k)
      /\ \A t \in Links!Tag, m \in Node :
           ~ (t = "outgoing" /\ m = no) => Links!EdgesOf(h, t, m) = Links!EdgesOf(u, t, m)
      /\ \A t \in Links!Tag, f \in Edge :
           /\ h.node[t][f] = IF t = "outgoing" /\ f = e THEN NoNode ELSE u.node[t][f]
           /\ t = "outgoing" /\ f = e => h.next[t][f] = NoEdge
           /\ ~ (t = "outgoing" /\ u.node[t][f] = no) => h.next[t][f] = u.next[t][f]
  <2> HIDE DEF h, no
  <2>1. u.node["outgoing"][e] \in Node
    BY <1>1, <1>3
  <2> QED BY <1>2, <1>3, <2>1, TagCases, UnlinkStep DEF h
<1> HIDE DEF h, ni, no, n, s
<1>5. \A t \in Links!Tag, f \in Edge :
        h.node[t][f] = IF f = e THEN NoNode ELSE g.node[t][f]
  BY <1>2, <1>4, TagCases
<1>6. \A t \in Links!Tag : h.next[t][e] = NoEdge
  <2>1. h.next["outgoing"][e] = NoEdge
    BY <1>4, TagCases
  <2>2. h.next["incoming"][e] = NoEdge
    BY <1>2, <1>4, TagCases
  <2> QED BY <2>1, <2>2, TagCases
<1>7. ASSUME NEW f \in Edge, f # e, NEW t \in Links!Tag, g.node["incoming"][f] = NoNode
      PROVE  h.next[t][f] = NoEdge
  <2>1. g.node["outgoing"][f] = NoNode /\ g.next[t][f] = NoEdge
    BY <1>7 DEF WellFormed, ConnectedTwice
  <2>2. ni # NoNode /\ no # NoNode
    BY <1>1, NullAssumption
  <2>3. u.node["outgoing"][f] = NoNode
    BY <1>2, <2>1, TagCases
  <2>4. u.next[t][f] = g.next[t][f]
    BY <1>2, <1>7, <2>2
  <2>5. h.next[t][f] = u.next[t][f]
    BY <1>4, <2>2, <2>3
  <2> QED BY <2>1, <2>4, <2>5
<1>8. ConnectedTwice(h)
  <2> SUFFICES ASSUME NEW f \in Edge
               PROVE  /\ h.node["incoming"][f] = NoNode <=> h.node["outgoing"][f] = NoNode
                      /\ h.node["incoming"][f] = NoNode => \A t \in Links!Tag : h.next[t][f] = NoEdge
    BY Zenon DEF ConnectedTwice
  <2>1. g.node["incoming"][f] = NoNode <=> g.node["outgoing"][f] = NoNode
    BY DEF WellFormed, ConnectedTwice
  <2>2. h.node["incoming"][f] = IF f = e THEN NoNode ELSE g.node["incoming"][f]
    BY <1>5, TagCases
  <2>3. h.node["outgoing"][f] = IF f = e THEN NoNode ELSE g.node["outgoing"][f]
    BY <1>5, TagCases
  <2> QED BY <1>6, <1>7, <2>1, <2>2, <2>3
<1>9. \E k \in 1 .. Len(s) : s[k] = e /\ Links!EdgesOf(h, tag, n) = Without(s, k)
  <2>1. CASE tag = "incoming"
    <3>1. n = ni /\ s = Links!EdgesOf(g, "incoming", ni)
      BY <2>1 DEF n, s, ni
    <3>2. Links!EdgesOf(h, tag, n) = Links!EdgesOf(u, "incoming", ni)
      BY <1>1, <1>4, <2>1, <3>1, TagCases
    <3> QED BY <1>2, <3>1, <3>2
  <2>2. CASE tag = "outgoing"
    <3>1. n = no /\ s = Links!EdgesOf(g, "outgoing", no)
      BY <2>2 DEF n, s, no
    <3>2. Links!EdgesOf(u, "outgoing", no) = s
      BY <1>1, <1>2, <3>1, TagCases
    <3> QED BY <1>4, <2>2, <3>1, <3>2
  <2> QED BY <2>1, <2>2, TagCases
<1>10. h = Links!Disconnect(g, e)
  BY DEF h, u, Links!Disconnect
<1> QED BY <1>4, <1>5, <1>8, <1>9, <1>10 DEF WellFormed, s, n

(* The states of the loop over a list whose edges are unlinked one by one: *)
(* the iterator stands on the first edge that is left.                     *)
LoopStates(tag, n) ==
  {p \in [graph : Links!Pointers, edge : Edge \cup {NoEdge}] :
     WellFormed(p.graph) /\ p.edge = p.graph.head[tag][n]}

DisconnectLap(p, tag) ==
  [graph |-> Links!Disconnect(p.graph, p.edge), edge |-> p.graph.next[tag][p.edge]]

DisconnectLoop(at, g, tag, n) ==
  at = [k \in 0 .. Laps |->
          IF k = 0 THEN [graph |-> g, edge |-> g.head[tag][n]]
          ELSE IF at[k - 1].edge = NoEdge THEN at[k - 1] ELSE DisconnectLap(at[k - 1], tag)]

LEMMA DisconnectLapStep ==
  ASSUME NEW tag \in Links!Tag, NEW n \in Node, NEW p \in LoopStates(tag, n), p.edge # NoEdge
  PROVE  LET q == DisconnectLap(p, tag)
             s == Links!EdgesOf(p.graph, tag, n) IN
         /\ q \in LoopStates(tag, n)
         /\ Len(s) > 0 /\ Len(Links!EdgesOf(q.graph, tag, n)) = Len(s) - 1
         /\ \A t \in Links!Tag, f \in Edge :
              q.graph.node[t][f] = IF f = p.edge THEN NoNode ELSE p.graph.node[t][f]
         /\ p.graph.node[tag][p.edge] = n
<1> DEFINE g == p.graph
           e == p.edge
           h == Links!Disconnect(g, e)
           q == DisconnectLap(p, tag)
           s == Links!EdgesOf(g, tag, n)
<1>1. WellFormed(g) /\ Linked(g) /\ e = g.head[tag][n] /\ e \in Edge
  BY DEF LoopStates, WellFormed
<1>2. IsList(g, tag, n, s) /\ s \in Seq(Edge) /\ Len(s) \in Nat
  BY <1>1, LenProperties DEF Linked, IsList
<1> HIDE DEF g, e, h, s
<1>3. 1 \in 1 .. Len(s) /\ s[1] = e /\ g.node[tag][e] = n
  <2>1. e = At(s, 1) /\ e # NoEdge
    BY <1>1, <1>2 DEF IsList, e
  <2>2. 1 \in 1 .. Len(s) /\ s[1] = e
    BY <2>1 DEF At
  <2> QED BY <1>1, <1>2, <2>2 DEF IsList
<1>4. /\ WellFormed(h)
      /\ \E k \in 1 .. Len(s) : s[k] = e /\ Links!EdgesOf(h, tag, n) = Without(s, k)
      /\ \A t \in Links!Tag, f \in Edge :
           h.node[t][f] = IF f = e THEN NoNode ELSE g.node[t][f]
  BY <1>1, <1>3, DisconnectStep DEF h, s
<1>5. Links!EdgesOf(h, tag, n) = Without(s, 1)
  BY <1>2, <1>3, <1>4 DEF IsList
<1>6. /\ Len(Without(s, 1)) = Len(s) - 1
      /\ \A i \in 1 .. Len(s) - 1 : Without(s, 1)[i] = s[i + 1]
  <2>1. /\ Len(Without(s, 1)) = Len(s) - 1
        /\ \A i \in 1 .. Len(s) - 1 : Without(s, 1)[i] = IF i < 1 THEN s[i] ELSE s[i + 1]
    BY <1>2, <1>3, WithoutProperties
  <2> QED BY <1>2, <2>1
<1>7. h.head[tag][n] = g.next[tag][e]
  <2>1. h.head[tag][n] = At(Without(s, 1), 1)
    BY <1>4, <1>5 DEF WellFormed, Linked, IsList
  <2>2. g.next[tag][e] = At(s, 2)
    BY <1>2, <1>3 DEF IsList
  <2>3. At(Without(s, 1), 1) = At(s, 2)
    BY <1>2, <1>6 DEF At
  <2> QED BY <2>1, <2>2, <2>3
<1>8. q = [graph |-> h, edge |-> g.next[tag][e]]
  BY DEF DisconnectLap, h, g, e
<1>9. q \in LoopStates(tag, n)
  <2>1. h \in Links!Pointers /\ g.next[tag][e] \in Edge \cup {NoEdge}
    BY <1>1, <1>4, PointersType DEF WellFormed, Linked
  <2> QED BY <1>4, <1>7, <1>8, <2>1 DEF LoopStates
<1>10. q.graph = h
  BY <1>8
<1> QED BY <1>3, <1>2, <1>4, <1>5, <1>6, <1>9, <1>10 DEF g, e, s

(* The loop of remove_edges over one list leaves no edge in it, and only   *)
(* its edges have gone.                                                    *)
LEMMA DisconnectListStep ==
  ASSUME NEW g, WellFormed(g), NEW tag \in Links!Tag, NEW n \in Node
  PROVE  LET h == Links!DisconnectList(g, tag, n) IN
         /\ WellFormed(h)
         /\ \A t \in Links!Tag, f \in Edge :
              h.node[t][f] = IF g.node[tag][f] = n THEN NoNode ELSE g.node[t][f]
<1> DEFINE S == LoopStates(tag, n)
           x == [graph |-> g, edge |-> g.head[tag][n]]
           Lap(p) == IF p.edge = NoEdge THEN p ELSE DisconnectLap(p, tag)
           F == [k \in 1 .. Laps |-> [p \in S |-> Lap(p)]]
           at == CHOOSE f : DisconnectLoop(f, g, tag, n)
<1>1. x \in S /\ g \in Links!Pointers
  BY PointersType DEF LoopStates, WellFormed, Linked
<1>2. \A p \in S : Lap(p) \in S
  BY DisconnectLapStep
<1>3. \E f : DisconnectLoop(f, g, tag, n)
  <2>1. \A k \in 1 .. Laps, p \in S : F[k][p] = Lap(p) /\ F[k][p] \in S
    BY <1>2
  <2> HIDE DEF S, x, F, Lap
  <2>2. \A k \in 1 .. Laps, p \in S : F[k][p] \in S
    BY <2>1
  <2>3. PICK f : Iterates(f, Laps, x, F) /\ \A k \in 0 .. Laps : f[k] \in S
    BY <1>1, <2>2, LapsType, IterationExists, Zenon
  <2>4. ASSUME NEW k \in 0 .. Laps
        PROVE  f[k] = IF k = 0 THEN x ELSE Lap(f[k - 1])
    <3>1. CASE k = 0
      BY <2>3, <3>1 DEF Iterates
    <3>2. CASE k # 0
      <4>1. k \in 1 .. Laps /\ k - 1 \in 0 .. Laps
        BY <3>2, LapsType
      <4>2. f[k] = F[k][f[k - 1]]
        BY <2>3, <3>2 DEF Iterates
      <4> QED BY <2>1, <2>3, <3>2, <4>1, <4>2
    <3> QED BY <3>1, <3>2
  <2>5. f = [k \in 0 .. Laps |-> f[k]]
    BY <2>3 DEF Iterates
  <2>6. f = [k \in 0 .. Laps |-> IF k = 0 THEN x ELSE Lap(f[k - 1])]
    BY <2>4, <2>5, Zenon
  <2> QED BY <2>6, Zenon DEF DisconnectLoop, x, Lap
<1>4. DisconnectLoop(at, g, tag, n)
  BY <1>3, Zenon
<1>5. Links!DisconnectList(g, tag, n) = at[Laps].graph
  BY Zenon DEF Links!DisconnectList, DisconnectLoop, DisconnectLap, Laps
<1> HIDE DEF at, F
<1>6. at[0] = x /\ \A k \in 1 .. Laps : at[k] = Lap(at[k - 1])
  BY <1>4, LapsType DEF DisconnectLoop
<1> DEFINE s(k) == Links!EdgesOf(at[k].graph, tag, n)
           Inv(k) == /\ at[k] \in S
                     /\ Len(s(k)) <= Laps - k
                     /\ \A t \in Links!Tag, f \in Edge :
                          \/ at[k].graph.node[t][f] = g.node[t][f]
                          \/ at[k].graph.node[t][f] = NoNode /\ g.node[tag][f] = n
           T == {k \in 0 .. Laps : Inv(k)}
<1>7. 0 \in T
  <2>1. at[0].graph = g /\ at[0] \in S
    BY <1>1, <1>6
  <2>2. Len(s(0)) <= Laps
    <3>1. IsList(g, tag, n, Links!EdgesOf(g, tag, n))
      BY DEF WellFormed, Linked
    <3>2. Len(Links!EdgesOf(g, tag, n)) \in 0 .. Laps
      BY <3>1, ListLength DEF IsList
    <3> QED BY <2>1, <3>2, LapsType
  <2> QED BY <2>1, <2>2, LapsType
<1>8. ASSUME NEW k \in 1 .. Laps, k - 1 \in T
      PROVE  k \in T
  <2> DEFINE p == at[k - 1]
  <2>1. Inv(k - 1) /\ at[k] = Lap(p) /\ k \in 0 .. Laps /\ k \in Int /\ Laps \in Int
    BY <1>6, <1>8, LapsType
  <2>2. p \in S /\ Len(s(k - 1)) <= Laps - (k - 1)
        /\ \A t \in Links!Tag, f \in Edge :
             \/ p.graph.node[t][f] = g.node[t][f]
             \/ p.graph.node[t][f] = NoNode /\ g.node[tag][f] = n
    BY <2>1
  <2>3. IsList(p.graph, tag, n, s(k - 1)) /\ Len(s(k - 1)) \in Nat
    BY <2>2, LenProperties DEF LoopStates, WellFormed, Linked, IsList
  <2>4. CASE p.edge = NoEdge
    <3>1. at[k] = p
      BY <2>1, <2>4
    <3>2. Len(s(k - 1)) = 0
      <4>1. At(s(k - 1), 1) = NoEdge /\ s(k - 1) \in Seq(Edge)
        BY <2>2, <2>3, <2>4 DEF IsList, LoopStates
      <4>2. 1 \notin 1 .. Len(s(k - 1))
        BY <4>1, AtType
      <4> QED BY <2>3, <4>2
    <3>3. Len(s(k)) = 0
      BY <3>1, <3>2
    <3>4. Inv(k)
      BY <2>1, <2>2, <3>1, <3>3
    <3> QED BY <2>1, <3>4
  <2>5. CASE p.edge # NoEdge
    <3>1. at[k] = DisconnectLap(p, tag)
      BY <2>1, <2>5
    <3>2. /\ at[k] \in S
          /\ Len(s(k)) = Len(s(k - 1)) - 1
          /\ \A t \in Links!Tag, f \in Edge :
               at[k].graph.node[t][f] = IF f = p.edge THEN NoNode ELSE p.graph.node[t][f]
          /\ p.graph.node[tag][p.edge] = n
      BY <2>2, <2>5, <3>1, DisconnectLapStep
    <3>3. Len(s(k)) <= Laps - k
      BY <2>1, <2>2, <2>3, <3>2
    <3>4. p.edge \in Edge => g.node[tag][p.edge] = n
      BY <2>2, <3>2, NullAssumption
    <3>5. \A t \in Links!Tag, f \in Edge :
             \/ at[k].graph.node[t][f] = g.node[t][f]
             \/ at[k].graph.node[t][f] = NoNode /\ g.node[tag][f] = n
      BY <2>2, <3>2, <3>4
    <3>6. Inv(k)
      BY <3>2, <3>3, <3>5
    <3> QED BY <2>1, <3>6
  <2> QED BY <2>4, <2>5
<1>9. Inv(Laps)
  <2> HIDE DEF T
  <2>1. 0 .. Laps \subseteq T
    BY <1>7, <1>8, LapsType, Induction
  <2> QED BY <2>1, LapsType DEF T
<1> DEFINE h == at[Laps].graph
<1>10. WellFormed(h)
  BY <1>9 DEF LoopStates
<1>11. \A f \in Edge : h.node[tag][f] # n
  <2>1. IsList(h, tag, n, s(Laps)) /\ Len(s(Laps)) \in Nat
    BY <1>10, LenProperties DEF WellFormed, Linked, IsList
  <2>2. Len(s(Laps)) = 0
    BY <1>9, <2>1, LapsType
  <2> QED BY <2>1, <2>2 DEF IsList
<1>12. ASSUME NEW t \in Links!Tag, NEW f \in Edge
       PROVE  h.node[t][f] = IF g.node[tag][f] = n THEN NoNode ELSE g.node[t][f]
  <2>1. \A r \in Links!Tag : \/ h.node[r][f] = g.node[r][f]
                             \/ h.node[r][f] = NoNode /\ g.node[tag][f] = n
    BY <1>9
  <2>2. CASE g.node[tag][f] # n
    BY <2>1, <2>2
  <2>3. CASE g.node[tag][f] = n
    <3>1. h.node[tag][f] = NoNode
      BY <1>11, <2>1, <2>3
    <3>2. h.node["incoming"][f] = NoNode <=> h.node["outgoing"][f] = NoNode
      BY <1>10 DEF WellFormed, ConnectedTwice
    <3> QED BY <2>3, <3>1, <3>2, TagCases
  <2> QED BY <2>2, <2>3
<1> QED BY <1>5, <1>10, <1>12

(* remove_edges: exactly the edges of n, in both directions, are gone. *)
Touches(g, n, f) == g.node["outgoing"][f] = n \/ g.node["incoming"][f] = n

LEMMA DisconnectNodeStep ==
  ASSUME NEW g, WellFormed(g), NEW n \in Node
  PROVE  LET h == Links!DisconnectNode(g, n) IN
         /\ WellFormed(h)
         /\ \A t \in Links!Tag, f \in Edge :
              h.node[t][f] = IF Touches(g, n, f) THEN NoNode ELSE g.node[t][f]
<1> DEFINE u == Links!DisconnectList(g, "outgoing", n)
           h == Links!DisconnectList(u, "incoming", n)
<1>1. /\ WellFormed(u)
      /\ \A t \in Links!Tag, f \in Edge :
           u.node[t][f] = IF g.node["outgoing"][f] = n THEN NoNode ELSE g.node[t][f]
  BY TagCases, DisconnectListStep
<1> HIDE DEF u
<1>2. /\ WellFormed(h)
      /\ \A t \in Links!Tag, f \in Edge :
           h.node[t][f] = IF u.node["incoming"][f] = n THEN NoNode ELSE u.node[t][f]
  BY <1>1, TagCases, DisconnectListStep
<1> HIDE DEF h
<1>3. \A t \in Links!Tag, f \in Edge :
        h.node[t][f] = IF Touches(g, n, f) THEN NoNode ELSE g.node[t][f]
  BY <1>1, <1>2, TagCases, NullAssumption DEF Touches
<1>4. h = Links!DisconnectNode(g, n)
  BY DEF h, u, Links!DisconnectNode
<1> QED BY <1>2, <1>3, <1>4

DisconnectRun(at, g, range) ==
  at = [k \in 0 .. Len(range) |->
          IF k = 0 THEN g ELSE Links!DisconnectNode(at[k - 1], range[k])]

(* clear: exactly the edges of the nodes of the range are gone. *)
LEMMA DisconnectedAllStep ==
  ASSUME NEW g, WellFormed(g), NEW range, Len(range) \in Nat,
         \A k \in 1 .. Len(range) : range[k] \in Node
  PROVE  LET h == Links!DisconnectedAll(g, range) IN
         /\ WellFormed(h)
         /\ \A t \in Links!Tag, f \in Edge :
              h.node[t][f] = IF \E k \in 1 .. Len(range) : Touches(g, range[k], f)
                             THEN NoNode ELSE g.node[t][f]
<1> DEFINE N == Len(range)
           S == {h \in Links!Pointers : WellFormed(h)}
           F == [k \in 1 .. N |-> [h \in S |-> Links!DisconnectNode(h, range[k])]]
           at == CHOOSE f : DisconnectRun(f, g, range)
<1>1. g \in S /\ N \in Nat
  BY DEF WellFormed, Linked
<1>2. \A k \in 1 .. N, h \in S : Links!DisconnectNode(h, range[k]) \in S
  BY DisconnectNodeStep DEF WellFormed, Linked
<1>3. \E f : DisconnectRun(f, g, range)
  <2>1. \A k \in 1 .. N, h \in S :
          F[k][h] = Links!DisconnectNode(h, range[k]) /\ F[k][h] \in S
    BY <1>2
  <2> HIDE DEF S, F
  <2>2. \A k \in 1 .. N, h \in S : F[k][h] \in S
    BY <2>1
  <2>3. PICK f : Iterates(f, N, g, F) /\ \A k \in 0 .. N : f[k] \in S
    <3> HIDE DEF N
    <3> QED BY <1>1, <2>2, IterationExists, Zenon
  <2>4. ASSUME NEW k \in 0 .. N
        PROVE  f[k] = IF k = 0 THEN g ELSE Links!DisconnectNode(f[k - 1], range[k])
    <3>1. CASE k = 0
      BY <2>3, <3>1 DEF Iterates
    <3>2. CASE k # 0
      <4>1. k \in 1 .. N /\ k - 1 \in 0 .. N
        BY <1>1, <3>2
      <4>2. f[k] = F[k][f[k - 1]]
        BY <2>3, <3>2 DEF Iterates
      <4> QED BY <2>1, <2>3, <3>2, <4>1, <4>2
    <3> QED BY <3>1, <3>2
  <2>5. f = [k \in 0 .. N |-> f[k]]
    BY <2>3 DEF Iterates
  <2>6. f = [k \in 0 .. N |-> IF k = 0 THEN g ELSE Links!DisconnectNode(f[k - 1], range[k])]
    BY <2>4, <2>5, Zenon
  <2> QED BY <2>6, Zenon DEF DisconnectRun
<1>4. DisconnectRun(at, g, range)
  BY <1>3, Zenon
<1>5. Links!DisconnectedAll(g, range) = at[N]
  BY Zenon DEF Links!DisconnectedAll, DisconnectRun
<1> HIDE DEF at, F
<1>6. at[0] = g /\ \A k \in 1 .. N : at[k] = Links!DisconnectNode(at[k - 1], range[k])
  BY <1>1, <1>4 DEF DisconnectRun
<1> DEFINE Inv(k) == /\ WellFormed(at[k])
                     /\ \A t \in Links!Tag, f \in Edge :
                          at[k].node[t][f] =
                            IF \E j \in 1 .. k : Touches(g, range[j], f)
                            THEN NoNode ELSE g.node[t][f]
           T == {k \in 0 .. N : Inv(k)}
<1>7. 0 \in T
  BY <1>1, <1>6
<1>8. ASSUME NEW k \in 1 .. N, k - 1 \in T
      PROVE  k \in T
  <2> DEFINE u == at[k - 1]
             h == at[k]
             gone(i, f) == \E j \in 1 .. i : Touches(g, range[j], f)
  <2>1. /\ WellFormed(u)
        /\ \A t \in Links!Tag, f \in Edge :
             u.node[t][f] = IF gone(k - 1, f) THEN NoNode ELSE g.node[t][f]
    BY <1>8
  <2>2. h = Links!DisconnectNode(u, range[k]) /\ range[k] \in Node
    BY <1>6
  <2>3. /\ WellFormed(h)
        /\ \A t \in Links!Tag, f \in Edge :
             h.node[t][f] = IF Touches(u, range[k], f) THEN NoNode ELSE u.node[t][f]
    <3> HIDE DEF u, h
    <3> QED BY <2>1, <2>2, DisconnectNodeStep
  <2>4. \A f : gone(k, f) <=> gone(k - 1, f) \/ Touches(g, range[k], f)
    <3>1. 1 .. k = (1 .. k - 1) \cup {k}
      BY <1>1
    <3> QED BY <3>1
  <2>5. ASSUME NEW t \in Links!Tag, NEW f \in Edge
        PROVE  h.node[t][f] = IF gone(k, f) THEN NoNode ELSE g.node[t][f]
    <3> HIDE DEF u, h, gone
    <3>1. \A r \in Links!Tag :
            u.node[r][f] = IF gone(k - 1, f) THEN NoNode ELSE g.node[r][f]
      BY <2>1
    <3>2. CASE gone(k - 1, f)
      BY <2>3, <2>4, <3>1, <3>2
    <3>3. CASE ~ gone(k - 1, f)
      <4>1. Touches(u, range[k], f) <=> Touches(g, range[k], f)
        BY <3>1, <3>3, TagCases DEF Touches
      <4> QED BY <2>3, <2>4, <3>1, <3>3, <4>1
    <3> QED BY <3>2, <3>3
  <2>6. Inv(k)
    BY <2>3, <2>5
  <2> QED BY <1>1, <2>6
<1>9. Inv(N)
  <2> HIDE DEF T
  <2>1. 0 .. N \subseteq T
    <3> HIDE DEF N
    <3> QED BY <1>1, <1>7, <1>8, Induction
  <2> QED BY <1>1, <2>1 DEF T
<1> QED BY <1>5, <1>9

(* The body of the loop of move_incoming_edges: an edge changes its target *)
(* and comes first in the list of the new one.                             *)
LEMMA RetargetStep ==
  ASSUME NEW g, WellFormed(g), NEW n \in Node, NEW e \in Edge,
         g.node["incoming"][e] \in Node, g.node["incoming"][e] # n
  PROVE  LET h == Links!Retarget(g, n, e)
             m == g.node["incoming"][e]
             s == Links!EdgesOf(g, "incoming", m) IN
         /\ WellFormed(h)
         /\ \E k \in 1 .. Len(s) : s[k] = e /\ Links!EdgesOf(h, "incoming", m) = Without(s, k)
         /\ Links!EdgesOf(h, "incoming", n) = <<e>> \o Links!EdgesOf(g, "incoming", n)
         /\ \A o \in Node : Links!EdgesOf(h, "outgoing", o) = Links!EdgesOf(g, "outgoing", o)
         /\ \A t \in Links!Tag, f \in Edge :
              h.node[t][f] = IF t = "incoming" /\ f = e THEN n ELSE g.node[t][f]
<1> DEFINE u == Links!Unlink(g, "incoming", e)
           h == Links!Link(u, "incoming", n, e)
           m == g.node["incoming"][e]
           s == Links!EdgesOf(g, "incoming", m)
<1>1. /\ Linked(u)
      /\ \E k \in 1 .. Len(s) : s[k] = e /\ Links!EdgesOf(u, "incoming", m) = Without(s, k)
      /\ \A t \in Links!Tag, o \in Node :
           ~ (t = "incoming" /\ o = m) => Links!EdgesOf(u, t, o) = Links!EdgesOf(g, t, o)
      /\ \A t \in Links!Tag, f \in Edge :
           /\ u.node[t][f] = IF t = "incoming" /\ f = e THEN NoNode ELSE g.node[t][f]
           /\ ~ (t = "incoming" /\ g.node[t][f] = m) => u.next[t][f] = g.next[t][f]
  BY TagCases, UnlinkStep DEF WellFormed
<1>m. m \in Node /\ m # n /\ g.node["incoming"][e] = m
  OBVIOUS
<1> HIDE DEF u, m, s
<1>2. u.node["incoming"][e] = NoNode /\ u \in Links!Pointers
  BY <1>1, TagCases DEF Linked
<1>3. /\ Linked(h)
      /\ Links!EdgesOf(h, "incoming", n) = <<e>> \o Links!EdgesOf(u, "incoming", n)
      /\ \A t \in Links!Tag, o \in Node :
           ~ (t = "incoming" /\ o = n) => Links!EdgesOf(h, t, o) = Links!EdgesOf(u, t, o)
  BY <1>1, <1>2, TagCases, LinkStep
<1>4. \A t \in Links!Tag, f \in Edge :
        /\ f # e => h.next[t][f] = u.next[t][f]
        /\ h.node[t][f] = IF t = "incoming" /\ f = e THEN n ELSE u.node[t][f]
  BY <1>2, TagCases, LinkPointers
<1> HIDE DEF h
<1>5. \A t \in Links!Tag, f \in Edge :
        h.node[t][f] = IF t = "incoming" /\ f = e THEN n ELSE g.node[t][f]
  BY <1>1, <1>4
<1>6. ConnectedTwice(h)
  <2> SUFFICES ASSUME NEW f \in Edge
               PROVE  /\ h.node["incoming"][f] = NoNode <=> h.node["outgoing"][f] = NoNode
                      /\ h.node["incoming"][f] = NoNode => \A t \in Links!Tag : h.next[t][f] = NoEdge
    BY Zenon DEF ConnectedTwice
  <2>1. /\ g.node["incoming"][f] = NoNode <=> g.node["outgoing"][f] = NoNode
        /\ g.node["incoming"][f] = NoNode => \A t \in Links!Tag : g.next[t][f] = NoEdge
    BY DEF WellFormed, ConnectedTwice
  <2>2. h.node["incoming"][f] = IF f = e THEN n ELSE g.node["incoming"][f]
    BY <1>5, TagCases
  <2>3. h.node["outgoing"][f] = g.node["outgoing"][f]
    BY <1>5, TagCases
  <2>4. n # NoNode /\ m # NoNode
    BY <1>m, NullAssumption
  <2>5. CASE f = e
    BY <1>m, <2>1, <2>2, <2>3, <2>4, <2>5
  <2>6. CASE f # e
    <3>1. ASSUME g.node["incoming"][f] = NoNode, NEW t \in Links!Tag
          PROVE  h.next[t][f] = NoEdge
      <4>1. g.node["incoming"][f] # m
        BY <2>4, <3>1
      <4>2. u.next[t][f] = g.next[t][f]
        BY <1>1, <4>1
      <4> QED BY <1>4, <2>1, <2>6, <3>1, <4>2
    <3> QED BY <2>1, <2>2, <2>3, <2>6, <3>1
  <2> QED BY <2>5, <2>6
<1>7. Links!EdgesOf(h, "incoming", m) = Links!EdgesOf(u, "incoming", m)
  BY <1>3, <1>m, TagCases
<1>8. Links!EdgesOf(u, "incoming", n) = Links!EdgesOf(g, "incoming", n)
  BY <1>1, <1>m, TagCases
<1>9. \A o \in Node : Links!EdgesOf(h, "outgoing", o) = Links!EdgesOf(g, "outgoing", o)
  BY <1>1, <1>3, TagCases
<1>10. h = Links!Retarget(g, n, e)
  BY DEF h, u, Links!Retarget
<1> QED BY <1>1, <1>3, <1>5, <1>6, <1>7, <1>8, <1>9, <1>10 DEF WellFormed, m, s

(* The list s behind a new first edge e. *)
Prefixed(e, s) == <<e>> \o s

RedirectLap(p, n2) ==
  [graph |-> Links!Retarget(p.graph, n2, p.edge), edge |-> p.graph.next["incoming"][p.edge]]

RedirectLoop(at, g, n1, n2) ==
  at = [k \in 0 .. Laps |->
          IF k = 0 THEN [graph |-> g, edge |-> g.head["incoming"][n1]]
          ELSE IF at[k - 1].edge = NoEdge THEN at[k - 1] ELSE RedirectLap(at[k - 1], n2)]

LEMMA RedirectLapStep ==
  ASSUME NEW n1 \in Node, NEW n2 \in Node, n1 # n2,
         NEW p \in LoopStates("incoming", n1), p.edge # NoEdge
  PROVE  LET q == RedirectLap(p, n2)
             s == Links!EdgesOf(p.graph, "incoming", n1) IN
         /\ q \in LoopStates("incoming", n1)
         /\ 1 \in 1 .. Len(s) /\ s[1] = p.edge
         /\ Links!EdgesOf(q.graph, "incoming", n1) = Without(s, 1)
         /\ Links!EdgesOf(q.graph, "incoming", n2) =
              Prefixed(s[1], Links!EdgesOf(p.graph, "incoming", n2))
         /\ \A o \in Node :
              Links!EdgesOf(q.graph, "outgoing", o) = Links!EdgesOf(p.graph, "outgoing", o)
         /\ \A t \in Links!Tag, f \in Edge :
              q.graph.node[t][f] =
                IF t = "incoming" /\ f = p.edge THEN n2 ELSE p.graph.node[t][f]
         /\ p.graph.node["incoming"][p.edge] = n1
<1> DEFINE g == p.graph
           e == p.edge
           h == Links!Retarget(g, n2, e)
           q == RedirectLap(p, n2)
           s == Links!EdgesOf(g, "incoming", n1)
<1>1. WellFormed(g) /\ Linked(g) /\ e = g.head["incoming"][n1] /\ e \in Edge
  BY DEF LoopStates, WellFormed
<1>2. IsList(g, "incoming", n1, s) /\ s \in Seq(Edge) /\ Len(s) \in Nat
  BY <1>1, TagCases, LenProperties DEF Linked, IsList
<1> HIDE DEF g, e, h, s
<1>3. 1 \in 1 .. Len(s) /\ s[1] = e /\ g.node["incoming"][e] = n1
  <2>1. e = At(s, 1) /\ e # NoEdge
    BY <1>1, <1>2 DEF IsList, e
  <2>2. 1 \in 1 .. Len(s) /\ s[1] = e
    BY <2>1 DEF At
  <2> QED BY <1>1, <1>2, <2>2 DEF IsList
<1>4. /\ WellFormed(h)
      /\ \E k \in 1 .. Len(s) : s[k] = e /\ Links!EdgesOf(h, "incoming", n1) = Without(s, k)
      /\ Links!EdgesOf(h, "incoming", n2) = Prefixed(e, Links!EdgesOf(g, "incoming", n2))
      /\ \A o \in Node : Links!EdgesOf(h, "outgoing", o) = Links!EdgesOf(g, "outgoing", o)
      /\ \A t \in Links!Tag, f \in Edge :
           h.node[t][f] = IF t = "incoming" /\ f = e THEN n2 ELSE g.node[t][f]
  <2> DEFINE m == g.node["incoming"][e]
  <2>1. m \in Node /\ m # n2 /\ m = n1
    BY <1>3
  <2>2. LET r == Links!EdgesOf(g, "incoming", m) IN
        /\ WellFormed(h)
        /\ \E k \in 1 .. Len(r) : r[k] = e /\ Links!EdgesOf(h, "incoming", m) = Without(r, k)
        /\ Links!EdgesOf(h, "incoming", n2) = Prefixed(e, Links!EdgesOf(g, "incoming", n2))
        /\ \A o \in Node : Links!EdgesOf(h, "outgoing", o) = Links!EdgesOf(g, "outgoing", o)
        /\ \A t \in Links!Tag, f \in Edge :
             h.node[t][f] = IF t = "incoming" /\ f = e THEN n2 ELSE g.node[t][f]
    BY <1>1, <2>1, RetargetStep DEF h, Prefixed
  <2> QED BY <2>1, <2>2 DEF s
<1>5. Links!EdgesOf(h, "incoming", n1) = Without(s, 1)
  BY <1>2, <1>3, <1>4 DEF IsList
<1>6. /\ Len(Without(s, 1)) = Len(s) - 1
      /\ \A i \in 1 .. Len(s) - 1 : Without(s, 1)[i] = s[i + 1]
  <2>1. /\ Len(Without(s, 1)) = Len(s) - 1
        /\ \A i \in 1 .. Len(s) - 1 : Without(s, 1)[i] = IF i < 1 THEN s[i] ELSE s[i + 1]
    BY <1>2, <1>3, WithoutProperties
  <2> QED BY <1>2, <2>1
<1>7. h.head["incoming"][n1] = g.next["incoming"][e]
  <2>1. h.head["incoming"][n1] = At(Without(s, 1), 1)
    BY <1>4, <1>5, TagCases DEF WellFormed, Linked, IsList
  <2>2. g.next["incoming"][e] = At(s, 2)
    BY <1>2, <1>3 DEF IsList
  <2>3. At(Without(s, 1), 1) = At(s, 2)
    BY <1>2, <1>6 DEF At
  <2> QED BY <2>1, <2>2, <2>3
<1>8. q = [graph |-> h, edge |-> g.next["incoming"][e]]
  BY DEF RedirectLap, h, g, e
<1>9. q \in LoopStates("incoming", n1)
  <2>1. h \in Links!Pointers /\ g.next["incoming"][e] \in Edge \cup {NoEdge}
    BY <1>1, <1>4, TagCases, PointersType DEF WellFormed, Linked
  <2> QED BY <1>4, <1>7, <1>8, <2>1 DEF LoopStates
<1>10. q.graph = h
  BY <1>8
<1> QED BY <1>3, <1>4, <1>5, <1>9, <1>10 DEF g, e, s

LEMMA ReverseType ==
  ASSUME NEW s \in Seq(Edge)
  PROVE  /\ Reverse(s) \in Seq(Edge) /\ Len(Reverse(s)) = Len(s)
         /\ \A i \in 1 .. Len(s) : Reverse(s)[i] = s[Len(s) - i + 1]
<1>1. Len(s) \in Nat /\ \A i \in 1 .. Len(s) : s[i] \in Edge
  BY LenProperties, ElementOfSeq
<1>2. \A i \in 1 .. Len(s) : Len(s) - i + 1 \in 1 .. Len(s)
  BY <1>1
<1>3. Reverse(s) = [i \in 1 .. Len(s) |-> s[Len(s) - i + 1]]
  BY Zenon DEF Reverse
<1>4. Reverse(s) \in [1 .. Len(s) -> Edge]
  BY <1>1, <1>2, <1>3
<1>5. Reverse(s) \in Seq(Edge) /\ Len(Reverse(s)) = Len(s)
  BY <1>1, <1>4, FunctionSeq
<1> QED BY <1>3, <1>5

(* The list t behind the edges of s in reverse. *)
Moved(s, t) == Reverse(s) \o t

(* Taking the first edge of s and putting it before t does not change s    *)
(* reversed followed by t.                                                 *)
LEMMA ReverseMove ==
  ASSUME NEW s \in Seq(Edge), NEW t \in Seq(Edge), 1 \in 1 .. Len(s)
  PROVE  Moved(Without(s, 1), Prefixed(s[1], t)) = Moved(s, t)
<1> DEFINE w == Without(s, 1)
           r == <<s[1]>> \o t
           a == Reverse(w) \o r
           b == Reverse(s) \o t
<1>1. Len(s) \in Nat /\ Len(t) \in Nat /\ s[1] \in Edge /\ Len(s) >= 1
  BY LenProperties, ElementOfSeq
<1>2. /\ w \in Seq(Edge) /\ Len(w) = Len(s) - 1
      /\ \A i \in 1 .. Len(s) - 1 : w[i] = s[i + 1]
  <2>1. /\ w \in Seq(Edge) /\ Len(w) = Len(s) - 1
        /\ \A i \in 1 .. Len(s) - 1 : w[i] = IF i < 1 THEN s[i] ELSE s[i + 1]
    BY WithoutProperties
  <2> HIDE DEF w
  <2> QED BY <1>1, <2>1
<1>3. /\ r \in Seq(Edge) /\ Len(r) = 1 + Len(t) /\ r[1] = s[1]
      /\ \A i \in 2 .. 1 + Len(t) : r[i] = t[i - 1]
  <2>1. <<s[1]>> \in Seq(Edge) /\ Len(<<s[1]>>) = 1 /\ <<s[1]>>[1] = s[1]
    BY <1>1
  <2>2. /\ r \in Seq(Edge) /\ Len(r) = 1 + Len(t)
        /\ \A i \in 1 .. 1 + Len(t) : r[i] = IF i <= 1 THEN <<s[1]>>[i] ELSE t[i - 1]
    BY <2>1, ConcatProperties
  <2> HIDE DEF r
  <2> QED BY <1>1, <2>1, <2>2
<1> HIDE DEF w, r
<1>4. /\ Reverse(w) \in Seq(Edge) /\ Len(Reverse(w)) = Len(s) - 1
      /\ \A i \in 1 .. Len(s) - 1 : Reverse(w)[i] = s[Len(s) - i + 1]
  <2>1. /\ Reverse(w) \in Seq(Edge) /\ Len(Reverse(w)) = Len(w)
        /\ \A i \in 1 .. Len(w) : Reverse(w)[i] = w[Len(w) - i + 1]
    BY <1>2, ReverseType
  <2>2. ASSUME NEW i \in 1 .. Len(s) - 1
        PROVE  Reverse(w)[i] = s[Len(s) - i + 1]
    <3>1. Len(w) - i + 1 \in 1 .. Len(s) - 1 /\ Len(w) - i + 1 + 1 = Len(s) - i + 1
      BY <1>1, <1>2
    <3> QED BY <1>2, <2>1, <3>1
  <2> QED BY <1>2, <2>1, <2>2
<1>5. /\ Reverse(s) \in Seq(Edge) /\ Len(Reverse(s)) = Len(s)
      /\ \A i \in 1 .. Len(s) : Reverse(s)[i] = s[Len(s) - i + 1]
  BY ReverseType
<1>6. /\ a \in Seq(Edge) /\ Len(a) = Len(s) + Len(t)
      /\ \A i \in 1 .. Len(s) + Len(t) :
           a[i] = IF i <= Len(s) - 1 THEN Reverse(w)[i] ELSE r[i - (Len(s) - 1)]
  <2>1. /\ a \in Seq(Edge) /\ Len(a) = Len(Reverse(w)) + Len(r)
        /\ \A i \in 1 .. Len(Reverse(w)) + Len(r) :
             a[i] = IF i <= Len(Reverse(w)) THEN Reverse(w)[i] ELSE r[i - Len(Reverse(w))]
    BY <1>3, <1>4, ConcatProperties
  <2>2. Len(Reverse(w)) + Len(r) = Len(s) + Len(t)
    BY <1>1, <1>3, <1>4
  <2> HIDE DEF a
  <2> QED BY <1>4, <2>1, <2>2
<1>7. /\ b \in Seq(Edge) /\ Len(b) = Len(s) + Len(t)
      /\ \A i \in 1 .. Len(s) + Len(t) :
           b[i] = IF i <= Len(s) THEN Reverse(s)[i] ELSE t[i - Len(s)]
  <2>1. /\ b \in Seq(Edge) /\ Len(b) = Len(Reverse(s)) + Len(t)
        /\ \A i \in 1 .. Len(Reverse(s)) + Len(t) :
             b[i] = IF i <= Len(Reverse(s)) THEN Reverse(s)[i] ELSE t[i - Len(Reverse(s))]
    BY <1>5, ConcatProperties
  <2> HIDE DEF b
  <2> QED BY <1>5, <2>1
<1> HIDE DEF a, b
<1>8. ASSUME NEW i \in 1 .. Len(s) + Len(t)
      PROVE  a[i] = b[i]
  <2>1. CASE i <= Len(s) - 1
    <3>1. i \in 1 .. Len(s) - 1 /\ i \in 1 .. Len(s)
      BY <1>1, <2>1
    <3>2. a[i] = s[Len(s) - i + 1]
      BY <1>4, <1>6, <2>1, <3>1
    <3>3. b[i] = s[Len(s) - i + 1]
      <4>1. b[i] = Reverse(s)[i]
        BY <1>1, <1>7, <2>1
      <4> QED BY <1>5, <3>1, <4>1
    <3> QED BY <3>2, <3>3
  <2>2. CASE i = Len(s)
    <3>1. a[i] = s[1]
      BY <1>1, <1>3, <1>6, <2>2
    <3>2. b[i] = Reverse(s)[i] /\ i \in 1 .. Len(s) /\ Len(s) - i + 1 = 1
      BY <1>1, <1>7, <2>2
    <3> QED BY <1>5, <3>1, <3>2
  <2>3. CASE i > Len(s)
    <3>1. a[i] = r[i - (Len(s) - 1)] /\ i - (Len(s) - 1) \in 2 .. 1 + Len(t)
      BY <1>1, <1>6, <2>3
    <3>2. a[i] = t[i - (Len(s) - 1) - 1]
      BY <1>3, <3>1
    <3>3. i - (Len(s) - 1) - 1 = i - Len(s)
      BY <1>1
    <3>4. b[i] = t[i - Len(s)]
      BY <1>1, <1>7, <2>3
    <3> QED BY <3>2, <3>3, <3>4
  <2> QED BY <1>1, <2>1, <2>2, <2>3
<1>9. a = b
  BY <1>1, <1>6, <1>7, <1>8, SeqEqual
<1> QED BY <1>9 DEF a, b, w, r, Moved, Prefixed

(* move_incoming_edges: the edges into n1 come, in reverse, before those   *)
(* into n2; the lists of outgoing edges stay.                              *)
LEMMA RedirectListStep ==
  ASSUME NEW g, WellFormed(g), NEW n1 \in Node, NEW n2 \in Node, n1 # n2
  PROVE  LET h == Links!RedirectList(g, n1, n2) IN
         /\ WellFormed(h)
         /\ Links!EdgesOf(h, "incoming", n2) =
              Moved(Links!EdgesOf(g, "incoming", n1), Links!EdgesOf(g, "incoming", n2))
         /\ \A o \in Node : Links!EdgesOf(h, "outgoing", o) = Links!EdgesOf(g, "outgoing", o)
         /\ \A f \in Edge :
              /\ h.node["outgoing"][f] = g.node["outgoing"][f]
              /\ h.node["incoming"][f] =
                   IF g.node["incoming"][f] = n1 THEN n2 ELSE g.node["incoming"][f]
<1> DEFINE S == LoopStates("incoming", n1)
           x == [graph |-> g, edge |-> g.head["incoming"][n1]]
           Lap(p) == IF p.edge = NoEdge THEN p ELSE RedirectLap(p, n2)
           F == [k \in 1 .. Laps |-> [p \in S |-> Lap(p)]]
           at == CHOOSE f : RedirectLoop(f, g, n1, n2)
<1>1. x \in S /\ g \in Links!Pointers
  BY PointersType, TagCases DEF LoopStates, WellFormed, Linked
<1>2. \A p \in S : Lap(p) \in S
  BY RedirectLapStep
<1>3. \E f : RedirectLoop(f, g, n1, n2)
  <2>1. \A k \in 1 .. Laps, p \in S : F[k][p] = Lap(p) /\ F[k][p] \in S
    BY <1>2
  <2> HIDE DEF S, x, F, Lap
  <2>2. \A k \in 1 .. Laps, p \in S : F[k][p] \in S
    BY <2>1
  <2>3. PICK f : Iterates(f, Laps, x, F) /\ \A k \in 0 .. Laps : f[k] \in S
    BY <1>1, <2>2, LapsType, IterationExists, Zenon
  <2>4. ASSUME NEW k \in 0 .. Laps
        PROVE  f[k] = IF k = 0 THEN x ELSE Lap(f[k - 1])
    <3>1. CASE k = 0
      BY <2>3, <3>1 DEF Iterates
    <3>2. CASE k # 0
      <4>1. k \in 1 .. Laps /\ k - 1 \in 0 .. Laps
        BY <3>2, LapsType
      <4>2. f[k] = F[k][f[k - 1]]
        BY <2>3, <3>2 DEF Iterates
      <4> QED BY <2>1, <2>3, <3>2, <4>1, <4>2
    <3> QED BY <3>1, <3>2
  <2>5. f = [k \in 0 .. Laps |-> f[k]]
    BY <2>3 DEF Iterates
  <2>6. f = [k \in 0 .. Laps |-> IF k = 0 THEN x ELSE Lap(f[k - 1])]
    BY <2>4, <2>5, Zenon
  <2> QED BY <2>6, Zenon DEF RedirectLoop, x, Lap
<1>4. RedirectLoop(at, g, n1, n2)
  BY <1>3, Zenon
<1>5. Links!RedirectList(g, n1, n2) = at[Laps].graph
  BY Zenon DEF Links!RedirectList, RedirectLoop, RedirectLap, Laps
<1> HIDE DEF at, F
<1>6. at[0] = x /\ \A k \in 1 .. Laps : at[k] = Lap(at[k - 1])
  BY <1>4, LapsType DEF RedirectLoop
<1> DEFINE from(k) == Links!EdgesOf(at[k].graph, "incoming", n1)
           to(k) == Links!EdgesOf(at[k].graph, "incoming", n2)
           moved == Moved(Links!EdgesOf(g, "incoming", n1), Links!EdgesOf(g, "incoming", n2))
           Inv(k) == /\ at[k] \in S
                     /\ Len(from(k)) <= Laps - k
                     /\ Moved(from(k), to(k)) = moved
                     /\ \A o \in Node : Links!EdgesOf(at[k].graph, "outgoing", o) =
                                          Links!EdgesOf(g, "outgoing", o)
                     /\ \A f \in Edge :
                          /\ at[k].graph.node["outgoing"][f] = g.node["outgoing"][f]
                          /\ \/ at[k].graph.node["incoming"][f] = g.node["incoming"][f]
                             \/ /\ at[k].graph.node["incoming"][f] = n2
                                /\ g.node["incoming"][f] = n1
           T == {k \in 0 .. Laps : Inv(k)}
<1>lists. ASSUME NEW k, at[k] \in S
          PROVE  /\ IsList(at[k].graph, "incoming", n1, from(k))
                 /\ from(k) \in Seq(Edge) /\ to(k) \in Seq(Edge) /\ Len(from(k)) \in Nat
  <2>1. Linked(at[k].graph)
    BY <1>lists DEF LoopStates, WellFormed
  <2> QED BY <2>1, TagCases, LenProperties DEF Linked, IsList
<1>7. 0 \in T
  <2>1. at[0].graph = g /\ at[0] \in S
    BY <1>1, <1>6
  <2>2. Len(from(0)) <= Laps
    <3>1. Len(from(0)) \in 0 .. Laps
      BY <1>lists, <2>1, LapsType, ListLength DEF IsList
    <3> QED BY <3>1, LapsType
  <2>3. Moved(from(0), to(0)) = moved
    BY <2>1
  <2> QED BY <2>1, <2>2, <2>3, LapsType
<1>8. ASSUME NEW k \in 1 .. Laps, k - 1 \in T
      PROVE  k \in T
  <2> DEFINE p == at[k - 1]
  <2>1. Inv(k - 1) /\ at[k] = Lap(p) /\ k \in 0 .. Laps /\ k \in Int /\ Laps \in Int
    BY <1>6, <1>8, LapsType
  <2>2. /\ IsList(p.graph, "incoming", n1, from(k - 1))
        /\ from(k - 1) \in Seq(Edge) /\ to(k - 1) \in Seq(Edge) /\ Len(from(k - 1)) \in Nat
    BY <1>lists, <2>1
  <2>3. CASE p.edge = NoEdge
    <3>1. at[k] = p
      BY <2>1, <2>3
    <3>2. Len(from(k - 1)) = 0
      <4>1. At(from(k - 1), 1) = NoEdge
        <5>1. p.edge = p.graph.head["incoming"][n1]
          BY <2>1 DEF LoopStates
        <5> QED BY <2>2, <2>3, <5>1 DEF IsList
      <4>2. 1 \notin 1 .. Len(from(k - 1))
        BY <2>2, <4>1, AtType
      <4> QED BY <2>2, <4>2
    <3>3. from(k) = from(k - 1) /\ to(k) = to(k - 1)
      BY <3>1
    <3>4. Len(from(k)) <= Laps - k
      BY <2>1, <3>2, <3>3
    <3>5. Inv(k)
      BY <2>1, <3>1, <3>4
    <3> QED BY <2>1, <3>5
  <2>4. CASE p.edge # NoEdge
    <3>1. at[k] = RedirectLap(p, n2)
      BY <2>1, <2>4
    <3> DEFINE s == from(k - 1)
               q == at[k]
    <3>2. /\ q \in S
          /\ 1 \in 1 .. Len(s) /\ s[1] = p.edge
          /\ from(k) = Without(s, 1)
          /\ to(k) = Prefixed(s[1], to(k - 1))
          /\ \A o \in Node :
               Links!EdgesOf(q.graph, "outgoing", o) = Links!EdgesOf(p.graph, "outgoing", o)
          /\ \A t \in Links!Tag, f \in Edge :
               q.graph.node[t][f] =
                 IF t = "incoming" /\ f = p.edge THEN n2 ELSE p.graph.node[t][f]
          /\ p.graph.node["incoming"][p.edge] = n1
      BY <2>1, <2>4, <3>1, RedirectLapStep
    <3>3. Moved(from(k), to(k)) = moved
      <4>1. Moved(Without(s, 1), Prefixed(s[1], to(k - 1))) = Moved(s, to(k - 1))
        <5> HIDE DEF from, to
        <5> QED BY <2>2, <3>2, ReverseMove
      <4>2. Moved(s, to(k - 1)) = moved
        BY <2>1
      <4> HIDE DEF from, to, moved
      <4> QED BY <3>2, <4>1, <4>2
    <3>4. Len(from(k)) <= Laps - k
      <4>1. Len(from(k)) = Len(s) - 1
        <5> HIDE DEF from
        <5> QED BY <2>2, <3>2, WithoutProperties
      <4> QED BY <2>1, <2>2, <4>1
    <3>5. \A f \in Edge :
            /\ q.graph.node["outgoing"][f] = g.node["outgoing"][f]
            /\ \/ q.graph.node["incoming"][f] = g.node["incoming"][f]
               \/ q.graph.node["incoming"][f] = n2 /\ g.node["incoming"][f] = n1
      <4> SUFFICES ASSUME NEW f \in Edge
                   PROVE  /\ q.graph.node["outgoing"][f] = g.node["outgoing"][f]
                          /\ \/ q.graph.node["incoming"][f] = g.node["incoming"][f]
                             \/ q.graph.node["incoming"][f] = n2 /\ g.node["incoming"][f] = n1
        OBVIOUS
      <4>1. /\ q.graph.node["outgoing"][f] = p.graph.node["outgoing"][f]
            /\ q.graph.node["incoming"][f] =
                 IF f = p.edge THEN n2 ELSE p.graph.node["incoming"][f]
        BY <3>2, TagCases
      <4>2. /\ p.graph.node["outgoing"][f] = g.node["outgoing"][f]
            /\ \/ p.graph.node["incoming"][f] = g.node["incoming"][f]
               \/ p.graph.node["incoming"][f] = n2 /\ g.node["incoming"][f] = n1
        BY <2>1
      <4>3. f = p.edge => p.graph.node["incoming"][f] = n1
        BY <3>2
      <4> HIDE DEF q, p
      <4> QED BY <4>1, <4>2, <4>3
    <3>6. \A o \in Node :
            Links!EdgesOf(q.graph, "outgoing", o) = Links!EdgesOf(g, "outgoing", o)
      BY <2>1, <3>2
    <3>7. Inv(k)
      BY <3>2, <3>3, <3>4, <3>5, <3>6
    <3> QED BY <2>1, <3>7
  <2> QED BY <2>3, <2>4
<1>9. Inv(Laps)
  <2> HIDE DEF T
  <2>1. 0 .. Laps \subseteq T
    BY <1>7, <1>8, LapsType, Induction
  <2> QED BY <2>1, LapsType DEF T
<1> DEFINE h == at[Laps].graph
<1>10. WellFormed(h) /\ Len(from(Laps)) = 0 /\ from(Laps) \in Seq(Edge) /\ to(Laps) \in Seq(Edge)
       /\ IsList(h, "incoming", n1, from(Laps))
  <2>1. WellFormed(h)
    BY <1>9 DEF LoopStates
  <2> QED BY <1>9, <1>lists, <2>1, LapsType
<1>11. to(Laps) = moved
  <2>1. Moved(from(Laps), to(Laps)) = to(Laps)
    <3> HIDE DEF from, to
    <3>1. Reverse(from(Laps)) \in Seq(Edge) /\ Len(Reverse(from(Laps))) = 0
      BY <1>10, ReverseType
    <3>2. Reverse(from(Laps)) = <<>>
      BY <3>1, EmptySeq
    <3> QED BY <1>10, <3>2, ConcatEmptySeq DEF Moved
  <2> QED BY <1>9, <2>1
<1>12. ASSUME NEW f \in Edge
       PROVE  h.node["incoming"][f] =
                IF g.node["incoming"][f] = n1 THEN n2 ELSE g.node["incoming"][f]
  <2>1. h.node["incoming"][f] # n1
    BY <1>10 DEF IsList
  <2> QED BY <1>9, <2>1
<1> QED BY <1>5, <1>9, <1>10, <1>11, <1>12

-----------------------------------------------------------------------------
(* The actions of the directed graph. *)

LEMMA LinkedInvariantNext ==
  (Links!IInv <=> Linked(Links!Graph) /\ ConnectedTwice(Links!Graph))'
BY LinkedInvariant, PTL

(* A step to well-formed pointers keeps the invariant of the lists. *)
LEMMA StepBecomes ==
  ASSUME NEW h, WellFormed(h), Links!Becomes(h)
  PROVE  Links!IInv' /\ Links!Graph' = h
<1>1. h = [head |-> h.head, next |-> h.next, node |-> h.node]
  BY DEF WellFormed, Linked, Links!Pointers
<1>2. Links!Graph' = h
  BY <1>1 DEF Links!Becomes, Links!Graph
<1> QED BY <1>2, LinkedInvariantNext DEF WellFormed

LEMMA GraphWellFormed ==
  ASSUME Links!IInv
  PROVE  /\ WellFormed(Links!Graph)
         /\ Links!Graph.head = head /\ Links!Graph.next = next /\ Links!Graph.node = node
BY LinkedInvariant DEF WellFormed, Links!Graph

(* What linking e leaves of the successors and of the owners of the edges. *)
LEMMA LinkFrame ==
  ASSUME NEW g, Linked(g), NEW tag \in Links!Tag, NEW n \in Node, NEW e \in Edge,
         g.node[tag][e] = NoNode
  PROVE  /\ Linked(Links!Link(g, tag, n, e))
         /\ \A t \in Links!Tag, f \in Edge :
              /\ f # e => Links!Link(g, tag, n, e).next[t][f] = g.next[t][f]
              /\ Links!Link(g, tag, n, e).node[t][f] =
                   IF t = tag /\ f = e THEN n ELSE g.node[t][f]
<1>1. g \in Links!Pointers
  BY DEF Linked
<1>2. Linked(Links!Link(g, tag, n, e))
  BY LinkStep
<1>3. \A t \in Links!Tag, f \in Edge :
        /\ f # e => Links!Link(g, tag, n, e).next[t][f] = g.next[t][f]
        /\ Links!Link(g, tag, n, e).node[t][f] =
             IF t = tag /\ f = e THEN n ELSE g.node[t][f]
  BY <1>1, LinkPointers
<1> QED BY <1>2, <1>3

LEMMA StepAddEdge ==
  ASSUME Links!IInv, NEW s \in Node, NEW t \in Node, NEW e \in Edge, Links!AddEdge(s, t, e)
  PROVE  /\ Links!IInv'
         /\ \A tag \in Links!Tag : node[tag][e] = NoNode
         /\ \A f \in Edge :
              /\ node'["outgoing"][f] = IF f = e THEN s ELSE node["outgoing"][f]
              /\ node'["incoming"][f] = IF f = e THEN t ELSE node["incoming"][f]
<1> DEFINE g == Links!Graph
           u == Links!Link(g, "incoming", t, e)
           h == Links!Link(u, "outgoing", s, e)
<1>1. /\ WellFormed(g) /\ Linked(g) /\ g.node = node /\ g \in Links!Pointers
      /\ \A tag \in Links!Tag : g.node[tag][e] = NoNode
      /\ Links!Becomes(h)
  BY GraphWellFormed DEF Links!AddEdge, WellFormed, Linked
<1> HIDE DEF g
<1>2. /\ Linked(u) /\ u \in Links!Pointers
      /\ \A tag \in Links!Tag, f \in Edge :
           /\ f # e => u.next[tag][f] = g.next[tag][f]
           /\ u.node[tag][f] = IF tag = "incoming" /\ f = e THEN t ELSE g.node[tag][f]
  <2>1. "incoming" \in Links!Tag /\ g.node["incoming"][e] = NoNode
    BY <1>1, TagCases
  <2> QED BY <1>1, <2>1, LinkFrame DEF Linked
<1> HIDE DEF u
<1>3. /\ Linked(h)
      /\ \A tag \in Links!Tag, f \in Edge :
           /\ f # e => h.next[tag][f] = u.next[tag][f]
           /\ h.node[tag][f] = IF tag = "outgoing" /\ f = e THEN s ELSE u.node[tag][f]
  <2>1. u.node["outgoing"][e] = NoNode
    BY <1>1, <1>2, TagCases
  <2>2. "outgoing" \in Links!Tag
    BY TagCases
  <2> QED BY <1>2, <2>1, <2>2, LinkFrame
<1> HIDE DEF h
<1>4. \A f \in Edge :
        /\ h.node["outgoing"][f] = IF f = e THEN s ELSE node["outgoing"][f]
        /\ h.node["incoming"][f] = IF f = e THEN t ELSE node["incoming"][f]
  BY <1>1, <1>2, <1>3, TagCases
<1>5. ConnectedTwice(h)
  <2> SUFFICES ASSUME NEW f \in Edge
               PROVE  /\ h.node["incoming"][f] = NoNode <=> h.node["outgoing"][f] = NoNode
                      /\ h.node["incoming"][f] = NoNode => \A tag \in Links!Tag : h.next[tag][f] = NoEdge
    BY Zenon DEF ConnectedTwice
  <2>1. /\ g.node["incoming"][f] = NoNode <=> g.node["outgoing"][f] = NoNode
        /\ g.node["incoming"][f] = NoNode => \A tag \in Links!Tag : g.next[tag][f] = NoEdge
    BY <1>1 DEF WellFormed, ConnectedTwice
  <2>2. s # NoNode /\ t # NoNode
    BY NullAssumption
  <2> QED BY <1>1, <1>2, <1>3, <1>4, <2>1, <2>2
<1>6. Links!IInv' /\ Links!Graph' = h
  BY <1>1, <1>3, <1>5, StepBecomes DEF WellFormed
<1>7. node' = h.node
  BY <1>1 DEF Links!Becomes
<1> QED BY <1>1, <1>4, <1>6, <1>7

LEMMA StepRemoveEdges ==
  ASSUME Links!IInv, NEW n \in Node, Links!RemoveEdges(n)
  PROVE  /\ Links!IInv'
         /\ \A tag \in Links!Tag, f \in Edge :
              node'[tag][f] = IF node["outgoing"][f] = n \/ node["incoming"][f] = n
                              THEN NoNode ELSE node[tag][f]
<1> DEFINE g == Links!Graph
           h == Links!DisconnectNode(g, n)
<1>1. WellFormed(g) /\ g.node = node /\ Links!Becomes(h)
  BY GraphWellFormed DEF Links!RemoveEdges
<1> HIDE DEF g
<1>2. /\ WellFormed(h)
      /\ \A tag \in Links!Tag, f \in Edge :
           h.node[tag][f] = IF Touches(g, n, f) THEN NoNode ELSE g.node[tag][f]
  BY <1>1, DisconnectNodeStep
<1> HIDE DEF h
<1>3. Links!IInv' /\ node' = h.node
  BY <1>1, <1>2, StepBecomes DEF Links!Becomes
<1> QED BY <1>1, <1>2, <1>3 DEF Touches

LEMMA StepClearEdges ==
  ASSUME Links!IInv, NEW nodes \in SUBSET Node, IsFiniteSet(nodes), Links!Clear(nodes)
  PROVE  /\ Links!IInv'
         /\ \A tag \in Links!Tag, f \in Edge :
              node'[tag][f] =
                IF \E n \in nodes : node["outgoing"][f] = n \/ node["incoming"][f] = n
                THEN NoNode ELSE node[tag][f]
<1> DEFINE g == Links!Graph
           N == Cardinality(nodes)
<1>1. PICK range \in [1 .. N -> nodes] :
        /\ \A n \in nodes : \E k \in DOMAIN range : range[k] = n
        /\ Links!Becomes(Links!DisconnectedAll(g, range))
  BY LinksCardinality DEF Links!Clear
<1> DEFINE h == Links!DisconnectedAll(g, range)
<1>2. WellFormed(g) /\ g.node = node
  BY GraphWellFormed
<1> HIDE DEF g
<1>3. N \in Nat
  BY FS_CardinalityType
<1>4. range \in Seq(nodes) /\ Len(range) = N
  BY <1>3, FunctionSeq
<1>5. /\ WellFormed(h)
      /\ \A tag \in Links!Tag, f \in Edge :
           h.node[tag][f] = IF \E k \in 1 .. N : Touches(g, range[k], f)
                            THEN NoNode ELSE g.node[tag][f]
  BY <1>2, <1>3, <1>4, DisconnectedAllStep
<1> HIDE DEF h
<1>6. Links!IInv' /\ node' = h.node
  BY <1>1, <1>5, StepBecomes DEF Links!Becomes, h
<1>7. \A f : (\E k \in 1 .. N : Touches(g, range[k], f)) <=> \E n \in nodes : Touches(g, n, f)
  <2>1. /\ \A k \in 1 .. N : range[k] \in nodes
        /\ \A n \in nodes : \E k \in 1 .. N : range[k] = n
    BY <1>1
  <2> QED BY <2>1
<1> QED BY <1>2, <1>5, <1>6, <1>7 DEF Touches

LEMMA StepMoveEdges ==
  ASSUME Links!IInv, NEW n1 \in Node, NEW n2 \in Node, n1 # n2, Links!MoveIncomingEdges(n1, n2)
  PROVE  /\ Links!IInv'
         /\ Links!EdgesOf(Links!Graph, "incoming", n2)' =
              Moved(Links!EdgesOf(Links!Graph, "incoming", n1),
                    Links!EdgesOf(Links!Graph, "incoming", n2))
         /\ \A o \in Node : Links!EdgesOf(Links!Graph, "outgoing", o)' =
                              Links!EdgesOf(Links!Graph, "outgoing", o)
         /\ \A f \in Edge :
              /\ node'["outgoing"][f] = node["outgoing"][f]
              /\ node'["incoming"][f] =
                   IF node["incoming"][f] = n1 THEN n2 ELSE node["incoming"][f]
<1> DEFINE g == Links!Graph
           h == Links!RedirectList(g, n1, n2)
<1>1. WellFormed(g) /\ g.node = node /\ Links!Becomes(h)
  BY GraphWellFormed DEF Links!MoveIncomingEdges
<1>2. /\ WellFormed(h)
      /\ Links!EdgesOf(h, "incoming", n2) =
           Moved(Links!EdgesOf(g, "incoming", n1), Links!EdgesOf(g, "incoming", n2))
      /\ \A o \in Node : Links!EdgesOf(h, "outgoing", o) = Links!EdgesOf(g, "outgoing", o)
      /\ \A f \in Edge :
           /\ h.node["outgoing"][f] = g.node["outgoing"][f]
           /\ h.node["incoming"][f] =
                IF g.node["incoming"][f] = n1 THEN n2 ELSE g.node["incoming"][f]
  <2> HIDE DEF g
  <2> QED BY <1>1, RedirectListStep
<1> HIDE DEF h
<1>3. Links!IInv' /\ Links!Graph' = h /\ node' = h.node
  BY <1>1, <1>2, StepBecomes DEF Links!Becomes
<1> QED BY <1>1, <1>2, <1>3

(* A step that leaves the pointers alone leaves the lists alone. *)
LEMMA LinksUnchanged ==
  ASSUME Links!IInv, UNCHANGED links
  PROVE  Links!IInv' /\ Links!Graph' = Links!Graph
<1>1. Links!Graph' = Links!Graph
  BY DEF links, Links!Graph
<1> QED BY <1>1, LinkedInvariant, LinkedInvariantNext

LEMMA CoverUnchanged ==
  ASSUME IInv, UNCHANGED vars
  PROVE  IInv' /\ Stored' = Stored
BY DEF vars, IInv, TypeOK, StoredFound, EntriesKnown, SizeCorrect,
       Stored, IsStored, Found, Bucket

(* No edge names a node without edges: it can be removed. *)
LEMMA DisconnectedNode ==
  ASSUME Links!IInv, NEW n \in Node, Disconnected(n)
  PROVE  \A tag \in Links!Tag, e \in Edge : node[tag][e] # n
<1> SUFFICES ASSUME NEW tag \in Links!Tag, NEW e \in Edge
             PROVE  node[tag][e] # n
  OBVIOUS
<1> DEFINE g == Links!Graph
           s == Links!EdgesOf(g, tag, n)
<1>1. IsList(g, tag, n, s) /\ g.head = head /\ g.node = node
  BY GraphWellFormed DEF WellFormed, Linked
<1> HIDE DEF s, g
<1>2. s \in Seq(Edge) /\ At(s, 1) = NoEdge
  BY <1>1 DEF IsList, Disconnected
<1>3. 1 \notin 1 .. Len(s) /\ Len(s) \in Nat
  BY <1>2, AtType, LenProperties
<1>4. \A i \in 1 .. Len(s) : FALSE
  BY <1>3
<1> QED BY <1>1, <1>4 DEF IsList

-----------------------------------------------------------------------------
(* The subsumption graph: the nodes stored in the hash table, and the edges *)
(* linked between them. *)

GraphInv == IInv /\ EdgesJoinStored

LEMMA InitGraphInv == GraphInit => GraphInv
<1> SUFFICES ASSUME GraphInit
             PROVE  GraphInv
  OBVIOUS
<1> DEFINE g == Links!Graph
<1>1. /\ g = [head |-> head, next |-> next, node |-> node]
      /\ head = [tag \in Links!Tag |-> [n \in Node |-> NoEdge]]
      /\ next = [tag \in Links!Tag |-> [e \in Edge |-> NoEdge]]
      /\ node = [tag \in Links!Tag |-> [e \in Edge |-> NoNode]]
  BY DEF GraphInit, Links!Init, Links!Graph
<1> HIDE DEF g
<1>2. g \in Links!Pointers
  BY <1>1 DEF Links!Pointers
<1>3. \A tag \in Links!Tag, n \in Node : IsList(g, tag, n, <<>>)
  <2>1. <<>> \in Seq(Edge) /\ Len(<<>>) = 0
    BY EmptySeq
  <2>2. At(<<>>, 1) = NoEdge
    BY <2>1 DEF At
  <2> QED BY <1>1, <2>1, <2>2, NullAssumption DEF IsList
<1>4. \A tag \in Links!Tag, n \in Node : Links!EdgesOf(g, tag, n) = <<>>
  BY <1>2, <1>3, ListMet
<1>5. Linked(g)
  BY <1>2, <1>3, <1>4 DEF Linked
<1>6. ConnectedTwice(g)
  BY <1>1, TagCases DEF ConnectedTwice
<1>7. Links!IInv
  BY <1>5, <1>6, LinkedInvariant DEF g
<1>8. EdgesJoinStored
  BY <1>1, <1>7 DEF EdgesJoinStored
<1> QED BY <1>8, InitIInv DEF GraphInit, GraphInv

LEMMA GraphClearStep ==
  ASSUME GraphInv, ClearGraph
  PROVE  /\ GraphInv' /\ Stored' = {}
         /\ \A tag \in Links!Tag, f \in Edge : node'[tag][f] = NoNode
<1>1. IInv /\ Links!IInv /\ IsFiniteSet(Stored) /\ Stored \in SUBSET Node
  BY DEF GraphInv, EdgesJoinStored, IInv, SizeCorrect, Stored
<1>2. IInv' /\ Stored' = {}
  BY <1>1, StepClear DEF ClearGraph
<1>3. /\ Links!IInv'
      /\ \A tag \in Links!Tag, f \in Edge :
           node'[tag][f] =
             IF \E n \in Stored : node["outgoing"][f] = n \/ node["incoming"][f] = n
             THEN NoNode ELSE node[tag][f]
  BY <1>1, StepClearEdges DEF ClearGraph
<1>4. ASSUME NEW tag \in Links!Tag, NEW f \in Edge
      PROVE  node'[tag][f] = NoNode
  <2>1. node["incoming"][f] = NoNode <=> node["outgoing"][f] = NoNode
    BY <1>1 DEF Links!IInv, Links!EdgesConnectedTwice
  <2>2. /\ node["incoming"][f] \in Stored \cup {NoNode}
        /\ node["outgoing"][f] \in Stored \cup {NoNode}
        /\ node[tag][f] \in Stored \cup {NoNode}
    BY TagCases DEF GraphInv, EdgesJoinStored
  <2>3. CASE node["incoming"][f] \in Stored
    BY <1>3, <2>3
  <2>4. CASE node["incoming"][f] = NoNode
    BY <1>3, <2>1, <2>4, TagCases
  <2> QED BY <2>2, <2>3, <2>4
<1> QED BY <1>2, <1>3, <1>4 DEF GraphInv, EdgesJoinStored

LEMMA GraphAddNodeStep ==
  ASSUME GraphInv, NEW n \in Node, AddGraphNode(n)
  PROVE  GraphInv' /\ UNCHANGED node
<1>1. IInv' /\ Stored' = Stored \cup {n}
  BY StepAddNode DEF GraphInv, AddGraphNode
<1>2. Links!IInv' /\ node' = node
  BY LinksUnchanged DEF GraphInv, EdgesJoinStored, AddGraphNode, links
<1> QED BY <1>1, <1>2 DEF GraphInv, EdgesJoinStored

LEMMA GraphRemoveNodeStep ==
  ASSUME GraphInv, NEW n \in Node, RemoveGraphNode(n)
  PROVE  GraphInv' /\ UNCHANGED node
<1>1. IInv' /\ Stored' = Stored \ {n}
  BY StepRemoveNode DEF GraphInv, RemoveGraphNode
<1>2. Links!IInv' /\ node' = node
  BY LinksUnchanged DEF GraphInv, EdgesJoinStored, RemoveGraphNode, links
<1>3. \A tag \in Links!Tag, e \in Edge : node[tag][e] # n
  BY DisconnectedNode DEF GraphInv, EdgesJoinStored, RemoveGraphNode
<1> QED BY <1>1, <1>2, <1>3 DEF GraphInv, EdgesJoinStored

LEMMA GraphRemoveEdgesStep ==
  ASSUME GraphInv, NEW n \in Node, RemoveGraphEdges(n)
  PROVE  /\ GraphInv' /\ Stored' = Stored
         /\ \A tag \in Links!Tag, f \in Edge :
              node'[tag][f] = IF node["outgoing"][f] = n \/ node["incoming"][f] = n
                              THEN NoNode ELSE node[tag][f]
<1>1. IInv' /\ Stored' = Stored
  BY CoverUnchanged DEF GraphInv, RemoveGraphEdges
<1>2. /\ Links!IInv'
      /\ \A tag \in Links!Tag, f \in Edge :
           node'[tag][f] = IF node["outgoing"][f] = n \/ node["incoming"][f] = n
                           THEN NoNode ELSE node[tag][f]
  BY StepRemoveEdges DEF GraphInv, EdgesJoinStored, RemoveGraphEdges
<1> QED BY <1>1, <1>2 DEF GraphInv, EdgesJoinStored

LEMMA GraphAddEdgeStep ==
  ASSUME GraphInv, NEW s \in Node, NEW t \in Node, NEW e \in Edge, NEW type,
         AddGraphEdge(s, t, e, type)
  PROVE  /\ GraphInv' /\ Stored' = Stored
         /\ \A tag \in Links!Tag : node[tag][e] = NoNode
         /\ \A f \in Edge :
              /\ node'["outgoing"][f] = IF f = e THEN s ELSE node["outgoing"][f]
              /\ node'["incoming"][f] = IF f = e THEN t ELSE node["incoming"][f]
<1>1. IInv' /\ Stored' = Stored
  BY CoverUnchanged DEF GraphInv, AddGraphEdge
<1>2. /\ Links!IInv'
      /\ \A tag \in Links!Tag : node[tag][e] = NoNode
      /\ \A f \in Edge :
           /\ node'["outgoing"][f] = IF f = e THEN s ELSE node["outgoing"][f]
           /\ node'["incoming"][f] = IF f = e THEN t ELSE node["incoming"][f]
  BY StepAddEdge DEF GraphInv, EdgesJoinStored, AddGraphEdge
<1>3. s \in Stored /\ t \in Stored
  BY DEF AddGraphEdge, Stored
<1>4. ASSUME NEW tag \in Links!Tag, NEW f \in Edge
      PROVE  node'[tag][f] \in Stored \cup {NoNode}
  BY <1>2, <1>3, TagCases DEF GraphInv, EdgesJoinStored
<1> QED BY <1>1, <1>2, <1>4 DEF GraphInv, EdgesJoinStored

LEMMA GraphMoveEdgesStep ==
  ASSUME GraphInv, NEW n1 \in Node, NEW n2 \in Node, NEW type, MoveGraphEdges(n1, n2, type)
  PROVE  /\ GraphInv' /\ Stored' = Stored
         /\ \A f \in Edge :
              /\ node'["outgoing"][f] = node["outgoing"][f]
              /\ node'["incoming"][f] =
                   IF node["incoming"][f] = n1 THEN n2 ELSE node["incoming"][f]
<1>1. IInv' /\ Stored' = Stored
  BY CoverUnchanged DEF GraphInv, MoveGraphEdges
<1>2. n1 \in Stored /\ n2 \in Stored
  BY DEF MoveGraphEdges, Stored
<1>3. /\ Links!IInv'
      /\ \A f \in Edge :
           /\ node'["outgoing"][f] = node["outgoing"][f]
           /\ node'["incoming"][f] =
                IF node["incoming"][f] = n1 THEN n2 ELSE node["incoming"][f]
  <2>1. CASE n1 # n2
    BY <2>1, StepMoveEdges DEF GraphInv, EdgesJoinStored, MoveGraphEdges
  <2>2. CASE n1 = n2
    <3>1. UNCHANGED links
      BY <2>2 DEF MoveGraphEdges, Links!MoveIncomingEdges, Links!vars, links
    <3>2. Links!IInv' /\ node' = node
      BY <3>1, LinksUnchanged DEF GraphInv, EdgesJoinStored, links
    <3> QED BY <2>2, <3>2
  <2> QED BY <2>1, <2>2
<1>4. ASSUME NEW tag \in Links!Tag, NEW f \in Edge
      PROVE  node'[tag][f] \in Stored \cup {NoNode}
  BY <1>2, <1>3, TagCases DEF GraphInv, EdgesJoinStored
<1> QED BY <1>1, <1>3, <1>4 DEF GraphInv, EdgesJoinStored

LEMMA GraphUnchanged ==
  ASSUME GraphInv, UNCHANGED graph
  PROVE  GraphInv' /\ Stored' = Stored /\ UNCHANGED node
<1>1. UNCHANGED vars /\ UNCHANGED links /\ UNCHANGED node
  BY DEF graph, vars, links
<1>2. IInv' /\ Stored' = Stored /\ Links!IInv'
  BY <1>1, CoverUnchanged, LinksUnchanged DEF GraphInv, EdgesJoinStored
<1> QED BY <1>1, <1>2 DEF GraphInv, EdgesJoinStored

-----------------------------------------------------------------------------
(* The graph keeps both its parts well-formed and consistent: the cover     *)
(* graph, the lists of edges, and the edges between the stored nodes.       *)
THEOREM GraphInvariant == GraphSpec => [](IInv /\ EdgesJoinStored)
<1>1. GraphInit => GraphInv
  BY InitGraphInv
<1>2. GraphInv /\ [GraphNext]_graph => GraphInv'
  <2> SUFFICES ASSUME GraphInv, [GraphNext]_graph
               PROVE  GraphInv'
    OBVIOUS
  <2>1. CASE ClearGraph
    BY <2>1, GraphClearStep
  <2>2. ASSUME NEW n \in Node, AddGraphNode(n)
        PROVE  GraphInv'
    BY <2>2, GraphAddNodeStep
  <2>3. ASSUME NEW n \in Node, RemoveGraphNode(n)
        PROVE  GraphInv'
    BY <2>3, GraphRemoveNodeStep
  <2>4. ASSUME NEW n \in Node, RemoveGraphEdges(n)
        PROVE  GraphInv'
    BY <2>4, GraphRemoveEdgesStep
  <2>5. ASSUME NEW s \in Node, NEW t \in Node, NEW e \in Edge, NEW type \in EdgeType,
               AddGraphEdge(s, t, e, type)
        PROVE  GraphInv'
    BY <2>5, GraphAddEdgeStep
  <2>6. ASSUME NEW n1 \in Node, NEW n2 \in Node, NEW type \in EdgeType,
               MoveGraphEdges(n1, n2, type)
        PROVE  GraphInv'
    BY <2>6, GraphMoveEdgesStep
  <2>7. CASE UNCHANGED graph
    BY <2>7, GraphUnchanged
  <2> QED BY <2>1, <2>2, <2>3, <2>4, <2>5, <2>6, <2>7 DEF GraphNext
<1>3. GraphInv <=> IInv /\ EdgesJoinStored
  BY DEF GraphInv
<1> QED BY <1>1, <1>2, <1>3, PTL DEF GraphSpec

(* No list of edges leads to a removed node or to an edge that went back to *)
(* its pool, whatever was added, moved, removed and cleared before.         *)
THEOREM GraphEdgesCorrect == GraphSpec => []EdgesJoinStored
BY GraphInvariant, PTL

(* Inside the subsumption graph also, is_covered and covered_nodes, which   *)
(* search one container, are exact.                                         *)
THEOREM GraphQueriesCorrect == GraphSpec => []QueriesExact
BY GraphInvariant, InvariantQueries, PTL

(* The nodes of the subsumption graph are a set to which they are added and *)
(* from which they are removed, whatever happens to the edges.              *)
THEOREM GraphImplementsNodes == GraphSpec => ImplementsNodeSet
<1>1. GraphInit => Contents!Init
  BY DEF GraphInit, Init, Contents!Init, Stored, IsStored
<1>2. ASSUME GraphInv, [GraphNext]_graph
      PROVE  [Contents!Next]_Stored
  <2>1. CASE ClearGraph
    BY <1>2, <2>1, GraphClearStep DEF Contents!Next, Contents!Clear
  <2>2. ASSUME NEW n \in Node, AddGraphNode(n)
        PROVE  Contents!Next
    <3>1. Stored' = Stored \cup {n} /\ n \notin Stored
      BY <1>2, <2>2, StepAddNode DEF GraphInv, AddGraphNode
    <3> QED BY <3>1 DEF Contents!Next, Contents!Add
  <2>3. ASSUME NEW n \in Node, RemoveGraphNode(n)
        PROVE  Contents!Next
    <3>1. Stored' = Stored \ {n} /\ n \in Stored
      BY <1>2, <2>3, StepRemoveNode DEF GraphInv, RemoveGraphNode
    <3> QED BY <3>1 DEF Contents!Next, Contents!Remove
  <2>4. ASSUME NEW n \in Node, RemoveGraphEdges(n)
        PROVE  UNCHANGED Stored
    BY <1>2, <2>4, GraphRemoveEdgesStep
  <2>5. ASSUME NEW s \in Node, NEW t \in Node, NEW e \in Edge, NEW type \in EdgeType,
               AddGraphEdge(s, t, e, type)
        PROVE  UNCHANGED Stored
    BY <1>2, <2>5, GraphAddEdgeStep
  <2>6. ASSUME NEW n1 \in Node, NEW n2 \in Node, NEW type \in EdgeType,
               MoveGraphEdges(n1, n2, type)
        PROVE  UNCHANGED Stored
    BY <1>2, <2>6, GraphMoveEdgesStep
  <2>7. CASE UNCHANGED graph
    BY <1>2, <2>7, GraphUnchanged
  <2> QED BY <1>2, <2>1, <2>2, <2>3, <2>4, <2>5, <2>6, <2>7 DEF GraphNext
<1>3. IInv /\ EdgesJoinStored => GraphInv
  BY DEF GraphInv
<1> QED BY <1>1, <1>2, <1>3, GraphInvariant, PTL
        DEF GraphSpec, ImplementsNodeSet, Contents!Spec

(* The ends of the edges, as the functions that the abstract edges are.     *)
LEMMA EndFunctions ==
  ASSUME Links!IInv
  PROVE  /\ node["outgoing"] \in [Edge -> Node \cup {NoNode}]
         /\ node["incoming"] \in [Edge -> Node \cup {NoNode}]
<1>1. node \in [Links!Tag -> [Edge -> Node \cup {NoNode}]]
  BY DEF Links!IInv, Links!TypeOK, Links!Graph, Links!Pointers
<1> QED BY <1>1, TagCases

LEMMA EndFunctionsNext ==
  ASSUME GraphInv'
  PROVE  /\ node'["outgoing"] \in [Edge -> Node \cup {NoNode}]
         /\ node'["incoming"] \in [Edge -> Node \cup {NoNode}]
<1>1. (Links!IInv => /\ node["outgoing"] \in [Edge -> Node \cup {NoNode}]
                     /\ node["incoming"] \in [Edge -> Node \cup {NoNode}])'
  BY EndFunctions, PTL
<1> QED BY <1>1 DEF GraphInv, EdgesJoinStored

(* The linked lists of the subsumption graph are a set of edges, which are  *)
(* added one by one, removed around a node or all together, and redirected  *)
(* from a target to another.                                                *)
THEOREM GraphImplementsEdges == GraphSpec => ImplementsEdgeSet
<1> DEFINE source == node["outgoing"]
           target == node["incoming"]
<1>1. GraphInit => Links!Edges!Init
  BY TagCases DEF GraphInit, Links!Init, Links!Edges!Init
<1>2. ASSUME GraphInv, [GraphNext]_graph
      PROVE  [Links!Edges!Next]_(Links!Edges!vars)
  <2>1. CASE ClearGraph
    <3>1. /\ source' \in [Edge -> Node \cup {NoNode}]
          /\ target' \in [Edge -> Node \cup {NoNode}]
          /\ \A f \in Edge : source'[f] = NoNode /\ target'[f] = NoNode
      BY <1>2, <2>1, GraphClearStep, EndFunctionsNext, TagCases
    <3>2. Links!Edges!RemoveAll(Edge)
      BY <3>1 DEF Links!Edges!RemoveAll
    <3> QED BY <3>2 DEF Links!Edges!Next
  <2>2. ASSUME NEW n \in Node, AddGraphNode(n) \/ RemoveGraphNode(n)
        PROVE  UNCHANGED node
    BY <1>2, <2>2, GraphAddNodeStep, GraphRemoveNodeStep
  <2>3. ASSUME NEW n \in Node, RemoveGraphEdges(n)
        PROVE  Links!Edges!Next
    <3>1. /\ source' \in [Edge -> Node \cup {NoNode}]
          /\ target' \in [Edge -> Node \cup {NoNode}]
          /\ \A f \in Edge :
               /\ source'[f] = IF source[f] = n \/ target[f] = n THEN NoNode ELSE source[f]
               /\ target'[f] = IF source[f] = n \/ target[f] = n THEN NoNode ELSE target[f]
      BY <1>2, <2>3, GraphRemoveEdgesStep, EndFunctionsNext, TagCases
    <3>2. Links!Edges!RemoveAll(Links!Edges!Incident(n))
      BY <3>1 DEF Links!Edges!RemoveAll, Links!Edges!Incident
    <3> QED BY <3>2 DEF Links!Edges!Next
  <2>4. ASSUME NEW s \in Node, NEW t \in Node, NEW e \in Edge, NEW type \in EdgeType,
               AddGraphEdge(s, t, e, type)
        PROVE  Links!Edges!Next
    <3>1. /\ source \in [Edge -> Node \cup {NoNode}]
          /\ target \in [Edge -> Node \cup {NoNode}]
          /\ source' \in [Edge -> Node \cup {NoNode}]
          /\ target' \in [Edge -> Node \cup {NoNode}]
          /\ source[e] = NoNode /\ target[e] = NoNode
          /\ \A f \in Edge :
               /\ source'[f] = IF f = e THEN s ELSE source[f]
               /\ target'[f] = IF f = e THEN t ELSE target[f]
      BY <1>2, <2>4, GraphAddEdgeStep, EndFunctions, EndFunctionsNext, TagCases
         DEF GraphInv, EdgesJoinStored
    <3>2. Links!Edges!Add(s, t, e)
      BY <3>1 DEF Links!Edges!Add
    <3> QED BY <3>2 DEF Links!Edges!Next
  <2>5. ASSUME NEW n1 \in Node, NEW n2 \in Node, NEW type \in EdgeType,
               MoveGraphEdges(n1, n2, type)
        PROVE  Links!Edges!Next
    <3>1. /\ source \in [Edge -> Node \cup {NoNode}]
          /\ source' \in [Edge -> Node \cup {NoNode}]
          /\ target' \in [Edge -> Node \cup {NoNode}]
          /\ \A f \in Edge :
               /\ source'[f] = source[f]
               /\ target'[f] = IF target[f] = n1 THEN n2 ELSE target[f]
      BY <1>2, <2>5, GraphMoveEdgesStep, EndFunctions, EndFunctionsNext
         DEF GraphInv, EdgesJoinStored
    <3>2. Links!Edges!Redirect(n1, n2)
      BY <3>1 DEF Links!Edges!Redirect
    <3> QED BY <3>2 DEF Links!Edges!Next
  <2>6. CASE UNCHANGED graph
    BY <1>2, <2>6, GraphUnchanged DEF Links!Edges!vars
  <2> QED BY <1>2, <2>1, <2>2, <2>3, <2>4, <2>5, <2>6 DEF GraphNext, Links!Edges!vars
<1>3. IInv /\ EdgesJoinStored => GraphInv
  BY DEF GraphInv
<1> QED BY <1>1, <1>2, <1>3, GraphInvariant, PTL
        DEF GraphSpec, ImplementsEdgeSet, Links!ImplementsEdgeSet, Links!Edges!Spec

(* Where move_incoming_edges moves edges from a node n1 to another node n2, *)
(* they come in reverse before the edges into n2, no list of outgoing edges *)
(* changes, and they and only they take the new type.                       *)
THEOREM MovesRetype == GraphSpec => MovedEdgesRetyped
<1> DEFINE incoming(n) == Links!EdgesOf(Links!Graph, "incoming", n)
           outgoing(n) == Links!EdgesOf(Links!Graph, "outgoing", n)
           movedEdges(n) == {incoming(n)[k] : k \in DOMAIN incoming(n)}
           Retyped(n1, n2) ==
             /\ incoming(n2)' = Reverse(incoming(n1)) \o incoming(n2)
             /\ \A n \in Node : outgoing(n)' = outgoing(n)
             /\ \E type \in EdgeType : \A e \in Edge :
                  edgeType'[e] = IF e \in movedEdges(n1) THEN type ELSE edgeType[e]
<1>1. ASSUME GraphInv, [GraphNext]_graph, NEW n1 \in Node, NEW n2 \in Node, n1 # n2,
             NEW e \in Edge, node["incoming"][e] = n1, node'["incoming"][e] = n2
      PROVE  Retyped(n1, n2)
  <2>1. ASSUME NEW m1 \in Node, NEW m2 \in Node, NEW type \in EdgeType,
               MoveGraphEdges(m1, m2, type)
        PROVE  Retyped(n1, n2)
    <3>1. m1 = n1 /\ m2 = n2
      BY <1>1, <2>1, GraphMoveEdgesStep
    <3>2. /\ incoming(n2)' = Moved(incoming(n1), incoming(n2))
          /\ \A n \in Node : outgoing(n)' = outgoing(n)
      BY <1>1, <2>1, <3>1, StepMoveEdges DEF GraphInv, EdgesJoinStored, MoveGraphEdges
    <3>3. movedEdges(n1) = {f \in Edge : node["incoming"][f] = n1}
      BY <1>1, TagCases DEF GraphInv, EdgesJoinStored, Links!IInv, Links!ListsExact
    <3>4. \A f \in Edge :
            edgeType'[f] = IF f \in movedEdges(n1) THEN type ELSE edgeType[f]
      <4> HIDE DEF movedEdges
      <4> QED BY <2>1, <3>1, <3>3 DEF MoveGraphEdges
    <3> HIDE DEF incoming, outgoing, movedEdges
    <3> QED BY <3>2, <3>4 DEF Moved
  <2> HIDE DEF Retyped
  <2>2. ~ ClearGraph
    BY <1>1, GraphClearStep, TagCases, NullAssumption
  <2>3. ASSUME NEW n \in Node, AddGraphNode(n) \/ RemoveGraphNode(n)
        PROVE  FALSE
    BY <1>1, <2>3, GraphAddNodeStep, GraphRemoveNodeStep
  <2>4. ASSUME NEW n \in Node, RemoveGraphEdges(n)
        PROVE  FALSE
    BY <1>1, <2>4, GraphRemoveEdgesStep, TagCases, NullAssumption
  <2>5. ASSUME NEW s \in Node, NEW t \in Node, NEW f \in Edge, NEW type \in EdgeType,
               AddGraphEdge(s, t, f, type)
        PROVE  FALSE
    BY <1>1, <2>5, GraphAddEdgeStep, TagCases, NullAssumption
  <2>6. CASE UNCHANGED graph
    BY <1>1, <2>6 DEF graph
  <2> QED BY <1>1, <2>1, <2>2, <2>3, <2>4, <2>5, <2>6 DEF GraphNext
<1>2. IInv /\ EdgesJoinStored /\ [GraphNext]_graph =>
        [\A n1, n2 \in Node :
           n1 # n2 /\ (\E e \in Edge : node["incoming"][e] = n1 /\ node'["incoming"][e] = n2) =>
             Retyped(n1, n2)]_graph
  <2> HIDE DEF Retyped
  <2> QED BY <1>1 DEF GraphInv
<1> QED BY <1>2, GraphInvariant, PTL DEF GraphSpec, MovedEdgesRetyped
=============================================================================
