------------------------------- MODULE PoolProofs ------------------------------
(***************************************************************************)
(* Proofs about Pool: for every size of blocks, number of blocks and of    *)
(* handles, no chunk is lost, recycled while referenced or handed out      *)
(* twice, as long as the handles cannot make a counter overflow.           *)
(***************************************************************************)
EXTENDS Pool, FiniteSetTheorems, SequenceTheorems, WellFoundedInduction, TLAPS

-----------------------------------------------------------------------------
(* Induction over the subsets of a finite set: a family F of sets that     *)
(* holds each set whose smaller subsets it holds.                          *)
LEMMA SubsetInduction ==
  ASSUME NEW S, IsFiniteSet(S), NEW F,
         \A T \in SUBSET S : (\A U \in SUBSET T : U # T => U \in F) => T \in F
  PROVE  S \in F
<1>1. SUFFICES ASSUME S \notin F
               PROVE  FALSE
  OBVIOUS
<1> DEFINE B == {T \in SUBSET S : T \notin F}
<1>2. B \subseteq FiniteSubsetsOf(S) /\ B # {}
  <2>1. B \subseteq FiniteSubsetsOf(S)
    BY FS_FiniteSubsetsOfFinite
  <2>2. S \in B
    BY <1>1
  <2>3. QED
    BY <2>1, <2>2
<1>3. IsWellFoundedOn(StrictSubsetOrdering(S), FiniteSubsetsOf(S))
  BY FS_StrictSubsetOrderingWellFounded
<1>4. PICK T \in B : \A U \in B : ~ (<<U, T>> \in StrictSubsetOrdering(S))
  <2> HIDE DEF B
  <2>1. B \subseteq FiniteSubsetsOf(S) /\ B # {}
    BY <1>2
  <2>2. QED
    BY <1>3, <2>1, WFMin
<1>5. \A U \in SUBSET T : U # T => U \in F
  BY <1>4 DEF StrictSubsetOrdering
<1>6. QED
  BY <1>5

(* The order in which the chunks are pushed is total.                      *)
LEMMA PushedAfterTotal ==
  /\ \A c \in Chunk : ~ PushedAfter(c, c)
  /\ \A c, d \in Chunk : c # d => PushedAfter(c, d) \/ PushedAfter(d, c)
  /\ \A c, d, e \in Chunk : PushedAfter(c, d) /\ PushedAfter(d, e) => PushedAfter(c, e)
<1>1. \A c \in Chunk : c \in Int /\ BlockOf(c) \in Int
  BY PoolAssumption DEF Chunk, BlockOf
<1> HIDE DEF BlockOf
<1>2. QED
  BY <1>1 DEF PushedAfter

(* Of some chunks, one is pushed before the others.                        *)
LEMMA PushedFirst ==
  ASSUME NEW S \in SUBSET Chunk, IsFiniteSet(S), S # {}
  PROVE  \E x \in S : \A y \in S \ {x} : PushedAfter(y, x)
<1> DEFINE F == {T \in SUBSET S :
                   T # {} => \E x \in T : \A y \in T \ {x} : PushedAfter(y, x)}
<1>1. SUFFICES S \in F
  OBVIOUS
<1>2. ASSUME NEW T \in SUBSET S, \A U \in SUBSET T : U # T => U \in F
      PROVE  T \in F
  <2>1. SUFFICES ASSUME NEW z \in T
                 PROVE  \E x \in T : \A y \in T \ {x} : PushedAfter(y, x)
    OBVIOUS
  <2>2. CASE T = {z}
    BY <2>2
  <2>3. CASE T # {z}
    <3>1. T \ {z} \in F /\ T \ {z} # {}
      BY <1>2, <2>3
    <3>2. PICK x \in T \ {z} : \A y \in (T \ {z}) \ {x} : PushedAfter(y, x)
      BY <3>1
    <3>3. x \in Chunk /\ z \in Chunk /\ T \subseteq Chunk /\ x # z
      OBVIOUS
    <3>4. CASE PushedAfter(z, x)
      BY <3>2, <3>4
    <3>5. CASE PushedAfter(x, z)
      BY <3>2, <3>3, <3>5, PushedAfterTotal
    <3>6. QED
      BY <3>3, <3>4, <3>5, PushedAfterTotal
  <2>4. QED
    BY <2>2, <2>3
<1> HIDE DEF F
<1>3. QED
  BY <1>2, SubsetInduction

Sorted(q, n) == \A i, j \in 1 .. n : i < j => PushedAfter(q[i], q[j])

(* Chunks can be listed in the order in which they are pushed.             *)
LEMMA SortedListExists ==
  ASSUME NEW S \in SUBSET Chunk, IsFiniteSet(S)
  PROVE  \E q \in [1 .. Cardinality(S) -> S] : Sorted(q, Cardinality(S))
<1> DEFINE F == {T \in SUBSET S :
                   \E q \in [1 .. Cardinality(T) -> T] : Sorted(q, Cardinality(T))}
<1>1. SUFFICES S \in F
  OBVIOUS
<1>2. ASSUME NEW T \in SUBSET S, \A U \in SUBSET T : U # T => U \in F
      PROVE  T \in F
  <2>f. IsFiniteSet(T) /\ T \in SUBSET Chunk
    BY FS_Subset
  <2>1. CASE T = {}
    <3>1. Cardinality(T) = 0
      BY <2>1, FS_EmptySet
    <3>2. [i \in 1 .. 0 |-> 0] \in [1 .. 0 -> T] /\ Sorted([i \in 1 .. 0 |-> 0], 0)
      BY DEF Sorted
    <3>3. QED
      BY <3>1, <3>2
  <2>2. CASE T # {}
    <3>1. PICK x \in T : \A y \in T \ {x} : PushedAfter(y, x)
      BY <2>2, <2>f, PushedFirst
    <3> DEFINE n == Cardinality(T \ {x})
    <3>2. n \in Nat /\ Cardinality(T) = n + 1
      <4>1. IsFiniteSet(T \ {x}) /\ n = Cardinality(T) - 1 /\ Cardinality(T) \in Nat
        BY <2>f, FS_RemoveElement, FS_CardinalityType
      <4>2. n \in Nat
        BY <4>1, FS_CardinalityType
      <4>3. QED
        BY <4>1, <4>2
    <3>3. T \ {x} \in F
      BY <1>2
    <3>4. PICK q \in [1 .. n -> T \ {x}] : Sorted(q, n)
      BY <3>3
    <3> HIDE DEF n
    <3> DEFINE r == [i \in 1 .. n + 1 |-> IF i <= n THEN q[i] ELSE x]
    <3>5. r \in [1 .. n + 1 -> T]
      BY <3>2, <3>4
    <3>6. \A i \in 1 .. n : r[i] = q[i] /\ q[i] \in T \ {x}
      BY <3>2, <3>4
    <3>7. r[n + 1] = x
      BY <3>2
    <3> HIDE DEF r
    <3>8. ASSUME NEW i \in 1 .. n + 1, NEW j \in 1 .. n + 1, i < j
          PROVE  PushedAfter(r[i], r[j])
      <4>1. CASE j <= n
        BY <3>2, <3>4, <3>6, <3>8, <4>1 DEF Sorted
      <4>2. CASE j = n + 1
        BY <3>1, <3>2, <3>6, <3>7, <3>8, <4>2
      <4>3. QED
        BY <3>2, <4>1, <4>2
    <3>9. Sorted(r, n + 1)
      BY <3>8 DEF Sorted
    <3>10. QED
      BY <3>2, <3>5, <3>9
  <2>3. QED
    BY <2>1, <2>2
<1> HIDE DEF F
<1>3. QED
  BY <1>2, SubsetInduction

(* collect pushes every chunk that it finds, once.                         *)
LEMMA PushedList ==
  ASSUME NEW S \in SUBSET Chunk, IsFiniteSet(S)
  PROVE  /\ Pushed(S) \in Seq(S)
         /\ \A i, j \in 1 .. Len(Pushed(S)) : Pushed(S)[i] = Pushed(S)[j] => i = j
         /\ \A c \in S : \E i \in 1 .. Len(Pushed(S)) : Pushed(S)[i] = c
<1> DEFINE n == Cardinality(S)
           q == Pushed(S)
<1>1. n \in Nat
  BY FS_CardinalityType
<1>2. q \in [1 .. n -> S] /\ \A i, j \in 1 .. n : i < j => PushedAfter(q[i], q[j])
  BY SortedListExists DEF Pushed, Sorted
<1> HIDE DEF n, q
<1>3. \A i, j \in 1 .. n : q[i] = q[j] => i = j
  <2>1. SUFFICES ASSUME NEW i \in 1 .. n, NEW j \in 1 .. n, q[i] = q[j], i < j
                 PROVE  FALSE
    BY <1>1
  <2>2. PushedAfter(q[i], q[i]) /\ q[i] \in Chunk
    BY <1>2, <2>1
  <2>3. QED
    BY <2>2, PushedAfterTotal
<1>4. q \in Injection(1 .. n, S)
  BY <1>2, <1>3 DEF Injection, IsInjective
<1>5. q \in Surjection(1 .. n, S)
  <2>1. Cardinality(1 .. n) = n
    BY <1>1, FS_Interval
  <2>2. QED
    BY <1>4, <2>1, FS_Injection DEF n
<1>6. \A c \in S : \E i \in 1 .. n : q[i] = c
  BY <1>5 DEF Surjection
<1>7. q \in Seq(S) /\ Len(q) = n
  BY <1>1, <1>2
<1>8. QED
  BY <1>3, <1>6, <1>7 DEF q

-----------------------------------------------------------------------------
(* The memory of the allocator, when the chunks in out have been handed to *)
(* the operation under way.                                                *)
Elements(q) == {q[i] : i \in DOMAIN q}

MemoryType ==
  [blocks : 0 .. MaxBlocks, raw : Nat, free : Seq(Chunk),
   count : [Chunk -> Unset .. FreeChunk], live : SUBSET Chunk]

Partitioned(m, out) ==
  /\ m \in MemoryType /\ m.raw <= m.blocks * AllocNb
  /\ \A i, j \in DOMAIN m.free : m.free[i] = m.free[j] => i = j
  /\ 1 .. m.raw = m.live \cup Elements(m.free) \cup out
  /\ m.live \cap Elements(m.free) = {}
  /\ out \cap (m.live \cup Elements(m.free)) = {}
  /\ \A c \in Elements(m.free) : m.count[c] \in {RefcountMax, FreeChunk}

(* Blocks and chunks are counted within the memory.                        *)
LEMMA RawBound ==
  ASSUME NEW b \in 0 .. MaxBlocks, NEW r \in Nat
  PROVE  /\ r <= b * AllocNb => 1 .. r \subseteq Chunk
         /\ r < b * AllocNb => r + 1 \in Chunk
         /\ (b + 1) * AllocNb = b * AllocNb + AllocNb
         /\ b * AllocNb \in Nat
<1>1. AllocNb \in Nat /\ AllocNb > 0 /\ MaxBlocks \in Nat /\ b \in Nat
  BY PoolAssumption
<1>2. /\ b * AllocNb \in Nat /\ AllocNb * MaxBlocks \in Nat
      /\ (b + 1) * AllocNb = b * AllocNb + AllocNb
  BY <1>1
<1>3. b * AllocNb <= AllocNb * MaxBlocks
  <2>1. MaxBlocks - b \in Nat /\ (MaxBlocks - b) * AllocNb \in Nat
    BY <1>1
  <2>2. AllocNb * MaxBlocks = b * AllocNb + (MaxBlocks - b) * AllocNb
    BY <1>1
  <2>3. QED
    BY <1>2, <2>1, <2>2
<1>4. QED
  BY <1>2, <1>3 DEF Chunk

(* The elements of a longer or a shorter list.                             *)
LEMMA ListFacts ==
  ASSUME NEW q \in Seq(Chunk)
  PROVE  /\ Elements(q) \subseteq Chunk
         /\ \A r \in Seq(Chunk) :
              /\ r \o q \in Seq(Chunk)
              /\ Elements(r \o q) = Elements(r) \cup Elements(q)
         /\ q # <<>> =>
              /\ Tail(q) \in Seq(Chunk) /\ Head(q) \in Chunk
              /\ Elements(q) = Elements(Tail(q)) \cup {Head(q)}
<1>1. DOMAIN q = 1 .. Len(q) /\ Len(q) \in Nat /\ \A i \in 1 .. Len(q) : q[i] \in Chunk
  OBVIOUS
<1>2. ASSUME NEW r \in Seq(Chunk)
      PROVE  r \o q \in Seq(Chunk) /\ Elements(r \o q) = Elements(r) \cup Elements(q)
  <2>1. DOMAIN r = 1 .. Len(r) /\ Len(r) \in Nat
    OBVIOUS
  <2>2. /\ r \o q \in Seq(Chunk) /\ DOMAIN (r \o q) = 1 .. Len(r) + Len(q)
        /\ \A i \in 1 .. Len(r) : (r \o q)[i] = r[i]
        /\ \A i \in 1 .. Len(q) : (r \o q)[Len(r) + i] = q[i]
    BY ConcatProperties
  <2>3. Elements(r) \cup Elements(q) \subseteq Elements(r \o q)
    <3>1. \A i \in 1 .. Len(r) : i \in DOMAIN (r \o q)
      BY <1>1, <2>1, <2>2
    <3>2. \A i \in 1 .. Len(q) : Len(r) + i \in DOMAIN (r \o q)
      BY <1>1, <2>1, <2>2
    <3>3. Elements(r) \subseteq Elements(r \o q)
      BY <2>1, <2>2, <3>1 DEF Elements
    <3>4. Elements(q) \subseteq Elements(r \o q)
      <4>1. SUFFICES ASSUME NEW i \in 1 .. Len(q)
                     PROVE  q[i] \in Elements(r \o q)
        BY <1>1 DEF Elements
      <4>2. (r \o q)[Len(r) + i] = q[i] /\ Len(r) + i \in DOMAIN (r \o q)
        BY <2>2, <3>2
      <4>3. QED
        BY <4>2 DEF Elements
    <3>5. QED
      BY <3>3, <3>4
  <2>4. Elements(r \o q) \subseteq Elements(r) \cup Elements(q)
    <3>1. SUFFICES ASSUME NEW i \in 1 .. Len(r) + Len(q)
                   PROVE  (r \o q)[i] \in Elements(r) \cup Elements(q)
      BY <2>2 DEF Elements
    <3>2. CASE i <= Len(r)
      BY <2>1, <2>2, <3>2 DEF Elements
    <3>3. CASE i > Len(r)
      <4>1. i - Len(r) \in 1 .. Len(q) /\ Len(r) + (i - Len(r)) = i
        BY <1>1, <2>1, <3>3
      <4>2. QED
        BY <1>1, <2>2, <4>1 DEF Elements
    <3>4. QED
      BY <2>1, <3>2, <3>3
  <2>5. QED
    BY <2>2, <2>3, <2>4
<1>3. ASSUME q # <<>>
      PROVE  /\ Tail(q) \in Seq(Chunk) /\ Head(q) \in Chunk
             /\ Elements(q) = Elements(Tail(q)) \cup {Head(q)}
  <2>1. /\ Tail(q) \in Seq(Chunk) /\ Head(q) \in Chunk /\ Head(q) = q[1]
        /\ Len(q) >= 1 /\ DOMAIN Tail(q) = 1 .. Len(q) - 1
        /\ \A i \in 1 .. Len(q) - 1 : Tail(q)[i] = q[i + 1]
    <3>1. Head(q) \in Chunk /\ Head(q) = q[1] /\ Len(q) >= 1
      BY <1>1, <1>3
    <3>2. Tail(q) \in Seq(Chunk) /\ Len(Tail(q)) = Len(q) - 1
      BY <1>3, HeadTailProperties
    <3>3. \A i \in 1 .. Len(q) - 1 : Tail(q)[i] = q[i + 1]
      BY <1>3, <3>2, HeadTailProperties
    <3>4. QED
      BY <3>1, <3>2, <3>3
  <2>2. Elements(q) \subseteq Elements(Tail(q)) \cup {Head(q)}
    <3>1. SUFFICES ASSUME NEW i \in 1 .. Len(q), i # 1
                   PROVE  q[i] \in Elements(Tail(q))
      BY <1>1, <2>1 DEF Elements
    <3>2. i - 1 \in 1 .. Len(q) - 1 /\ (i - 1) + 1 = i
      BY <1>1, <3>1
    <3>3. QED
      BY <2>1, <3>2 DEF Elements
  <2>3. Elements(Tail(q)) \cup {Head(q)} \subseteq Elements(q)
    BY <1>1, <2>1 DEF Elements
  <2>4. QED
    BY <2>1, <2>2, <2>3
<1>4. QED
  BY <1>1, <1>2, <1>3 DEF Elements

(* Two lists without repetitions and without common elements.              *)
LEMMA ConcatInjective ==
  ASSUME NEW p \in Seq(Chunk), NEW f \in Seq(Chunk),
         \A i, j \in DOMAIN p : p[i] = p[j] => i = j,
         \A i, j \in DOMAIN f : f[i] = f[j] => i = j,
         Elements(p) \cap Elements(f) = {}
  PROVE  \A i, j \in DOMAIN (p \o f) : (p \o f)[i] = (p \o f)[j] => i = j
<1> DEFINE q == p \o f
<1>1. /\ Len(p) \in Nat /\ Len(f) \in Nat
      /\ DOMAIN p = 1 .. Len(p) /\ DOMAIN f = 1 .. Len(f) /\ DOMAIN q = 1 .. Len(p) + Len(f)
      /\ \A i \in 1 .. Len(p) + Len(f) : q[i] = IF i <= Len(p) THEN p[i] ELSE f[i - Len(p)]
  BY ConcatProperties
<1>2. /\ \A i \in DOMAIN p : p[i] \in Elements(p)
      /\ \A i \in DOMAIN f : f[i] \in Elements(f)
  BY DEF Elements
<1> HIDE DEF q
<1>3. SUFFICES ASSUME NEW i \in 1 .. Len(p) + Len(f), NEW j \in 1 .. Len(p) + Len(f),
                      q[i] = q[j]
               PROVE  i = j
  BY <1>1 DEF q
<1>4. \A k \in 1 .. Len(p) + Len(f) :
        /\ k <= Len(p) => k \in DOMAIN p /\ q[k] = p[k]
        /\ ~ (k <= Len(p)) => k - Len(p) \in DOMAIN f /\ q[k] = f[k - Len(p)]
  BY <1>1
<1>5. CASE i <= Len(p) /\ j <= Len(p)
  BY <1>3, <1>4, <1>5
<1>6. CASE ~ (i <= Len(p)) /\ ~ (j <= Len(p))
  <2>1. i - Len(p) = j - Len(p)
    BY <1>3, <1>4, <1>6
  <2>2. QED
    BY <1>1, <2>1
<1>7. CASE (i <= Len(p)) # (j <= Len(p))
  BY <1>2, <1>3, <1>4, <1>7
<1>8. QED
  BY <1>5, <1>6, <1>7

(* The record of a memory with its parts.                                  *)
LEMMA PartitionedParts ==
  ASSUME NEW m, NEW out, Partitioned(m, out)
  PROVE  /\ m = [blocks |-> m.blocks, raw |-> m.raw, free |-> m.free,
                 count |-> m.count, live |-> m.live]
         /\ m.blocks \in 0 .. MaxBlocks /\ m.raw \in Nat /\ m.free \in Seq(Chunk)
         /\ m.count \in [Chunk -> Unset .. FreeChunk] /\ m.live \subseteq Chunk
         /\ 1 .. m.raw \subseteq Chunk /\ IsFiniteSet(1 .. m.raw)
<1>1. m \in MemoryType /\ m.raw <= m.blocks * AllocNb
  BY DEF Partitioned
<1>2. m.blocks \in 0 .. MaxBlocks /\ m.raw \in Nat
  BY <1>1 DEF MemoryType
<1>3. 1 .. m.raw \subseteq Chunk
  BY <1>1, <1>2, RawBound
<1>4. IsFiniteSet(1 .. m.raw)
  BY <1>2, FS_Interval
<1>5. QED
  BY <1>1, <1>3, <1>4 DEF MemoryType

(* collect: the objects without a reference become free chunks.            *)
LEMMA CollectedPartitioned ==
  ASSUME NEW m, Partitioned(m, {})
  PROVE  /\ Partitioned(Collected(m), {})
         /\ Unreferenced(m) \subseteq m.live
         /\ Collected(m).live = m.live \ Unreferenced(m)
         /\ Collected(m).blocks = m.blocks /\ Collected(m).raw = m.raw
         /\ \A c \in m.live \ Unreferenced(m) : Collected(m).count[c] = m.count[c]
         /\ Elements(Collected(m).free) = Unreferenced(m) \cup Elements(m.free)
<1> DEFINE S == Unreferenced(m)
           n == [c \in Chunk |-> IF c \in S THEN FreeChunk ELSE m.count[c]]
           q == Pushed(S) \o m.free
<1>0. /\ \A i, j \in DOMAIN m.free : m.free[i] = m.free[j] => i = j
      /\ 1 .. m.raw = m.live \cup Elements(m.free)
      /\ m.live \cap Elements(m.free) = {}
      /\ \A c \in Elements(m.free) : m.count[c] \in {RefcountMax, FreeChunk}
  BY DEF Partitioned
<1>1. S \subseteq 1 .. m.raw /\ S \subseteq Chunk /\ IsFiniteSet(S)
  <2>1. S \subseteq 1 .. m.raw
    BY DEF Unreferenced
  <2>2. QED
    BY <2>1, PartitionedParts, FS_Subset
<1>2. S \subseteq m.live /\ S \cap Elements(m.free) = {}
  <2>1. RefcountMax # 0 /\ FreeChunk # 0
    BY PoolAssumption DEF FreeChunk
  <2>2. S \cap Elements(m.free) = {}
    BY <1>0, <2>1 DEF Unreferenced, Collectable
  <2>3. QED
    BY <1>0, <1>1, <2>2
<1>3. /\ Collected(m).blocks = m.blocks /\ Collected(m).raw = m.raw
      /\ Collected(m).free = q /\ Collected(m).count = n
      /\ Collected(m).live = m.live \ S
      /\ n \in [Chunk -> Unset .. FreeChunk] /\ q \in Seq(Chunk) => Collected(m) \in MemoryType
  <2>1. Collected(m) = [m EXCEPT !.count = n, !.live = m.live \ S, !.free = q]
    BY Zenon DEF Collected
  <2>2. m \in MemoryType /\ m.live \ S \subseteq Chunk
    BY PartitionedParts DEF Partitioned
  <2> HIDE DEF n, q, S
  <2> DEFINE w == m.live \ S
             e == [m EXCEPT !.count = n, !.live = w, !.free = q]
  <2>3. w \subseteq Chunk
    BY <2>2
  <2>4. Collected(m) = e
    BY ONLY <2>1, Zenon
  <2> HIDE DEF w
  <2>5. /\ e.blocks = m.blocks /\ e.raw = m.raw
        /\ e.free = q /\ e.count = n /\ e.live = w
        /\ n \in [Chunk -> Unset .. FreeChunk] /\ q \in Seq(Chunk) => e \in MemoryType
    BY <2>2, <2>3 DEF MemoryType
  <2> HIDE DEF e
  <2>6. QED
    BY <2>4, <2>5 DEF w
<1>4. n \in [Chunk -> Unset .. FreeChunk]
  <2>1. FreeChunk \in Unset .. FreeChunk
    BY PoolAssumption DEF FreeChunk, Unset
  <2>2. \A c \in Chunk : m.count[c] \in Unset .. FreeChunk
    BY PartitionedParts
  <2> HIDE DEF S
  <2>3. QED
    BY <2>1, <2>2
<1>5. /\ Pushed(S) \in Seq(Chunk) /\ Elements(Pushed(S)) = S
      /\ \A i, j \in DOMAIN Pushed(S) : Pushed(S)[i] = Pushed(S)[j] => i = j
  <2> HIDE DEF S
  <2>1. /\ Pushed(S) \in Seq(S)
        /\ \A i, j \in 1 .. Len(Pushed(S)) : Pushed(S)[i] = Pushed(S)[j] => i = j
        /\ \A c \in S : \E i \in 1 .. Len(Pushed(S)) : Pushed(S)[i] = c
    BY <1>1, PushedList
  <2>2. /\ DOMAIN Pushed(S) = 1 .. Len(Pushed(S))
        /\ \A i \in 1 .. Len(Pushed(S)) : Pushed(S)[i] \in S
    BY <2>1
  <2>3. Pushed(S) \in Seq(Chunk)
    BY <1>1, <2>1, SeqMonotonic
  <2>4. QED
    BY <2>1, <2>2, <2>3 DEF Elements
<1>6. q \in Seq(Chunk) /\ Elements(q) = S \cup Elements(m.free)
  <2>1. m.free \in Seq(Chunk)
    BY PartitionedParts
  <2>2. QED
    BY <2>1, <1>5, ListFacts
<1>7. \A i, j \in DOMAIN q : q[i] = q[j] => i = j
  <2>1. m.free \in Seq(Chunk) /\ Elements(Pushed(S)) \cap Elements(m.free) = {}
    BY <1>2, <1>5, PartitionedParts
  <2> HIDE DEF S
  <2>2. QED
    BY <2>1, <1>0, <1>5, ConcatInjective
<1>8. \A c \in S \cup Elements(m.free) : n[c] \in {RefcountMax, FreeChunk}
  <2>1. Elements(m.free) \subseteq Chunk
    BY <1>0, PartitionedParts
  <2> HIDE DEF S
  <2>2. QED
    BY <1>0, <1>1, <2>1
<1>9. \A c \in m.live \ S : n[c] = m.count[c]
  BY PartitionedParts
<1> HIDE DEF n, q, S
<1>10. Partitioned(Collected(m), {})
  <2>1. Collected(m) \in MemoryType
    BY <1>3, <1>4, <1>6, PartitionedParts DEF MemoryType
  <2>2. m.raw <= m.blocks * AllocNb
    BY DEF Partitioned
  <2>3. 1 .. m.raw = (m.live \ S) \cup Elements(q) /\ (m.live \ S) \cap Elements(q) = {}
    BY <1>0, <1>2, <1>6
  <2>4. QED
    BY <1>3, <1>6, <1>7, <1>8, <2>1, <2>2, <2>3 DEF Partitioned
<1>11. QED
  BY <1>2, <1>3, <1>6, <1>9, <1>10 DEF S

(* A raw chunk is taken.                                                   *)
LEMMA TakeRawPartitioned ==
  ASSUME NEW m, Partitioned(m, {}), RawLeft(m)
  PROVE  /\ TakeRaw(m).chunk \in Chunk
         /\ Partitioned(TakeRaw(m).memory, {TakeRaw(m).chunk})
         /\ TakeRaw(m).memory.live = m.live /\ TakeRaw(m).memory.blocks = m.blocks
         /\ \A c \in m.live : TakeRaw(m).memory.count[c] = m.count[c]
<1> DEFINE d == m.raw + 1
           n == [m.count EXCEPT ![d] = 0]
           e == [m EXCEPT !.raw = d, !.count = n]
<1>1. /\ m \in MemoryType /\ m.raw \in Nat /\ m.blocks \in 0 .. MaxBlocks
      /\ m.free \in Seq(Chunk) /\ m.live \subseteq Chunk
      /\ m.count \in [Chunk -> Unset .. FreeChunk]
      /\ \A i, j \in DOMAIN m.free : m.free[i] = m.free[j] => i = j
      /\ 1 .. m.raw = m.live \cup Elements(m.free)
      /\ m.live \cap Elements(m.free) = {}
      /\ \A c \in Elements(m.free) : m.count[c] \in {RefcountMax, FreeChunk}
  BY PartitionedParts DEF Partitioned
<1>2. m.raw < m.blocks * AllocNb /\ d \in Chunk
  BY <1>1, RawBound DEF RawLeft
<1>3. TakeRaw(m).chunk = d /\ TakeRaw(m).memory = e
  BY DEF TakeRaw
<1>4. n \in [Chunk -> Unset .. FreeChunk] /\ \A c \in Chunk \ {d} : n[c] = m.count[c]
  <2>1. 0 \in Unset .. FreeChunk
    BY PoolAssumption DEF FreeChunk, Unset
  <2> HIDE DEF d
  <2>2. QED
    BY <1>1, <1>2, <2>1
<1>5. d \notin 1 .. m.raw /\ 1 .. d = 1 .. m.raw \cup {d} /\ d \in Nat
  BY <1>1
<1>6. d <= m.blocks * AllocNb
  <2>1. m.blocks * AllocNb \in Int
    BY <1>1, PoolAssumption
  <2>2. QED
    BY <1>1, <1>2, <2>1
<1> HIDE DEF n, d
<1>7. e \in MemoryType /\ e.blocks = m.blocks /\ e.raw = d /\ e.free = m.free
      /\ e.count = n /\ e.live = m.live
  BY <1>1, <1>4, <1>5 DEF MemoryType
<1> HIDE DEF e
<1>8. \A c \in m.live \cup Elements(m.free) : n[c] = m.count[c]
  BY <1>1, <1>4, <1>5, PartitionedParts
<1>9. Partitioned(e, {d})
  BY <1>1, <1>5, <1>6, <1>7, <1>8 DEF Partitioned
<1>10. QED
  BY <1>2, <1>3, <1>7, <1>8, <1>9

(* A free chunk is taken.                                                  *)
LEMMA TakeFreePartitioned ==
  ASSUME NEW m, Partitioned(m, {}), m.free # <<>>
  PROVE  /\ TakeFree(m).chunk \in Chunk
         /\ Partitioned(TakeFree(m).memory, {TakeFree(m).chunk})
         /\ TakeFree(m).memory.live = m.live /\ TakeFree(m).memory.blocks = m.blocks
         /\ \A c \in m.live : TakeFree(m).memory.count[c] = m.count[c]
<1> DEFINE d == Head(m.free)
           f == Tail(m.free)
           n == [m.count EXCEPT ![d] = 0]
           e == [m EXCEPT !.free = f, !.count = n]
<1>1. /\ m \in MemoryType /\ m.raw \in Nat /\ m.raw <= m.blocks * AllocNb
      /\ m.free \in Seq(Chunk) /\ m.live \subseteq Chunk
      /\ m.count \in [Chunk -> Unset .. FreeChunk]
      /\ \A i, j \in DOMAIN m.free : m.free[i] = m.free[j] => i = j
      /\ 1 .. m.raw = m.live \cup Elements(m.free)
      /\ m.live \cap Elements(m.free) = {}
      /\ \A c \in Elements(m.free) : m.count[c] \in {RefcountMax, FreeChunk}
  BY PartitionedParts DEF Partitioned
<1>2. /\ f \in Seq(Chunk) /\ d \in Chunk /\ d \in Elements(m.free)
      /\ Elements(m.free) = Elements(f) \cup {d}
  BY <1>1, ListFacts
<1>3. /\ \A i, j \in DOMAIN f : f[i] = f[j] => i = j
      /\ d \notin Elements(f)
  <2>1. /\ Len(m.free) \in Nat /\ Len(m.free) >= 1 /\ DOMAIN m.free = 1 .. Len(m.free)
        /\ d = m.free[1]
    BY <1>1
  <2>2. /\ DOMAIN f = 1 .. Len(m.free) - 1
        /\ \A i \in 1 .. Len(m.free) - 1 : f[i] = m.free[i + 1]
    <3>1. f \in Seq(Chunk) /\ Len(f) = Len(m.free) - 1
      BY <1>1, HeadTailProperties
    <3>2. \A i \in 1 .. Len(f) : f[i] = m.free[i + 1]
      BY <1>1, HeadTailProperties
    <3>3. QED
      BY <3>1, <3>2
  <2>3. \A i \in DOMAIN f : i + 1 \in DOMAIN m.free /\ i + 1 # 1 /\ f[i] = m.free[i + 1]
    BY <2>1, <2>2
  <2>4. \A i, j \in DOMAIN f : i \in Int /\ j \in Int /\ (i + 1 = j + 1 => i = j)
    BY <2>1, <2>2
  <2>5. 1 \in DOMAIN m.free
    BY <2>1
  <2> HIDE DEF f, d
  <2>6. \A i, j \in DOMAIN f : f[i] = f[j] => i = j
    <3>1. SUFFICES ASSUME NEW i \in DOMAIN f, NEW j \in DOMAIN f, f[i] = f[j]
                   PROVE  i = j
      OBVIOUS
    <3>2. i + 1 = j + 1
      BY <1>1, <2>3, <3>1
    <3>3. QED
      BY <2>4, <3>2
  <2>7. \A i \in DOMAIN f : f[i] # d
    <3>1. SUFFICES ASSUME NEW i \in DOMAIN f, f[i] = d
                   PROVE  FALSE
      OBVIOUS
    <3>2. i + 1 = 1
      BY <1>1, <2>1, <2>3, <2>5, <3>1
    <3>3. QED
      BY <2>3, <3>2
  <2>8. QED
    BY <2>6, <2>7 DEF Elements
<1>4. TakeFree(m).chunk = d /\ TakeFree(m).memory = e
  BY DEF TakeFree
<1>5. n \in [Chunk -> Unset .. FreeChunk] /\ \A c \in Chunk \ {d} : n[c] = m.count[c]
  <2>1. 0 \in Unset .. FreeChunk
    BY PoolAssumption DEF FreeChunk, Unset
  <2> HIDE DEF d
  <2>2. QED
    BY <1>1, <1>2, <2>1
<1> HIDE DEF n, d, f
<1>6. e \in MemoryType /\ e.blocks = m.blocks /\ e.raw = m.raw /\ e.free = f
      /\ e.count = n /\ e.live = m.live
  BY <1>1, <1>2, <1>5 DEF MemoryType
<1> HIDE DEF e
<1>7. \A c \in m.live \cup Elements(f) : n[c] = m.count[c]
  <2>1. Elements(f) \subseteq Chunk
    BY <1>2, ListFacts
  <2>2. QED
    BY <1>1, <1>2, <1>3, <1>5, <2>1
<1>8. Partitioned(e, {d})
  BY <1>1, <1>2, <1>3, <1>6, <1>7 DEF Partitioned
<1>9. QED
  BY <1>2, <1>4, <1>6, <1>7, <1>8

(* A block is added.                                                       *)
LEMMA BlockAdded ==
  ASSUME NEW m, Partitioned(m, {}), m.blocks < MaxBlocks
  PROVE  LET e == [m EXCEPT !.blocks = @ + 1] IN
           /\ Partitioned(e, {}) /\ RawLeft(e)
           /\ e.live = m.live /\ e.count = m.count /\ e.raw = m.raw
<1> DEFINE b == m.blocks + 1
           e == [m EXCEPT !.blocks = b]
<1>1. /\ m \in MemoryType /\ m.raw \in Nat /\ m.raw <= m.blocks * AllocNb
      /\ m.blocks \in 0 .. MaxBlocks
  BY PartitionedParts DEF Partitioned
<1>2. b \in 0 .. MaxBlocks
  BY <1>1, PoolAssumption
<1>3. m.raw < b * AllocNb
  <2>1. b * AllocNb = m.blocks * AllocNb + AllocNb /\ m.blocks * AllocNb \in Nat
    BY <1>1, RawBound
  <2>2. QED
    BY <1>1, <2>1, PoolAssumption
<1> HIDE DEF b
<1>4. /\ e \in MemoryType /\ e.blocks = b /\ e.raw = m.raw /\ e.free = m.free
      /\ e.count = m.count /\ e.live = m.live
  BY <1>1, <1>2 DEF MemoryType
<1> HIDE DEF e
<1>5. b * AllocNb \in Int
  BY <1>2, PoolAssumption
<1>6. m.raw <= b * AllocNb
  BY <1>1, <1>3, <1>5
<1>7. Partitioned(e, {}) /\ RawLeft(e)
  BY <1>3, <1>4, <1>6 DEF Partitioned, RawLeft
<1>8. QED
  BY <1>4, <1>7 DEF e, b

(* allocate: hands out one chunk, and destructs unreferenced objects only; *)
(* a block is added only when every chunk holds a referenced object.       *)
LEMMA AllocationPartitioned ==
  ASSUME NEW m, Partitioned(m, {}),
         m.blocks < MaxBlocks \/ RawLeft(m) \/ Collected(m).free # <<>>
  PROVE  /\ Allocation(m).chunk \in Chunk
         /\ Partitioned(Allocation(m).memory, {Allocation(m).chunk})
         /\ m.live \ Unreferenced(m) \subseteq Allocation(m).memory.live
         /\ Allocation(m).memory.live \subseteq m.live
         /\ \A c \in Allocation(m).memory.live :
              Allocation(m).memory.count[c] = m.count[c]
         /\ Allocation(m).memory.blocks > m.blocks =>
              /\ m.raw = m.blocks * AllocNb
              /\ 1 .. m.raw = m.live
              /\ Unreferenced(m) = {}
<1>1. /\ m.raw \in Nat /\ m.blocks \in 0 .. MaxBlocks /\ m.raw <= m.blocks * AllocNb
      /\ m.blocks * AllocNb \in Nat
      /\ 1 .. m.raw = m.live \cup Elements(m.free)
  BY PartitionedParts, RawBound DEF Partitioned
<1> DEFINE d == IF m.free = <<>> THEN Collected(m) ELSE m
<1>2. /\ Partitioned(d, {}) /\ d.blocks = m.blocks /\ d.raw = m.raw
      /\ m.live \ Unreferenced(m) \subseteq d.live /\ d.live \subseteq m.live
      /\ \A c \in d.live : d.count[c] = m.count[c]
      /\ Elements(d.free) = {} => 1 .. m.raw = m.live /\ Unreferenced(m) = {}
  <2>1. CASE m.free = <<>>
    <3>1. d = Collected(m)
      BY <2>1
    <3>2. Elements(m.free) = {}
      BY <2>1 DEF Elements
    <3> HIDE DEF d
    <3>3. QED
      BY <1>1, <3>1, <3>2, CollectedPartitioned
  <2>2. CASE m.free # <<>>
    <3>1. d = m
      BY <2>2
    <3>2. Head(m.free) \in Elements(m.free)
      BY <2>2, PartitionedParts, ListFacts
    <3> HIDE DEF d
    <3>3. QED
      BY <3>1, <3>2
  <2>3. QED
    BY <2>1, <2>2
<1>3. Allocation(m) = IF RawLeft(m) THEN TakeRaw(m)
                      ELSE IF d.free # <<>> THEN TakeFree(d)
                      ELSE TakeRaw([d EXCEPT !.blocks = @ + 1])
  BY DEF Allocation
<1>4. m.free # <<>> => d.free # <<>>
  OBVIOUS
<1>5. d.free = <<>> => Elements(d.free) = {}
  BY DEF Elements
<1>6. Collected(m).free # <<>> => d.free # <<>>
  OBVIOUS
<1> HIDE DEF d
<1>7. CASE RawLeft(m)
  <2>1. Allocation(m) = TakeRaw(m)
    BY <1>3, <1>7
  <2>2. /\ TakeRaw(m).chunk \in Chunk
        /\ Partitioned(TakeRaw(m).memory, {TakeRaw(m).chunk})
        /\ TakeRaw(m).memory.live = m.live /\ TakeRaw(m).memory.blocks = m.blocks
        /\ \A c \in m.live : TakeRaw(m).memory.count[c] = m.count[c]
    BY <1>7, TakeRawPartitioned
  <2>3. ~ (m.blocks > m.blocks)
    BY <1>1
  <2>4. QED
    BY <2>1, <2>2, <2>3
<1>8. CASE ~ RawLeft(m) /\ d.free # <<>>
  <2>1. Allocation(m) = TakeFree(d)
    BY <1>3, <1>8
  <2>2. /\ TakeFree(d).chunk \in Chunk
        /\ Partitioned(TakeFree(d).memory, {TakeFree(d).chunk})
        /\ TakeFree(d).memory.live = d.live /\ TakeFree(d).memory.blocks = d.blocks
        /\ \A c \in d.live : TakeFree(d).memory.count[c] = d.count[c]
    BY <1>2, <1>8, TakeFreePartitioned
  <2>3. ~ (d.blocks > m.blocks)
    BY <1>1, <1>2
  <2>4. QED
    BY <1>2, <2>1, <2>2, <2>3
<1>9. CASE ~ RawLeft(m) /\ d.free = <<>>
  <2> DEFINE e == [d EXCEPT !.blocks = @ + 1]
  <2>1. Allocation(m) = TakeRaw(e)
    BY <1>3, <1>9
  <2>2. d.blocks < MaxBlocks
    BY <1>2, <1>6, <1>9
  <2>3. Partitioned(e, {}) /\ RawLeft(e) /\ e.live = d.live /\ e.count = d.count
    BY <1>2, <2>2, BlockAdded
  <2> HIDE DEF e
  <2>4. /\ TakeRaw(e).chunk \in Chunk
        /\ Partitioned(TakeRaw(e).memory, {TakeRaw(e).chunk})
        /\ TakeRaw(e).memory.live = d.live
        /\ \A c \in d.live : TakeRaw(e).memory.count[c] = d.count[c]
    <3>1. /\ TakeRaw(e).chunk \in Chunk
          /\ Partitioned(TakeRaw(e).memory, {TakeRaw(e).chunk})
          /\ TakeRaw(e).memory.live = e.live
          /\ \A c \in e.live : TakeRaw(e).memory.count[c] = e.count[c]
      BY <2>3, TakeRawPartitioned
    <3>2. QED
      BY <2>3, <3>1
  <2>5. m.raw = m.blocks * AllocNb
    BY <1>1, <1>9 DEF RawLeft
  <2>6. 1 .. m.raw = m.live /\ Unreferenced(m) = {}
    BY <1>2, <1>5, <1>9
  <2>7. QED
    BY <1>2, <2>1, <2>4, <2>5, <2>6
<1>10. QED
  BY <1>7, <1>8, <1>9

(* The object is constructed in the chunk that was handed out.             *)
LEMMA ConstructedPartitioned ==
  ASSUME NEW m, NEW d \in Chunk, Partitioned(m, {d})
  PROVE  LET e == [m EXCEPT !.live = @ \cup {d}, !.count[d] = 1] IN
           /\ Partitioned(e, {})
           /\ e.live = m.live \cup {d} /\ e.count[d] = 1
           /\ \A c \in m.live : e.count[c] = m.count[c]
           /\ d \notin m.live /\ e.blocks = m.blocks
<1> DEFINE n == [m.count EXCEPT ![d] = 1]
           l == m.live \cup {d}
           e == [m EXCEPT !.live = l, !.count = n]
<1>1. /\ m \in MemoryType /\ m.raw <= m.blocks * AllocNb
      /\ m.free \in Seq(Chunk) /\ m.live \subseteq Chunk
      /\ m.count \in [Chunk -> Unset .. FreeChunk]
      /\ \A i, j \in DOMAIN m.free : m.free[i] = m.free[j] => i = j
      /\ 1 .. m.raw = m.live \cup Elements(m.free) \cup {d}
      /\ m.live \cap Elements(m.free) = {}
      /\ d \notin m.live /\ d \notin Elements(m.free)
      /\ \A c \in Elements(m.free) : m.count[c] \in {RefcountMax, FreeChunk}
  BY PartitionedParts DEF Partitioned
<1>2. Elements(m.free) \subseteq Chunk
  BY <1>1, ListFacts
<1>3. /\ n \in [Chunk -> Unset .. FreeChunk] /\ n[d] = 1
      /\ \A c \in Chunk \ {d} : n[c] = m.count[c]
  <2>1. 1 \in Unset .. FreeChunk
    BY PoolAssumption DEF FreeChunk, Unset
  <2>2. QED
    BY <1>1, <2>1
<1>4. l \subseteq Chunk
  BY <1>1
<1>5. [m EXCEPT !.live = @ \cup {d}, !.count[d] = 1] = e
  OBVIOUS
<1> HIDE DEF n
<1>6. l = m.live \cup {d}
  OBVIOUS
<1> HIDE DEF l
<1>7. /\ e \in MemoryType /\ e.blocks = m.blocks /\ e.raw = m.raw /\ e.free = m.free
      /\ e.count = n /\ e.live = l
  BY <1>1, <1>3, <1>4 DEF MemoryType
<1> HIDE DEF e
<1>8. \A c \in m.live \cup Elements(m.free) : n[c] = m.count[c]
  BY <1>1, <1>2, <1>3
<1>9. /\ 1 .. m.raw = l \cup Elements(m.free)
      /\ l \cap Elements(m.free) = {}
  BY <1>1, <1>6
<1>10. Partitioned(e, {})
  BY <1>1, <1>7, <1>8, <1>9 DEF Partitioned
<1>11. QED
  BY <1>1, <1>3, <1>5, <1>6, <1>7, <1>8, <1>10

(* A chunk that holds no object any more is put back in the free list,     *)
(* and its counter may be decremented once.                                *)
Marked(m, d, v) == [Released(m, d) EXCEPT !.count[d] = v]

LEMMA ReleasedPartitioned ==
  ASSUME NEW m, NEW d \in Chunk, Partitioned(m, {d}), NEW v \in {RefcountMax, FreeChunk}
  PROVE  LET e == Marked(m, d, v) IN
           /\ Partitioned(Released(m, d), {}) /\ Partitioned(e, {})
           /\ Released(m, d).live = m.live /\ e.live = m.live
           /\ Released(m, d).blocks = m.blocks /\ e.blocks = m.blocks
           /\ Released(m, d).count[d] = FreeChunk
           /\ \A c \in m.live : /\ Released(m, d).count[c] = m.count[c]
                                /\ e.count[c] = m.count[c]
<1> DEFINE n == [m.count EXCEPT ![d] = FreeChunk]
           k == [n EXCEPT ![d] = v]
           f == <<d>> \o m.free
           r == [m EXCEPT !.count = n, !.free = f]
           e == [r EXCEPT !.count = k]
<1>1. /\ m \in MemoryType /\ m.raw <= m.blocks * AllocNb
      /\ m.free \in Seq(Chunk) /\ m.live \subseteq Chunk
      /\ m.count \in [Chunk -> Unset .. FreeChunk]
      /\ \A i, j \in DOMAIN m.free : m.free[i] = m.free[j] => i = j
      /\ 1 .. m.raw = m.live \cup Elements(m.free) \cup {d}
      /\ m.live \cap Elements(m.free) = {}
      /\ d \notin m.live /\ d \notin Elements(m.free)
      /\ \A c \in Elements(m.free) : m.count[c] \in {RefcountMax, FreeChunk}
  BY PartitionedParts DEF Partitioned
<1>2. /\ f \in Seq(Chunk) /\ Elements(f) = Elements(m.free) \cup {d}
      /\ \A i, j \in DOMAIN f : f[i] = f[j] => i = j
      /\ Elements(m.free) \subseteq Chunk
  <2>1. <<d>> \in Seq(Chunk) /\ DOMAIN <<d>> = {1} /\ <<d>>[1] = d
    OBVIOUS
  <2>2. Elements(<<d>>) = {d}
    BY <2>1 DEF Elements
  <2>3. \A i, j \in DOMAIN <<d>> : <<d>>[i] = <<d>>[j] => i = j
    BY <2>1
  <2>4. Elements(<<d>>) \cap Elements(m.free) = {}
    BY <1>1, <2>2
  <2>5. f \in Seq(Chunk) /\ Elements(f) = Elements(<<d>>) \cup Elements(m.free)
    BY <1>1, <2>1, ListFacts
  <2>6. \A i, j \in DOMAIN f : f[i] = f[j] => i = j
    BY <1>1, <2>1, <2>3, <2>4, ConcatInjective
  <2>7. Elements(m.free) \subseteq Chunk
    BY <1>1, ListFacts
  <2> HIDE DEF f
  <2>8. QED
    BY <2>2, <2>5, <2>6, <2>7
<1>3. /\ n \in [Chunk -> Unset .. FreeChunk] /\ k \in [Chunk -> Unset .. FreeChunk]
      /\ n[d] = FreeChunk /\ k[d] = v
      /\ \A c \in Chunk \ {d} : n[c] = m.count[c] /\ k[c] = m.count[c]
  <2>1. FreeChunk \in Unset .. FreeChunk /\ RefcountMax \in Unset .. FreeChunk
    BY PoolAssumption DEF FreeChunk, Unset
  <2>2. QED
    BY <1>1, <2>1
<1>4. r = Released(m, d) /\ e = Marked(m, d, v)
  <2>1. r = Released(m, d)
    BY DEF Released
  <2>2. r.count = n
    BY <1>1 DEF MemoryType
  <2>3. [r EXCEPT !.count[d] = v] = [r EXCEPT !.count = [r.count EXCEPT ![d] = v]]
    OBVIOUS
  <2>4. e = [r EXCEPT !.count[d] = v]
    BY ONLY <2>2, <2>3, Zenon
  <2>5. QED
    BY ONLY <2>1, <2>4, Zenon DEF Marked
<1> HIDE DEF n, k, f
<1>5. /\ r \in MemoryType /\ r.blocks = m.blocks /\ r.raw = m.raw /\ r.free = f
      /\ r.count = n /\ r.live = m.live
  BY <1>1, <1>2, <1>3 DEF MemoryType
<1> HIDE DEF r
<1>6. /\ e \in MemoryType /\ e.blocks = m.blocks /\ e.raw = m.raw /\ e.free = f
      /\ e.count = k /\ e.live = m.live
  BY <1>3, <1>5 DEF MemoryType
<1> HIDE DEF e
<1>7. /\ \A c \in m.live \cup Elements(m.free) : n[c] = m.count[c] /\ k[c] = m.count[c]
      /\ 1 .. m.raw = m.live \cup Elements(f) /\ m.live \cap Elements(f) = {}
  BY <1>1, <1>2, <1>3
<1>8. Partitioned(r, {})
  BY <1>1, <1>2, <1>3, <1>5, <1>7 DEF Partitioned
<1>9. Partitioned(e, {})
  BY <1>1, <1>2, <1>3, <1>6, <1>7 DEF Partitioned
<1>10. QED
  BY <1>3, <1>4, <1>5, <1>6, <1>7, <1>8, <1>9

(* A change of the counters of objects leaves the chunks where they are.   *)
LEMMA RecountedPartitioned ==
  ASSUME NEW m, NEW n \in [Chunk -> Unset .. FreeChunk], Partitioned(m, {}),
         \A c \in Chunk \ m.live : n[c] = m.count[c]
  PROVE  LET e == [m EXCEPT !.count = n] IN
           /\ Partitioned(e, {}) /\ e.live = m.live /\ e.count = n
           /\ e.blocks = m.blocks /\ e.raw = m.raw /\ e.free = m.free
<1> DEFINE e == [m EXCEPT !.count = n]
<1>1. /\ m \in MemoryType /\ m.raw <= m.blocks * AllocNb
      /\ m.free \in Seq(Chunk)
      /\ \A i, j \in DOMAIN m.free : m.free[i] = m.free[j] => i = j
      /\ 1 .. m.raw = m.live \cup Elements(m.free)
      /\ m.live \cap Elements(m.free) = {}
      /\ \A c \in Elements(m.free) : m.count[c] \in {RefcountMax, FreeChunk}
  BY PartitionedParts DEF Partitioned
<1>2. Elements(m.free) \subseteq Chunk \ m.live
  BY <1>1, ListFacts
<1>3. /\ e \in MemoryType /\ e.blocks = m.blocks /\ e.raw = m.raw /\ e.free = m.free
      /\ e.count = n /\ e.live = m.live
  BY <1>1 DEF MemoryType
<1> HIDE DEF e
<1>4. \A c \in Elements(m.free) : n[c] = m.count[c]
  BY <1>2
<1>5. Partitioned(e, {})
  BY <1>1, <1>3, <1>4 DEF Partitioned
<1>6. QED
  BY <1>3, <1>5 DEF e

(* destruct takes the object out of its chunk.                             *)
LEMMA UnlivedPartitioned ==
  ASSUME NEW m, Partitioned(m, {}), NEW d \in m.live
  PROVE  LET e == [m EXCEPT !.live = @ \ {d}] IN
           /\ Partitioned(e, {d}) /\ e.live = m.live \ {d} /\ e.count = m.count
           /\ e.blocks = m.blocks
<1> DEFINE l == m.live \ {d}
           e == [m EXCEPT !.live = l]
<1>1. /\ m \in MemoryType /\ m.raw <= m.blocks * AllocNb /\ m.live \subseteq Chunk
      /\ \A i, j \in DOMAIN m.free : m.free[i] = m.free[j] => i = j
      /\ 1 .. m.raw = m.live \cup Elements(m.free)
      /\ m.live \cap Elements(m.free) = {}
      /\ \A c \in Elements(m.free) : m.count[c] \in {RefcountMax, FreeChunk}
  BY PartitionedParts DEF Partitioned
<1>2. /\ l \subseteq Chunk /\ 1 .. m.raw = l \cup Elements(m.free) \cup {d}
      /\ l \cap Elements(m.free) = {} /\ {d} \cap (l \cup Elements(m.free)) = {}
  BY <1>1
<1>3. [m EXCEPT !.live = @ \ {d}] = e /\ l = m.live \ {d}
  OBVIOUS
<1> HIDE DEF l
<1>4. /\ e \in MemoryType /\ e.blocks = m.blocks /\ e.raw = m.raw /\ e.free = m.free
      /\ e.count = m.count /\ e.live = l
  BY <1>1, <1>2 DEF MemoryType
<1> HIDE DEF e
<1>5. Partitioned(e, {d})
  BY <1>1, <1>2, <1>4 DEF Partitioned
<1>6. QED
  BY <1>3, <1>4, <1>5

-----------------------------------------------------------------------------
(* The handles are finitely many, too few for a counter to reach its       *)
(* maximum, even with the reference that an assignment takes before it     *)
(* releases the old one.                                                   *)
CountersSuffice == IsFiniteSet(Handle) /\ Cardinality(Handle) + 1 < RefcountMax

(* The memory of the variables is partitioned and the handles are on it.   *)
Accounted ==
  /\ Partitioned(Memory, {})
  /\ ptr \in [Handle -> Chunk \cup {Null}]
  /\ fault \in {"none", "overflow", "destructed_twice"}
  /\ \A h \in Handle : ptr[h] # Null => ptr[h] \in live
  /\ \A c \in live : count[c] = Cardinality(Holders(c))

LEMMA AccountedMemory == ChunksAccounted <=> Accounted
<1>1. /\ Memory.blocks = blocks /\ Memory.raw = raw /\ Memory.free = free
      /\ Memory.count = count /\ Memory.live = live
  BY DEF Memory
<1>2. (Memory \in MemoryType /\ raw <= blocks * AllocNb) <=>
        /\ blocks \in 0 .. MaxBlocks /\ raw \in 0 .. blocks * AllocNb
        /\ free \in Seq(Chunk) /\ count \in [Chunk -> Unset .. FreeChunk]
        /\ live \subseteq Chunk
  <2>1. Memory \in MemoryType <=>
          /\ blocks \in 0 .. MaxBlocks /\ raw \in Nat /\ free \in Seq(Chunk)
          /\ count \in [Chunk -> Unset .. FreeChunk] /\ live \subseteq Chunk
    BY DEF Memory, MemoryType
  <2>2. ASSUME blocks \in 0 .. MaxBlocks
        PROVE  (raw \in Nat /\ raw <= blocks * AllocNb) <=> raw \in 0 .. blocks * AllocNb
    <3>1. blocks * AllocNb \in Int
      BY <2>2, PoolAssumption
    <3>2. QED
      BY <3>1
  <2>3. QED
    BY <2>1, <2>2
<1>3. ASSUME free \in Seq(Chunk)
      PROVE  Elements(free) = {c \in Chunk : InFreeList(c)}
  <2>1. Elements(free) \subseteq Chunk
    BY <1>3, ListFacts
  <2>2. QED
    BY <2>1 DEF Elements, InFreeList
<1> HIDE DEF Memory
<1>4. Partitioned(Memory, {}) <=>
        /\ Memory \in MemoryType /\ raw <= blocks * AllocNb
        /\ \A i, j \in DOMAIN free : free[i] = free[j] => i = j
        /\ Taken = live \cup Elements(free)
        /\ live \cap Elements(free) = {}
        /\ \A c \in Elements(free) : count[c] \in {RefcountMax, FreeChunk}
  BY <1>1 DEF Partitioned, Taken
<1>5. QED
  BY <1>2, <1>3, <1>4 DEF ChunksAccounted, TypeOK, Accounted

(* The handles on a chunk when the handles are p.                          *)
HoldersIn(p, c) == {g \in Handle : p[g] = c}

(* An operation whose memory m is partitioned, and on whose objects the    *)
(* handles are, preserves the invariant.                                   *)
LEMMA BecomesAccounted ==
  ASSUME NEW m, Partitioned(m, {}), Becomes(m),
         ptr' \in [Handle -> Chunk \cup {Null}],
         fault' \in {"none", "overflow", "destructed_twice"},
         \A h \in Handle : ptr'[h] # Null => ptr'[h] \in m.live,
         \A c \in m.live : m.count[c] = Cardinality(HoldersIn(ptr', c))
  PROVE  ChunksAccounted'
<1>1. Memory' = m
  BY PartitionedParts DEF Memory, Becomes
<1>2. live' = m.live /\ count' = m.count
  BY DEF Becomes
<1>3. Partitioned(Memory, {})'
  BY <1>1 DEF Partitioned, MemoryType, Elements, Chunk, Unset, FreeChunk
<1>4. \A c \in live' : (count[c] = Cardinality(Holders(c)))'
  BY <1>2 DEF Holders, HoldersIn
<1>5. \A h \in Handle : (ptr[h] # Null => ptr[h] \in live)'
  BY <1>2 DEF Null
<1>6. /\ (ptr \in [Handle -> Chunk \cup {Null}])'
      /\ (fault \in {"none", "overflow", "destructed_twice"})'
  BY DEF Chunk, Null
<1>7. Accounted'
  BY <1>3, <1>4, <1>5, <1>6 DEF Accounted
<1>8. QED
  BY <1>7, AccountedMemory, PTL

(* The handles on a chunk are finitely many; moving a handle changes the   *)
(* handles on the chunks that it leaves and reaches.                       *)
LEMMA HoldersFinite ==
  ASSUME IsFiniteSet(Handle), NEW c
  PROVE  /\ IsFiniteSet(Holders(c)) /\ Cardinality(Holders(c)) \in Nat
         /\ Cardinality(Holders(c)) <= Cardinality(Handle)
         /\ Cardinality(Holders(c)) = 0 <=> Holders(c) = {}
<1>1. Holders(c) \in SUBSET Handle
  BY DEF Holders
<1>2. IsFiniteSet(Holders(c)) /\ Cardinality(Holders(c)) <= Cardinality(Handle)
  BY <1>1, FS_Subset
<1>3. QED
  BY <1>2, FS_CardinalityType, FS_EmptySet

Moved(p, h, d) == \A g \in Handle : p[g] = IF g = h THEN d ELSE ptr[g]

LEMMA HoldersMoved ==
  ASSUME IsFiniteSet(Handle), NEW h \in Handle, NEW d, NEW p, Moved(p, h, d), NEW c
  PROVE  /\ c = d /\ ptr[h] # c =>
              Cardinality(HoldersIn(p, c)) = Cardinality(Holders(c)) + 1
         /\ c # d /\ ptr[h] = c =>
              Cardinality(HoldersIn(p, c)) = Cardinality(Holders(c)) - 1
         /\ (c = d) = (ptr[h] = c) =>
              Cardinality(HoldersIn(p, c)) = Cardinality(Holders(c))
<1>1. IsFiniteSet(Holders(c))
  BY HoldersFinite
<1>2. c = d => HoldersIn(p, c) = Holders(c) \cup {h}
  BY DEF Holders, HoldersIn, Moved
<1>3. c # d => HoldersIn(p, c) = Holders(c) \ {h}
  BY DEF Holders, HoldersIn, Moved
<1>4. h \in Holders(c) <=> ptr[h] = c
  BY DEF Holders
<1>5. CASE c = d
  BY <1>1, <1>2, <1>4, <1>5, FS_AddElement
<1>6. CASE c # d
  BY <1>1, <1>3, <1>4, <1>6, FS_RemoveElement
<1>7. QED
  BY <1>5, <1>6

(* A referenced object is not collected.                                   *)
LEMMA HeldObjects ==
  ASSUME CountersSuffice, ChunksAccounted
  PROVE  /\ \A h \in Handle : ptr[h] # Null =>
              ptr[h] \in live /\ ptr[h] \notin Unreferenced(Memory)
         /\ \A c \in live \cap Unreferenced(Memory) : Holders(c) = {}
<1>1. /\ \A h \in Handle : ptr[h] # Null => ptr[h] \in live
      /\ \A c \in live : count[c] = Cardinality(Holders(c))
  BY DEF ChunksAccounted
<1>2. \A c \in Unreferenced(Memory) : count[c] = 0
  BY DEF Unreferenced, Memory, Collectable
<1>3. \A c \in live \cap Unreferenced(Memory) : Holders(c) = {}
  BY <1>1, <1>2, HoldersFinite DEF CountersSuffice
<1>4. \A h \in Handle : h \in Holders(ptr[h])
  BY DEF Holders
<1>5. QED
  BY <1>1, <1>3, <1>4

(* The object allocated: its chunk had no handle, the others keep theirs.  *)
LEMMA AllocationAccounted ==
  ASSUME CountersSuffice, ChunksAccounted, CanAllocate
  PROVE  LET a == Allocation(Memory) IN
           /\ a.chunk \in Chunk
           /\ Partitioned(a.memory, {a.chunk})
           /\ \A h \in Handle : ptr[h] # Null => ptr[h] \in a.memory.live
           /\ \A c \in a.memory.live : a.memory.count[c] = Cardinality(Holders(c))
           /\ a.chunk \notin a.memory.live /\ Holders(a.chunk) = {}
           /\ a.memory.blocks > blocks =>
                \A c \in 1 .. blocks * AllocNb : Holders(c) # {}
<1> DEFINE a == Allocation(Memory)
<1>1. Accounted
  BY AccountedMemory
<1>2. /\ Memory.blocks = blocks /\ Memory.live = live /\ Memory.count = count
      /\ Memory.raw = raw
  BY DEF Memory
<1>3. /\ a.chunk \in Chunk
      /\ Partitioned(a.memory, {a.chunk})
      /\ live \ Unreferenced(Memory) \subseteq a.memory.live
      /\ a.memory.live \subseteq live
      /\ \A c \in a.memory.live : a.memory.count[c] = count[c]
      /\ a.memory.blocks > blocks =>
           /\ raw = blocks * AllocNb /\ 1 .. raw = live
           /\ Unreferenced(Memory) = {}
  <2>1. Partitioned(Memory, {})
    BY <1>1 DEF Accounted
  <2>2. Memory.blocks < MaxBlocks \/ RawLeft(Memory) \/ Collected(Memory).free # <<>>
    BY <1>2 DEF CanAllocate
  <2>3. /\ a.chunk \in Chunk
        /\ Partitioned(a.memory, {a.chunk})
        /\ Memory.live \ Unreferenced(Memory) \subseteq a.memory.live
        /\ a.memory.live \subseteq Memory.live
        /\ \A c \in a.memory.live : a.memory.count[c] = Memory.count[c]
        /\ a.memory.blocks > Memory.blocks =>
             /\ Memory.raw = Memory.blocks * AllocNb
             /\ 1 .. Memory.raw = Memory.live
             /\ Unreferenced(Memory) = {}
    BY <2>1, <2>2, AllocationPartitioned, Zenon
  <2> HIDE DEF a
  <2>4. QED
    BY <1>2, <2>3
<1> HIDE DEF a
<1>4. \A h \in Handle : ptr[h] # Null => ptr[h] \in a.memory.live
  BY <1>3, HeldObjects
<1>5. \A c \in a.memory.live : a.memory.count[c] = Cardinality(Holders(c))
  BY <1>1, <1>3 DEF Accounted
<1>6. a.chunk \notin a.memory.live
  BY <1>3 DEF Partitioned
<1>7. Holders(a.chunk) = {}
  <2>1. a.chunk # Null
    BY <1>3 DEF Chunk, Null
  <2>2. QED
    BY <1>4, <1>6, <2>1 DEF Holders
<1>8. ASSUME a.memory.blocks > blocks, NEW c \in 1 .. blocks * AllocNb
      PROVE  Holders(c) # {}
  <2>1. c \in live /\ c \in 1 .. raw /\ c \notin Unreferenced(Memory)
    BY <1>3, <1>8
  <2>2. count[c] # 0
    BY <1>2, <2>1 DEF Unreferenced, Collectable
  <2>3. count[c] = Cardinality(Holders(c))
    BY <1>1, <2>1 DEF Accounted
  <2>4. QED
    BY <2>2, <2>3, HoldersFinite DEF CountersSuffice
<1>9. QED
  BY <1>3, <1>4, <1>5, <1>6, <1>7, <1>8 DEF a

LEMMA StepConstruct ==
  ASSUME CountersSuffice, ChunksAccounted, NEW h \in Handle, Construct(h)
  PROVE  /\ ChunksAccounted'
         /\ blocks' > blocks => \A c \in 1 .. blocks * AllocNb : Holders(c) # {}
<1> DEFINE a == Allocation(Memory)
           m == a.memory
           d == a.chunk
           e == [m EXCEPT !.live = @ \cup {d}, !.count[d] = 1]
<1>1. /\ ptr[h] = Null /\ CanAllocate /\ Becomes(e)
      /\ ptr' = [ptr EXCEPT ![h] = d] /\ fault' = "none"
  BY DEF Construct
<1>2. ptr \in [Handle -> Chunk \cup {Null}] /\ IsFiniteSet(Handle)
  BY AccountedMemory DEF Accounted, CountersSuffice
<1>3. /\ d \in Chunk /\ Partitioned(m, {d})
      /\ \A g \in Handle : ptr[g] # Null => ptr[g] \in m.live
      /\ \A c \in m.live : m.count[c] = Cardinality(Holders(c))
      /\ d \notin m.live /\ Holders(d) = {}
      /\ m.blocks > blocks =>
           \A c \in 1 .. blocks * AllocNb : Holders(c) # {}
  BY <1>1, AllocationAccounted
<1> HIDE DEF a, m, d
<1>4. /\ Partitioned(e, {})
      /\ e.live = m.live \cup {d} /\ e.count[d] = 1
      /\ \A c \in m.live : e.count[c] = m.count[c]
      /\ e.blocks = m.blocks
  BY <1>3, ConstructedPartitioned, Zenon
<1> HIDE DEF e
<1>5. ptr' \in [Handle -> Chunk \cup {Null}]
  BY <1>1, <1>2, <1>3
<1>6. \A g \in Handle : ptr'[g] # Null => ptr'[g] \in e.live
  BY <1>1, <1>2, <1>3, <1>4
<1>7. ASSUME NEW c \in e.live
      PROVE  e.count[c] = Cardinality(HoldersIn(ptr', c))
  <2>0. /\ c = d /\ ptr[h] # c =>
             Cardinality(HoldersIn(ptr', c)) = Cardinality(Holders(c)) + 1
        /\ c # d /\ ptr[h] # c =>
             Cardinality(HoldersIn(ptr', c)) = Cardinality(Holders(c))
    <3>1. Moved(ptr', h, d)
      BY <1>1, <1>2 DEF Moved
    <3>2. QED
      BY <1>2, <3>1, HoldersMoved
  <2>1. d # Null /\ (c \in m.live => c # Null)
    <3>1. m.live \subseteq Chunk
      BY <1>3, PartitionedParts
    <3>2. QED
      BY <1>3, <3>1 DEF Chunk, Null
  <2>2. Cardinality(Holders(d)) = 0
    BY <1>3, FS_EmptySet
  <2>3. CASE c = d
    <3>1. c = d /\ ptr[h] # c
      BY <1>1, <2>1, <2>3
    <3>2. Cardinality(HoldersIn(ptr', c)) = Cardinality(Holders(c)) + 1
      BY <2>0, <3>1
    <3>3. QED
      BY <1>4, <2>2, <2>3, <3>2
  <2>4. CASE c # d
    <3>1. c \in m.live /\ ptr[h] # c
      BY <1>1, <1>4, <1>7, <2>1, <2>4
    <3>2. Cardinality(HoldersIn(ptr', c)) = Cardinality(Holders(c))
      BY <2>0, <2>4, <3>1
    <3>3. QED
      BY <1>3, <1>4, <3>1, <3>2
  <2>5. QED
    BY <2>3, <2>4
<1>8. ChunksAccounted'
  BY <1>1, <1>4, <1>5, <1>6, <1>7, BecomesAccounted
<1>9. blocks' = m.blocks
  BY <1>1, <1>4 DEF Becomes
<1>10. QED
  BY <1>3, <1>8, <1>9

LEMMA StepConstructThrows ==
  ASSUME CountersSuffice, ChunksAccounted, ConstructThrows
  PROVE  /\ ChunksAccounted'
         /\ blocks' > blocks => \A c \in 1 .. blocks * AllocNb : Holders(c) # {}
<1> DEFINE a == Allocation(Memory)
           d == a.chunk
           e == Released(a.memory, d)
<1>1. CanAllocate /\ Becomes(e) /\ ptr' = ptr /\ fault' = "none"
  BY DEF ConstructThrows
<1>2. ptr \in [Handle -> Chunk \cup {Null}]
  BY AccountedMemory DEF Accounted
<1>3. /\ d \in Chunk /\ Partitioned(a.memory, {d})
      /\ \A g \in Handle : ptr[g] # Null => ptr[g] \in a.memory.live
      /\ \A c \in a.memory.live : a.memory.count[c] = Cardinality(Holders(c))
      /\ a.memory.blocks > blocks =>
           \A c \in 1 .. blocks * AllocNb : Holders(c) # {}
  BY <1>1, AllocationAccounted
<1> HIDE DEF a
<1>4. /\ Partitioned(e, {}) /\ e.live = a.memory.live /\ e.blocks = a.memory.blocks
      /\ \A c \in a.memory.live : e.count[c] = a.memory.count[c]
  BY <1>3, ReleasedPartitioned
<1> HIDE DEF e, d
<1>5. \A c \in e.live : e.count[c] = Cardinality(HoldersIn(ptr', c))
  BY <1>1, <1>3, <1>4 DEF Holders, HoldersIn
<1>6. ChunksAccounted'
  BY <1>1, <1>2, <1>3, <1>4, <1>5, BecomesAccounted
<1>7. blocks' = a.memory.blocks
  BY <1>1, <1>4 DEF Becomes
<1>8. QED
  BY <1>3, <1>6, <1>7

LEMMA StepCollect ==
  ASSUME CountersSuffice, ChunksAccounted, Collect
  PROVE  ChunksAccounted' /\ blocks' = blocks
<1> DEFINE e == Collected(Memory)
<1>1. Becomes(e) /\ ptr' = ptr /\ fault' = fault
  BY DEF Collect
<1>2. Accounted
  BY AccountedMemory
<1>3. /\ Memory.live = live /\ Memory.count = count /\ Memory.blocks = blocks
  BY DEF Memory
<1>4. /\ Partitioned(e, {})
      /\ e.live = live \ Unreferenced(Memory) /\ e.blocks = blocks
      /\ \A c \in live \ Unreferenced(Memory) : e.count[c] = count[c]
  BY <1>2, <1>3, CollectedPartitioned DEF Accounted
<1> HIDE DEF e
<1>5. \A g \in Handle : ptr'[g] # Null => ptr'[g] \in e.live
  BY <1>1, <1>4, HeldObjects
<1>6. \A c \in e.live : e.count[c] = Cardinality(HoldersIn(ptr', c))
  BY <1>1, <1>2, <1>4 DEF Accounted, Holders, HoldersIn
<1>7. ChunksAccounted'
  BY <1>1, <1>2, <1>4, <1>5, <1>6, BecomesAccounted DEF Accounted
<1>8. QED
  BY <1>1, <1>4, <1>7 DEF Becomes

LEMMA StepDrop ==
  ASSUME CountersSuffice, ChunksAccounted, NEW h \in Handle, Drop(h)
  PROVE  ChunksAccounted' /\ blocks' = blocks
<1> DEFINE d == ptr[h]
           n == [count EXCEPT ![d] = @ - 1]
           e == [Memory EXCEPT !.count = n]
<1>1. /\ d # Null /\ count' = n /\ ptr' = [ptr EXCEPT ![h] = Null]
      /\ blocks' = blocks /\ raw' = raw /\ free' = free /\ live' = live /\ fault' = fault
  BY DEF Drop
<1>2. Accounted
  BY AccountedMemory
<1>3. /\ ptr \in [Handle -> Chunk \cup {Null}] /\ IsFiniteSet(Handle)
      /\ count \in [Chunk -> Unset .. FreeChunk] /\ live \subseteq Chunk /\ d \in live
      /\ \A g \in Handle : ptr[g] # Null => ptr[g] \in live
      /\ \A c \in live : count[c] = Cardinality(Holders(c))
  BY <1>1, <1>2 DEF Accounted, CountersSuffice, ChunksAccounted, TypeOK
<1>4. /\ Memory.live = live /\ Memory.count = count /\ Memory.blocks = blocks
      /\ Memory.raw = raw /\ Memory.free = free
  BY DEF Memory
<1>5. Holders(d) # {}
  BY DEF Holders
<1>6. count[d] \in Nat /\ count[d] # 0
  BY <1>3, <1>5, HoldersFinite
<1>7. n \in [Chunk -> Unset .. FreeChunk] /\ \A c \in Chunk \ live : n[c] = count[c]
  <2>1. d \in Chunk /\ count[d] \in Unset .. FreeChunk
    BY <1>3
  <2>2. count[d] - 1 \in Unset .. FreeChunk
    BY <1>6, <2>1, PoolAssumption DEF Unset, FreeChunk
  <2> HIDE DEF d
  <2>3. QED
    BY <1>3, <2>2
<1>8. \A c \in live : n[c] = IF c = d THEN count[c] - 1 ELSE count[c]
  BY <1>3
<1> HIDE DEF n
<1>9. /\ Partitioned(e, {}) /\ e.live = live /\ e.count = n
      /\ e.blocks = blocks /\ e.raw = raw /\ e.free = free
  BY <1>2, <1>4, <1>7, RecountedPartitioned DEF Accounted
<1> HIDE DEF e
<1>10. Becomes(e)
  BY <1>1, <1>9 DEF Becomes
<1>11. Moved(ptr', h, Null)
  BY <1>1, <1>3 DEF Moved
<1>12. \A g \in Handle : ptr'[g] # Null => ptr'[g] \in e.live
  BY <1>1, <1>3, <1>9
<1>13. ASSUME NEW c \in e.live
       PROVE  e.count[c] = Cardinality(HoldersIn(ptr', c))
  <2>1. c # Null /\ c \in live
    BY <1>3, <1>9 DEF Chunk, Null
  <2>2. /\ d = c => Cardinality(HoldersIn(ptr', c)) = Cardinality(Holders(c)) - 1
        /\ d # c => Cardinality(HoldersIn(ptr', c)) = Cardinality(Holders(c))
    BY <1>3, <1>11, <2>1, HoldersMoved
  <2>3. QED
    BY <1>3, <1>8, <1>9, <2>1, <2>2
<1>14. ptr' \in [Handle -> Chunk \cup {Null}]
  BY <1>1, <1>3
<1>15. fault' \in {"none", "overflow", "destructed_twice"}
  BY <1>1, <1>2 DEF Accounted
<1>16. QED
  BY <1>1, <1>9, <1>10, <1>12, <1>13, <1>14, <1>15, BecomesAccounted

LEMMA StepAssign ==
  ASSUME CountersSuffice, ChunksAccounted, NEW h \in Handle, NEW g \in Handle, Assign(h, g)
  PROVE  ChunksAccounted' /\ blocks' = blocks
<1> DEFINE d == ptr[h]
           k == ptr[g]
           t == IF k = Null THEN count ELSE [count EXCEPT ![k] = @ + 1]
           n == IF d = Null THEN t ELSE [t EXCEPT ![d] = @ - 1]
           e == [Memory EXCEPT !.count = n]
<1>1. Accounted
  BY AccountedMemory
<1>2. /\ ptr \in [Handle -> Chunk \cup {Null}] /\ IsFiniteSet(Handle)
      /\ count \in [Chunk -> Unset .. FreeChunk] /\ live \subseteq Chunk
      /\ \A f \in Handle : ptr[f] # Null => ptr[f] \in live
      /\ \A c \in live : count[c] = Cardinality(Holders(c))
      /\ Cardinality(Handle) + 1 < RefcountMax
      /\ RefcountMax \in Nat
  BY <1>1, PoolAssumption DEF Accounted, CountersSuffice, ChunksAccounted, TypeOK
<1>3. \A c \in live : /\ c \in Chunk /\ c # Null
                      /\ count[c] \in Nat /\ count[c] <= Cardinality(Handle)
                      /\ (\E f \in Handle : ptr[f] = c) => count[c] # 0
  <2>1. \A c \in live : Cardinality(Holders(c)) \in Nat
                        /\ Cardinality(Holders(c)) <= Cardinality(Handle)
                        /\ (Cardinality(Holders(c)) = 0 => Holders(c) = {})
    BY <1>2, HoldersFinite
  <2>2. \A c \in live : c # Null
    BY <1>2 DEF Chunk, Null
  <2>3. \A c \in live : (\E f \in Handle : ptr[f] = c) => Holders(c) # {}
    BY DEF Holders
  <2>4. QED
    BY <1>2, <2>1, <2>2, <2>3
<1>4. (d # Null => d \in live) /\ (k # Null => k \in live)
  BY <1>2
<1>5. Cardinality(Handle) \in Nat
  BY <1>2, FS_CardinalityType
<1>6. \A c \in Chunk : t[c] = IF k # Null /\ c = k THEN count[c] + 1 ELSE count[c]
  BY <1>2
<1>7. t \in [Chunk -> Int] /\ (k # Null => t[k] # RefcountMax)
  <2>1. Unset .. FreeChunk \subseteq Int
    BY PoolAssumption DEF Unset, FreeChunk
  <2>2. k # Null => count[k] + 1 \in Int /\ count[k] + 1 # RefcountMax
    BY <1>2, <1>3, <1>4, <1>5
  <2>3. t \in [Chunk -> Int]
    BY <1>2, <2>1, <2>2
  <2> HIDE DEF t
  <2>4. QED
    BY <1>2, <1>4, <1>6, <2>2, <2>3
<1>8. /\ count' = n /\ ptr' = [ptr EXCEPT ![h] = k] /\ fault' = fault /\ h # g
      /\ blocks' = blocks /\ raw' = raw /\ free' = free /\ live' = live
  <2>1. ~ (k # Null /\ t[k] = RefcountMax)
    BY <1>7
  <2>2. QED
    BY <2>1 DEF Assign
<1> HIDE DEF t
<1>9. \A c \in Chunk : n[c] = IF d # Null /\ c = d THEN t[c] - 1 ELSE t[c]
  BY <1>7
<1>10. /\ DOMAIN n = Chunk /\ n = [c \in DOMAIN n |-> n[c]]
  BY <1>7
<1> HIDE DEF n
<1>11. \A c \in Chunk : n[c] = IF c = Null \/ d = k THEN count[c]
                              ELSE IF c = k THEN count[c] + 1
                              ELSE IF c = d THEN count[c] - 1 ELSE count[c]
  <2>1. \A c \in Chunk : c # Null /\ count[c] \in Int
    BY <1>2, PoolAssumption DEF Chunk, Null, Unset, FreeChunk
  <2> HIDE DEF d, k
  <2>2. QED
    BY <1>6, <1>9, <2>1
<1>12. n \in [Chunk -> Unset .. FreeChunk] /\ \A c \in Chunk \ live : n[c] = count[c]
  <2>1. ASSUME NEW c \in Chunk
        PROVE  n[c] \in Unset .. FreeChunk /\ (c \notin live => n[c] = count[c])
    <3>1. CASE c \notin live
      <4>1. n[c] = count[c]
        BY <1>4, <1>11, <3>1, PoolAssumption DEF Chunk, Null
      <4>2. QED
        BY <1>2, <4>1
    <3>2. CASE c \in live
      <4>1. c = d => count[c] # 0
        BY <1>3, <3>2
      <4>2. count[c] \in Nat /\ count[c] <= Cardinality(Handle)
        BY <1>3, <3>2
      <4>3. n[c] \in {count[c], count[c] + 1} \/ (n[c] = count[c] - 1 /\ count[c] # 0)
        BY <1>11, <4>1
      <4>4. n[c] \in Int /\ -1 <= n[c] /\ n[c] <= RefcountMax
        BY <1>2, <1>5, <4>2, <4>3
      <4>5. QED
        BY <1>2, <3>2, <4>4 DEF Unset, FreeChunk
    <3>3. QED
      BY <3>1, <3>2
  <2>2. QED
    BY <1>10, <2>1
<1>13. /\ Memory.live = live /\ Memory.count = count /\ Memory.blocks = blocks
       /\ Memory.raw = raw /\ Memory.free = free
  BY DEF Memory
<1>14. /\ Partitioned(e, {}) /\ e.live = live /\ e.count = n
       /\ e.blocks = blocks /\ e.raw = raw /\ e.free = free
  BY <1>1, <1>12, <1>13, RecountedPartitioned DEF Accounted
<1> HIDE DEF e
<1>15. Becomes(e)
  BY <1>8, <1>14 DEF Becomes
<1>16. Moved(ptr', h, k)
  BY <1>2, <1>8 DEF Moved
<1>17. \A f \in Handle : ptr'[f] # Null => ptr'[f] \in e.live
  BY <1>2, <1>8, <1>14
<1>18. ASSUME NEW c \in e.live
       PROVE  e.count[c] = Cardinality(HoldersIn(ptr', c))
  <2>1. c # Null /\ c \in live /\ c \in Chunk /\ count[c] = Cardinality(Holders(c))
    BY <1>2, <1>3, <1>14
  <2>2. /\ c = k /\ d # c => Cardinality(HoldersIn(ptr', c)) = Cardinality(Holders(c)) + 1
        /\ c # k /\ d = c => Cardinality(HoldersIn(ptr', c)) = Cardinality(Holders(c)) - 1
        /\ (c = k) = (d = c) => Cardinality(HoldersIn(ptr', c)) = Cardinality(Holders(c))
    BY <1>2, <1>16, HoldersMoved
  <2> HIDE DEF d, k
  <2>3. QED
    BY <1>11, <1>14, <2>1, <2>2
<1>19. ptr' \in [Handle -> Chunk \cup {Null}]
  BY <1>2, <1>8
<1>20. fault' \in {"none", "overflow", "destructed_twice"}
  BY <1>1, <1>8 DEF Accounted
<1>21. QED
  BY <1>8, <1>14, <1>15, <1>17, <1>18, <1>19, <1>20, BecomesAccounted

LEMMA StepDestruct ==
  ASSUME CountersSuffice, ChunksAccounted, NEW h \in Handle, Destruct(h)
  PROVE  ChunksAccounted' /\ blocks' = blocks
<1> DEFINE d == ptr[h]
           m == [Memory EXCEPT !.live = @ \ {d}]
           e == [Released(m, d) EXCEPT !.count[d] = @ - 1]
<1>1. /\ d # Null /\ count[d] = 1 /\ Becomes(e)
      /\ ptr' = [ptr EXCEPT ![h] = Null] /\ fault' = fault
  BY DEF Destruct
<1>2. Accounted
  BY AccountedMemory
<1>3. /\ ptr \in [Handle -> Chunk \cup {Null}] /\ IsFiniteSet(Handle)
      /\ live \subseteq Chunk /\ d \in live /\ d \in Chunk
      /\ \A g \in Handle : ptr[g] # Null => ptr[g] \in live
      /\ \A c \in live : count[c] = Cardinality(Holders(c))
  BY <1>1, <1>2 DEF Accounted, CountersSuffice, ChunksAccounted, TypeOK
<1>4. /\ Memory.live = live /\ Memory.count = count /\ Memory.blocks = blocks
  BY DEF Memory
<1>5. Holders(d) = {h}
  <2>1. Cardinality(Holders(d)) = 1 /\ IsFiniteSet(Holders(d))
    BY <1>1, <1>3, HoldersFinite
  <2>2. h \in Holders(d)
    BY DEF Holders
  <2> HIDE DEF d
  <2>3. QED
    BY <2>1, <2>2, FS_Singleton
<1> HIDE DEF d
<1>6. /\ Partitioned(m, {d}) /\ m.live = live \ {d} /\ m.count = count
      /\ m.blocks = blocks
  BY <1>2, <1>3, <1>4, UnlivedPartitioned DEF Accounted
<1> HIDE DEF m
<1>7. e = Marked(m, d, RefcountMax)
  <2>1. Released(m, d).count[d] - 1 = RefcountMax
    <3>1. Released(m, d).count[d] = FreeChunk
      BY <1>3, <1>6, ReleasedPartitioned
    <3>2. QED
      BY <3>1, PoolAssumption DEF FreeChunk
  <2>2. e = [Released(m, d) EXCEPT !.count[d] = Released(m, d).count[d] - 1]
    OBVIOUS
  <2>3. QED
    BY ONLY <2>1, <2>2, Zenon DEF Marked
<1> HIDE DEF e
<1>8. /\ Partitioned(e, {}) /\ e.live = live \ {d} /\ e.blocks = blocks
      /\ \A c \in live \ {d} : e.count[c] = count[c]
  <2>1. RefcountMax \in {RefcountMax, FreeChunk}
    OBVIOUS
  <2>2. /\ Partitioned(e, {}) /\ e.live = m.live /\ e.blocks = m.blocks
        /\ \A c \in m.live : e.count[c] = m.count[c]
    BY <1>3, <1>6, <1>7, <2>1, ReleasedPartitioned
  <2>3. QED
    BY <1>6, <2>2
<1>9. \A g \in Handle : ptr[g] = d => g = h
  BY <1>5 DEF Holders
<1>10. \A g \in Handle : ptr'[g] # Null => ptr'[g] \in e.live
  BY <1>1, <1>3, <1>8, <1>9
<1>11. Moved(ptr', h, Null)
  BY <1>1, <1>3 DEF Moved
<1>12. ASSUME NEW c \in e.live
       PROVE  e.count[c] = Cardinality(HoldersIn(ptr', c))
  <2>1. c # Null /\ c \in live /\ c # d
    BY <1>3, <1>8 DEF Chunk, Null
  <2>2. ptr[h] # c
    BY <2>1 DEF d
  <2>3. Cardinality(HoldersIn(ptr', c)) = Cardinality(Holders(c))
    BY <1>3, <1>11, <2>1, <2>2, HoldersMoved
  <2>4. QED
    BY <1>3, <1>8, <2>1, <2>3
<1>13. ptr' \in [Handle -> Chunk \cup {Null}]
  BY <1>1, <1>3
<1>14. fault' \in {"none", "overflow", "destructed_twice"}
  BY <1>1, <1>2 DEF Accounted
<1>15. ChunksAccounted'
  BY <1>1, <1>8, <1>10, <1>12, <1>13, <1>14, BecomesAccounted
<1>16. blocks' = blocks
  BY <1>1, <1>8 DEF Becomes
<1>17. QED
  BY <1>15, <1>16

(* The pool without memory.                                                *)
LEMMA EmptyPartitioned ==
  Partitioned([blocks |-> 0, raw |-> 0, free |-> <<>>, live |-> {},
               count |-> [c \in Chunk |-> Unset]], {})
<1> DEFINE n == [c \in Chunk |-> Unset]
           e == [blocks |-> 0, raw |-> 0, free |-> <<>>, live |-> {}, count |-> n]
<1>1. Unset \in Unset .. FreeChunk /\ 0 \in 0 .. MaxBlocks /\ 0 * AllocNb = 0
  BY PoolAssumption DEF Unset, FreeChunk
<1>2. n \in [Chunk -> Unset .. FreeChunk]
  BY <1>1
<1> HIDE DEF n
<1>3. /\ e \in MemoryType /\ e.blocks = 0 /\ e.raw = 0 /\ e.free = <<>> /\ e.live = {}
  BY <1>1, <1>2 DEF MemoryType
<1> HIDE DEF e
<1>4. Elements(<<>>) = {}
  BY DEF Elements
<1>5. Partitioned(e, {})
  BY <1>1, <1>3, <1>4 DEF Partitioned
<1>6. QED
  BY <1>5 DEF e, n

LEMMA StepDestructAll ==
  ASSUME CountersSuffice, ChunksAccounted, DestructAll
  PROVE  ChunksAccounted' /\ ~ (blocks' > blocks)
<1> DEFINE e == [blocks |-> 0, raw |-> 0, free |-> <<>>, live |-> {},
                 count |-> [c \in Chunk |-> Unset]]
<1>1. Becomes(e) /\ ptr' = ptr /\ \A h \in Handle : ptr[h] = Null
  BY DEF DestructAll
<1>2. Accounted
  BY AccountedMemory
<1>3. fault' \in {"none", "overflow", "destructed_twice"}
  BY DEF DestructAll
<1>4. Partitioned(e, {})
  BY EmptyPartitioned
<1>5. e.live = {} /\ e.blocks = 0
  OBVIOUS
<1> HIDE DEF e
<1>6. ChunksAccounted'
  BY <1>1, <1>2, <1>3, <1>4, <1>5, BecomesAccounted DEF Accounted
<1>7. blocks' = 0 /\ blocks \in Nat
  BY <1>1, <1>5 DEF Becomes, ChunksAccounted, TypeOK
<1>8. QED
  BY <1>6, <1>7

-----------------------------------------------------------------------------
(* Every step preserves the invariant, and takes a new block only when     *)
(* every chunk is referenced.                                              *)
LEMMA PoolStep ==
  ASSUME CountersSuffice, ChunksAccounted, [Next]_vars
  PROVE  /\ ChunksAccounted'
         /\ blocks' > blocks => \A c \in 1 .. blocks * AllocNb : Holders(c) # {}
<1>0. blocks \in Nat
  BY DEF ChunksAccounted, TypeOK
<1>1. CASE ConstructThrows
  BY <1>1, StepConstructThrows
<1>2. CASE Collect
  BY <1>0, <1>2, StepCollect
<1>3. CASE DestructAll
  BY <1>3, StepDestructAll
<1>4. ASSUME NEW h \in Handle, Construct(h)
      PROVE  /\ ChunksAccounted'
             /\ blocks' > blocks => \A c \in 1 .. blocks * AllocNb : Holders(c) # {}
  BY <1>4, StepConstruct
<1>5. ASSUME NEW h \in Handle, Drop(h) \/ Destruct(h)
      PROVE  ChunksAccounted' /\ blocks' = blocks
  BY <1>5, StepDrop, StepDestruct
<1>6. ASSUME NEW h \in Handle, NEW g \in Handle, Assign(h, g)
      PROVE  ChunksAccounted' /\ blocks' = blocks
  BY <1>6, StepAssign
<1>7. CASE UNCHANGED vars
  <2>1. /\ blocks' = blocks /\ raw' = raw /\ free' = free /\ count' = count
        /\ live' = live /\ ptr' = ptr /\ fault' = fault
    BY <1>7 DEF vars
  <2>2. ChunksAccounted'
    BY <2>1 DEF ChunksAccounted, TypeOK, Holders, Taken, InFreeList
  <2>3. QED
    BY <1>0, <2>1, <2>2
<1>8. QED
  BY <1>0, <1>1, <1>2, <1>3, <1>4, <1>5, <1>6, <1>7 DEF Next

LEMMA PoolInit ==
  ASSUME CountersSuffice, Init
  PROVE  ChunksAccounted
<1> DEFINE e == [blocks |-> 0, raw |-> 0, free |-> <<>>, live |-> {},
                 count |-> [c \in Chunk |-> Unset]]
<1>1. Memory = e
  BY DEF Init, Memory
<1>2. Partitioned(Memory, {})
  BY <1>1, EmptyPartitioned
<1>3. /\ ptr \in [Handle -> Chunk \cup {Null}]
      /\ fault \in {"none", "overflow", "destructed_twice"}
      /\ live = {} /\ \A h \in Handle : ptr[h] = Null
  BY DEF Init
<1>4. QED
  BY <1>2, <1>3, AccountedMemory DEF Accounted

(* In every reachable state of a pool whose counters cannot overflow, the  *)
(* chunks are accounted for: the counter of an object is the number of its *)
(* handles, no referenced object is recycled, no chunk is lost or handed   *)
(* out twice (allocate, collect, release, construct and destruct of pool_t *)
(* and reset of intrusive_shared_ptr_t).                                   *)
THEOREM PoolAccounted ==
  ASSUME CountersSuffice
  PROVE  Spec => []ChunksAccounted
<1>1. Init => ChunksAccounted
  BY PoolInit
<1>2. ChunksAccounted /\ [Next]_vars => ChunksAccounted'
  BY PoolStep
<1>3. QED
  BY <1>1, <1>2, PTL DEF Spec

(* allocate takes a block from the system only when every chunk holds a    *)
(* referenced object.                                                      *)
THEOREM PoolGrowsWhenFull ==
  ASSUME CountersSuffice
  PROVE  Spec => BlocksGrowWhenFull
<1>1. ChunksAccounted /\ [Next]_vars =>
        [blocks' > blocks => \A c \in 1 .. blocks * AllocNb : Holders(c) # {}]_vars
  BY PoolStep
<1>2. QED
  BY <1>1, PoolAccounted, PTL DEF Spec, BlocksGrowWhenFull
=============================================================================
