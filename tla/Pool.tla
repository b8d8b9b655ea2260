---------------------------------- MODULE Pool --------------------------------
(***************************************************************************)
(* pool_t<T> together with make_shared_t and intrusive_shared_ptr_t: the   *)
(* allocator of nodes, edges, states and zones.  Memory comes in blocks of *)
(* chunks; a chunk is raw (never allocated), free (in the free list) or    *)
(* used, and the reference counter stored in front of the object tells     *)
(* which used chunks can be collected.  Chunks are numbered in the order   *)
(* of their allocation from raw blocks, block after block.                 *)
(***************************************************************************)
EXTENDS Integers, Sequences, FiniteSets

CONSTANTS
  AllocNb,    \* _alloc_nb, the number of chunks of a block
  MaxBlocks,  \* bound: the memory holds that many blocks
  RefcountMax,   \* REFCOUNT_MAX
  Handle      \* the intrusive_shared_ptr_t objects of the clients

ASSUME PoolAssumption ==
  AllocNb \in Nat \ {0} /\ MaxBlocks \in Nat \ {0} /\ RefcountMax \in Nat \ {0}

VARIABLES
  blocks,    \* _blocks_count
  raw,       \* number of chunks ever taken from raw blocks (_raw_head)
  free,      \* the free list from _free_head
  count,     \* the reference counters
  live,      \* chunks that hold a constructed, not yet destructed, object
  ptr,       \* _t of every handle, 0 for nullptr
  fault      \* "none", or what went wrong in the last operation

vars == <<blocks, raw, free, count, live, ptr, fault>>

Chunk == 1 .. AllocNb * MaxBlocks
Null == 0
Collectable == 0                    \* COLLECTABLE_CHUNK
FreeChunk == RefcountMax + 1        \* FREE_CHUNK
Unset == -1                         \* counter of a raw chunk, never written

Taken == 1 .. raw                   \* the chunks outside the raw block
InFreeList(c) == \E i \in DOMAIN free : free[i] = c
Holders(c) == {h \in Handle : ptr[h] = c}

(* collect and destruct_all visit the newest block first and the chunks of *)
(* a block by address; collect pushes each chunk it finds.                 *)
BlockOf(c) == (c - 1) \div AllocNb
PushedAfter(c, d) ==
  \/ BlockOf(c) < BlockOf(d)
  \/ BlockOf(c) = BlockOf(d) /\ c > d
Pushed(S) ==
  CHOOSE q \in [1 .. Cardinality(S) -> S] :
    \A i, j \in 1 .. Cardinality(S) : i < j => PushedAfter(q[i], q[j])

-----------------------------------------------------------------------------
Init ==
  /\ blocks = 0 /\ raw = 0
  /\ free = <<>>
  /\ count = [c \in Chunk |-> Unset]
  /\ live = {}
  /\ ptr = [h \in Handle |-> Null]
  /\ fault = "none"

(* The state of the allocator while an operation is under way.             *)
Memory == [blocks |-> blocks, raw |-> raw, free |-> free, count |-> count, live |-> live]

Becomes(m) ==
  /\ blocks' = m.blocks /\ raw' = m.raw /\ free' = m.free
  /\ count' = m.count /\ live' = m.live

(* Mutant: objects with a single reference are collected too. *)
CollectedEarly(m) ==
  LET S == {c \in 1 .. m.raw : m.count[c] \in {Collectable, 1}} IN
    [m EXCEPT !.count = [c \in Chunk |-> IF c \in S THEN FreeChunk ELSE @[c]],
              !.live = @ \ S,
              !.free = Pushed(S) \o @]

(* collect: destruct what is not referenced and prepend it to the free     *)
(* list.                                                                   *)
Unreferenced(m) == {c \in 1 .. m.raw : m.count[c] = Collectable}

Collected(m) ==
  LET S == Unreferenced(m) IN
    [m EXCEPT !.count = [c \in Chunk |-> IF c \in S THEN FreeChunk ELSE @[c]],
              !.live = @ \ S,
              !.free = Pushed(S) \o @]

TakeRaw(m) == [chunk |-> m.raw + 1,
               memory |-> [m EXCEPT !.raw = @ + 1, !.count[m.raw + 1] = 0]]

TakeFree(m) == [chunk |-> Head(m.free),
                memory |-> [m EXCEPT !.free = Tail(@), !.count[Head(m.free)] = 0]]

RawLeft(m) == m.raw < m.blocks * AllocNb

(* Mutant: nothing is collected before a block is added. *)
AllocationUncollected(m) ==
  IF RawLeft(m) THEN TakeRaw(m)
  ELSE IF m.free # <<>> THEN TakeFree(m)
  ELSE TakeRaw([m EXCEPT !.blocks = @ + 1])

(* allocate: from the raw block, else from the free list after collecting  *)
(* if it is empty, else from a new block.                                  *)
Allocation(m) ==
  LET c == IF m.free = <<>> THEN Collected(m) ELSE m IN
    IF RawLeft(m) THEN TakeRaw(m)
    ELSE IF c.free # <<>> THEN TakeFree(c)
    ELSE TakeRaw([c EXCEPT !.blocks = @ + 1])

(* release(chunk): mark it free and push it on the free list.              *)
Released(m, c) == [m EXCEPT !.count[c] = FreeChunk, !.free = <<c>> \o @]

(* The memory is not exhausted: the bound on the number of blocks.         *)
CanAllocate ==
  \/ blocks < MaxBlocks \/ RawLeft(Memory) \/ Collected(Memory).free # <<>>

(* construct, and the handle that receives the first reference.            *)
Construct(h) ==
  /\ ptr[h] = Null /\ CanAllocate
  /\ LET a == Allocation(Memory) IN
       /\ Becomes([a.memory EXCEPT !.live = @ \cup {a.chunk}, !.count[a.chunk] = 1])
       /\ ptr' = [ptr EXCEPT ![h] = a.chunk]
  /\ fault' = "none"

(* construct, when the constructor of T throws: the chunk is given back.   *)
ConstructThrows ==
  /\ CanAllocate
  /\ LET a == Allocation(Memory) IN Becomes(Released(a.memory, a.chunk))
  /\ fault' = "none"
  /\ UNCHANGED ptr

(* reset(t) in a copy p = q: take_reference on the new object and then     *)
(* release_reference on the old one.  take_reference throws once the       *)
(* counter has reached REFCOUNT_MAX, and leaves it incremented.            *)
Assign(h, g) ==
  /\ h # g /\ fault = "none"
  /\ LET taken == IF ptr[g] = Null THEN count ELSE [count EXCEPT ![ptr[g]] = @ + 1] IN
       IF ptr[g] # Null /\ taken[ptr[g]] = RefcountMax
       THEN /\ count' = taken /\ fault' = "overflow" /\ UNCHANGED ptr
       ELSE /\ count' = IF ptr[h] = Null THEN taken ELSE [taken EXCEPT ![ptr[h]] = @ - 1]
            /\ ptr' = [ptr EXCEPT ![h] = ptr[g]]
            /\ UNCHANGED fault
  /\ UNCHANGED <<blocks, raw, free, live>>

(* The handle is destroyed or set to nullptr.                              *)
Drop(h) ==
  /\ ptr[h] # Null
  /\ count' = [count EXCEPT ![ptr[h]] = @ - 1]
  /\ ptr' = [ptr EXCEPT ![h] = Null]
  /\ UNCHANGED <<blocks, raw, free, live, fault>>

(* destruct(p): the last reference to the object is p itself, which is set *)
(* to nullptr, releasing its reference, after the chunk has been released. *)
Destruct(h) ==
  /\ ptr[h] # Null /\ count[ptr[h]] = 1
  /\ LET released == Released([Memory EXCEPT !.live = @ \ {ptr[h]}], ptr[h]) IN
       Becomes([released EXCEPT !.count[ptr[h]] = @ - 1])
  /\ ptr' = [ptr EXCEPT ![h] = Null]
  /\ UNCHANGED fault

Collect ==
  /\ Becomes(Collected(Memory))
  /\ UNCHANGED <<ptr, fault>>

(* destruct_all, when no handle is left: the destructor runs on every      *)
(* chunk whose counter does not mark it free, then the memory is freed.    *)
DestructAll ==
  /\ \A h \in Handle : ptr[h] = Null
  /\ fault' = IF \E c \in Taken : count[c] <= RefcountMax /\ c \notin live
              THEN "destructed_twice" ELSE "none"
  /\ Becomes([blocks |-> 0, raw |-> 0, free |-> <<>>, live |-> {},
              count |-> [c \in Chunk |-> Unset]])
  /\ UNCHANGED ptr

Next ==
  \/ ConstructThrows \/ Collect \/ DestructAll
  \/ \E h \in Handle : Construct(h) \/ Drop(h) \/ Destruct(h)
  \/ \E h, g \in Handle : Assign(h, g)

Spec == Init /\ [][Next]_vars

-----------------------------------------------------------------------------
(* Counters, free list and handles hold what they may hold.                *)
TypeOK ==
  /\ blocks \in 0 .. MaxBlocks /\ raw \in 0 .. blocks * AllocNb
  /\ free \in Seq(Chunk)
  /\ count \in [Chunk -> Unset .. FreeChunk]
  /\ live \subseteq Chunk
  /\ ptr \in [Handle -> Chunk \cup {Null}]
  /\ fault \in {"none", "overflow", "destructed_twice"}

(* No chunk is recycled while it is referenced, and the counter of an      *)
(* object is the number of handles on it, as long as the handles cannot    *)
(* make a counter reach REFCOUNT_MAX.  Every chunk is raw, free (once in   *)
(* the list) or holds an object: no memory is lost and none is handed out  *)
(* twice.  The counter of a free chunk is its marker, or one less after    *)
(* destruct; it never looks like that of an object to collect.             *)
ChunksAccounted ==
  /\ TypeOK
  /\ \A h \in Handle : ptr[h] # Null => ptr[h] \in live
  /\ \A c \in live : count[c] = Cardinality(Holders(c))
  /\ \A i, j \in DOMAIN free : free[i] = free[j] => i = j
  /\ Taken = live \cup {c \in Chunk : InFreeList(c)}
  /\ \A c \in live : ~ InFreeList(c)
  /\ \A c \in Chunk : InFreeList(c) => count[c] \in {RefcountMax, FreeChunk}

(* A new block is allocated only when every chunk is in use.               *)
BlocksGrowWhenFull ==
  [][blocks' > blocks => \A c \in 1 .. blocks * AllocNb : Holders(c) # {}]_vars
=============================================================================
