------------------------------- MODULE CoverGraph -----------------------------
(***************************************************************************)
(* cover::graph_t, the node store of the subsumption graph: a hash table   *)
(* of vectors of nodes, where every node remembers its position in the     *)
(* table and in its vector so that it is removed in constant time, by      *)
(* moving the last node of the vector into its place.  Positions are       *)
(* 0-based in the code and 1-based here.                                   *)
(***************************************************************************)
EXTENDS Naturals, Sequences, FiniteSets

CONSTANTS
  Node,       \* the node objects
  Hash,       \* NODE_HASH, the hash code of each node
  Covering,   \* NODE_LE, the pairs <<m, n>> such that m is below n
  TableSize,  \* the constructor parameter table_size
  NotStored   \* the position of a node that is not in the graph

(* In every instance of tck-reach NODE_HASH only depends on the discrete   *)
(* part of a state and NODE_LE compares states with equal discrete parts.  *)
ASSUME GraphAssumption ==
  /\ Hash \in [Node -> Nat]
  /\ Covering \subseteq Node \X Node
  /\ \A m, n \in Node : <<m, n>> \in Covering => Hash[m] = Hash[n]
  /\ TableSize \in Nat \ {0}

VARIABLES
  table,     \* _nodes: the sequence of node containers
  position,  \* _position_in_table and _position_in_container of each node
  size       \* _size

vars == <<table, position, size>>

Position == [bucket : Nat \ {0}, index : Nat \ {0}]

ASSUME NotStoredAssumption == NotStored \notin Position

IsStored(n) == position[n] # NotStored

Stored == {n \in Node : IsStored(n)}

(* compute_position_in_table.  The modulus is by the current size of the   *)
(* table, so it is only meaningful while the table is not empty.           *)
Bucket(n) == (Hash[n] % Len(table)) + 1

-----------------------------------------------------------------------------
Init ==
  /\ table = [b \in 1 .. TableSize |-> <<>>]
  /\ position = [n \in Node |-> NotStored]
  /\ size = 0

(* add_node: push_back into the container of the hash code.                *)
AddNode(n) ==
  /\ ~ IsStored(n) /\ table # <<>>
  /\ LET b == Bucket(n) IN
       /\ table' = [table EXCEPT ![b] = Append(@, n)]
       /\ position' =
            [position EXCEPT ![n] = [bucket |-> b, index |-> Len(table[b]) + 1]]
  /\ size' = size + 1

(* Mutant: the following nodes move down instead of the back node. *)
ShiftDown(c, i) == [j \in 1 .. Len(c) - 1 |-> IF j < i THEN c[j] ELSE c[j + 1]]

(* remove_node(n, c) on a container c: the back node moves to index i.     *)
SwapWithBack(c, i) ==
  [j \in 1 .. Len(c) - 1 |-> IF j = i THEN c[Len(c)] ELSE c[j]]

(* remove_node finds its node where the position says.                     *)
Found(n) ==
  /\ position[n].bucket <= Len(table)
  /\ position[n].index <= Len(table[position[n].bucket])
  /\ table[position[n].bucket][position[n].index] = n

(* remove_node: the position of the back node is set before the position   *)
(* of n is cleared, which matters when n is the back node itself.          *)
RemoveNode(n) ==
  /\ IsStored(n) /\ Found(n)
  /\ LET b == position[n].bucket
         i == position[n].index
         back == table[b][Len(table[b])]
     IN /\ table' = [table EXCEPT ![b] = SwapWithBack(@, i)]
        /\ position' = [position EXCEPT ![back].index = i, ![n] = NotStored]
  /\ size' = size - 1

(* Mutant: the loop over the nodes of a container misses the last one. *)
ClearSkipsLast ==
  /\ position' = [n \in Node |->
       IF \E b \in 1 .. Len(table) : \E i \in 1 .. Len(table[b]) - 1 : table[b][i] = n
       THEN NotStored ELSE position[n]]
  /\ table' = <<>>
  /\ size' = 0

(* clear: every node forgets its position, and the table of containers     *)
(* itself is emptied, so that nothing can be added afterwards.             *)
Clear ==
  /\ position' = [n \in Node |->
       IF \E b \in 1 .. Len(table) : \E i \in 1 .. Len(table[b]) : table[b][i] = n
       THEN NotStored ELSE position[n]]
  /\ table' = <<>>
  /\ size' = 0

Next == Clear \/ \E n \in Node : AddNode(n) \/ RemoveNode(n)

Spec == Init /\ [][Next]_vars

-----------------------------------------------------------------------------
(* The queries: is_covered returns the first node of the container above   *)
(* n, covered_nodes all the nodes of the container below n.                *)
Covers(m, n) == m # n /\ <<n, m>> \in Covering

(* Mutant: the covering relation is read backwards. *)
CoveredIndices(n) == {i \in 1 .. Len(table[Bucket(n)]) : Covers(n, table[Bucket(n)][i])}

CoveringIndices(n) == {i \in 1 .. Len(table[Bucket(n)]) : Covers(table[Bucket(n)][i], n)}

IsCovered(n) == CoveringIndices(n) # {}

IsCoveringNode(m, n) ==
  \E i \in CoveringIndices(n) :
    m = table[Bucket(n)][i] /\ \A j \in CoveringIndices(n) : i <= j

CoveredNodes(n) ==
  {table[Bucket(n)][i] :
     i \in {j \in 1 .. Len(table[Bucket(n)]) : Covers(n, table[Bucket(n)][j])}}

-----------------------------------------------------------------------------
(* Nodes sit in containers, positions are indices or NOT_STORED, and the   *)
(* table has table_size containers until clear.                            *)
TypeOK ==
  /\ table \in Seq(Seq(Node))
  /\ position \in [Node -> Position \cup {NotStored}]
  /\ size \in Nat
  /\ Len(table) \in {0, TableSize}

(* A stored node is where its position says, in the container of its hash  *)
(* code: remove_node never throws and the queries look at the right place. *)
StoredFound ==
  \A n \in Node : IsStored(n) => Found(n) /\ position[n].bucket = Bucket(n)

(* Every entry of a container is a node that knows this entry, so no node  *)
(* is stored twice.                                                        *)
EntriesKnown ==
  \A b \in 1 .. Len(table) : \A i \in 1 .. Len(table[b]) :
    position[table[b][i]] = [bucket |-> b, index |-> i]

(* nodes_count(), the number reported as stored_states.                    *)
SizeCorrect == IsFiniteSet(Stored) /\ size = Cardinality(Stored)

(* is_covered and covered_nodes, which search a single container, are      *)
(* exact over the whole graph.                                             *)
QueriesExact ==
  table # <<>> => \A n \in Node :
    /\ IsCovered(n) <=> \E m \in Stored : Covers(m, n)
    /\ \A m \in Node : IsCoveringNode(m, n) => m \in Stored /\ Covers(m, n)
    /\ CoveredNodes(n) = {m \in Stored : Covers(n, m)}

Contents == INSTANCE NodeSet WITH nodes <- Stored

(* The table of containers implements a set of nodes.                      *)
ImplementsNodeSet == Contents!Spec

IInv == TypeOK /\ StoredFound /\ EntriesKnown /\ SizeCorrect
=============================================================================
