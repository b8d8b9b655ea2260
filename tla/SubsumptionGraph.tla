---------------------------- MODULE SubsumptionGraph ---------------------------
(***************************************************************************)
(* subsumption::graph_t: the graph of the covering algorithm.  It composes *)
(* the cover graph, which stores the nodes, with the directed graph, which *)
(* links their edges, and gives every edge a type.  The pools of nodes and *)
(* edges are in Pool; here an object is in use while the graph refers to   *)
(* it.                                                                     *)
(***************************************************************************)
EXTENDS CoverGraph, SequencesExt

CONSTANTS
  Edge,                 \* edge objects
  NoNode, NoEdge,       \* null pointers
  ACTUAL, SUBSUMPTION   \* edge_type_t

ASSUME NullAssumption == NoNode \notin Node /\ NoEdge \notin Edge

(* The edge objects that fit in memory. *)
ASSUME EdgeAssumption == IsFiniteSet(Edge)

VARIABLES
  head, next, node, \* see DirectedGraph
  edgeType          \* edge_t::edge_type of the edges

Links == INSTANCE DirectedGraph

links == <<head, next, node>>
graph == <<table, position, size, head, next, node, edgeType>>

EdgeType == {ACTUAL, SUBSUMPTION}

(* No edge is linked to n: the assertions of remove_node, remove_edges.    *)
Disconnected(n) == \A tag \in Links!Tag : head[tag][n] = NoEdge

-----------------------------------------------------------------------------
GraphInit == Init /\ Links!Init /\ edgeType = [e \in Edge |-> ACTUAL]

(* add_node, of an object that was just constructed.                       *)
AddGraphNode(n) == AddNode(n) /\ UNCHANGED <<links, edgeType>>

(* add_edge, whose preconditions are that both ends are stored.            *)
AddGraphEdge(s, t, e, type) ==
  /\ IsStored(s) /\ IsStored(t)
  /\ Links!AddEdge(s, t, e)
  /\ edgeType' = [edgeType EXCEPT ![e] = type]
  /\ UNCHANGED vars

(* remove_node, of a node without edges.                                   *)
RemoveGraphNode(n) ==
  /\ Disconnected(n)
  /\ RemoveNode(n)
  /\ UNCHANGED <<links, edgeType>>

(* remove_edges.  The edges go back to their pool: their type is lost.     *)
RemoveGraphEdges(n) ==
  /\ IsStored(n)
  /\ Links!RemoveEdges(n)
  /\ edgeType' = [e \in Edge |-> IF node'["incoming"][e] = NoNode THEN ACTUAL ELSE edgeType[e]]
  /\ UNCHANGED vars

(* Mutant: the types are set once the edges have moved. *)
MoveThenRetype(n1, n2, type) ==
  /\ IsStored(n1) /\ IsStored(n2)
  /\ Links!MoveIncomingEdges(n1, n2)
  /\ edgeType' = [e \in Edge |-> IF node'["incoming"][e] = n2 THEN type ELSE edgeType[e]]
  /\ UNCHANGED vars

(* move_incoming_edges: the types of the edges are set before they move.   *)
MoveGraphEdges(n1, n2, type) ==
  /\ IsStored(n1) /\ IsStored(n2)
  /\ Links!MoveIncomingEdges(n1, n2)
  /\ edgeType' = [e \in Edge |-> IF node["incoming"][e] = n1 THEN type ELSE edgeType[e]]
  /\ UNCHANGED vars

(* Mutant: the nodes are forgotten before their edges are removed. *)
ClearNodesFirst ==
  /\ Clear
  /\ Links!Clear(Stored')
  /\ edgeType' = [e \in Edge |-> ACTUAL]

(* clear: the edges of the nodes that the cover graph enumerates are       *)
(* removed, then the cover graph and the pools are emptied.                *)
ClearGraph ==
  /\ Clear
  /\ Links!Clear(Stored)
  /\ edgeType' = [e \in Edge |-> ACTUAL]

GraphNext ==
  \/ ClearGraph
  \/ \E n \in Node : AddGraphNode(n) \/ RemoveGraphNode(n) \/ RemoveGraphEdges(n)
  \/ \E s, t \in Node, e \in Edge, type \in EdgeType : AddGraphEdge(s, t, e, type)
  \/ \E n1, n2 \in Node, type \in EdgeType : MoveGraphEdges(n1, n2, type)

GraphSpec == GraphInit /\ [][GraphNext]_graph

-----------------------------------------------------------------------------
(* Both lists of every node are exactly its edges, and every edge in the   *)
(* graph joins two stored nodes: no list leads to a node that was removed  *)
(* or to an edge that was given back to its pool.                          *)
EdgesJoinStored ==
  /\ Links!IInv
  /\ \A tag \in Links!Tag, e \in Edge : node[tag][e] \in Stored \cup {NoNode}

(* Edges that change target are all the edges into one node n1: they come, *)
(* in reverse, before those into the new target n2, they and no other edge *)
(* take one new type, and the lists of outgoing edges stay as they are.    *)
MovedEdgesRetyped ==
  [][\A n1, n2 \in Node :
       n1 # n2 /\ (\E e \in Edge : node["incoming"][e] = n1 /\ node'["incoming"][e] = n2) =>
         LET incoming(n) == Links!EdgesOf(Links!Graph, "incoming", n)
             outgoing(n) == Links!EdgesOf(Links!Graph, "outgoing", n)
             moved == incoming(n1)
             movedEdges == {moved[k] : k \in DOMAIN moved}
         IN /\ incoming(n2)' = Reverse(moved) \o incoming(n2)
            /\ \A n \in Node : outgoing(n)' = outgoing(n)
            /\ \E type \in EdgeType : \A e \in Edge :
                 edgeType'[e] = IF e \in movedEdges THEN type ELSE edgeType[e]]_graph

(* The linked lists implement a set of edges, also as the graph uses them. *)
ImplementsEdgeSet == Links!ImplementsEdgeSet
==============================================================================
