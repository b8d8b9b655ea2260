----------------------------- MODULE DirectedGraph ----------------------------
(***************************************************************************)
(* directed::graph_t, the edges of the subsumption and reachability        *)
(* graphs: every node heads two intrusive singly linked lists, of its      *)
(* outgoing and of its incoming edges, and every edge carries, for each of *)
(* the two tags, its next edge and the node that owns it.                  *)
(***************************************************************************)
EXTENDS Naturals, Sequences, FiniteSets

CONSTANTS
  Node, Edge,   \* node and edge objects
  NoNode, NoEdge   \* null pointers

Tag == {"incoming", "outgoing"}

VARIABLES
  head,   \* head<TAG>() of the nodes
  next,   \* next<TAG>() of the edges
  node    \* node<TAG>() of the edges

vars == <<head, next, node>>

(* The three families of pointers together, as one value: an operation of  *)
(* the code changes them one list at a time, edge after edge.              *)
Pointers ==
  [head : [Tag -> [Node -> Edge \cup {NoEdge}]],
   next : [Tag -> [Edge -> Edge \cup {NoEdge}]],
   node : [Tag -> [Edge -> Node \cup {NoNode}]]]

Graph == [head |-> head, next |-> next, node |-> node]

Becomes(g) == head' = g.head /\ next' = g.next /\ node' = g.node

(* edges<TAG>(n): the edges met by the iterator from head<TAG>(), in       *)
(* order.  A list that is not terminated is cut after one lap.             *)
EdgesOf(g, tag, n) ==
  LET at[k \in 0 .. Cardinality(Edge)] ==
        IF k = 0 THEN g.head[tag][n]
        ELSE IF at[k - 1] = NoEdge THEN NoEdge ELSE g.next[tag][at[k - 1]]
  IN [k \in {j \in 1 .. Cardinality(Edge) + 1 : at[j - 1] # NoEdge} |-> at[k - 1]]

(* add_edge<TAG>: link e at the head of the list.                          *)
Link(g, tag, n, e) ==
  [g EXCEPT !.next[tag][e] = g.head[tag][n],
            !.head[tag][n] = e,
            !.node[tag][e] = n]

(* The k-th edge of the list is bypassed, from the head or from the edge   *)
(* before it.                                                              *)
Bypass(g, tag, n, k) ==
  LET list == EdgesOf(g, tag, n)
      after == IF k < Len(list) THEN list[k + 1] ELSE NoEdge
  IN IF k = 1 THEN [g EXCEPT !.head[tag][n] = after]
     ELSE [g EXCEPT !.next[tag][list[k - 1]] = after]

(* remove_edge<TAG>: look e up in the list of its node, bypass it.  Not    *)
(* finding e only fails an assertion that release builds do not evaluate.  *)
Unlink(g, tag, e) ==
  LET n == g.node[tag][e]
      list == EdgesOf(g, tag, n)
      places == {i \in DOMAIN list : list[i] = e}
      k == CHOOSE i \in places : \A j \in places : i <= j
  IN IF places = {} THEN g
     ELSE [Bypass(g, tag, n, k) EXCEPT !.next[tag][e] = NoEdge, !.node[tag][e] = NoNode]

(* remove_edge: out of both lists.                                         *)
Disconnect(g, e) == Unlink(Unlink(g, "incoming", e), "outgoing", e)

(* Mutant: the iterator moves after its edge was unlinked. *)
DisconnectStale(g, tag, n) ==
  LET at[k \in 0 .. Cardinality(Edge)] ==
        IF k = 0 THEN [graph |-> g, edge |-> g.head[tag][n]]
        ELSE LET p == at[k - 1] IN
             IF p.edge = NoEdge THEN p
             ELSE [graph |-> Disconnect(p.graph, p.edge),
                   edge |-> Disconnect(p.graph, p.edge).next[tag][p.edge]]
  IN at[Cardinality(Edge)].graph

(* The loops over a list that unlink its edges: the iterator moves to the  *)
(* next edge before the edge it stood on loses its successor.              *)
DisconnectList(g, tag, n) ==
  LET at[k \in 0 .. Cardinality(Edge)] ==
        IF k = 0 THEN [graph |-> g, edge |-> g.head[tag][n]]
        ELSE LET p == at[k - 1] IN
             IF p.edge = NoEdge THEN p
             ELSE [graph |-> Disconnect(p.graph, p.edge), edge |-> p.graph.next[tag][p.edge]]
  IN at[Cardinality(Edge)].graph

(* remove_edges: the outgoing edges first, then the incoming edges that    *)
(* remain, a loop on n being in both lists.                                *)
DisconnectNode(g, n) == DisconnectList(DisconnectList(g, "outgoing", n), "incoming", n)

Retarget(g, n, e) == Link(Unlink(g, "incoming", e), "incoming", n, e)

RedirectList(g, n1, n2) ==
  LET at[k \in 0 .. Cardinality(Edge)] ==
        IF k = 0 THEN [graph |-> g, edge |-> g.head["incoming"][n1]]
        ELSE LET p == at[k - 1] IN
             IF p.edge = NoEdge THEN p
             ELSE [graph |-> Retarget(p.graph, n2, p.edge),
                   edge |-> p.graph.next["incoming"][p.edge]]
  IN at[Cardinality(Edge)].graph

(* clear over a range of nodes: the edges of each are removed in turn.     *)
DisconnectedAll(g, range) ==
  LET at[k \in 0 .. Len(range)] ==
        IF k = 0 THEN g ELSE DisconnectNode(at[k - 1], range[k])
  IN at[Len(range)]

-----------------------------------------------------------------------------
Init ==
  /\ head = [tag \in Tag |-> [n \in Node |-> NoEdge]]
  /\ next = [tag \in Tag |-> [e \in Edge |-> NoEdge]]
  /\ node = [tag \in Tag |-> [e \in Edge |-> NoNode]]

(* add_edge of an edge object that was just constructed.                   *)
AddEdge(s, t, e) ==
  /\ \A tag \in Tag : node[tag][e] = NoNode
  /\ Becomes(Link(Link(Graph, "incoming", t, e), "outgoing", s, e))

RemoveEdges(n) == Becomes(DisconnectNode(Graph, n))

MoveIncomingEdges(n1, n2) ==
  IF n1 = n2 THEN UNCHANGED vars ELSE Becomes(RedirectList(Graph, n1, n2))

(* clear: the range enumerates the nodes in some order.                    *)
Clear(nodes) ==
  \E range \in [1 .. Cardinality(nodes) -> nodes] :
    /\ \A n \in nodes : \E k \in DOMAIN range : range[k] = n
    /\ Becomes(DisconnectedAll(Graph, range))

-----------------------------------------------------------------------------
(* Edges point to edges, edges to nodes and nodes to edges.                *)
TypeOK == Graph \in Pointers

(* Every list is the list of the edges of its node: null-terminated,       *)
(* without repetition, with exactly the edges that name the node as their  *)
(* source (outgoing) or target (incoming).                                 *)
ListsExact ==
  \A tag \in Tag, n \in Node :
    LET list == EdgesOf(Graph, tag, n) IN
      /\ Len(list) <= Cardinality(Edge)
      /\ \A i, j \in DOMAIN list : list[i] = list[j] => i = j
      /\ {list[i] : i \in DOMAIN list} = {e \in Edge : node[tag][e] = n}

(* An edge is in the graph with both its ends or with none, and an edge    *)
(* outside has no successor: it can be added again or collected.           *)
EdgesConnectedTwice ==
  \A e \in Edge :
    /\ node["incoming"][e] = NoNode <=> node["outgoing"][e] = NoNode
    /\ node["incoming"][e] = NoNode => \A tag \in Tag : next[tag][e] = NoEdge

Edges == INSTANCE EdgeSet WITH source <- node["outgoing"], target <- node["incoming"]

(* The linked lists implement a set of edges.                              *)
ImplementsEdgeSet == Edges!Spec

(* The pointers are well-formed: types, lists and connections together.    *)
IInv == TypeOK /\ ListsExact /\ EdgesConnectedTwice
=============================================================================
