-------------------------------- MODULE EdgeSet -------------------------------
(***************************************************************************)
(* What directed::graph_t promises: a set of edge objects, each between    *)
(* two nodes, whose edges can be added, removed around a node or all       *)
(* together, and redirected from one target to another.                    *)
(***************************************************************************)
CONSTANTS Node, Edge, NoNode

VARIABLES source, target   \* end points of each edge, NoNode outside the graph

vars == <<source, target>>

Init == source = [e \in Edge |-> NoNode] /\ target = [e \in Edge |-> NoNode]

Add(s, t, e) ==
  /\ source[e] = NoNode /\ target[e] = NoNode
  /\ source' = [source EXCEPT ![e] = s] /\ target' = [target EXCEPT ![e] = t]

RemoveAll(gone) ==
  /\ source' = [e \in Edge |-> IF e \in gone THEN NoNode ELSE source[e]]
  /\ target' = [e \in Edge |-> IF e \in gone THEN NoNode ELSE target[e]]

Redirect(n1, n2) ==
  /\ target' = [e \in Edge |-> IF target[e] = n1 THEN n2 ELSE target[e]]
  /\ UNCHANGED source

Incident(n) == {e \in Edge : source[e] = n \/ target[e] = n}

Next ==
  \/ \E s, t \in Node, e \in Edge : Add(s, t, e)
  \/ RemoveAll(Edge)
  \/ \E n \in Node : RemoveAll(Incident(n))
  \/ \E n1, n2 \in Node : Redirect(n1, n2)

Spec == Init /\ [][Next]_vars
=============================================================================
