-------------------------------- MODULE NodeSet -------------------------------
(***************************************************************************)
(* What cover::graph_t promises as a container: a set of nodes, in which   *)
(* no node is stored twice.                                                *)
(***************************************************************************)
CONSTANT Node

VARIABLE nodes

Init == nodes = {}

Add(n) == n \notin nodes /\ nodes' = nodes \cup {n}

Remove(n) == n \in nodes /\ nodes' = nodes \ {n}

Clear == nodes' = {}

Next == Clear \/ \E n \in Node : Add(n) \/ Remove(n)

Spec == Init /\ [][Next]_nodes
=============================================================================
