--------------------------- MODULE MCSubsumptionGraph --------------------------
(***************************************************************************)
(* Three nodes in the last container of a table of two (two of them with   *)
(* the same hash code), so that a node in the middle is removed, and three *)
(* interchangeable edges: a list of three edges has an inner edge with a   *)
(* neighbour on each side, and loops, parallel edges and moves between     *)
(* non-empty lists all occur.                                              *)
(***************************************************************************)
EXTENDS SubsumptionGraph, TLC

ThreeNodes == 1 .. 3
HashCodes == <<5, 5, 3>>
CoveringPairs == {<<n, n>> : n \in ThreeNodes} \cup {<<1, 2>>}
EdgeSymmetry == Permutations(Edge)
==============================================================================
