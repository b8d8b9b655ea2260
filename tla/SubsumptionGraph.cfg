CONSTANTS
  Node <- ThreeNodes
  Hash <- HashCodes
  Covering <- CoveringPairs
  TableSize = 2
  NotStored = NotStored
  Edge = {e1, e2, e3}
  NoNode = NoNode
  NoEdge = NoEdge
  ACTUAL = ACTUAL
  SUBSUMPTION = SUBSUMPTION
SPECIFICATION GraphSpec
INVARIANTS IInv QueriesExact EdgesJoinStored
PROPERTIES ImplementsNodeSet ImplementsEdgeSet MovedEdgesRetyped
SYMMETRY EdgeSymmetry
CHECK_DEADLOCK FALSE
