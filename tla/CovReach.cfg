CONSTANTS
  State <- FourStates
  Event <- TwoEvents
  TransitionSystems <- Systems
  NoNode = NoNode
SPECIFICATION Spec
INVARIANTS IInv Antichain EdgesRepresentTransitions NodesAccounted
  GraphCoversReachable
PROPERTIES CoverageMonotone AnswersQuery Termination
