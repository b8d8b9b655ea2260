CONSTANTS
  State <- ThreeStates
  Event <- TwoEvents
  TransitionSystems <- Systems
  NoNode = NoNode
SPECIFICATION Spec
INVARIANTS IInv GraphComplete
PROPERTIES AnswersQuery Termination
