CONSTANTS
  InfValue = 20
  Dim = 3
  Unit = 6
  Coarse <- ThirdsBelowThree
  Fine <- SixthsBelowFour
  MaxBound = 1
  Constant <- SmallConstants
  LUBounds <- SomeLUBounds
  Stored <- SomeZones
SPECIFICATION Spec
INVARIANTS OperationsExact ExtrapolationsSound InclusionsExact
CHECK_DEADLOCK FALSE
