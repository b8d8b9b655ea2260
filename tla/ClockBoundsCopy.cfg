CONSTANTS
  LocNumber = 3
  ClockNumber = 2
  LocPid <- TwoProcesses
  InfValue = 1000
  BoundSystems <- CopySystems
  Systems <- ConstraintSystems
  Unit = 2
  Values <- SmallValues
SPECIFICATION BoundsSpec
INVARIANTS BoundsSimulate
CHECK_DEADLOCK FALSE
