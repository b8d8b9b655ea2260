\* The bounds and the constraints of systems with two clocks.
SPECIFICATION AnySpec
CONSTANTS
  LocNumber = 3
  ClockNumber = 2
  LocPid <- TwoProcesses
  BoundSystems <- SomeSystems
  Systems <- ConstraintSystems
  InfValue = 1000
  Unit = 2
  Values <- SmallValues
INVARIANTS LocalBoundsSimulate LocalBoundsLeast Irredundant
PROPERTIES PropagationSound Termination
\* Both analyses end.
CHECK_DEADLOCK FALSE
