\* Paths of the zone graphs of two systems, under every semantics and
\* extrapolation, next to the standard zone graph without extrapolation, and
\* of the zone graphs with reference clocks of a third one; and matrices of
\* clocks of the past and of the future.
SPECIFICATION AnySpec
CONSTANTS
  Systems <- SomeSystems
  LocNumber = 5
  LocPid <- Pids
  Dim = 3
  InfValue = 1000
  Variants <- SomeVariants
  MaxSteps = 8
  Coarse = {0, 1, 2, 3, 4}
  Fine = {0, 1, 2, 3, 4, 5, 6}
INVARIANTS PathsFollowed CoveringSound
PROPERTY StepsReachExecutions
\* Paths end at the bound, and where the automata block.
CHECK_DEADLOCK FALSE
