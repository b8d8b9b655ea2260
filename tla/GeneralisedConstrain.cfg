\* Operations on the matrix of two clocks of the past, that are compared while
\* they are undefined.  The bounds are < 0 and <= 0.
SPECIFICATION Spec
CONSTANTS
  History = {1, 2}
  Prophecy = {}
  Normal = {}
  InfValue = 1000
  Unit = 1
  Coarse = {0, 1, 2}
  Fine = {0, 1, 2}
  Instants = {0, 1, 2}
  Bounds = {0, 1}
  MaxSteps = 3
INVARIANT TightAfterConstrain
CHECK_DEADLOCK FALSE
