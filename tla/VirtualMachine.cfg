\* The runs of every guard and update of the instance, from every valuation
\* and after every run that threw.
SPECIFICATION Spec
CONSTANTS
  IntVariables <- SmallIntVariables
  ClockVariables <- SmallClockVariables
  IntMin <- Lowest
  IntMax = 100
  RefClock = 9
  Programs <- AllPrograms
  Valuations <- SmallValuations
  MaxFrames = 1
INVARIANTS
  MachineSound
  RunsMeanTheirTerms
  AccessesDeclared
PROPERTY RunsEnd
\* A division by zero ends the process, and with it every behaviour.
CHECK_DEADLOCK FALSE
