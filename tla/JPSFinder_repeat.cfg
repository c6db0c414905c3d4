SPECIFICATION Spec
CONSTANTS
  Width = 5
  Height = 4
  Maps <- OpenInside
  Starts <- InnerCells
  Ends <- InnerCells
  StrayX = {0}
  MaxInits = 1
  MaxCalls = 2
INVARIANTS
  FindsPathIfThereIsOne
\* The calls are bounded, and a crash or a hang ends the program.
CHECK_DEADLOCK FALSE
