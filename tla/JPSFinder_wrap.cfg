SPECIFICATION Spec
CONSTANTS
  Width = 3
  Height = 3
  Maps <- AllMaps
  Starts <- Cells
  Ends <- Cells
  StrayX = {3}
  MaxInits = 1
  MaxCalls = 1
INVARIANTS
  ReturnedIsWalk
\* The calls are bounded, and a crash or a hang ends the program.
CHECK_DEADLOCK FALSE
