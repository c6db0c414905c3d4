SPECIFICATION Spec
CONSTANTS
  Width = 6
  Height = 5
  Maps <- WalledMaps
  Starts = {7, 14}
  Ends = {10, 14, 16, 22}
  StrayX = {0}
  MaxInits = 1
  MaxCalls = 1
INVARIANTS
  TypeOK
  CostsAddUp
  OpenListIsFrontier
  FindsPathIfThereIsOne
  ReturnedIsWalk
\* The calls are bounded, and a crash or a hang ends the program.
CHECK_DEADLOCK FALSE
