SPECIFICATION LoadedSpec
CONSTANTS
  Width = 3
  Height = 2
  Maps = {}
  Starts = {0, 4, 5}
  Ends = {0, 1, 2, 3, 5}
  StrayX = {0, 1, 2, 3}
  MaxInits = 1
  MaxCalls = 2
  Sessions <- OneOrTwo
INVARIANTS
  LoadedAsWritten
  DisplacedIsUnsetOrSpilled
  OnlyWalkableEntered
  StopsHaveACause
\* The calls are bounded, and a crash or a hang ends the program.
CHECK_DEADLOCK FALSE
