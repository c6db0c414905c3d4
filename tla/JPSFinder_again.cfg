SPECIFICATION FairSpec
CONSTANTS
  Width = 5
  Height = 5
  Maps <- MapsOfSomeSizes
  Starts = {0, 12}
  Ends = {0, 8, 12}
  StrayX = {0, 1, 2}
  MaxInits = 2
  MaxCalls = 2
INVARIANTS
  HopsAreClear
  NoStrayRead
  JumpIsTheRecursion
  InterpolateHugsTheLine
PROPERTY
  CallsReturn
\* The calls are bounded, and a crash or a hang ends the program.
CHECK_DEADLOCK FALSE
