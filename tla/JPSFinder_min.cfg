SPECIFICATION Spec
CONSTANTS
  Width = 6
  Height = 6
  Maps <- CheaperLater
  Starts = {7}
  Ends = {9}
  StrayX = {0}
  MaxInits = 1
  MaxCalls = 1
PROPERTIES
  PopsMinimum
\* The calls are bounded, and a crash or a hang ends the program.
CHECK_DEADLOCK FALSE
