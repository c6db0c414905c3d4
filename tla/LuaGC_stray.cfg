SPECIFICATION Spec
CONSTANTS
  o1 = o1
  o2 = o2
  o3 = o3
  Objects = {o1, o2, o3}
  Main = main
  Header = header
  None = none
  Writes <- MCWrites
  Fulls <- MCFulls
  Kinds <- MCKinds
INVARIANT
  WhiteWhenSweepEnds
\* The program may end.
CHECK_DEADLOCK FALSE
