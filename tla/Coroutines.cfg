SPECIFICATION SectionSpec
CONSTANTS
  Roots = {r1, r2, r3}
  Tasks = {t1, t2}
  NoTask = none
  MaxRounds = 2
  Objects = {o1, o2}
  Numbers = {0, 2}
  MaxFrames = 2
  MaxLoops = 3
INVARIANTS
  OneWaker
  AnswersFit
  OneOwner
  LoopsShareTheRange
  UndefinedHasACause
PROPERTIES
  FollowersAreSettled
  TutorialEnds
\* The calls are bounded.
CHECK_DEADLOCK FALSE
