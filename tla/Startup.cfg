SPECIFICATION FairSpec
CONSTANTS
  Managers = {m1, m2, m3}
  Boot = boot
  Null = null
  MaxExpiries = 2
INVARIANTS
  AtMostTwoManagers
  FirstUpdateIsAlone
  LossNeedsTwoManagers
PROPERTY
  FirstCoroutineIsResumed
