SPECIFICATION Spec
CONSTANTS
  Managers = {m1, m2, m3}
  Boot = boot
  Null = null
  MaxExpiries = 1
INVARIANTS
  MainThreadGetsItsCoroutinesBack
