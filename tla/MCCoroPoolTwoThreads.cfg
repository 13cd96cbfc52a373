\* Two threads: the wake-up between the check and the wait is lost.
SPECIFICATION LiveSpec
CONSTANTS
  c1 = c1
  c2 = c2
  c3 = c3
  c4 = c4
  c5 = c5
  Clients <- ThreeCoroutines
  MaxSize = 1
  Threads = 2
  Prefilled = TRUE
PROPERTIES
  NoIdleObjectWhileStarving
