\* Two objects: a thread is left asleep while an object is free.
SPECIFICATION FairSpec
CONSTANTS
  t1 = t1
  t2 = t2
  t3 = t3
  t4 = t4
  Clients <- FourThreads
  MaxSize = 2
PROPERTIES
  NoIdleObjectWhileStarving
