\* The safety of the pool, four threads and two objects.
SPECIFICATION Spec
CONSTANTS
  t1 = t1
  t2 = t2
  t3 = t3
  t4 = t4
  Clients <- FourThreads
  MaxSize = 2
INVARIANTS
  OneHome
  NoParError
  SleeperHasRescuer
PROPERTIES
  ImplementsLending
