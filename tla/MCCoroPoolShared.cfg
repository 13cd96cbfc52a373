\* The safety of the pool with several threads in io_context.run().
SPECIFICATION Spec
CONSTANTS
  c1 = c1
  c2 = c2
  c3 = c3
  c4 = c4
  c5 = c5
  Clients <- FiveCoroutines
  MaxSize = 3
  Threads = 2
  Prefilled = FALSE
INVARIANTS
  TypeOK
  OneHome
  OnlyExcessStarves
PROPERTIES
  ImplementsLending
