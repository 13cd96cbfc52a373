\* One thread in io_context.run(); the constructor may throw and end the process.
SPECIFICATION Spec
CONSTANTS
  w1 = w1
  w2 = w2
  bad = bad
  Workers <- OneWorker
  Hosts <- FourHosts
  BadEntry = bad
  MaxEntries = 4
INVARIANTS
  TypeOK
  SelectsProvider
  NeverDropped
  WindowFair
CHECK_DEADLOCK FALSE
