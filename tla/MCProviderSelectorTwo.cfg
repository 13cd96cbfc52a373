\* Two threads share curr.
SPECIFICATION Spec
CONSTANTS
  w1 = w1
  w2 = w2
  bad = bad
  Workers <- TwoWorkers
  Hosts <- FourHosts
  BadEntry = bad
  MaxEntries = 1
INVARIANTS
  SelectsProvider
CHECK_DEADLOCK FALSE
