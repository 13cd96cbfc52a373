\* Appends that interleave in every way.
SPECIFICATION MCSpec
CONSTANTS
  p1 = p1
  p2 = p2
  p3 = p3
  Providers <- TwoProviders
  MaxStarts = 3
INVARIANTS
  TypeOK
  EntriesPerStart
  SomebodyListed
PROPERTIES
  SerialKeepsRegistered
  CalmStartSucceeds
  CalmStartLoadsAll
CHECK_DEADLOCK FALSE
