\* Appends that overlap lose registrations.
SPECIFICATION MCSpec
CONSTANTS
  p1 = p1
  p2 = p2
  p3 = p3
  Providers <- ThreeProviders
  MaxStarts = 2
INVARIANTS
  RegisteredIsListed
CHECK_DEADLOCK FALSE
