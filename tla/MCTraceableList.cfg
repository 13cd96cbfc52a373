\* Every sequence of calls on a list of up to four nodes; its life may end.
SPECIFICATION Spec
CONSTANTS
  n1 = n1
  n2 = n2
  n3 = n3
  n4 = n4
  i1 = i1
  i2 = i2
  Cells <- FourCells
  Cursors <- TwoCursors
  Null = Null
  Lost = Lost
INVARIANTS
  TypeOK
  LinksAgree
  NothingLeaks
  OnlyEndsAreWild
PROPERTIES
  ImplementsList
  OperationsAgree
CHECK_DEADLOCK FALSE
