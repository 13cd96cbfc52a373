\* Two sessions, two dubbo connections. The process may end.
SPECIFICATION FairSpec
CONSTANTS
  s1 = s1
  s2 = s2
  d1 = d1
  d2 = d2
  none = none
  Clients <- TwoSessions
  Conns <- TwoConns
  NoConn = none
  MaxRequests = 2
  MaxTotal = 3
  InPieces = TRUE
INVARIANTS
  TypeOK
  FreeIsQuiet
  DubboCannotKill
PROPERTIES
  ImplementsFrameService
  SerialStaysOnOne
  FrameAnswered
CHECK_DEADLOCK FALSE
