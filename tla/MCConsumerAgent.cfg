\* Three sessions compete for two connections that may break; answers may come in pieces.
SPECIFICATION FairSpec
CONSTANTS
  s1 = s1
  s2 = s2
  s3 = s3
  k1 = k1
  k2 = k2
  none = none
  Clients <- ThreeSessions
  Conns <- TwoConns
  NoConn = none
  Threads = 1
  MaxRequests = 2
  MaxTotal = 3
  InPieces = TRUE
INVARIANTS
  TypeOK
  FreeIsQuiet
  HeldDuringExchange
  NobodyWaitsInVain
PROPERTIES
  ImplementsService
  RequestAnswered
