CONSTANTS
  Conns = {c1, c2, c3}
  Workers = {w1, w2}
  MaxPending = 2
  NoConn = NoConn
SPECIFICATION Spec
INVARIANTS
  TypeOK
  PermitsConserved
  NoSocketOutlivesPermit
  CloseReachesTheRest
PROPERTIES
  QueuedAreServed
  WorkersStop
