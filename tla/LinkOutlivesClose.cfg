CONSTANTS
  Conns = {c1, c2}
  Workers = {w1}
  MaxPending = 1
  NoConn = NoConn
SPECIFICATION Spec
INVARIANTS
  NoLinkOutlivesClose
