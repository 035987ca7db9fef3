CONSTANTS
  a1 = a1
  d1 = d1
  Accepted = {a1}
  Dialed = {d1}
  NoConn = NoConn
  HeaderBytes = 2
  MaxFrame = 1
  Stream <- MCStream
SPECIFICATION Spec
PROPERTIES
  CloseEndsRecvLoops
