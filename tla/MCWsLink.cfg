CONSTANTS
  Scripts <- MCScripts
  AnswerUnits = 2
  MaxHead = 4
  RecvUnits = 3
  MaxMessage = 2
  HandshakeTimeout = 1
  ReadTimeout = 2
SPECIFICATION Spec
INVARIANTS
  TypeOK
  DeliveredIntact
  AssemblyBounded
  ClosedHoldsNoSocket
PROPERTIES
  NobodyWaitsForEver
