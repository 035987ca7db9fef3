CONSTANTS
  Users = {u1, u2}
  Pump = pump
  NoThread = NoThread
  Hooks = {h1, h2}
  MaxNest = 2
SPECIFICATION Spec
INVARIANTS
  TypeOK
  NoUseAfterFree
  NoLeak
  CloseInOrder
PROPERTIES
  BearersTornDown
  ImplementsNodeLifetime
