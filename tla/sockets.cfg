SPECIFICATION AnySpec
CONSTANTS
  NULL = NULL
  c1 = c1
  c2 = c2
  Conns <- Two
  Instances <- EpollInstances
  MaxEvents = 2
INVARIANTS
  EpollSeesAll WebSocketExact
SYMMETRY Symmetry
CHECK_DEADLOCK FALSE
