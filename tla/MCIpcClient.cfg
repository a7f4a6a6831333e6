\* Two threads, two descriptors at a time.
CONSTANTS
  Fds = {3, 4}
  NoFd = NoFd
  Conns = {c1, c2, c3}
  NoConn = NoConn
SPECIFICATION Spec
CHECK_DEADLOCK FALSE
INVARIANTS
  DescriptorsOwned
  LinesIntact
  ClientInv
PROPERTIES
  Heals
  StopJoins
