\* A Fcitx process and three daemons, started by it or by hand.
CONSTANTS
  Daemons = {d1, d2, d3}
  NoDaemon = NoDaemon
  Fcitxes = {f1}
  MaxProbes = 2
  MaxPolls = 1
SPECIFICATION Spec
CHECK_DEADLOCK FALSE
INVARIANTS
  ManagerInv
  SocketOfServing
  StopReapsChild
PROPERTIES
  StopReturns
  AloneServes
