\* Two daemons that find the socket of a third, dead one.
CONSTANTS
  Daemons = {d1, d2, d3}
  NoDaemon = NoDaemon
  Fcitxes = {f1}
  MaxProbes = 1
  MaxPolls = 1
SPECIFICATION Spec
CHECK_DEADLOCK FALSE
INVARIANT OneDaemon
