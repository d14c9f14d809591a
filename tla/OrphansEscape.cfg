CONSTANTS
  Instances = {0}
  Nobody = Nobody
  PortsOf <- MCPortsOf
  TaskPort = 5052
  ShufflePort = 5053
  SingleHost = TRUE
  Pids = {p1, p2}
  MaxIncarnations = 2
  OrphansListen = FALSE
SPECIFICATION Spec
INVARIANT AtMostOneLive
CHECK_DEADLOCK FALSE
