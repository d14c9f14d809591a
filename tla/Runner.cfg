CONSTANTS
  Instances = {0, 1}
  Nobody = Nobody
  PortsOf <- MCPortsOf
  TaskPort = 5052
  ShufflePort = 5053
  SingleHost = TRUE
  Pids = {p1, p2, p3}
  MaxIncarnations = 2
  OrphansListen = TRUE
SPECIFICATION FairSpec
INVARIANTS TypeOK AtMostOneLive
PROPERTIES ActorsGetThrough ImplementsBinaryLife
CHECK_DEADLOCK FALSE
