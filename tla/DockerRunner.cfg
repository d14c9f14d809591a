CONSTANTS
  MaxIncarnations = 3
SPECIFICATION FairSpec
INVARIANTS TypeOK OwnContainer NameReclaimed StoppedIsClean ConfigStays
PROPERTIES ActorGetsThrough ImplementsBinaryLife
CHECK_DEADLOCK FALSE
