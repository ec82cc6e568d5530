SPECIFICATION FeedSpec
CONSTANTS
  Record = {"gate", "stream"}
  Page = {"a"}
  SnapshotLimit = 2
  MaxWrites = 3
  MaxFaults = 2
  MaxRefresh = 1
CHECK_DEADLOCK FALSE
INVARIANTS NothingMissed
PROPERTIES PagesCatchUp
