SPECIFICATION FairSpec
CONSTANTS
  Instances = {i1, i2}
  Releases <- SomeReleases
  PoolSize = 2
CHECK_DEADLOCK FALSE
INVARIANTS
  AppliedOnce
  UpIsMigrated
  RanInOrder
PROPERTIES
  ImplementsLedger
  StartsEnd
