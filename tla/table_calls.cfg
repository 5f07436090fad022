CONSTANTS
  Local = {"l1"}
  Remote = {"r1", "r2"}
  Asks <- MCAsks
  Key = {"k", "kk"}
  MetaKey = {"m", "mm"}
  Value = {"v", "vv", "vvv"}
  Length <- MCLength
  Dirty = {}
  Stamp = {0, 1}
  MaxTime = 2
  MaxKey = 2
  MaxValue = 2
SPECIFICATION FairSpec
CHECK_DEADLOCK FALSE
INVARIANT TypeOK
INVARIANT SnapshotHolds
PROPERTY ImplementsTable
PROPERTY CallsEnd
