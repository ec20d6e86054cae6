SPECIFICATION Spec
CONSTANTS
  k1 = k1  k2 = k2  v1 = v1  v2 = v2
  Keys <- TwoKeys
  Values <- TwoValues
  Deleted = Deleted  Empty = Empty  Corrupt = Corrupt  Foreign = Foreign
  OtherWrites <- ValuesAndTombstones
  Slots = 1
  Skew = 1  Second = 2
  SyncImmediately = {TRUE, FALSE}
  MaxTime = 3
  MaxEvents = 3
INVARIANTS RecordedVersionIsTrue SuccessMeansInSync TasksOnlyWhileSyncing
PROPERTIES TasksKeepEdits
