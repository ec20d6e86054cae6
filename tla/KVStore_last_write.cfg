SPECIFICATION Spec
CONSTANTS
  k1 = k1  k2 = k2  v1 = v1  v2 = v2
  Keys <- OneKey
  Values <- TwoValues
  Deleted = Deleted  Empty = Empty  Corrupt = Corrupt  Foreign = Foreign
  OtherWrites <- ValuesAndTombstones
  Slots = 10
  Skew = 0  Second = 2
  SyncImmediately = {FALSE}
  MaxTime = 2
  MaxEvents = 4
INVARIANT NewerRemoteIsNotOverwritten
