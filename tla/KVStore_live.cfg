SPECIFICATION FairSpec
CONSTANTS
  k1 = k1  k2 = k2  v1 = v1  v2 = v2
  Keys <- OneKey
  Values <- OneValue
  Deleted = Deleted  Empty = Empty  Corrupt = Corrupt  Foreign = Foreign
  OtherWrites <- DamagedBytes
  Slots = 10
  Skew = 0  Second = 2
  SyncImmediately = {TRUE, FALSE}
  MaxTime = 2
  MaxEvents = 3
PROPERTIES SyncEnds EventuallyInSync
