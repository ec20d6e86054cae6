SPECIFICATION FairSpec
CONSTANTS
  alice = alice
  bob = bob
  m1 = m1
  m2 = m2
  None = None
  Unknown = Unknown
  Users <- TwoUsers
  Msgs <- TwoMsgs
  Kinds <- TextsAndPhotos
  MaxTurns = 2
  MaxMarks = 1
  MaxFaults = 1
INVARIANTS TypeOK PointersAgree ReadOnlyByRecipient ShownOnce
PROPERTIES SentIsShown SendsEnd SettledStays
CHECK_DEADLOCK FALSE
