SPECIFICATION FairSpec
CONSTANTS
  p1 = p1  p2 = p2  p3 = p3  p4 = p4  old = old  fresh = fresh
  Nil = Nil
  Pins <- TwoPins
  Phrases <- BothPhrases
  OldPhrases <- JustOld
  LockAfter = 1
  WipeAfter = 3
  Base = 2
  Minute = 1
  MaxTime = 7
  LastTry = 2
  MaxFaults = 1
INVARIANTS KeyHasPhrase CreationTimeIsTheWallets
PROPERTIES OwnerGetsIn
CHECK_DEADLOCK FALSE
