SPECIFICATION Spec
CONSTANTS
  p1 = p1  p2 = p2  p3 = p3  p4 = p4  old = old  fresh = fresh
  Nil = Nil
  Pins <- FourPins
  Phrases <- JustOld
  OldPhrases <- JustOld
  LockAfter = 2
  WipeAfter = 4
  Base = 2
  Minute = 1
  MaxTime = 6
  LastTry = 6
  MaxFaults = 1
SYMMETRY Symmetry
INVARIANTS NoEarlyWipe LocksSatOut CountsUniquePins
CHECK_DEADLOCK FALSE
