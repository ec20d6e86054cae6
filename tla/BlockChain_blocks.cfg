SPECIFICATION Spec
CONSTANTS
  NetTx = {"a"}
  OwnTx = {}
  NetBody <- MCNetBody
  GapLimit <- MCGapLimit
  Fees = {}
  Amounts = {10000, 50000}
  TxMaxSize = 100000
  Block = {"g", "b1", "b2", "b3", "f3", "f4", "bad"}
  Checkpoint = "g"
  NoBlock = "none"
  Parent <- MCParent
  Height <- MCHeight
  BlockTx <- ChainBlockTx
  Invalid = {"bad"}
  Interval = 2
  Reported = {2, 3}
  Spare = 1
  MaxRescans = 1
  MaxRestarts = 1
  MaxDrops = 0
INVARIANTS TypeOK HeightsMatchChain FollowsLongest NoForgottenOrphan IntervalHeld ForkHasJoin
PROPERTIES NeverShorter
CHECK_DEADLOCK FALSE
