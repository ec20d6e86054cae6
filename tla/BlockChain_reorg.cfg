SPECIFICATION Spec
CONSTANTS
  NetTx = {"a", "d"}
  OwnTx = {}
  NetBody <- MCNetBody
  GapLimit <- MCGapLimit
  Fees = {}
  Amounts = {10000, 50000}
  TxMaxSize = 100000
  Block = {"g", "b1", "b2", "b3", "f3", "f4"}
  Checkpoint = "g"
  NoBlock = "none"
  Parent <- MCParent
  Height <- MCHeight
  BlockTx <- ReorgBlockTx
  Invalid = {}
  Interval = 2
  Reported = {}
  Spare = 0
  MaxRescans = 0
  MaxRestarts = 0
  MaxDrops = 0
PROPERTIES ReorgUnconfirms
CHECK_DEADLOCK FALSE
