SPECIFICATION Spec
CONSTANTS
  NetTx = {"a", "c", "d"}
  OwnTx = {"o"}
  NetBody <- MCNetBody
  GapLimit <- MCGapLimit
  Fees = {20000}
  Amounts = {10000, 50000, 113000}
  TxMaxSize = 374
  Block = {"g", "b1", "c1", "c2"}
  Checkpoint = "g"
  NoBlock = "none"
  Parent <- MCParent
  Height <- MCHeight
  BlockTx <- WalletBlockTx
  Invalid = {}
  Interval = 2
  Reported = {}
  Spare = 0
  MaxRescans = 0
  MaxRestarts = 0
  MaxDrops = 1
INVARIANTS BalanceIsUnspentSum UnconfirmedSpendOnce MaxIsSendable LockedIsPending
PROPERTIES CreatedIsSound
CHECK_DEADLOCK FALSE
