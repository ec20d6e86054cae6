SPECIFICATION FairSpec
CONSTANTS
  Tx = {"a", "b", "c", "d"}
  Pay <- MCPay
  Spends <- MCSpends
  Chains <- MCChains
  Announced = {"a", "d"}
  Gap = 1
  Spare = 1
  Recent = 1
  Batch = 2
  MaxFaults = 1
  MaxDegraded = 1
INVARIANTS NoMissedTx FilterComesBack NextAddressesWatched
PROPERTIES SyncEnds OrphansFindParents
CHECK_DEADLOCK FALSE
