SPECIFICATION FairSpec
CONSTANTS
  Tx = {"t"}
  Peer = {"p", "q"}
  NoPeer = "none"
  Parents <- MCParents
  MaxConnect = 2
  MaxFailures = 2
  Troubles = {"stop"}
  MaxTroubles = 1
PROPERTIES DisconnectEnds
CHECK_DEADLOCK FALSE
