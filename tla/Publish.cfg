SPECIFICATION FairSpec
CONSTANTS
  Tx = {"t"}
  Peer = {"p", "q"}
  NoPeer = "none"
  Parents <- MCParents
  MaxConnect = 2
  MaxFailures = 2
  Troubles = {"fault", "offline", "stop", "rescan", "block", "conflict"}
  MaxTroubles = 1
INVARIANTS OneAnswer DownloadPeerIsHeld
PROPERTIES AnswersAreTrue EveryCallAnswered
CHECK_DEADLOCK FALSE
