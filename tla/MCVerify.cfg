SPECIFICATION Spec
CONSTANTS
  Devices <- MCDevices
  Nodes <- MCNodes
  Scenes <- MCScenes
  Kind <- MCKind
  Sender <- MCSender
  Author <- MCAuthor
  Parents <- MCParents
  Rank <- MCRank
  Epoch <- MCEpoch
  SeqNo <- MCSeq
  Target <- MCTarget
  Cert <- MCCert
  ForMe <- MCForMe
  HashNo <- MCHashNo
  Orders <- MCOrders
  MaxAuthDepth = 2
  MaxDevices = 4
  MaxVouchers = 1
  MaxSpeculative = 20
  MaxVerified = 20
  MaxPerSender = 3
  OpaqueQuota = 3
  Before <- MCBefore
  MaxLoads = 1
CHECK_DEADLOCK FALSE
INVARIANTS
  EntitledVerified
  RevokedSilent
  AncestorsExact
  OnlyGuessesClash
