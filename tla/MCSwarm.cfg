SPECIFICATION Spec
CONSTANTS
  NumChunks = 2
  Parts = 2
  MaxSlice = 2
  Peers = {1, 2}
  Faulty = {2}
  Masks <- MCMasks
  MaxPerPeer = 1
  MaxRequests = 2
  FetchTimeout = 1
  MaxAvails = 2
  MaxFaults = 1
CHECK_DEADLOCK FALSE
INVARIANTS
  FetchesUseful
  AnnouncedComplete
PROPERTIES
  DownloadEnds
