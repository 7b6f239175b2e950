SPECIFICATION TransportSpec
CONSTANTS
  IdSpace = 1
  MaxOutgoing = 1
  Mtu = 3
  Est = 2
  InitRwnd = 12
  Lens = {7}
  Cwnds = {8}
  Rwnds = {}
  Rtos = {1}
  Tlps = {1}
  MsgTimeout = 1
  MaxTime = 2
  Overhead = 1
  SackBits = 64
  MaxMessage = 10
  MaxFragments = 3
  MaxIncoming = 1
  MaxCompleted = 3
  AncientSoft = 1
  QuotaMax = 20
  MaxPerSession = 12
  FairShare = 4
  BulkSize = 8
  TypePrio <- MCTypePrio
  OtherSizes = {}
  AckDelay = 1
  NackDelay = 1
  ReassemblyTtl = 9
  CompletedTtl = 9
INVARIANTS
  AckedImpliesDelivered
PROPERTIES
  ImplementsChannel
