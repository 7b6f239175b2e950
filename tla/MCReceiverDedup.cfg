SPECIFICATION ReceiverSpec
CONSTANTS
  IdSpace = 16
  Est = 2
  Overhead = 1
  SackBits = 64
  MaxMessage = 10
  MaxFragments = 2
  MaxIncoming = 2
  MaxCompleted = 3
  AncientSoft = 1
  QuotaMax = 10
  MaxPerSession = 9
  FairShare = 4
  BulkSize = 8
  TypePrio <- MCTypePrio
  Garbled = {1}
  OtherSizes = {}
  Packets <- MCPackets
  AckDelay = 1
  NackDelay = 1
  ReassemblyTtl = 2
  CompletedTtl = 2
  MaxClock = 1
INVARIANTS
  DeliveredAtMostOnce
