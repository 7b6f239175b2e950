SPECIFICATION ReceiverSpec
CONSTANTS
  IdSpace = 4
  Est = 2
  Overhead = 1
  SackBits = 1
  MaxMessage = 4
  MaxFragments = 3
  MaxIncoming = 2
  MaxCompleted = 3
  AncientSoft = 1
  QuotaMax = 16
  MaxPerSession = 11
  FairShare = 6
  BulkSize = 8
  TypePrio <- MCTypePrio
  Garbled = {}
  OtherSizes = {7}
  Packets <- MCPackets
  AckDelay = 1
  NackDelay = 1
  ReassemblyTtl = 2
  CompletedTtl = 2
  MaxClock = 3
INVARIANTS
  ReservationExact
  QuotaExact
  EveryFragmentAcked
