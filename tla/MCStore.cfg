SPECIFICATION Spec
CONSTANTS
  Node = {n1, n2}
  CompactThreshold = 2
  MaxJournal = 3
  MaxPacks = 2
  MaxFaults = 2
  MaxFails = 1
SYMMETRY Symmetry
CHECK_DEADLOCK FALSE
INVARIANTS
  NodesDurable
  SequenceCovered
  Reopens
  StatusReplayed
