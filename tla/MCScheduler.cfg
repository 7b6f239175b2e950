SPECIFICATION SchedulerSpec
CONSTANTS
  NumPriorities = 3
  Quantums <- MCQuantums
  Cap = 4
  Messages = {a, b}
  Sizes = {2}
  MaxUpdates = 2
INVARIANTS
  RoundComplete
PROPERTIES
  NoStarvation
