SPECIFICATION SenderSpec
CONSTANTS
  IdSpace = 1
  MaxOutgoing = 1
  Mtu = 3
  Est = 2
  InitRwnd = 12
  Lens = {10}
  Rwnds = {6}
  Cwnds = {8}
  Rtos = {1}
  Tlps = {1}
  MsgTimeout = 1
  MaxTime = 2
INVARIANTS
  InFlightExact
  QueuesExact
  NoFragmentForgotten
