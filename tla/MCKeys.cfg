CONSTANTS
    Width = 8
    MaxSkip = 4
    Devices = {1, 2, 3}
    Founder = 1
    Admins = {1, 2}
    Opks = 2
    MessagesPerEpoch = 3
    EpochDuration = 1
    MessagesPerAnchor = 2
    PreKeyLife = 2
    PulseDebounce = 1
    MaxHandshakes = 3
    MaxRetries = 1
    Scenes <- MCScenes
SPECIFICATION Spec
CHECK_DEADLOCK FALSE
INVARIANTS
  KeysUnique
  Readable
  RevokedBlind
PROPERTIES
  Unblocked
