CONSTANTS
    f1 = f1
    f2 = f2
    g1 = g1
    g2 = g2
    c1 = c1
    p1 = p1
    p2 = p2
    p3 = p3
    file = file
    Friends <- MCFriends
    Groups <- MCGroups
    Confs <- MCConfs
    Peers <- MCPeers
    Files <- MCFiles
    Home <- MCHome
    Size = 2
    Times = {1, 2, 3, 4}
    Scenes <- MCScenes
    Columns = 5
    Prompt = 1
    MaxUndo = 3
    NameOf <- MCNameOf
    Commands <- MCCommands
    Emojis <- MCEmojis
    Cols = 2
    GridCols = 2
    Blocked <- MCBlocked
    Pasted <- MCPasted
    LineCommand <- MCLineCommand
SPECIFICATION Spec
CHECK_DEADLOCK FALSE
INVARIANTS
  ToxxiTypeOK
  SendingAnswered
  SentOnce
  FiledRight
  
  
  PeersAgree
PROPERTIES
  
  Delivers
  NothingLost
