CONSTANTS
    devA = devA
    devB = devB
    gen = gen
    wrap = wrap
    skd = skd
    text = text
    Peers = {devA, devB}
    Nodes = {gen, wrap, skd, text}
    Parents <- MCParents
    Rank <- MCRank
    Admin = {gen, wrap}
    Bootstrap = {gen, wrap, skd}
    Snapshots = {}
    Wraps = {wrap}
    Skds = {skd}
    Opens <- MCOpens
    Needs <- MCNeeds
    Owner <- MCOwner
    Starts <- MCStarts
    ShardSize = 4
    HotWindow = 1
    BatchSize = 2
    MaxHeads = 2
    Budget = 2
    Cost <- MCCost
    Limits <- MCLimits
    MaxFaults = 1
    Flaky = {devB}
    Window = 0
    Tiers = {"tiny", "small", "medium", "large"}
    Cells <- MCCells
    Dmax <- MCDmax
SPECIFICATION FairSpec
CONSTRAINT Together
CHECK_DEADLOCK FALSE
INVARIANTS
  OpaqueWaits
PROPERTIES
  Converges
