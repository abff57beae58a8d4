CONSTANTS
  scan = scan
  Trees <- MCTrees
  Parent <- MCParent
  Directory <- MCDirectory
  Bytes <- MCBytes
  MaxBytes = 50
  Circle = 24
  MinSweep = 2
  MaxSegments = 8
  MaxDepth = 3
  Full = 3
  Radius = 12
  Unscanned = 1
  OverviewWidth = 80
  PrefixWidth = 30
  NodeWidth <- MCNodeWidth
  Collectable = {1, 3, 8}
  Rooms = {100, 330}
  MaxTurns = 2

SPECIFICATION Spec

INVARIANTS
  RingTilesFolder
  TransitionLands
  TrailFits

PROPERTY FrameContinues
