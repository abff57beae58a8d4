CONSTANTS
  scan = scan
  Trees <- MCTrees
  Parent <- MCParent
  Directory <- MCDirectory
  Bytes <- MCBytes
  MaxBytes = 4
  HistoryCapacity = 2
  Scanned = scan
  Capacities = {0, 2}
  Frames = 2

SPECIFICATION Spec

INVARIANTS
  TypeOK
  CaptureIsDrag

PROPERTIES
  PressedItemStays
  BatchKept
  TransitionEnds
