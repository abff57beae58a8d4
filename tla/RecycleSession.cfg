CONSTANTS
  scan = scan
  Nothing = Nothing
  Elsewhere = {2}
  Trees <- MCTrees
  Parent <- MCParent
  Directory <- MCDirectory
  Bytes <- MCBytes
  MaxBytes = 3

SPECIFICATION Spec

INVARIANT TypeOK

PROPERTIES
  IsRecycleTask
  GoneStaysHidden
  BatchSettles
