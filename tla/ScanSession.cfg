CONSTANTS
  Fields = {entries, logicalBytes}
  MaxPublished = 3
  Nothing = Nothing

SPECIFICATION Spec

INVARIANTS
  ResultOnce
  FinalProgress

PROPERTIES
  DestroyReturns
  ResultReachesOwner
  IsTask
