CONSTANTS
  Volumes = {C, D}
  Paths = {here, there}
  Nothing = Nothing

SPECIFICATION Spec

INVARIANTS
  TypeOK
  SessionHasTile
  ShownTreeExists

PROPERTY TileSettles
