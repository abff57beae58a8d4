CONSTANTS
  Windows = {W1, W2}
  KeyCount = 2
  Values = {x, y}
  Defaults <- MCDefaults
  Arguments = {1}
  TransitionKey = 2
  Absent = Absent
  Headless = Headless
  Nobody = Nobody

SPECIFICATION StoreSpec

PROPERTY PersistedBeforeActivation
