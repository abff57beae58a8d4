CONSTANTS
  deep = deep
  flat = flat
  NoTree = NoTree
  Trees <- MCTrees
  Parent <- MCParent
  Directory <- MCDirectory
  Bytes <- MCBytes
  MaxBytes = 7
  HistoryCapacity = 4

SPECIFICATION Spec

INVARIANTS
  TypeOK
  ReviewAntichain
  ReviewAgreement
  ShownPlaceVisible
  HistoryOfThisScan
  ButtonsFollowHistory
  EffectiveSizesExact

PROPERTY ReviewKeepsPlace
