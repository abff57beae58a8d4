CONSTANTS
  Items <- MCItems
  Scanned = 0
  Folders <- MCFolders
  Links = {4}
  Contents <- MCContents
  FileSize <- MCFileSize
  NameLength <- MCNameLength
  MaxBytes = 7
  MaxNodes = 6
  MaxNames = 7

SPECIFICATION Spec

INVARIANTS
  TypeOK
  ResultIsForest
  TotalsAgree
  NothingMissedSilently
  EntryOnce

PROPERTY WalkShortens
