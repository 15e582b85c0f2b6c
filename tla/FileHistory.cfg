SPECIFICATION Spec
CONSTANTS
  Files = {a, b}
  Main = main
  Background = {sub}
  NoFile = NoFile
  MaxSnapshots = 3
  MaxMessages = 1
  MaxEdits = 4
  MaxRewinds = 1
  MaxTroubles = 1
SYMMETRY AlikeFiles
INVARIANTS
  RecordsHaveTheirOwnBackups
  BackupsAreWhatTheyWere
  TheFirstSnapshotUndoesAll
CHECK_DEADLOCK FALSE
