SPECIFICATION Spec
CONSTANTS
  a = a
  b = b
  c = c
  bare = bare
  Device = 16
  Unfinished = Unfinished
  Names <- MCNames
  Chomped <- MCChomped
  Given <- MCGiven
  Chooser <- MCChooser
  Contents <- MCContents
  Times <- MCTimes
  LastDay = 2
  MaxLength = 4
  MaxPresses = 4
INVARIANTS
  TypeOK
  SavedComesBack
  LatestDue
PROPERTIES
  DeletesTheRowsAbove
  DropCopiesTheEntryAbove
  HangsOnlyBeforeTheThread
