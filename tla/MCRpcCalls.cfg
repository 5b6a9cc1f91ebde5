SPECIFICATION Spec
CONSTANTS
  Ints <- MCInts
  Doubles <- MCDoubles
  Made <- MCMade
  Channels <- MCChannels
  Files <- MCFiles
  Percent <- MCPercent
  Offset <- MCOffset
CHECK_DEADLOCK FALSE
INVARIANTS
  ArrivesUnchanged
  OneMeansDone
  MulticallIsEachCall
