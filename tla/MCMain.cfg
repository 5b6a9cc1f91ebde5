SPECIFICATION FairSpec
CONSTANTS
  N = 2
  empty = empty
  odd = odd
  even = even
  gone = gone
  NoFile = NoFile
  Files <- MCFiles
  Missing <- MCMissing
  Size <- MCSize
  BufSize = 2
  PlayMode <- MCSingle
  Dummy = FALSE
  Faults = {}
  Given <- MCGiven
  Saved <- MCSaved
  RpcDaemon = FALSE
  Udp = FALSE
  Signals = FALSE
INVARIANTS
  TypeOK
  NothingBeforeStart
  OneMovieOpen
  PositionIsOffset
  CompleteAtExit
PROPERTIES
  PlaysInSync
  EndsByItself
