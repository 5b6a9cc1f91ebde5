SPECIFICATION FairSpec
CONSTANTS
  N = 2
  empty = empty
  odd = odd
  even = even
  gone = gone
  NoFile = NoFile
  Files <- MCFiles
  Missing <- MCMissing
  Size <- MCSize
  BufSize = 2
  PlayMode <- MCRepeat
  Dummy = FALSE
  Faults = {"setup", "launch"}
  Given <- MCGivenRepeat
  Saved <- MCSavedRepeat
  RpcDaemon = FALSE
  Udp = TRUE
  Signals = TRUE
INVARIANTS
  PickFindsEntry
  DeletedIsSilent
PROPERTIES
  PlaysInSync
  QuitStopsReading
  HandlerReturns
