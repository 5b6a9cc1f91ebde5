SPECIFICATION RpcFairSpec
CONSTANTS
  N = 1
  odd = odd
  even = even
  NoFile = NoFile
  NoRequest = NoRequest
  Files <- MCFiles
  Missing = {}
  Size <- MCSize
  BufSize = 2
  PlayMode <- MCLoop
  Dummy = FALSE
  Faults = {}
  Given <- MCGiven
  Saved <- MCSaved
  RpcDaemon = TRUE
  Udp = FALSE
  Signals = FALSE
  Requests <- MCPlayOnly
PROPERTY PlayStarts
