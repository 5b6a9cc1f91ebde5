SPECIFICATION FairSpec
CONSTANTS
  exiting = exiting
  quitting = quitting
  closing = closing
  lengthless = lengthless
  NumConns = 4
  Calls <- MCCalls
  HeaderLen = 1
  BodyLen = 2
  Cap = 2
  Does <- MCDoes
  Closes = {closing}
  NoLength = {lengthless}
  Wanted <- MCWanted
  KeepOpen = TRUE
  Theirs = {closing, lengthless}
  MaxFaults = 1
INVARIANTS TypeOK WatchedAreOpen AnswersTheCall FailsOnlyByFault
PROPERTIES ImplementsAtLeastOnce CallsReturn PeersAreAccepted
CHECK_DEADLOCK FALSE
