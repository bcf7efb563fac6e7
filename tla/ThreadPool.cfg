SPECIFICATION FairSpec
CONSTANTS
  Bhs <- MCBhs
  Handlers <- MCHandlers
  Workers = {w1, w2}
  Reqs = {r1, r2}
  NoCb = {r2}
  None = None
  MaySpin = FALSE
INVARIANTS
  TypeOK
  TokensMatch
  ThreadsCounted
  QueueHasWorker
  CompletionIsSeen
  WaitersAreWoken
PROPERTIES
  CancelIsFinal
  RequestsComplete
