SPECIFICATION FairSpec
CONSTANTS
  Jobs = {j1}
  Workers = {w1, w2}
  Copies = {1, 2, 3, 4}
  NoMessage = NoMessage
  MaxRetries = 1
  Prefetch = 2
  MaxCrashes = 1
  MaxCuts = 1
  MaxLosses = 1
INVARIANTS
  TypeOK
  NoJobLost
  FailedAfterRetries
  OneHandler
  NotRunAgain
PROPERTY JobSettles
CHECK_DEADLOCK FALSE
