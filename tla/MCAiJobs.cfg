CONSTANTS
  w1 = w1
  w2 = w2
  w3 = w3
  Jobs <- TwoJobs
  Workers = {w1, w2, w3}
  Mortal = {w2, w3}
  MaxAttempts <- TwoAttempts
  CreatedAt <- Reversed
  Unregistered = {2}
  MaxDoubts = 2
SPECIFICATION FairSpec
INVARIANTS
  OneRunner
  RunningIsHeld
PROPERTIES
  ImplementsInMemory
  QueuedIsClaimed
  JobsFinish
CHECK_DEADLOCK FALSE
