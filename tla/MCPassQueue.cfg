CONSTANTS
  t1 = t1
  t2 = t2
  t3 = t3
  Threads = {t1, t2, t3}
  FirstPasses = 1
  VerifyPasses = 2
  CreateFails = TRUE
  WaitFails = TRUE
SPECIFICATION FairSpec
CHECK_DEADLOCK FALSE
INVARIANTS
  OnePassAtATime
  YieldKeepsItsTurn
  NoLostWakeup
PROPERTIES
  IngestServed
  VerifyServed
