\* Fair scheduling; producers never wait, so the condition variable is the consumers'.
SPECIFICATION FairSpec
CONSTANTS
  Threads = {t1, t2, t3, t4}
  Elements = {a}
  MaxSizes = {0, 2}
  InitMaxSize = 2
  EnqueueWaits = {"zero"}
  DequeueWaits = {"forever", "timed"}
  Strategies = {"back"}
INVARIANTS NoLostWakeup
PROPERTIES CallsReturn
CHECK_DEADLOCK FALSE
