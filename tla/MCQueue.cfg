\* Three threads that call everything, a queue of two or three slots, closed and reopened.
SPECIFICATION Spec
CONSTANTS
  Threads = {t1, t2, t3}
  Elements = {a, b}
  MaxSizes = {0, 2, 3}
  InitMaxSize = 2
  EnqueueWaits = {"forever", "zero", "timed"}
  DequeueWaits = {"forever", "zero", "timed"}
  Strategies = {"back", "front", "random"}
SYMMETRY Symmetry
INVARIANTS TypeOK CountersExact ClosingReachesAll NobodySleepsInVain
PROPERTY ImplementsBlockingQueue
CHECK_DEADLOCK FALSE
