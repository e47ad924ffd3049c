\* The queue of MCPool.cfg cut to one slot: a signal may wake a blocked producer in vain.
SPECIFICATION FairSpec
CONSTANTS
  w1 = w1 w2 = w2 w3 = w3 k1 = k1 k2 = k2 c1 = c1 c2 = c2 r1 = r1 d1 = d1 d2 = d2 d3 = d3
  Workers = {w1, w2}
  Controllers = {k1}
  Clients = {c1, c2}
  Tasks = {r1, d1, d2}
  Required = {r1}
  threads_ = 2
  queue_size_ = 1
  ExecuteWaits = {"zero", "timed"}
  Faults = {}
  AnyOrder = FALSE
  WriterPreference = TRUE
PROPERTIES RequiredExecuted
CHECK_DEADLOCK FALSE
