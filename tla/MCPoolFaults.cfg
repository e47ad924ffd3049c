\* Two controllers in any order; thread creation, tasks and the callback may fail.
SPECIFICATION Spec
CONSTANTS
  w1 = w1 w2 = w2 w3 = w3 k1 = k1 k2 = k2 c1 = c1 c2 = c2 r1 = r1 d1 = d1 d2 = d2 d3 = d3
  Workers = {w1, w2, w3}
  Controllers = {k1, k2}
  Clients = {c1}
  Tasks = {r1, d1}
  Required = {r1}
  threads_ = 2
  queue_size_ = 1
  ExecuteWaits = {"forever"}
  Faults = {"create", "task", "callback"}
  AnyOrder = TRUE
  WriterPreference = TRUE
SYMMETRY Symmetry
PROPERTY ImplementsTaskPool
CHECK_DEADLOCK FALSE
