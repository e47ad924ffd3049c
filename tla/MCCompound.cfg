\* A client replaces the state of a service that starts and stops; two threads in the pool.
SPECIFICATION LiveSpec
CONSTANTS
  k1 = k1 k2 = k2 c1 = c1 c2 = c2 w1 = w1 w2 = w2 a = a b = b c = c m1 = m1 m2 = m2
  Controllers = {k1}
  Clients = {c1}
  Workers = {w1, w2}
  States = {a, b, c}
  Messages = {m1}
  QueueSize = 4
  OverlapStart = FALSE
INVARIANTS OneStateAtATime StoppedMeansStopped StartedMeansRunning
PROPERTY ControllersReturn
CHECK_DEADLOCK FALSE
