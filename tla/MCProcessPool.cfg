\* Two workers with their children, one client with two tasks, all that can fail.
SPECIFICATION LiveSpec
CONSTANTS
  w1 = w1 w2 = w2 c1 = c1 c2 = c2 r1 = r1 d1 = d1 d2 = d2
  Workers = {w1, w2}
  Clients = {c1}
  Tasks = {r1, d1}
  Required = {r1}
  Faults = {"callback", "args", "pipe", "fork", "die", "hang", "garbage", "error"}
INVARIANTS CompletedIsFinal
PROPERTIES ImplementsTaskPool WaiterReturns StopReturns
CHECK_DEADLOCK FALSE
