SPECIFICATION Spec
CONSTANTS
  Requests = {r1, r2, r3}
  Keys = {k1}
  Entries = {e1, e2, e3, e4}
  timeout = 1
  unused_timeout = 2
  entry_timeout_delay_ = 2
  entry_unused_check_period_ = 1
  MaxTime = 3
SYMMETRY Symmetry
INVARIANT EntriesLive
INVARIANT StaleOnlyInTheMeantime
CHECK_DEADLOCK FALSE
