\* A setter that also stops, restarts and clears; late wake-ups, minimize_delay, triggers
\* that set events and throw; the clock goes on.
SPECIFICATION LiveSpec
CONSTANTS
  e1 = e1 e2 = e2 e3 = e3 e4 = e4 e5 = e5 e6 = e6 e7 = e7 s1 = s1 s2 = s2
  Events = {e1, e2, e3}
  Setters = {s1}
  MaxTime = 3
  MaxSets = 3
  SplitOver = 1
  minimize_delay_ = TRUE
  Stops = TRUE
  TriggerThrows = TRUE
INVARIANTS Valid NeverSleepsPast EarlyByHalfAtMost StopForgets
PROPERTIES ImplementsSchedule EventTriggered StopEnds
CHECK_DEADLOCK FALSE
