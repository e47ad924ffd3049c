\* Two threads and two files, one of which, or a file it includes, changes.
SPECIFICATION FairSpec
CONSTANTS
  t1 = t1 t2 = t2 f1 = f1 f2 = f2
  Threads = {t1, t2}
  Files = {f1, f2}
  MaxGets = 3
  MaxChanges = 1
  Stat <- StatOf
  IncludedStat <- IncludedStatOf
  Includes = TRUE
  ReviewPeriod = TRUE
INVARIANTS Fresh LoadedOnce
PROPERTY GetReturns
CHECK_DEADLOCK FALSE
