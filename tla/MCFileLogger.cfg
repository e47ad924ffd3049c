SPECIFICATION LoggerLiveSpec
CONSTANTS
  Polices <- MCPolices
  period_ = 2
  size_ = 2
  MaxLines = 4
  MaxBreaks = 2
  MaxMoves = 1
  MaxStarts = 2
INVARIANT NothingLost
PROPERTY RotatedFilesStay
PROPERTY Recovers
CHECK_DEADLOCK FALSE
