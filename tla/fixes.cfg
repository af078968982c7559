SPECIFICATION FixSpec
CONSTANTS
  KnownFixes = 6
  MedianOf = 7
  SpanMin = 4
  WindowMin = 15
  GapMin = 5
  PeriodMax = 6
  Second = 5
  Jitter = 1
  KMinFixes = 9
  KMaxFixes = 32
  Intervals = {2, 5, 46}
  MaxChanges = 2
  MaxFixes = 34
CHECK_DEADLOCK FALSE
INVARIANTS TrimIsInvisible NoGapInAlignment
