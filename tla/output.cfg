SPECIFICATION Spec
CONSTANTS
  Robots <- MCRobots
  StatusPeriod = 2
  MaxLate = 1
  StartupTimeout = 1
  InputTimeout = 2
  InputPeriods = 3
  CorrectionTimeout = 2
  OdomLost = 1
  FallbackRecent = 1
  TwoParentsHeld = 3
  FixGap = 2
  HeadingWarn = 4
  ImuWarmUp = 1
  ImuMaxStep = 5
  MaxSilence = 4
INVARIANTS HeadingWarned OkIsEarned
PROPERTIES StaleOdomKnown
