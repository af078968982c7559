SPECIFICATION Spec
CONSTANTS
  KWindow = 1
  KMaxCounted = 2
  Setups <- MCSetups
  StartupTimeout = 2
  InputTimeout = 1
  InputPeriods = 2
  Parts = 10
  MinMatch = 1
  VerifyUpdates = 2
  Fractions = {0, 1}
  MaxSilence = 5
INVARIANTS SilenceReported OkIsEarned RelocalizationShown
