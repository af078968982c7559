SPECIFICATION Spec
CONSTANTS
  Cap = 1
  SeedVar = 2
  AlignVar = 2
  StartVar = 3
  MaxVar = 3
  KnownFixes = 2
  InitialYawKnown = FALSE
  MaxPoses = 2
INVARIANT SeatedWithStart
