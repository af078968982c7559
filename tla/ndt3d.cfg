SPECIFICATION Spec
CONSTANTS
  TopK = 1
  VerifyScans = 2
  MinTranslation = 0
  GateRotation = FALSE
  EvidenceGain = 1
  MassNum = 1
  MassDen = 1
  MinScore = 0
  Scores = {0}
  Corrections <- MCNone
  Odoms <- MCOdoms
  Aliases <- MCNone
  MaxSkipped = 0
  KWindow = 3
  KMaxCounted = 5
  Backend = "ndt3d"
  TryGlobal = FALSE
  SetInitialPose = TRUE
  InitialPose <- Origin
  UpdateMinD = 1
  MinParticles = 1
  MaxParticles = 3
  SeedDefault = 3
  SeedFloor = 2
  UserPoses <- MCUser
  TrackCorrections <- MCDrift
  Fractions = {0, 2}
  Area = 2
  MaxMaps = 1
  MaxCommands = 2
INVARIANTS ParticlesNonempty WindowIsRecent LowIsMeanBelow
