SPECIFICATION Spec
CONSTANTS
  TopK = 2
  VerifyScans = 2
  MinTranslation = 1
  GateRotation = FALSE
  EvidenceGain = 1
  MassNum = 3
  MassDen = 4
  MinScore = 1
  Scores = {0, 3}
  Corrections <- MCExact
  Odoms <- MCOdoms
  Aliases <- MCAliases
  MaxSkipped = 1
  KWindow = 1
  KMaxCounted = 1
  Backend = "laser2d"
  TryGlobal = TRUE
  SetInitialPose = FALSE
  InitialPose <- Origin
  UpdateMinD = 1
  MinParticles = 2
  MaxParticles = 2
  SeedDefault = 2
  SeedFloor = 1
  UserPoses <- MCUser
  TrackCorrections <- MCDrift
  Fractions = {0}
  Area = 4
  MaxMaps = 1
  MaxCommands = 2
INVARIANTS PublishedPose CloudChained VerifierChained ActiveVerification
PROPERTIES CommitJustified
