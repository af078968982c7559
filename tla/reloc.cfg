SPECIFICATION Spec
CONSTANTS
  TopK = 2
  VerifyScans = 3
  MinTranslation = 2
  GateRotation = TRUE
  EvidenceGain = 1
  MassNum = 3
  MassDen = 4
  MinScore = 1
  Scores = {0, 1, 3}
  Corrections <- MCDrift
  Odoms <- MCOdoms
  Aliases <- MCAliases
  MaxSkipped = 1
INVARIANTS Tracked EvidenceComplete AcceptedIsCurrent AcceptedIsDominant
PROPERTIES EvidenceNeedsMotion ImplementsRule
