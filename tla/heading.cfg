SPECIFICATION FairSpec
CONSTANTS
  Cap = 1
  SeedVar = 2
  AlignVar = 2
  StartVar = 3
  MaxVar = 4
  KnownFixes = 3
  MaxStarts = 2
INVARIANTS GuessIsHeld GuessIsBlind
PROPERTIES UnknownEndsBySource PublishedIsHonest UnknownEnds
