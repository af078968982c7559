SPECIFICATION Spec
CONSTANTS
  Budget = 2
  FrozenAfter = 5
  HardCap = 5
  StepMin = 2
  StepGrace = 2
  Period = 1
  Late = 1
  Steps = {0, 1, 2}
  BagLength = 100
  Horizon = 11
  Frames <- MCFrames
  Plain <- MCPlain
  EmptyFrame = ""
  BaseFrame = "base"
  Override = ""
  Transforms = {"identity", "t1"}
  Identity = "identity"
  NoTransform = "none"
  Refresh = 2
  MountHorizon = 4
CHECK_DEADLOCK FALSE
INVARIANTS WaitBounded FrozenIsReal OwnMount
PROPERTIES StepGetsGrace Refreshed
