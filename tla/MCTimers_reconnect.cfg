SPECIFICATION Spec
CONSTANTS
  Half = 8
  Interval = 3
  Poll = 2
  AgeMax = 40
  Kinds <- Reconnect
INVARIANTS ReconnectsInTime
