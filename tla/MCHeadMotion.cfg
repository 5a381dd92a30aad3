CONSTANTS
  Axes <- MCAxes
  Low <- MCLow
  High <- MCHigh
  Neutral <- MCNeutral
  Inverted <- MCInverted
  MaxPan = 1
  MaxTilt = 0
  Aims <- MCAims
  Amplitude = 1
  WaveSteps = 2
  MaxOrphans = 1
SPECIFICATION Spec
INVARIANTS
  LockIsSound
  MovesStartWhereItIs
PROPERTIES
  EveryoneIsServed
CHECK_DEADLOCK FALSE
