CONSTANTS
  Intents = {i1, i2, i3}
  NoIntent = NoIntent
  QueueSize = 2
  ExecuteFails = TRUE
  StopFails = TRUE
SPECIFICATION Spec
INVARIANTS
  OneActionAtATime
PROPERTIES
  EveryIntentSettles
CHECK_DEADLOCK FALSE
