CONSTANTS
  ann = ann
  bob = bob
  Persons <- MCPersons
  Size <- MCSize
  Directions <- MCDirections
  Right = 9
  Home = 5
  MaxGap = 2
  Hold = 2
  Half = 8
  Response <- MCResponse
  Kp = 3
  Ki = 1
  Kd = 1
  DeadZone = 1
  IntegralZone = 3
  MaxOutput = 2
  MaxIntegral = 4
  DecayTicks = 4
  Alpha = 5
  MaxChange = 1
  MinDelta = 0
  MinInterval = 1
  Lead = 1
  StaleAfter = 1
  Stickiness = 18
  LockTimeout = 5
  CenterOnLoss = TRUE
  LossTimeout = 3
  MaxAge = 6
SPECIFICATION TrackingSpec
INVARIANTS
  TrackingTypeOK
  StaleHeadStops
PROPERTIES
  KeepsPerson
  SwitchesAfterLock
  LostHeadComesHome
  LooksAtPerson
CHECK_DEADLOCK FALSE
