CONSTANTS
  WelcomeOnce = TRUE
  MaxSessions = 3
  MaxTurns = 2
  MaxGreetings = 2
SPECIFICATION Spec
INVARIANTS
  WelcomeOncePerSession
  TurnIndexCountsContexts
  PublishedCurrent
PROPERTIES
  SessionEndsByAbsence
