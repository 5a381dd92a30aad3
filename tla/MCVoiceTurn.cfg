CONSTANTS
  MaxWords = 4
SPECIFICATION Spec
INVARIANTS
  HeardInOrder
  QuietAfterTurn
PROPERTIES
  AnswerDelivered
  TurnEnds
  SuccessIsRemembered
CHECK_DEADLOCK FALSE
