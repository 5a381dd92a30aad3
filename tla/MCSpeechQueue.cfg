CONSTANTS
  MaxTurn = 2
  MaxChunks = 2
  QueueSize = 2
  Formats = {"wav", "pcm"}
  Nothing = Nothing
SPECIFICATION FairSpec
INVARIANTS
  AnswersInOrder
PROPERTIES
  AnswerWasPlayed
  EverythingSettles
CHECK_DEADLOCK FALSE
