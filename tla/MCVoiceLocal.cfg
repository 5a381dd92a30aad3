CONSTANTS
  WelcomeOnce = TRUE
  LocalWelcome = TRUE
  PresenceListening = TRUE
  SuppressMic = TRUE
  SpeechInterrupt = FALSE
  AutoListen = TRUE
  WakeWord = TRUE
  ServerFaults = {"before_audio", "after_audio"}
  StableFrames = 2
  UtteranceQueueSize = 1
  TtsQueueSize = 2
  ConversationQueueSize = 2
SPECIFICATION FairSpec
PROPERTIES
  AbandonedOnlyByFailure
  DisengagesWhenLeft
  HeardWhilePresent
  EventsComplete
