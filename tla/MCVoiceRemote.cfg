CONSTANTS
  WelcomeOnce = TRUE
  LocalWelcome = FALSE
  PresenceListening = FALSE
  SuppressMic = TRUE
  SpeechInterrupt = FALSE
  AutoListen = TRUE
  WakeWord = TRUE
  ServerFaults = {"before_audio", "after_audio"}
  StableFrames = 2
  UtteranceQueueSize = 1
  TtsQueueSize = 2
  ConversationQueueSize = 2
SPECIFICATION FairSpec
INVARIANTS
  ListensBetweenTurns
  NoEventLost
