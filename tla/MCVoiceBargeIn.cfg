CONSTANTS
  WelcomeOnce = TRUE
  LocalWelcome = TRUE
  PresenceListening = TRUE
  SuppressMic = TRUE
  SpeechInterrupt = TRUE
  AutoListen = TRUE
  WakeWord = FALSE
  ServerFaults = {"before_audio", "after_audio"}
  StableFrames = 1
  UtteranceQueueSize = 1
  TtsQueueSize = 2
  ConversationQueueSize = 2
SPECIFICATION Spec
INVARIANTS
  PlayingIsSpeaking
