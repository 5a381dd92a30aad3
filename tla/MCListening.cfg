CONSTANTS
  PreRoll = 2
  Silence = 3
  MaxUtterance = 8
  MinSpeech = 2
  Cooldown = 1
  CaptureSamples = 7
  CaptureRate = 5
  VadRate = 2
  WindowSamples = 4
  MaxFrames = 10
  BufferSize = 2
SPECIFICATION Spec
INVARIANTS
  TypeOK
  UtteranceIsUnbroken
  UtteranceIsNew
  SilenceWasHeard
CHECK_DEADLOCK FALSE
