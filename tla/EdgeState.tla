------------------------------ MODULE EdgeState ------------------------------
(***************************************************************************)
(* The state the workers of the edge process share, as EdgeApp.run builds  *)
(* it: one event loop, so that what a worker does between two awaits is    *)
(* one step here.  The workers are in modules of their own, EdgeVoice      *)
(* composes them.                                                          *)
(*                                                                         *)
(* session       the session controller, see SessionOps                    *)
(* mic           what AudioWorker listens for                              *)
(* audio         where AudioWorker stands: reading frames, or waiting for  *)
(*               room in the utterance queue                               *)
(* echo          frames captured while the robot spoke are waiting in the  *)
(*               microphone queue behind a blocked AudioWorker             *)
(* chunks        length of tts_queue                                       *)
(* player        where PlaybackWorker stands                               *)
(* speaking      playback_active is set; playback_idle is its complement   *)
(* interrupted   PlaybackWorker._interrupt_requested                       *)
(* utterances    length of utterance_queue                                 *)
(* welcomes      length of conversation_queue                              *)
(* conv          where ConversationWorker stands, for which kind of event, *)
(*               whether its response had audio, and whether the wait for  *)
(*               playback was interrupted                                  *)
(* greeting      where each caller of queue_local_welcome stands           *)
(* person        environment: somebody stands before the camera            *)
(* cooled        welcome_cooldown_seconds have passed since a welcome      *)
(* presentFrames, absentFrames   the coordinator's counters                *)
(* absence       the absence timer (_idle_return_task) is running          *)
(* idleSent      _idle_return_sent_for_absence                             *)
(* idleActions   history: IDLE actions queued in this absence              *)
(*                                                                         *)
(* Left out: the action queue, which the dispatcher always drains, and the *)
(* vision queue, whose backlog only delays what the camera reports.        *)
(***************************************************************************)
EXTENDS SessionOps

CONSTANTS LocalWelcome,      \* voice.local_welcome_enabled
          PresenceListening, \* voice.presence_listening_enabled
          SuppressMic,       \* voice.suppress_mic_while_speaking
          SpeechInterrupt,   \* voice.speech_interrupt_enabled
          AutoListen,        \* voice.auto_listen_after_welcome
          WakeWord,          \* wake_word.enabled
          ServerFaults,      \* subset of {"before_audio", "after_audio"}
          StableFrames,      \* vision.stable_frames
          UtteranceQueueSize, TtsQueueSize, ConversationQueueSize

ASSUME ModeAssumption ==
  /\ {LocalWelcome, PresenceListening, SuppressMic, SpeechInterrupt,
      AutoListen, WakeWord} \subseteq BOOLEAN
  /\ ServerFaults \subseteq {"before_audio", "after_audio"}
  /\ {StableFrames, UtteranceQueueSize, TtsQueueSize,
      ConversationQueueSize} \subseteq Nat \ {0}

VARIABLES session, mic, audio, echo, chunks, player, speaking, interrupted,
          utterances, welcomes, conv, greeting, person, cooled,
          presentFrames, absentFrames, absence, idleSent, idleActions

micVars == <<mic, audio, echo>>
playVars == <<chunks, player, speaking, interrupted>>
convVars == <<conv, utterances, welcomes>>
visionVars == <<person, cooled, presentFrames, absentFrames, absence,
                idleSent, idleActions>>
vars == <<session, micVars, playVars, convVars, greeting, visionVars>>

Greeters == {"coordinator", "wake_word"}

\* Ids and turn indices are SessionController's subject: here every session
\* has the id 1 and turns are not counted.
SomeId == 1
Uncounted(s) == [s EXCEPT !.turn = 0]

\* microphone_should_suppress_during_speaking, and the event it guards.
Suppressed == SuppressMic /\ ~SpeechInterrupt /\ speaking

\* What the app arms after a welcome and after a response.
ArmedAfterPlayback == IF PresenceListening THEN "presence" ELSE "window"

\* Nothing is on its way to the speaker.  A queued chunk is played within
\* the coalescing window of 0.12 s, so the waits of 1 s for a playback to
\* start only run out when this holds.
NothingToPlay == chunks = 0 /\ player = "get"

TypeOK ==
  /\ session \in [state : States, reason : Reasons, id : {NoSession, SomeId},
                  turn : {0}, welcomed : BOOLEAN]
  /\ mic \in {"off", "window", "presence"}
  /\ audio \in {"frames", "put"} /\ echo \in BOOLEAN
  /\ chunks \in 0..TtsQueueSize
  /\ player \in {"get", "coalesce", "play"}
  /\ speaking \in BOOLEAN /\ interrupted \in BOOLEAN
  /\ utterances \in 0..UtteranceQueueSize
  /\ welcomes \in 0..ConversationQueueSize
  /\ conv \in [at : {"events", "exchange", "start", "playback", "stop",
                     "barge_in"},
               event : {"utterance", "welcome"},
               audio : BOOLEAN, cut : BOOLEAN]
  /\ greeting \in [Greeters -> {"no", "put", "start", "playback"}]
  /\ {person, cooled, absence, idleSent} \subseteq BOOLEAN
  /\ presentFrames \in 0..StableFrames /\ absentFrames \in 0..StableFrames
  /\ idleActions \in 0..2

Init ==
  /\ session = NewController
  /\ mic = "off" /\ audio = "frames" /\ echo = FALSE
  /\ chunks = 0 /\ player = "get"
  /\ speaking = FALSE /\ interrupted = FALSE
  /\ utterances = 0 /\ welcomes = 0
  /\ conv = [at |-> "events", event |-> "utterance",
             audio |-> FALSE, cut |-> FALSE]
  /\ greeting = [g \in Greeters |-> "no"]
  /\ person = FALSE /\ cooled = TRUE
  /\ presentFrames = 0 /\ absentFrames = 0
  /\ absence = FALSE /\ idleSent = FALSE /\ idleActions = 0
=============================================================================
