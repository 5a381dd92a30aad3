----------------------------- MODULE AudioWorker -----------------------------
(***************************************************************************)
(* The audio worker (ai_robot_edge.audio.worker): one loop iteration per   *)
(* microphone frame.  Frames that change nothing are not steps.            *)
(***************************************************************************)
EXTENDS LocalWelcomeFlow

Blocked == audio = "put" \/ greeting["wake_word"] # "no"

\* The loop is about to handle a frame captured after the robot spoke.
NextFrame == ~Blocked /\ ~echo

\* The frame handlers change nothing of the player, the conversation worker
\* or the coordinator but what they say.
HearingOnly == UNCHANGED <<playVars, conv, greeting, visionVars>>

\* While the robot speaks, listening is given up, window and presence alike.
SuppressListening ==
  /\ NextFrame /\ Suppressed /\ mic # "off"
  /\ mic' = "off"
  /\ HearingOnly /\ UNCHANGED <<session, audio, echo, utterances, welcomes>>

\* _is_listening after the deadline.
WindowExpires ==
  /\ NextFrame /\ ~Suppressed /\ mic = "window"
  /\ mic' = "off"
  /\ session' = RecoverToTracking(session)
  /\ HearingOnly /\ UNCHANGED <<audio, echo, utterances, welcomes>>

\* The wake word starts a welcome: locally, or through the server.  The
\* detector takes any voiced frames for it, the robot's own included.
WakeWordHeard ==
  /\ WakeWord /\ ~Blocked /\ ~Suppressed /\ mic = "off"
  /\ CanWelcome(session)
  /\ LET s == StartWelcome(session, SomeId)
     IN  \/ LocalWelcome /\ StartGreeting("wake_word", s) /\ UNCHANGED welcomes
         \/ /\ ~LocalWelcome /\ welcomes < ConversationQueueSize
            /\ session' = s
            /\ welcomes' = welcomes + 1
            /\ UNCHANGED <<mic, playVars, greeting>>
  /\ UNCHANGED <<audio, echo, conv, utterances, visionVars>>

\* Mutant: the worker goes on listening after an utterance.
UtteranceKeepsMic ==
  /\ session' = UtteranceReady(session)
  /\ IF utterances < UtteranceQueueSize
     THEN utterances' = utterances + 1 /\ UNCHANGED <<mic, audio>>
     ELSE audio' = "put" /\ UNCHANGED <<mic, utterances>>

\* The segmenter returns an utterance: report it, put it, stop listening.
\* put() waits when the queue is full, with listening still armed.
Utterance ==
  /\ session' = UtteranceReady(session)
  /\ IF utterances < UtteranceQueueSize
     THEN utterances' = utterances + 1 /\ mic' = "off" /\ UNCHANGED audio
     ELSE audio' = "put" /\ UNCHANGED <<mic, utterances>>

UtteranceHeard ==
  /\ NextFrame /\ ~Suppressed /\ mic # "off"
  /\ Utterance
  /\ HearingOnly /\ UNCHANGED <<echo, welcomes>>

UtteranceQueued ==
  /\ audio = "put" /\ utterances < UtteranceQueueSize
  /\ utterances' = utterances + 1
  /\ mic' = "off" /\ audio' = "frames"
  /\ HearingOnly /\ UNCHANGED <<session, echo, welcomes>>

\* The microphone goes on capturing while the worker is blocked; its queue
\* keeps the first 32 frames.
EchoCaptured ==
  /\ Blocked /\ speaking /\ ~echo
  /\ echo' = TRUE
  /\ HearingOnly /\ UNCHANGED <<session, mic, audio, utterances, welcomes>>

\* The worker is free again and comes to those frames.  Whether they are
\* suppressed depends on what the robot does now, not when they were
\* captured.
EchoHandled ==
  /\ ~Blocked /\ echo
  /\ echo' = FALSE
  /\ \/ /\ Suppressed \/ mic = "off"
        /\ mic' = "off"
        /\ UNCHANGED <<session, audio, utterances>>
     \/ /\ ~Suppressed /\ mic # "off"
        /\ Utterance
     \/ /\ ~Suppressed /\ mic # "off"
        /\ UNCHANGED <<session, mic, audio, utterances>>
  /\ HearingOnly /\ UNCHANGED welcomes

AudioStep ==
  \/ SuppressListening \/ WindowExpires \/ WakeWordHeard \/ UtteranceHeard
  \/ UtteranceQueued \/ EchoCaptured \/ EchoHandled
=============================================================================
