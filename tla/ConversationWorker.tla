-------------------------- MODULE ConversationWorker --------------------------
(***************************************************************************)
(* The conversation worker and client (ai_robot_edge.server.client): one   *)
(* utterance or welcome event at a time, its exchange with the server, the *)
(* wait until the response has been spoken, and the listening after it.    *)
(* The server is the environment: it sends audio, and then ends the        *)
(* exchange with success or with one of ServerFaults.                      *)
(***************************************************************************)
EXTENDS EdgeState

ConvOnly == UNCHANGED <<audio, echo, greeting, visionVars>>

Begin(ev) == [at |-> "exchange", event |-> ev, audio |-> FALSE, cut |-> FALSE]

\* A step that only moves the worker on.
GoTo(at) ==
  /\ conv' = [conv EXCEPT !.at = at]
  /\ ConvOnly /\ UNCHANGED <<session, mic, playVars, utterances, welcomes>>

\* run() waits on both queues and handles one completed get.  A get that
\* completed as well has taken its event off the queue, and is not looked at.
TakeEvent(ev) ==
  /\ conv.at = "events"
  /\ IF ev = "utterance" THEN utterances > 0 ELSE welcomes > 0
  /\ utterances' = IF utterances > 0 THEN utterances - 1 ELSE 0
  /\ welcomes' = IF welcomes > 0 THEN welcomes - 1 ELSE 0
  /\ conv' = Begin(ev)
  /\ session' = IF ev = "utterance"
                THEN Uncounted(NextTurn(session, SomeId)) ELSE session
  /\ ConvOnly /\ UNCHANGED <<mic, playVars>>

Exchanging == conv.at \in {"exchange", "barge_in"}

\* on_tts puts a chunk, and waits while the queue is full.
ReceiveAudio ==
  /\ Exchanging /\ chunks < TtsQueueSize
  /\ chunks' = chunks + 1
  /\ conv' = [conv EXCEPT !.audio = TRUE]
  /\ ConvOnly
  /\ UNCHANGED <<session, mic, player, speaking, interrupted, utterances,
                 welcomes>>

\* Mutant: a response with audio is not waited for from its start.
SuccessWithoutStart ==
  /\ Exchanging
  /\ GoTo("playback")

\* A turn with audio waits for its playback to start; the answer to an
\* interrupting utterance goes straight back to the wait it interrupted.
ExchangeSucceeds ==
  /\ Exchanging
  /\ GoTo(IF conv.at = "exchange" /\ conv.audio THEN "start" ELSE "playback")

\* After an utterance, and after an interrupted welcome.
ListenForFollowup ==
  /\ session' = FollowupListening(session)
  /\ mic' = ArmedAfterPlayback

\* The worker returns to its queues, listening unless it has just sent a
\* welcome and auto_listen_after_welcome is off.
EndEvent ==
  /\ conv' = [conv EXCEPT !.at = "events"]
  /\ \/ /\ conv.event = "utterance" \/ (AutoListen /\ conv.cut)
        /\ ListenForFollowup
     \/ /\ conv.event = "welcome" /\ AutoListen /\ ~conv.cut
        /\ session' = WelcomePlaybackFinished(session)
        /\ mic' = ArmedAfterPlayback
     \/ conv.event = "welcome" /\ ~AutoListen /\ UNCHANGED <<session, mic>>
  /\ ConvOnly /\ UNCHANGED <<playVars, welcomes>>

\* An error frame, a lost connection or a timeout.  The worker listens at
\* once, whatever it already has put on tts_queue.
ExchangeFails ==
  /\ (IF conv.audio THEN "after_audio" ELSE "before_audio") \in ServerFaults
  /\ \/ conv.at = "exchange" /\ EndEvent /\ UNCHANGED utterances
     \/ conv.at = "barge_in" /\ GoTo("playback")

\* Mutant: the poll has no deadline.
PlaybackStartAwaited ==
  /\ conv.at = "start" /\ speaking
  /\ GoTo("playback")

\* _await_playback_start: polls for 1 s.
PlaybackStartSeen ==
  /\ conv.at = "start" /\ (speaking \/ NothingToPlay)
  /\ GoTo("playback")

\* Playback is idle: return.  With speech interrupts a get on the utterance
\* queue that completed at the same time has taken an utterance.
PlaybackIdleSeen ==
  /\ conv.at = "playback" /\ ~speaking
  /\ EndEvent
  /\ utterances' = IF SpeechInterrupt /\ utterances > 0
                   THEN utterances - 1 ELSE utterances

\* Mutant: interrupt() also declares the robot idle.
InterruptClearsEvents ==
  /\ SpeechInterrupt /\ conv.at = "playback" /\ speaking /\ utterances > 0
  /\ utterances' = utterances - 1
  /\ interrupted' = TRUE /\ chunks' = 0 /\ speaking' = FALSE
  /\ conv' = [conv EXCEPT !.at = "stop", !.cut = TRUE]
  /\ ConvOnly /\ UNCHANGED <<session, mic, player, welcomes>>

\* An utterance while the robot speaks: interrupt() drops what is queued.
InterruptPlayback ==
  /\ SpeechInterrupt /\ conv.at = "playback" /\ speaking /\ utterances > 0
  /\ utterances' = utterances - 1
  /\ interrupted' = TRUE /\ chunks' = 0
  /\ conv' = [conv EXCEPT !.at = "stop", !.cut = TRUE]
  /\ ConvOnly /\ UNCHANGED <<session, mic, player, speaking, welcomes>>

\* speaker.stop() has returned: the interrupting utterance is the next turn.
PlaybackStopped ==
  /\ conv.at = "stop"
  /\ session' = Uncounted(NextTurn(UtteranceReady(session), SomeId))
  /\ conv' = [conv EXCEPT !.at = "barge_in", !.audio = FALSE]
  /\ ConvOnly /\ UNCHANGED <<mic, playVars, utterances, welcomes>>

ConversationStep ==
  \/ TakeEvent("utterance") \/ TakeEvent("welcome")
  \/ ReceiveAudio \/ ExchangeSucceeds \/ ExchangeFails
  \/ PlaybackStartSeen \/ PlaybackIdleSeen
  \/ InterruptPlayback \/ PlaybackStopped
=============================================================================
