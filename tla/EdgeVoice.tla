------------------------------ MODULE EdgeVoice ------------------------------
(***************************************************************************)
(* The edge process as EdgeApp.run wires it: coordinator, absence timer,   *)
(* audio worker, local welcome, playback worker and conversation worker,   *)
(* interleaved at their awaits, with a person who comes and goes and a     *)
(* server that answers or fails.                                           *)
(***************************************************************************)
EXTENDS AudioWorker, PlaybackWorker, ConversationWorker,
        InteractionCoordinator

\* Environment: somebody arrives or leaves; time passes.
PersonMoves ==
  /\ person' = ~person
  /\ UNCHANGED <<session, micVars, playVars, convVars, greeting, cooled,
                 presentFrames, absentFrames, absence, idleSent, idleActions>>

CooldownElapses ==
  /\ ~cooled /\ cooled' = TRUE
  /\ UNCHANGED <<session, micVars, playVars, convVars, greeting, person,
                 presentFrames, absentFrames, absence, idleSent, idleActions>>

Next ==
  \/ CoordinatorStep \/ AudioStep \/ LocalWelcomeStep
  \/ PlaybackStep \/ ConversationStep
  \/ PersonMoves \/ CooldownElapses

Spec == Init /\ [][Next]_vars

\* The event loop runs every ready worker; camera and microphone deliver
\* frames; timers fire; speaker.play and speaker.stop return; the server
\* ends every exchange.  Nobody has to speak, to come or to leave.  A wait
\* for an asyncio.Event is woken by each set(), even when the event is
\* cleared again at once, and so is not passed over for ever.
Fairness ==
  /\ WF_vars(PersonSeen \/ PersonMissing) /\ WF_vars(ConfirmAbsence)
  /\ WF_vars(SuppressListening) /\ WF_vars(WindowExpires)
  /\ WF_vars(UtteranceQueued) /\ WF_vars(EchoHandled)
  /\ \A g \in Greeters : /\ WF_vars(GreetingQueued(g))
                         /\ SF_vars(GreetingStarted(g) \/ GreetingEnded(g))
  /\ WF_vars(TakeChunk) /\ WF_vars(BeginBurst) /\ WF_vars(FinishBurst)
  /\ WF_vars(TakeEvent("utterance") \/ TakeEvent("welcome"))
  /\ WF_vars(ExchangeSucceeds \/ ExchangeFails)
  /\ SF_vars(PlaybackStartSeen \/ PlaybackIdleSeen)
  /\ WF_vars(InterruptPlayback) /\ WF_vars(PlaybackStopped)
  /\ WF_vars(CooldownElapses)

FairSpec == Spec /\ Fairness

-----------------------------------------------------------------------------

\* Somebody has put audio and has not yet seen the robot start.
ExpectingStart ==
  \/ conv.at \in {"exchange", "start"} /\ conv.audio
  \/ \E g \in Greeters : greeting[g] = "start"

\* What the robot plays or is about to play has somebody waiting for it, who
\* will take the session out of the speaking state: the conversation worker,
\* or the caller of a local welcome.
PlaybackAwaited ==
  /\ session.state = "speaking" =>
       conv.at # "events" \/ \E g \in Greeters : greeting[g] # "no"
  /\ ~speaking => NothingToPlay \/ ExpectingStart

\* A playback is abandoned in one way only: its exchange fails when audio of
\* it has been put already, and run() returns to its queues without a wait
\* (client.py:282-288).
AbandonedOnlyByFailure ==
  [][PlaybackAwaited => PlaybackAwaited' \/ (ExchangeFails /\ conv.audio)]_vars

\* Without local welcome the robot takes turns: it only listens while no
\* turn or welcome is queued or being served, so no second utterance can
\* overtake the answer to the first.
ListensBetweenTurns ==
  ~LocalWelcome /\ mic # "off" =>
    conv.at = "events" /\ utterances = 0 /\ welcomes = 0

\* run() handles one of two completed gets and forgets the other: the
\* workers never let it find both queues filled.
NoEventLost ==
  conv.at = "events" => utterances = 0 \/ welcomes = 0

\* The coordinator and the wake word never wait for room in
\* conversation_queue: at most one welcome is on its way.
OneWelcomePending == welcomes <= 1

\* A lasting absence queues one IDLE action, however often the timer is
\* started again.
OneIdleActionPerAbsence == idleActions <= 1

\* While a burst is played the robot counts as speaking, so that the
\* microphone is suppressed and nobody takes the answer for finished.
PlayingIsSpeaking == player = "play" => speaking

\* When the person has left for good and no more utterances are heard, the
\* session ends and the microphone is disarmed, whatever was in flight.
Gone == <>[]~person /\ <>[][~UtteranceHeard /\ ~EchoHandled /\ ~WakeWordHeard]_vars
DisengagesWhenLeft ==
  Gone => <>[](session.state = "disengaged" /\ mic = "off")

\* The session was put into the speaking state by a playback that nobody
\* waits for, and that is over.
Stranded ==
  /\ session.state = "speaking" /\ ~speaking /\ NothingToPlay
  /\ conv.at = "events" /\ \A g \in Greeters : greeting[g] = "no"

\* With presence listening, a person who stays is listened to again and
\* again, or the robot is stranded for good by an abandoned playback: it
\* stays deaf until everybody has left.
HeardWhilePresent ==
  []<>~person \/ []<>(mic # "off" /\ ~Suppressed) \/ <>[]Stranded

\* Every utterance handed to the conversation worker is served: it does not
\* stay busy with one event for ever.
EventsComplete == conv.at # "events" ~> conv.at = "events"
=============================================================================
