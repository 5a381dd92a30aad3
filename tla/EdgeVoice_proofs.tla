--------------------------- MODULE EdgeVoice_proofs ---------------------------
(***************************************************************************)
(* Proofs about EdgeVoice, for every configuration of the edge and every   *)
(* size of its queues.  Liveness stays with TLC.                           *)
(***************************************************************************)
EXTENDS EdgeVoice, TLAPS

Sessions == [state : States, reason : Reasons, id : {NoSession, SomeId},
             turn : {0}, welcomed : BOOLEAN]

-----------------------------------------------------------------------------
\* The session operations: they yield sessions, in these states.

LEMMA TransitionFields ==
  ASSUME NEW s \in Sessions, NEW to \in States, NEW why \in Reasons
  PROVE  /\ Transition(s, to, why) \in Sessions
         /\ Transition(s, to, why).state = to
  BY DEF Transition, Sessions

LEMMA RenewFields ==
  ASSUME NEW s \in Sessions, NEW id \in {NoSession, SomeId}
  PROVE  Renew(s, id) \in Sessions /\ Renew(s, id).state = s.state
  BY DEF Renew, Sessions

LEMMA MovesInSession ==
  ASSUME NEW s \in Sessions
  PROVE  /\ PersonPresent(s) \in Sessions
         /\ PersonPresent(s).state =
              IF s.state \in {"idle", "disengaged"} THEN "tracking" ELSE s.state
         /\ WelcomePlaybackFinished(s) \in Sessions
         /\ WelcomePlaybackFinished(s).state = "listening"
         /\ FollowupListening(s) \in Sessions
         /\ FollowupListening(s).state = "followup_listening"
         /\ UtteranceReady(s) \in Sessions
         /\ UtteranceReady(s).state = "thinking"
         /\ PlaybackStarted(s) \in Sessions
         /\ PlaybackStarted(s).state = "speaking"
         /\ RecoverToTracking(s) \in Sessions
         /\ RecoverToTracking(s).state = "tracking"
  BY TransitionFields
  DEF States, Reasons, PersonPresent, WelcomePlaybackFinished,
      FollowupListening, UtteranceReady, PlaybackStarted, RecoverToTracking

LEMMA AbsenceDisengages ==
  ASSUME NEW s \in Sessions
  PROVE  PersonAbsent(s) \in Sessions /\ PersonAbsent(s).state = "disengaged"
<1>1. Renew(s, NoSession) \in Sessions
  BY RenewFields
<1>2. "disengaged" \in States /\ "person_absent" \in Reasons
  BY DEF States, Reasons
<1> QED
  BY <1>1, <1>2, TransitionFields DEF PersonAbsent

LEMMA WelcomeStarts ==
  ASSUME NEW s \in Sessions
  PROVE  /\ StartWelcome(s, SomeId) \in Sessions
         /\ StartWelcome(s, SomeId).state = "welcoming"
<1> DEFINE open == IF s.id = NoSession THEN Renew(s, SomeId) ELSE s
           t == Transition(open, "welcoming", "welcome_triggered")
<1>1. open \in Sessions
  BY RenewFields
<1>2. "welcoming" \in States /\ "welcome_triggered" \in Reasons
  BY DEF States, Reasons
<1> HIDE DEF open
<1>3. t \in Sessions /\ t.state = "welcoming"
  BY <1>1, <1>2, TransitionFields
<1>4. StartWelcome(s, SomeId) = [t EXCEPT !.welcomed = TRUE]
  BY DEF StartWelcome, open
<1> HIDE DEF t
<1> QED
  BY <1>3, <1>4 DEF Sessions

LEMMA TurnKeepsState ==
  ASSUME NEW s \in Sessions
  PROVE  /\ Uncounted(NextTurn(s, SomeId)) \in Sessions
         /\ Uncounted(NextTurn(s, SomeId)).state = s.state
<1> DEFINE open == IF s.id = NoSession THEN Renew(s, SomeId) ELSE s
<1>1. open \in Sessions /\ open.state = s.state
  BY RenewFields
<1> HIDE DEF open
<1>2. NextTurn(s, SomeId) = [open EXCEPT !.turn = @ + 1]
  BY DEF NextTurn, open
<1>3. Uncounted(NextTurn(s, SomeId)) = [open EXCEPT !.turn = 0]
  BY <1>1, <1>2 DEF Uncounted, Sessions
<1> QED
  BY <1>1, <1>3 DEF Sessions

-----------------------------------------------------------------------------
\* Type correctness, in the parts the workers change: the Boolean flags, the
\* session, and the rest of each worker.

Flags ==
  /\ echo \in BOOLEAN /\ speaking \in BOOLEAN /\ interrupted \in BOOLEAN
  /\ person \in BOOLEAN /\ cooled \in BOOLEAN
  /\ absence \in BOOLEAN /\ idleSent \in BOOLEAN

Convs ==
  [at : {"events", "exchange", "start", "playback", "stop", "barge_in"},
   event : {"utterance", "welcome"}, audio : BOOLEAN, cut : BOOLEAN]

MicOK == mic \in {"off", "window", "presence"} /\ audio \in {"frames", "put"}

PlayOK == chunks \in 0..TtsQueueSize /\ player \in {"get", "coalesce", "play"}

ConvOK ==
  /\ conv \in Convs
  /\ utterances \in 0..UtteranceQueueSize
  /\ welcomes \in 0..ConversationQueueSize

GreetingOK == greeting \in [Greeters -> {"no", "put", "start", "playback"}]

VisionOK ==
  /\ presentFrames \in 0..StableFrames /\ absentFrames \in 0..StableFrames
  /\ idleActions \in 0..2

LEMMA TypeParts ==
  TypeOK <=> /\ Flags /\ session \in Sessions /\ MicOK /\ PlayOK
             /\ ConvOK /\ GreetingOK /\ VisionOK
<1>1. {person, cooled, absence, idleSent} \subseteq BOOLEAN <=>
        /\ person \in BOOLEAN /\ cooled \in BOOLEAN
        /\ absence \in BOOLEAN /\ idleSent \in BOOLEAN
  BY Zenon
<1> QED
  BY <1>1, Zenon
  DEF TypeOK, Flags, MicOK, PlayOK, ConvOK, GreetingOK, VisionOK, Sessions,
      Convs

LEMMA TypePartsNext ==
  Flags' /\ (session \in Sessions)' /\ MicOK' /\ PlayOK' /\ ConvOK'
    /\ GreetingOK' /\ VisionOK' => TypeOK'
  BY TypeParts, PTL

LEMMA QueueSizes ==
  /\ StableFrames \in Nat \ {0} /\ UtteranceQueueSize \in Nat \ {0}
  /\ TtsQueueSize \in Nat \ {0} /\ ConversationQueueSize \in Nat \ {0}
  BY ModeAssumption

LEMMA ConvMoves ==
  ASSUME NEW c \in Convs,
         NEW a \in {"events", "exchange", "start", "playback", "stop",
                   "barge_in"}
  PROVE  /\ [c EXCEPT !.at = a] \in Convs
         /\ [c EXCEPT !.at = a].at = a
         /\ [c EXCEPT !.at = a].audio = c.audio
         /\ [c EXCEPT !.audio = TRUE] \in Convs
         /\ [c EXCEPT !.audio = TRUE].at = c.at
         /\ [c EXCEPT !.audio = TRUE].audio = TRUE
         /\ [c EXCEPT !.at = a, !.cut = TRUE] \in Convs
         /\ [c EXCEPT !.at = a, !.audio = FALSE] \in Convs
         /\ Begin("utterance") \in Convs /\ Begin("welcome") \in Convs
<1>1. /\ [c EXCEPT !.at = a] \in Convs
      /\ [c EXCEPT !.at = a].at = a
      /\ [c EXCEPT !.at = a].audio = c.audio
  BY DEF Convs
<1>2. /\ [c EXCEPT !.audio = TRUE] \in Convs
      /\ [c EXCEPT !.audio = TRUE].at = c.at
      /\ [c EXCEPT !.audio = TRUE].audio = TRUE
  BY DEF Convs
<1>3. [c EXCEPT !.at = a, !.cut = TRUE] \in Convs
  BY DEF Convs
<1>4. [c EXCEPT !.at = a, !.audio = FALSE] \in Convs
  BY DEF Convs
<1>5. Begin("utterance") \in Convs /\ Begin("welcome") \in Convs
  BY DEF Begin, Convs
<1> QED
  BY <1>1, <1>2, <1>3, <1>4, <1>5

LEMMA TypeInit == Init => TypeOK
<1> SUFFICES ASSUME Init PROVE TypeOK
  OBVIOUS
<1>1. Flags
  BY Zenon DEF Init, Flags
<1>2. session \in Sessions
  BY DEF Init, NewController, Sessions, States, Reasons, NoSession
<1>3. MicOK /\ PlayOK /\ GreetingOK /\ VisionOK
  BY QueueSizes DEF Init, MicOK, PlayOK, GreetingOK, VisionOK
<1>4. ConvOK
  BY QueueSizes DEF Init, ConvOK, Convs
<1> QED
  BY <1>1, <1>2, <1>3, <1>4, TypeParts

LEMMA TypeAudio == TypeOK /\ AudioStep => TypeOK'
<1> SUFFICES ASSUME TypeOK, AudioStep PROVE TypeOK'
  OBVIOUS
<1>0. /\ Flags /\ session \in Sessions /\ MicOK /\ PlayOK
      /\ ConvOK /\ GreetingOK /\ VisionOK
  BY TypeParts
<1>1. Flags'
  BY <1>0, Zenon
  DEF AudioStep, SuppressListening, WindowExpires, WakeWordHeard,
      UtteranceHeard, UtteranceQueued, EchoCaptured, EchoHandled, HearingOnly,
      Utterance, StartGreeting, Greeted, Flags, playVars, visionVars
<1>2. (session \in Sessions)'
  BY <1>0, MovesInSession, WelcomeStarts
  DEF AudioStep, SuppressListening, WindowExpires, WakeWordHeard,
      UtteranceHeard, UtteranceQueued, EchoCaptured, EchoHandled,
      Utterance, StartGreeting, Greeted
<1>3. MicOK'
  BY <1>0
  DEF AudioStep, SuppressListening, WindowExpires, WakeWordHeard,
      UtteranceHeard, UtteranceQueued, EchoCaptured, EchoHandled,
      Utterance, StartGreeting, Greeted, MicOK
<1>4. PlayOK' /\ GreetingOK'
  BY <1>0, QueueSizes
  DEF AudioStep, SuppressListening, WindowExpires, WakeWordHeard,
      UtteranceHeard, UtteranceQueued, EchoCaptured, EchoHandled, HearingOnly,
      Utterance, StartGreeting, Greeted, PlayOK, GreetingOK, playVars, Greeters
<1>5. ConvOK'
  BY <1>0, QueueSizes
  DEF AudioStep, SuppressListening, WindowExpires, WakeWordHeard,
      UtteranceHeard, UtteranceQueued, EchoCaptured, EchoHandled, HearingOnly,
      Utterance, ConvOK
<1>6. VisionOK'
  BY <1>0
  DEF AudioStep, SuppressListening, WindowExpires, WakeWordHeard,
      UtteranceHeard, UtteranceQueued, EchoCaptured, EchoHandled, HearingOnly,
      visionVars, VisionOK
<1> QED
  BY <1>1, <1>2, <1>3, <1>4, <1>5, <1>6, TypePartsNext

LEMMA TypeLocalWelcome == TypeOK /\ LocalWelcomeStep => TypeOK'
<1> SUFFICES ASSUME TypeOK, LocalWelcomeStep PROVE TypeOK'
  OBVIOUS
<1>0. /\ Flags /\ session \in Sessions /\ MicOK /\ PlayOK
      /\ ConvOK /\ GreetingOK /\ VisionOK
  BY TypeParts
<1>1. Flags' /\ VisionOK' /\ ConvOK'
  <2>1. Flags'
    BY <1>0, Zenon
    DEF LocalWelcomeStep, GreetingQueued, GreetingStarted, GreetingEnded, Flags,
        Greeted, micVars, playVars, visionVars
  <2>2. VisionOK' /\ ConvOK'
    BY <1>0
    DEF LocalWelcomeStep, GreetingQueued, GreetingStarted, GreetingEnded,
        VisionOK, ConvOK, visionVars, convVars
  <2> QED
    BY <2>1, <2>2
<1>2. (session \in Sessions)'
  BY <1>0, MovesInSession
  DEF LocalWelcomeStep, GreetingQueued, GreetingStarted, GreetingEnded, Greeted
<1>3. MicOK' /\ PlayOK' /\ GreetingOK'
  BY <1>0, QueueSizes
  DEF LocalWelcomeStep, GreetingQueued, GreetingStarted, GreetingEnded, Greeted,
      MicOK, PlayOK, GreetingOK, micVars, playVars
<1> QED
  BY <1>0, <1>1, <1>2, <1>3, TypePartsNext

LEMMA TypePlayback == TypeOK /\ PlaybackStep => TypeOK'
<1> SUFFICES ASSUME TypeOK, PlaybackStep PROVE TypeOK'
  OBVIOUS
<1>0. /\ Flags /\ session \in Sessions /\ MicOK /\ PlayOK
      /\ ConvOK /\ GreetingOK /\ VisionOK
  BY TypeParts
<1>1. (chunks > 0) \in BOOLEAN
  OBVIOUS
<1>2. Flags'
  BY <1>0, <1>1, Zenon
  DEF PlaybackStep, TakeChunk, MergeChunk, BeginBurst, FinishBurst, PlayerOnly,
      Flags, micVars, visionVars
<1>3. (session \in Sessions)'
  BY <1>0, MovesInSession
  DEF PlaybackStep, TakeChunk, MergeChunk, BeginBurst, FinishBurst
<1>4. PlayOK'
  BY <1>0, QueueSizes
  DEF PlaybackStep, TakeChunk, MergeChunk, BeginBurst, FinishBurst, NextChunk,
      PlayOK
<1>5. MicOK' /\ ConvOK' /\ GreetingOK' /\ VisionOK'
  BY <1>0
  DEF PlaybackStep, TakeChunk, MergeChunk, BeginBurst, FinishBurst, PlayerOnly,
      MicOK, ConvOK, GreetingOK, VisionOK, micVars, convVars, visionVars
<1> QED
  BY <1>2, <1>3, <1>4, <1>5, TypePartsNext

LEMMA TypeCoordinator == TypeOK /\ CoordinatorStep => TypeOK'
<1> SUFFICES ASSUME TypeOK, CoordinatorStep PROVE TypeOK'
  OBVIOUS
<1>0. /\ Flags /\ session \in Sessions /\ MicOK /\ PlayOK
      /\ ConvOK /\ GreetingOK /\ VisionOK
  BY TypeParts
<1>1. Flags'
  BY <1>0, Zenon
  DEF CoordinatorStep, PersonSeen, PersonMissing, ConfirmAbsence, StartGreeting,
      Greeted, Flags, micVars, playVars, visionVars
<1>2. (session \in Sessions)'
  BY <1>0, MovesInSession, WelcomeStarts, AbsenceDisengages
  DEF CoordinatorStep, PersonSeen, PersonMissing, ConfirmAbsence, StartGreeting,
      Greeted
<1>3. MicOK' /\ PlayOK' /\ GreetingOK'
  BY <1>0, QueueSizes
  DEF CoordinatorStep, PersonSeen, PersonMissing, ConfirmAbsence, StartGreeting,
      Greeted, PresenceArmed, MicOK, PlayOK, GreetingOK, micVars, playVars,
      Greeters
<1>4. ConvOK' /\ VisionOK'
  BY <1>0, QueueSizes
  DEF CoordinatorStep, PersonSeen, PersonMissing, ConfirmAbsence, Counted,
      ConvOK, VisionOK, convVars
<1> QED
  BY <1>1, <1>2, <1>3, <1>4, TypePartsNext

LEMMA TypeConversation == TypeOK /\ ConversationStep => TypeOK'
<1> SUFFICES ASSUME TypeOK, ConversationStep PROVE TypeOK'
  OBVIOUS
<1>0. /\ Flags /\ session \in Sessions /\ MicOK /\ PlayOK
      /\ ConvOK /\ GreetingOK /\ VisionOK
  BY TypeParts
<1>1. Flags'
  BY <1>0, Zenon
  DEF ConversationStep, TakeEvent, ReceiveAudio, ExchangeSucceeds,
      ExchangeFails, PlaybackStartSeen, PlaybackIdleSeen, InterruptPlayback,
      PlaybackStopped, GoTo, EndEvent, ConvOnly, Flags, playVars, visionVars
<1>2. (session \in Sessions)'
  BY <1>0, MovesInSession, TurnKeepsState
  DEF ConversationStep, TakeEvent, ReceiveAudio, ExchangeSucceeds,
      ExchangeFails, PlaybackStartSeen, PlaybackIdleSeen, InterruptPlayback,
      PlaybackStopped, GoTo, EndEvent, ListenForFollowup
<1>3. MicOK' /\ GreetingOK' /\ VisionOK'
  BY <1>0
  DEF ConversationStep, TakeEvent, ReceiveAudio, ExchangeSucceeds,
      ExchangeFails, PlaybackStartSeen, PlaybackIdleSeen, InterruptPlayback,
      PlaybackStopped, GoTo, EndEvent, ListenForFollowup, ArmedAfterPlayback,
      ConvOnly, MicOK, GreetingOK, VisionOK, visionVars
<1>4. PlayOK'
  BY <1>0, QueueSizes
  DEF ConversationStep, TakeEvent, ReceiveAudio, ExchangeSucceeds,
      ExchangeFails, PlaybackStartSeen, PlaybackIdleSeen, InterruptPlayback,
      PlaybackStopped, GoTo, EndEvent, PlayOK, playVars
<1>5. conv' \in Convs
  <2>1. conv \in Convs
    BY <1>0 DEF ConvOK
  <2>2. CASE TakeEvent("utterance") \/ TakeEvent("welcome")
    BY <2>1, <2>2, ConvMoves DEF TakeEvent
  <2>3. CASE ReceiveAudio
    BY <2>1, <2>3, ConvMoves DEF ReceiveAudio
  <2>4. /\ [conv EXCEPT !.at = "events"] \in Convs
        /\ [conv EXCEPT !.at = "start"] \in Convs
        /\ [conv EXCEPT !.at = "playback"] \in Convs
        /\ [conv EXCEPT !.at = "stop", !.cut = TRUE] \in Convs
        /\ [conv EXCEPT !.at = "barge_in", !.audio = FALSE] \in Convs
    BY <2>1, ConvMoves
  <2>5. CASE ExchangeSucceeds
    <3>1. GoTo("start") \/ GoTo("playback")
      BY <2>5 DEF ExchangeSucceeds
    <3> QED
      BY <2>4, <3>1, Zenon DEF GoTo
  <2>6. CASE ExchangeFails
    BY <2>4, <2>6, Zenon DEF ExchangeFails, EndEvent, GoTo
  <2>7. CASE PlaybackStartSeen \/ PlaybackIdleSeen
    BY <2>4, <2>7, Zenon
    DEF PlaybackStartSeen, PlaybackIdleSeen, EndEvent, GoTo
  <2>8. CASE InterruptPlayback \/ PlaybackStopped
    BY <2>4, <2>8, Zenon DEF InterruptPlayback, PlaybackStopped
  <2> QED
    BY <2>2, <2>3, <2>5, <2>6, <2>7, <2>8 DEF ConversationStep
<1>6. ConvOK'
  BY <1>0, <1>5, QueueSizes
  DEF ConversationStep, TakeEvent, ReceiveAudio, ExchangeSucceeds,
      ExchangeFails, PlaybackStartSeen, PlaybackIdleSeen, InterruptPlayback,
      PlaybackStopped, GoTo, EndEvent, ConvOK
<1> QED
  BY <1>1, <1>2, <1>3, <1>4, <1>6, TypePartsNext

LEMMA TypeStep == TypeOK /\ [Next]_vars => TypeOK'
<1> SUFFICES ASSUME TypeOK, [Next]_vars PROVE TypeOK'
  OBVIOUS
<1>0. /\ Flags /\ session \in Sessions /\ MicOK /\ PlayOK
      /\ ConvOK /\ GreetingOK /\ VisionOK
  BY TypeParts
<1>1. CASE PersonMoves \/ CooldownElapses \/ UNCHANGED vars
  <2>1. (~person) \in BOOLEAN
    OBVIOUS
  <2>2. Flags'
    BY <1>0, <1>1, <2>1, Zenon
    DEF PersonMoves, CooldownElapses, vars, Flags, micVars, playVars, visionVars
  <2>3. (session \in Sessions)' /\ MicOK' /\ PlayOK' /\ ConvOK'
          /\ GreetingOK' /\ VisionOK'
    BY <1>0, <1>1
    DEF PersonMoves, CooldownElapses, vars, MicOK, PlayOK, ConvOK, GreetingOK,
        VisionOK, micVars, playVars, convVars, visionVars
  <2> QED
    BY <2>2, <2>3, TypePartsNext
<1> QED
  BY <1>1, TypeAudio, TypeLocalWelcome, TypePlayback, TypeCoordinator,
     TypeConversation DEF Next

\* Every variable of the edge keeps its type in every configuration: no
\* queue exceeds its size, and no worker reaches a state it has no code for.
THEOREM TypeCorrect == Spec => []TypeOK
<1>1. Init => TypeOK
  BY TypeInit
<1>2. TypeOK /\ [Next]_vars => TypeOK'
  BY TypeStep
<1> QED
  BY <1>1, <1>2, PTL DEF Spec

-----------------------------------------------------------------------------
\* Playback and absence, whose invariants are inductive on their own.

\* In every configuration, with interrupts and failed bursts, a burst is
\* only played while playback_active is set.
THEOREM PlaybackIsMarked == Spec => []PlayingIsSpeaking
<1>1. Init => PlayingIsSpeaking
  BY DEF Init, PlayingIsSpeaking
<1>2. ASSUME TypeOK, PlayingIsSpeaking, [Next]_vars
      PROVE  PlayingIsSpeaking'
  <2>1. CASE PlaybackStep
    BY <1>2, <2>1
    DEF PlaybackStep, TakeChunk, MergeChunk, BeginBurst, FinishBurst, NextChunk,
        PlayingIsSpeaking
  <2>2. CASE ~PlaybackStep
    <3>1. player' = player /\ speaking' = speaking
      BY <1>2, <2>2
      DEF Next, CoordinatorStep, PersonSeen, PersonMissing, ConfirmAbsence,
          AudioStep, SuppressListening, WindowExpires, WakeWordHeard,
          UtteranceHeard, UtteranceQueued, EchoCaptured, EchoHandled,
          HearingOnly, LocalWelcomeStep, GreetingQueued, GreetingStarted,
          GreetingEnded, StartGreeting, ConversationStep, TakeEvent,
          ReceiveAudio, ExchangeSucceeds, ExchangeFails, PlaybackStartSeen,
          PlaybackIdleSeen, InterruptPlayback, PlaybackStopped, GoTo, EndEvent,
          PersonMoves, CooldownElapses, playVars, vars
    <3> QED
      BY <1>2, <3>1 DEF PlayingIsSpeaking
  <2> QED
    BY <2>1, <2>2
<1> QED
  BY <1>1, <1>2, TypeCorrect, PTL DEF Spec

\* The flag of a sent return to idle is set as soon as one was sent.
IdleInv == idleActions \in {0, 1} /\ (idleSent \/ idleActions = 0)

\* However often the camera loses sight of a person who has left, the
\* absence sends the robot to idle once.
THEOREM OneIdleAction == Spec => []OneIdleActionPerAbsence
<1>1. Init => IdleInv
  BY DEF Init, IdleInv
<1>2. IdleInv /\ [Next]_vars => IdleInv'
  <2> SUFFICES ASSUME IdleInv, [Next]_vars PROVE IdleInv'
    OBVIOUS
  <2>1. CASE CoordinatorStep
    BY <2>1
    DEF CoordinatorStep, PersonSeen, PersonMissing, ConfirmAbsence, IdleInv
  <2>2. CASE ~CoordinatorStep
    <3>1. idleActions' = idleActions /\ idleSent' = idleSent
      BY <2>2
      DEF Next, AudioStep, SuppressListening, WindowExpires, WakeWordHeard,
          UtteranceHeard, UtteranceQueued, EchoCaptured, EchoHandled,
          HearingOnly, LocalWelcomeStep, GreetingQueued, GreetingStarted,
          GreetingEnded, PlaybackStep, TakeChunk, MergeChunk, BeginBurst,
          FinishBurst, PlayerOnly, ConversationStep, TakeEvent, ReceiveAudio,
          ExchangeSucceeds, ExchangeFails, PlaybackStartSeen, PlaybackIdleSeen,
          InterruptPlayback, PlaybackStopped, GoTo, EndEvent, ConvOnly,
          PersonMoves, CooldownElapses, visionVars, vars
    <3> QED
      BY <3>1 DEF IdleInv
  <2> QED
    BY <2>1, <2>2
<1>3. IdleInv => OneIdleActionPerAbsence
  BY DEF IdleInv, OneIdleActionPerAbsence
<1> QED
  BY <1>1, <1>2, <1>3, PTL DEF Spec

-----------------------------------------------------------------------------
\* Turn taking, without local welcome.  An utterance or a welcome is under
\* way from the moment it is put on its queue until its response is over.

UnderWay == conv.at # "events" \/ utterances > 0 \/ welcomes > 0

\* No greeting is played locally, so the audio worker never waits for one,
\* and finds room in the queue for the only utterance there is.
NobodyGreets ==
  (\A g \in Greeters : greeting[g] = "no") /\ audio = "frames" /\ echo = FALSE

\* What is under way is one thing: a queued event or the one being served.
\* The session shows it, and shows nothing of the kind while the microphone
\* is armed; so nothing else is begun meanwhile.
TurnInv ==
  /\ NobodyGreets
  /\ conv.at \in {"events", "exchange", "start", "playback"}
  /\ utterances + welcomes <= 1
  /\ conv.at # "events" => utterances + welcomes = 0
  /\ UnderWay => /\ session.state \in {"welcoming", "thinking", "speaking"}
                 /\ mic = "off"
  /\ mic # "off" =>
       session.state \in {"listening", "followup_listening", "speaking"}

LEMMA TurnInit == Init => TurnInv
  BY DEF Init, TurnInv, NobodyGreets, UnderWay, NewController

LEMMA TurnStep ==
  ASSUME ~LocalWelcome, TypeOK, TurnInv, [Next]_vars
  PROVE  TurnInv'
<1>0. /\ session \in Sessions /\ conv \in Convs
      /\ utterances \in Nat /\ welcomes \in Nat
      /\ UtteranceQueueSize \in Nat \ {0}
      /\ mic \in {"off", "window", "presence"}
  BY TypeParts, QueueSizes DEF ConvOK, MicOK
<1>1. CASE AudioStep
  <2>1. NobodyGreets' /\ conv' = conv
    BY <1>0, <1>1
    DEF AudioStep, SuppressListening, WindowExpires, WakeWordHeard,
        UtteranceHeard, UtteranceQueued, EchoCaptured, EchoHandled, HearingOnly,
        Utterance, StartGreeting, Greeted, TurnInv, NobodyGreets, Blocked,
        Greeters, UnderWay
  <2>2. CASE SuppressListening \/ WindowExpires
    BY <1>0, <2>1, <2>2, MovesInSession
    DEF SuppressListening, WindowExpires, TurnInv, UnderWay
  <2>3. CASE WakeWordHeard
    <3>1. /\ session.state \in Unengaged /\ mic' = mic /\ mic = "off"
          /\ session' = StartWelcome(session, SomeId)
          /\ welcomes' = welcomes + 1 /\ utterances' = utterances
      BY <2>3 DEF WakeWordHeard, CanWelcome
    <3> QED
      BY <1>0, <2>1, <3>1, WelcomeStarts DEF Unengaged, TurnInv, UnderWay
  <2>4. CASE UtteranceHeard
    <3>1. /\ mic # "off" /\ utterances = 0 /\ welcomes = 0
          /\ conv.at = "events"
      BY <1>0, <2>4 DEF UtteranceHeard, TurnInv, UnderWay
    <3>2. /\ session' = UtteranceReady(session) /\ mic' = "off"
          /\ utterances' = 1 /\ welcomes' = 0
      BY <1>0, <2>4, <3>1 DEF UtteranceHeard, Utterance
    <3> QED
      BY <1>0, <2>1, <3>1, <3>2, MovesInSession DEF TurnInv, UnderWay
  <2>5. ASSUME UtteranceQueued \/ EchoCaptured \/ EchoHandled
        PROVE  FALSE
    BY <2>5
    DEF UtteranceQueued, EchoCaptured, EchoHandled, TurnInv, NobodyGreets,
        Blocked, Greeters
  <2> QED
    BY <1>1, <2>2, <2>3, <2>4, <2>5 DEF AudioStep
<1>2. ASSUME LocalWelcomeStep
      PROVE  FALSE
  BY <1>2
  DEF LocalWelcomeStep, GreetingQueued, GreetingStarted, GreetingEnded, TurnInv,
      NobodyGreets
<1>3. CASE PlaybackStep
  <2>1. NobodyGreets' /\ UNCHANGED <<conv, utterances, welcomes, mic>>
    BY <1>3
    DEF PlaybackStep, TakeChunk, MergeChunk, BeginBurst, FinishBurst, PlayerOnly,
        micVars, convVars, TurnInv, NobodyGreets
  <2>2. session' = session \/ session' = PlaybackStarted(session)
    BY <1>3 DEF PlaybackStep, TakeChunk, MergeChunk, BeginBurst, FinishBurst
  <2> QED
    BY <1>0, <2>1, <2>2, MovesInSession DEF TurnInv, UnderWay
<1>4. CASE CoordinatorStep
  <2>1. NobodyGreets' /\ UNCHANGED <<conv, utterances>>
    BY <1>4
    DEF CoordinatorStep, PersonSeen, PersonMissing, ConfirmAbsence, micVars,
        convVars, TurnInv, NobodyGreets
  <2>2. CASE PersonSeen
    <3>1. \/ /\ session' = PersonPresent(session)
             /\ mic' = mic /\ welcomes' = welcomes
          \/ /\ session.state \in Unengaged
             /\ session' = StartWelcome(PersonPresent(session), SomeId)
             /\ mic' = mic /\ welcomes' = welcomes + 1
      BY <1>0, <2>2, MovesInSession
      DEF PersonSeen, PresenceArmed, CanWelcome, Unengaged
    <3> QED
      BY <1>0, <2>1, <3>1, MovesInSession, WelcomeStarts
      DEF Unengaged, TurnInv, UnderWay
  <2>3. CASE PersonMissing
    BY <2>1, <2>3 DEF PersonMissing, TurnInv, UnderWay, micVars, convVars
  <2>4. CASE ConfirmAbsence
    <3>1. \/ UNCHANGED <<session, mic, welcomes>>
          \/ /\ session.state \in Unengaged
             /\ session' = PersonAbsent(session)
             /\ mic' = "off" /\ welcomes' = welcomes
      BY <2>4 DEF ConfirmAbsence, AcceptsAbsence, convVars
    <3> QED
      BY <1>0, <2>1, <3>1, AbsenceDisengages DEF Unengaged, TurnInv, UnderWay
  <2> QED
    BY <1>4, <2>2, <2>3, <2>4 DEF CoordinatorStep
<1>5. CASE ConversationStep
  <2>1. NobodyGreets'
    BY <1>5
    DEF ConversationStep, TakeEvent, ReceiveAudio, ExchangeSucceeds,
        ExchangeFails, PlaybackStartSeen, PlaybackIdleSeen, InterruptPlayback,
        PlaybackStopped, GoTo, EndEvent, ConvOnly, TurnInv, NobodyGreets
  <2>2. ASSUME NEW ev \in {"utterance", "welcome"}, TakeEvent(ev)
        PROVE  TurnInv'
    <3>1. /\ conv.at = "events" /\ utterances' = 0 /\ welcomes' = 0
          /\ (utterances > 0 \/ welcomes > 0) /\ mic' = mic
          /\ conv' = Begin(ev)
          /\ \/ session' = session
             \/ session' = Uncounted(NextTurn(session, SomeId))
      BY <1>0, <2>2 DEF TakeEvent, TurnInv
    <3>2. conv'.at = "exchange"
      BY <3>1 DEF Begin
    <3> QED
      BY <1>0, <2>1, <3>1, <3>2, TurnKeepsState DEF TurnInv, UnderWay
  <2>3. CASE ReceiveAudio
    BY <1>0, <2>1, <2>3, ConvMoves
    DEF ReceiveAudio, Exchanging, TurnInv, UnderWay
  <2>4. ASSUME NEW at \in {"start", "playback"}, GoTo(at), conv.at # "events"
        PROVE  TurnInv'
    <3>1. conv'.at = at
      BY <1>0, <2>4 DEF GoTo, Convs
    <3> QED
      BY <1>0, <2>1, <2>4, <3>1 DEF GoTo, TurnInv, UnderWay
  <2>5. ASSUME EndEvent, conv.at # "events", utterances' = utterances
        PROVE  TurnInv'
    <3>1. /\ conv'.at = "events" /\ utterances = 0 /\ welcomes' = 0
      BY <1>0, <2>5 DEF EndEvent, TurnInv, Convs
    <3>2. \/ /\ UNCHANGED <<session, mic>> /\ mic = "off"
          \/ session' = FollowupListening(session)
          \/ session' = WelcomePlaybackFinished(session)
      BY <2>5 DEF EndEvent, ListenForFollowup, TurnInv, UnderWay
    <3> QED
      BY <1>0, <2>1, <2>5, <3>1, <3>2, MovesInSession DEF TurnInv, UnderWay
  <2>6. CASE ExchangeSucceeds \/ PlaybackStartSeen
    BY <2>4, <2>6 DEF ExchangeSucceeds, PlaybackStartSeen, Exchanging
  <2>7. CASE ExchangeFails \/ PlaybackIdleSeen
    <3>1. conv.at # "events" /\ utterances = 0
      BY <1>0, <2>7 DEF ExchangeFails, PlaybackIdleSeen, TurnInv
    <3>2. \/ EndEvent /\ utterances' = utterances
          \/ GoTo("playback")
      BY <2>7, <3>1 DEF ExchangeFails, PlaybackIdleSeen
    <3> QED
      BY <2>4, <2>5, <3>1, <3>2
  <2>8. ASSUME InterruptPlayback \/ PlaybackStopped
        PROVE  FALSE
    BY <1>0, <2>8 DEF InterruptPlayback, PlaybackStopped, TurnInv
  <2> QED
    BY <1>5, <2>2, <2>3, <2>6, <2>7, <2>8 DEF ConversationStep
<1>6. CASE PersonMoves \/ CooldownElapses \/ UNCHANGED vars
  BY <1>6
  DEF PersonMoves, CooldownElapses, vars, micVars, convVars, TurnInv,
      NobodyGreets, UnderWay
<1> QED
  BY <1>1, <1>2, <1>3, <1>4, <1>5, <1>6 DEF Next

LEMMA TurnInvariance ==
  ASSUME ~LocalWelcome PROVE Spec => []TurnInv
<1>1. TypeOK /\ TurnInv /\ [Next]_vars => TurnInv'
  BY TurnStep
<1> QED
  BY <1>1, TurnInit, TypeCorrect, PTL DEF Spec

\* Without local welcome, in every configuration and whatever the server and
\* the person do, the robot never listens while a turn or a welcome is under
\* way.
THEOREM TurnTaking == Spec => []ListensBetweenTurns
<1>1. CASE LocalWelcome
  <2>1. ListensBetweenTurns
    BY <1>1 DEF ListensBetweenTurns
  <2> QED
    BY <2>1, PTL
<1>2. CASE ~LocalWelcome
  <2>1. TypeOK /\ TurnInv => ListensBetweenTurns
    BY TypeParts DEF TurnInv, UnderWay, ListensBetweenTurns, ConvOK
  <2> QED
    BY <1>2, <2>1, TurnInvariance, TypeCorrect, PTL
<1> QED
  BY <1>1, <1>2

\* Without local welcome the conversation worker never finds both queues
\* filled, and so never takes an event it does not look at.
THEOREM EventsKept ==
  ASSUME ~LocalWelcome PROVE Spec => []NoEventLost
<1>1. TypeOK /\ TurnInv => NoEventLost
  BY TypeParts DEF TurnInv, NoEventLost, ConvOK
<1> QED
  BY <1>1, TurnInvariance, TypeCorrect, PTL

\* Without local welcome a greeting is never queued behind another one, so
\* its put never waits, whatever the queue size.
THEOREM WelcomesApart ==
  ASSUME ~LocalWelcome PROVE Spec => []OneWelcomePending
<1>1. TypeOK /\ TurnInv => OneWelcomePending
  BY TypeParts DEF TurnInv, OneWelcomePending, ConvOK
<1> QED
  BY <1>1, TurnInvariance, TypeCorrect, PTL

-----------------------------------------------------------------------------
\* Waiting for playback, without speech interrupts and with a follow-up after
\* a welcome.

\* Nobody interrupts a playback.
UninterruptedInv ==
  /\ interrupted = FALSE
  /\ conv.at \in {"events", "exchange", "start", "playback"}

LEMMA UninterruptedStep ==
  ASSUME ~SpeechInterrupt, TypeOK, UninterruptedInv, [Next]_vars
  PROVE  UninterruptedInv'
<1>0. conv \in Convs /\ interrupted = FALSE
  BY TypeParts DEF ConvOK, UninterruptedInv
<1>1. CASE UNCHANGED conv /\ UNCHANGED interrupted
  BY <1>1 DEF UninterruptedInv
<1>2. CASE PlaybackStep
  BY <1>0, <1>2
  DEF PlaybackStep, TakeChunk, MergeChunk, BeginBurst, FinishBurst, PlayerOnly,
      convVars, UninterruptedInv
<1>3. CASE ConversationStep
  <2>1. CASE TakeEvent("utterance") \/ TakeEvent("welcome")
    BY <1>0, <2>1
    DEF TakeEvent, Begin, ConvOnly, playVars, UninterruptedInv
  <2>2. CASE ReceiveAudio
    <3>1. conv'.at = conv.at
      BY <1>0, <2>2, ConvMoves DEF ReceiveAudio
    <3> QED
      BY <1>0, <2>2, <3>1 DEF ReceiveAudio, UninterruptedInv
  <2>3. ASSUME NEW at \in {"start", "playback"}, GoTo(at)
        PROVE  UninterruptedInv'
    <3>1. conv'.at = at
      BY <1>0, <2>3 DEF GoTo, Convs
    <3> QED
      BY <1>0, <2>3, <3>1 DEF GoTo, playVars, UninterruptedInv
  <2>4. CASE EndEvent
    <3>1. conv'.at = "events"
      BY <1>0, <2>4, ConvMoves DEF EndEvent
    <3> QED
      BY <1>0, <2>4, <3>1 DEF EndEvent, playVars, UninterruptedInv
  <2>5. ~(InterruptPlayback \/ PlaybackStopped)
    BY DEF InterruptPlayback, PlaybackStopped, UninterruptedInv
  <2> QED
    BY <1>3, <2>1, <2>2, <2>3, <2>4, <2>5
    DEF ConversationStep, ExchangeSucceeds, ExchangeFails, PlaybackStartSeen,
        PlaybackIdleSeen
<1>4. CASE AudioStep \/ LocalWelcomeStep \/ CoordinatorStep
  <2>1. ASSUME NEW g \in Greeters, NEW t, StartGreeting(g, t)
        PROVE  UNCHANGED interrupted
    BY <2>1 DEF StartGreeting, playVars
  <2>2. UNCHANGED interrupted
    BY <1>4, <2>1
    DEF AudioStep, SuppressListening, WindowExpires, WakeWordHeard, UtteranceHeard,
        UtteranceQueued, EchoCaptured, EchoHandled, HearingOnly, LocalWelcomeStep,
        GreetingQueued, GreetingStarted, GreetingEnded, CoordinatorStep, PersonSeen,
        PersonMissing, ConfirmAbsence, playVars, Greeters
  <2>3. UNCHANGED conv
    BY <1>4
    DEF AudioStep, SuppressListening, WindowExpires, WakeWordHeard, UtteranceHeard,
        UtteranceQueued, EchoCaptured, EchoHandled, HearingOnly, LocalWelcomeStep,
        GreetingQueued, GreetingStarted, GreetingEnded, CoordinatorStep, PersonSeen,
        PersonMissing, ConfirmAbsence, convVars
  <2> QED
    BY <1>1, <2>2, <2>3
<1> QED
  BY <1>1, <1>2, <1>3, <1>4
  DEF Next, vars, convVars, playVars, PersonMoves, CooldownElapses

LEMMA UninterruptedInvariance ==
  ASSUME ~SpeechInterrupt PROVE Spec => []UninterruptedInv
<1>1. Init => UninterruptedInv
  BY DEF Init, UninterruptedInv
<1>2. TypeOK /\ UninterruptedInv /\ [Next]_vars => UninterruptedInv'
  BY UninterruptedStep
<1> QED
  BY <1>1, <1>2, TypeCorrect, PTL DEF Spec

\* PlaybackAwaited in the form the provers like best, with what it rests on.
Expecting ==
  \/ conv.at \in {"exchange", "start"} /\ conv.audio = TRUE
  \/ \E g \in Greeters : greeting[g] = "start"

SpeakingIsAwaited ==
  session.state = "speaking" =>
    conv.at # "events" \/ \E g \in Greeters : greeting[g] # "no"

AwaitInv ==
  /\ interrupted = FALSE
  /\ conv.at \in {"events", "exchange", "start", "playback"}
  /\ speaking = FALSE => NothingToPlay \/ Expecting
  /\ SpeakingIsAwaited

LEMMA AwaitedIsAwaitInv ==
  ASSUME TypeOK, UninterruptedInv PROVE PlaybackAwaited <=> AwaitInv
<1>1. conv.audio \in BOOLEAN /\ speaking \in BOOLEAN
  BY TypeParts DEF ConvOK, PlayOK, Convs, Flags
<1>2. ExpectingStart <=> Expecting
  BY <1>1 DEF ExpectingStart, Expecting
<1> QED
  BY <1>1, <1>2
  DEF PlaybackAwaited, AwaitInv, SpeakingIsAwaited, UninterruptedInv

LEMMA AwaitStep ==
  ASSUME ~SpeechInterrupt, AutoListen, ~(ExchangeFails /\ conv.audio = TRUE),
         TypeOK, AwaitInv, [Next]_vars
  PROVE  AwaitInv'
<1>0. /\ session \in Sessions /\ conv \in Convs
      /\ chunks \in 0..TtsQueueSize /\ TtsQueueSize \in Nat
      /\ player \in {"get", "coalesce", "play"}
      /\ greeting \in [Greeters -> {"no", "put", "start", "playback"}]
      /\ interrupted = FALSE
  BY TypeParts, QueueSizes DEF ConvOK, PlayOK, GreetingOK, AwaitInv
\* A caller of a local welcome starts, is queued behind other audio, or is
\* over at once.
<1>1. ASSUME NEW g \in Greeters, NEW s \in Sessions, s.state = "welcoming",
             greeting[g] = "no", StartGreeting(g, s), conv' = conv
      PROVE  AwaitInv'
  <2>1. CASE Greeted(g, s) /\ UNCHANGED playVars
    <3>1. session'.state = "listening" /\ UNCHANGED playVars
      BY <1>1, <2>1, MovesInSession DEF Greeted
    <3>2. greeting' = [greeting EXCEPT ![g] = "no"]
      BY <2>1 DEF Greeted
    <3>3. Expecting => Expecting'
      BY <1>0, <1>1, <3>2 DEF Expecting
    <3> QED
      BY <1>1, <3>1, <3>3
      DEF playVars, AwaitInv, NothingToPlay, SpeakingIsAwaited
  <2>2. CASE ~(Greeted(g, s) /\ UNCHANGED playVars)
    <3>1. /\ session' = s /\ UNCHANGED <<player, speaking, interrupted>>
          /\ \/ /\ chunks' = chunks + 1
                /\ greeting' = [greeting EXCEPT ![g] = "start"]
             \/ /\ chunks' = chunks
                /\ greeting' = [greeting EXCEPT ![g] = "put"]
      BY <1>1, <2>2 DEF StartGreeting
    <3>2. chunks' = chunks \/ Expecting'
      BY <1>0, <3>1 DEF Expecting
    <3>3. Expecting => Expecting'
      BY <1>0, <1>1, <3>1 DEF Expecting
    <3>4. SpeakingIsAwaited'
      BY <1>1, <3>1 DEF SpeakingIsAwaited
    <3> QED
      BY <1>1, <3>1, <3>2, <3>3, <3>4 DEF AwaitInv, NothingToPlay
  <2> QED
    BY <2>1, <2>2
\* A step that moves no audio, no greeting and no exchange.
<1>2. ASSUME UNCHANGED <<playVars, conv, greeting>>,
             session' = session \/ session'.state # "speaking"
      PROVE  AwaitInv'
  BY <1>2
  DEF playVars, AwaitInv, Expecting, NothingToPlay, SpeakingIsAwaited
<1>3. CASE AudioStep
  <2>1. CASE WakeWordHeard
    <3>1. /\ conv' = conv /\ StartWelcome(session, SomeId) \in Sessions
          /\ StartWelcome(session, SomeId).state = "welcoming"
          /\ greeting["wake_word"] = "no"
      BY <1>0, <2>1, WelcomeStarts DEF WakeWordHeard, Blocked
    <3>2. \/ StartGreeting("wake_word", StartWelcome(session, SomeId))
          \/ /\ session' = StartWelcome(session, SomeId)
             /\ UNCHANGED <<playVars, greeting>>
      BY <2>1 DEF WakeWordHeard
    <3> QED
      BY <1>1, <1>2, <3>1, <3>2 DEF Greeters
  <2>2. CASE ~WakeWordHeard
    <3>1. /\ UNCHANGED <<playVars, conv, greeting>>
          /\ \/ session' = session
             \/ session' = RecoverToTracking(session)
             \/ session' = UtteranceReady(session)
      BY <1>3, <2>2
      DEF AudioStep, SuppressListening, WindowExpires, UtteranceHeard,
          UtteranceQueued, EchoCaptured, EchoHandled, HearingOnly, Utterance
    <3> QED
      BY <1>0, <1>2, <3>1, MovesInSession
  <2> QED
    BY <2>1, <2>2
<1>4. ASSUME NEW g \in Greeters,
             GreetingQueued(g) \/ GreetingStarted(g) \/ GreetingEnded(g)
      PROVE  AwaitInv'
  <2>1. CASE GreetingQueued(g)
    BY <1>0, <2>1
    DEF GreetingQueued, convVars, AwaitInv, Expecting, NothingToPlay,
        SpeakingIsAwaited
  <2>2. CASE GreetingStarted(g)
    <3>1. speaking = FALSE => NothingToPlay
      BY <2>2 DEF GreetingStarted
    <3> QED
      BY <1>0, <2>2, <3>1
      DEF GreetingStarted, playVars, convVars, AwaitInv, Expecting,
          NothingToPlay, SpeakingIsAwaited
  <2>3. CASE GreetingEnded(g)
    <3>1. session'.state = "listening"
      BY <1>0, <2>3, MovesInSession DEF GreetingEnded, Greeted
    <3>2. /\ UNCHANGED <<playVars, conv>> /\ greeting[g] = "playback"
          /\ greeting' = [greeting EXCEPT ![g] = "no"]
      BY <2>3 DEF GreetingEnded, Greeted, convVars
    <3>3. Expecting => Expecting'
      BY <1>0, <3>2 DEF Expecting
    <3> QED
      BY <3>1, <3>2, <3>3
      DEF playVars, AwaitInv, NothingToPlay, SpeakingIsAwaited
  <2> QED
    BY <1>4, <2>1, <2>2, <2>3
\* A burst begins only while somebody expects it.
<1>5. CASE PlaybackStep
  <2>1. UNCHANGED <<conv, greeting>>
    BY <1>5
    DEF PlaybackStep, TakeChunk, MergeChunk, BeginBurst, FinishBurst, PlayerOnly,
        convVars
  <2>2. CASE TakeChunk \/ MergeChunk
    BY <1>0, <2>1, <2>2
    DEF TakeChunk, MergeChunk, AwaitInv, Expecting, NothingToPlay,
        SpeakingIsAwaited
  <2>3. CASE BeginBurst
    <3>1. interrupted' = FALSE /\ speaking' = TRUE /\ player = "coalesce"
      BY <2>3 DEF BeginBurst
    <3>2. speaking = FALSE => Expecting
      BY <3>1 DEF AwaitInv, NothingToPlay
    <3>3. Expecting => SpeakingIsAwaited'
      BY <2>1 DEF Expecting, SpeakingIsAwaited
    <3>4. speaking # FALSE => session' = session
      BY <1>0, <2>3, TypeParts, Zenon DEF BeginBurst, Flags
    <3>5. SpeakingIsAwaited'
      BY <2>1, <3>2, <3>3, <3>4 DEF AwaitInv, SpeakingIsAwaited
    <3> QED
      BY <2>1, <3>1, <3>5 DEF AwaitInv
  <2>4. CASE FinishBurst
    <3>1. /\ session' = session /\ interrupted' = interrupted
          /\ speaking' = (chunks > 0)
          /\ chunks > 0 \/ (player' = "get" /\ chunks' = chunks)
      BY <1>0, <2>4 DEF FinishBurst, NextChunk
    <3>2. speaking' = FALSE => ~(chunks > 0)
      BY <3>1
    <3>3. ~(chunks > 0) => NothingToPlay'
      BY <1>0, <3>1 DEF NothingToPlay
    <3> QED
      BY <2>1, <3>1, <3>2, <3>3 DEF AwaitInv, SpeakingIsAwaited
  <2> QED
    BY <1>5, <2>2, <2>3, <2>4 DEF PlaybackStep
<1>6. CASE CoordinatorStep
  <2>1. conv' = conv
    BY <1>6
    DEF CoordinatorStep, PersonSeen, PersonMissing, ConfirmAbsence, convVars
  <2>2. CASE PersonSeen
    <3> DEFINE s == StartWelcome(PersonPresent(session), SomeId)
    <3>1. s \in Sessions /\ s.state = "welcoming"
      BY <1>0, MovesInSession, WelcomeStarts
    <3>2. \/ PersonPresent(session) = session
          \/ PersonPresent(session).state # "speaking"
      <4>1. CASE session.state \in {"idle", "disengaged"}
        BY <1>0, <4>1, MovesInSession
      <4>2. CASE session.state \notin {"idle", "disengaged"}
        BY <4>2 DEF PersonPresent
      <4> QED
        BY <4>1, <4>2
    <3> HIDE DEF s
    <3>3. /\ greeting["coordinator"] = "no"
          /\ \/ StartGreeting("coordinator", s)
             \/ /\ UNCHANGED <<playVars, greeting>>
                /\ session' = s \/ session' = PersonPresent(session)
      BY <2>2 DEF PersonSeen, Attending, s
    <3> QED
      BY <1>1, <1>2, <2>1, <3>1, <3>2, <3>3 DEF Greeters
  <2>3. CASE PersonMissing \/ ConfirmAbsence
    <3>1. /\ UNCHANGED <<playVars, greeting>>
          /\ session' = session \/ session' = PersonAbsent(session)
      BY <2>3 DEF PersonMissing, ConfirmAbsence
    <3> QED
      BY <1>0, <1>2, <2>1, <3>1, AbsenceDisengages
  <2> QED
    BY <1>6, <2>2, <2>3 DEF CoordinatorStep
<1>7. CASE ConversationStep
  <2>1. ASSUME NEW ev \in {"utterance", "welcome"}, TakeEvent(ev)
        PROVE  AwaitInv'
    <3>1. /\ conv.at = "events" /\ conv'.at = "exchange"
          /\ UNCHANGED <<playVars, greeting>>
          /\ \/ session' = session
             \/ session' = Uncounted(NextTurn(session, SomeId))
      BY <2>1 DEF TakeEvent, ConvOnly, Begin
    <3>2. session'.state = session.state
      BY <1>0, <3>1, TurnKeepsState
    <3> QED
      BY <3>1, <3>2
      DEF playVars, AwaitInv, Expecting, NothingToPlay, SpeakingIsAwaited
  <2>2. CASE ReceiveAudio
    <3>1. /\ conv.at = "exchange"
          /\ conv' = [conv EXCEPT !.audio = TRUE]
          /\ UNCHANGED <<session, speaking, interrupted>>
      BY <2>2 DEF ReceiveAudio, Exchanging, AwaitInv
    <3>2. conv'.at = "exchange" /\ conv'.audio = TRUE
      BY <1>0, <3>1, ConvMoves
    <3> QED
      BY <3>1, <3>2 DEF AwaitInv, Expecting, SpeakingIsAwaited
  <2>3. CASE ExchangeSucceeds
    <3>1. /\ conv.at = "exchange"
          /\ UNCHANGED <<session, playVars, greeting>>
          /\ \/ conv' = [conv EXCEPT !.at = "start"]
             \/ /\ conv.audio # TRUE
                /\ conv' = [conv EXCEPT !.at = "playback"]
      BY <2>3 DEF ExchangeSucceeds, Exchanging, GoTo, ConvOnly, AwaitInv
    <3>2. /\ [conv EXCEPT !.at = "start"].at = "start"
          /\ [conv EXCEPT !.at = "start"].audio = conv.audio
          /\ [conv EXCEPT !.at = "playback"].at = "playback"
          /\ [conv EXCEPT !.at = "playback"].audio = conv.audio
      BY <1>0, ConvMoves
    <3>3. /\ conv'.audio = conv.audio
          /\ \/ conv'.at = "start"
             \/ conv'.at = "playback" /\ conv.audio # TRUE
      BY <3>1, <3>2, Zenon
    <3> QED
      BY <3>1, <3>3
      DEF playVars, AwaitInv, Expecting, NothingToPlay, SpeakingIsAwaited
  <2>4. CASE PlaybackStartSeen
    <3>1. /\ UNCHANGED <<session, playVars, greeting>>
          /\ conv' = [conv EXCEPT !.at = "playback"]
          /\ speaking = FALSE => NothingToPlay
      BY <2>4 DEF PlaybackStartSeen, GoTo, ConvOnly
    <3>2. conv'.at = "playback"
      BY <1>0, <3>1, ConvMoves
    <3> QED
      BY <3>1, <3>2
      DEF playVars, AwaitInv, Expecting, NothingToPlay, SpeakingIsAwaited
  <2>5. CASE ExchangeFails \/ PlaybackIdleSeen
    <3>1. /\ EndEvent
          /\ conv.at = "playback" \/ conv.audio # TRUE
      BY <2>5 DEF ExchangeFails, PlaybackIdleSeen, AwaitInv
    <3>2. /\ conv' = [conv EXCEPT !.at = "events"]
          /\ UNCHANGED <<playVars, greeting>>
          /\ \/ session' = FollowupListening(session)
             \/ session' = WelcomePlaybackFinished(session)
      BY <3>1 DEF EndEvent, ListenForFollowup, ConvOnly
    <3>3. conv'.at = "events" /\ session'.state # "speaking"
      BY <1>0, <3>2, ConvMoves, MovesInSession
    <3> QED
      BY <3>1, <3>2, <3>3
      DEF playVars, AwaitInv, Expecting, NothingToPlay, SpeakingIsAwaited
  <2>6. ASSUME InterruptPlayback \/ PlaybackStopped
        PROVE  FALSE
    BY <2>6 DEF InterruptPlayback, PlaybackStopped, AwaitInv
  <2> QED
    BY <1>7, <2>1, <2>2, <2>3, <2>4, <2>5, <2>6 DEF ConversationStep
<1>8. CASE PersonMoves \/ CooldownElapses \/ UNCHANGED vars
  BY <1>2, <1>8 DEF PersonMoves, CooldownElapses, vars, convVars
<1> QED
  BY <1>3, <1>4, <1>5, <1>6, <1>7, <1>8 DEF Next, LocalWelcomeStep

\* As long as answers are not interrupted by speech and listening follows a
\* welcome, a playback that somebody waits for stays so, whatever the server
\* does, but for the exchange that fails after its first audio: no other step
\* of any worker leaves a robot alone that speaks or is about to.
THEOREM PlaybackIsAwaited ==
  ASSUME ~SpeechInterrupt, AutoListen
  PROVE  Spec => AbandonedOnlyByFailure
<1>1. ASSUME TypeOK, TypeOK', UninterruptedInv, UninterruptedInv', [Next]_vars
      PROVE  [PlaybackAwaited =>
                PlaybackAwaited' \/ (ExchangeFails /\ conv.audio)]_vars
  <2>1. conv.audio \in BOOLEAN
    BY <1>1, TypeParts DEF ConvOK, Convs
  <2>2. CASE ExchangeFails /\ conv.audio = TRUE
    BY <2>1, <2>2
  <2>3. CASE ~(ExchangeFails /\ conv.audio = TRUE)
    <3>1. AwaitInv => AwaitInv'
      BY <1>1, <2>3, AwaitStep
    <3>2. PlaybackAwaited <=> AwaitInv
      BY <1>1, AwaitedIsAwaitInv
    <3>3. TypeOK' /\ UninterruptedInv' => (PlaybackAwaited' <=> AwaitInv')
      BY AwaitedIsAwaitInv, PTL
    <3> QED
      BY <1>1, <3>1, <3>2, <3>3
  <2> QED
    BY <2>2, <2>3
<1> QED
  BY <1>1, UninterruptedInvariance, TypeCorrect, PTL
  DEF Spec, AbandonedOnlyByFailure
=============================================================================
