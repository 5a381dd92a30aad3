-------------------------- MODULE SessionController --------------------------
(***************************************************************************)
(* The session controller as an object: its operations called in any       *)
(* order, by the coordinator, the wake-word handler, the audio worker, the *)
(* playback worker, the conversation worker and the absence timer.  What   *)
(* is shown here holds whatever the callers do; EdgeVoice restricts the    *)
(* order to the one the workers produce.                                   *)
(*                                                                         *)
(* session    the controller's fields                                      *)
(* published  what on_update last stored in runtime_state (admin page)     *)
(* opened     history: how many session ids were generated                 *)
(* greetings  history: welcomes started in each session                    *)
(* contexts   history: turn contexts handed out in each session            *)
(***************************************************************************)
EXTENDS SessionOps

CONSTANTS MaxSessions,  \* bound: session ids a behaviour may generate
          MaxTurns,     \* bound: turn contexts per session
          MaxGreetings  \* bound: welcomes counted per session

ASSUME BoundsAssumption ==
  MaxSessions \in Nat /\ MaxTurns \in Nat /\ MaxGreetings \in Nat

VARIABLES session, published, opened, greetings, contexts

vars == <<session, published, opened, greetings, contexts>>

Ids == 1..MaxSessions

Fresh == opened + 1

Snapshot(s) ==
  [state |-> s.state, reason |-> s.reason, id |-> s.id, turn |-> s.turn]

Init ==
  /\ session = NewController
  /\ published = Snapshot(NewController)
  /\ opened = 0
  /\ greetings = [i \in Ids |-> 0]
  /\ contexts = [i \in Ids |-> 0]

\* Mutant: a change of the reason alone is not published.
PublishStateOnly ==
  published' = IF session'.state # session.state
               THEN Snapshot(session') ELSE published

\* transition() notifies only when the state or the reason changed.
Publish ==
  published' = IF \/ session'.state # session.state
                  \/ session'.reason # session.reason
               THEN Snapshot(session') ELSE published

\* An operation that neither opens a session nor serves it.
Move(s) ==
  /\ session' = s
  /\ Publish
  /\ UNCHANGED <<opened, greetings, contexts>>

NotePersonPresent == Move(PersonPresent(session))

NoteWelcomePlaybackFinished == Move(WelcomePlaybackFinished(session))

NoteFollowupListening == Move(FollowupListening(session))

NoteUtteranceReady == Move(UtteranceReady(session))

NotePlaybackStarted == Move(PlaybackStarted(session))

ListeningExpired == Move(RecoverToTracking(session))

NotePersonAbsent(force) ==
  /\ AcceptsAbsence(session, force)
  /\ Move(PersonAbsent(session))

\* The ids a call may draw: a fresh uuid when there is no session.
Draw ==
  /\ session.id = NoSession => opened < MaxSessions
  /\ opened' = IF session.id = NoSession THEN Fresh ELSE opened

TryStartWelcome ==
  /\ CanWelcome(session)
  /\ Draw
  /\ session' = StartWelcome(session, Fresh)
  /\ greetings[session'.id] < MaxGreetings
  /\ greetings' = [greetings EXCEPT ![session'.id] = @ + 1]
  /\ Publish
  /\ UNCHANGED contexts

NextTurnContext ==
  /\ Draw
  /\ session' = NextTurn(session, Fresh)
  /\ contexts[session'.id] < MaxTurns
  /\ contexts' = [contexts EXCEPT ![session'.id] = @ + 1]
  /\ published' = Snapshot(session')
  /\ UNCHANGED greetings

Next ==
  \/ NotePersonPresent
  \/ TryStartWelcome
  \/ NoteWelcomePlaybackFinished
  \/ NoteFollowupListening
  \/ NoteUtteranceReady
  \/ NotePlaybackStarted
  \/ \E force \in BOOLEAN : NotePersonAbsent(force)
  \/ ListeningExpired
  \/ NextTurnContext

Spec == Init /\ [][Next]_vars

-----------------------------------------------------------------------------

Sessions ==
  [state : States, reason : Reasons, id : 0..MaxSessions,
   turn : Nat, welcomed : BOOLEAN]

Snapshots ==
  [state : States, reason : Reasons, id : 0..MaxSessions, turn : Nat]

\* The fields keep their types, and ids are the ones generated so far.
TypeOK ==
  /\ session \in Sessions
  /\ published \in Snapshots
  /\ opened \in 0..MaxSessions
  /\ greetings \in [Ids -> Nat]
  /\ contexts \in [Ids -> Nat]
  /\ session.id <= opened

\* With welcome_once_per_session a session is greeted at most once, however
\* the calls of the workers interleave: the flag try_start_welcome reads is
\* also cleared by note_person_absent and by next_turn_context.
WelcomeOncePerSession ==
  WelcomeOnce => \A i \in Ids : greetings[i] <= 1

\* The n-th turn context handed out for a session carries turn_index n: a
\* welcome in the middle of a session, an absence or a turn that opens the
\* session itself never make two contexts of one session share an index.
TurnIndexCountsContexts ==
  session.id # NoSession => session.turn = contexts[session.id]

\* A robot that is greeting has an open session marked as greeted, so that
\* the turn that follows belongs to the session of the welcome.
WelcomingHasSession ==
  session.state = "welcoming" => session.id # NoSession /\ session.welcomed

\* The state shown by the admin page is the controller's; the session id and
\* turn shown are the controller's too, except after a second confirmed
\* absence, which clears the session without a notification.
PublishedCurrent ==
  /\ published.state = session.state
  /\ published.reason = session.reason
  /\ session.state # "disengaged" => published = Snapshot(session)

\* A session is never replaced by another: it ends by an absence, and the
\* controller is disengaged when it does.
SessionEndsByAbsence ==
  [][session.id # NoSession /\ session'.id # session.id
       => session'.id = NoSession /\ session'.state = "disengaged"]_vars
=============================================================================
