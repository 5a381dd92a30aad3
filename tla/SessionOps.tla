----------------------------- MODULE SessionOps -----------------------------
(***************************************************************************)
(* The operations of the edge session controller (ai_robot_edge.session)   *)
(* as functions from session record to session record.  Every critical     *)
(* section of the controller runs without awaiting inside its lock, so an  *)
(* operation is atomic on the event loop and can be composed with whatever *)
(* else its caller does before the next await.                             *)
(*                                                                         *)
(* A session id is a positive number; NoSession stands for None.  The      *)
(* caller supplies the id a fresh uuid4() would return.                    *)
(***************************************************************************)
EXTENDS Naturals

CONSTANT WelcomeOnce  \* VoiceConfig.welcome_once_per_session

ASSUME WelcomeOnceAssumption == WelcomeOnce \in BOOLEAN

States == {"idle", "tracking", "welcoming", "listening", "thinking",
           "speaking", "followup_listening", "disengaged"}

Reasons == {"startup", "person_present", "welcome_triggered",
            "welcome_playback_finished", "response_playback_finished",
            "utterance_ready", "playback_started", "person_absent",
            "listen_timeout"}

NoSession == 0

\* A session the coordinator may greet, or close when nobody is seen.
Unengaged == {"idle", "tracking", "disengaged"}

NewController ==
  [state |-> "idle", reason |-> "startup",
   id |-> NoSession, turn |-> 0, welcomed |-> FALSE]

Transition(s, to, why) == [s EXCEPT !.state = to, !.reason = why]

PersonPresent(s) ==
  IF s.state \in {"idle", "disengaged"}
  THEN Transition(s, "tracking", "person_present") ELSE s

\* A restart of the record: what note_person_absent and next_turn_context do
\* to the three fields that belong to one session.
Renew(s, id) == [s EXCEPT !.id = id, !.turn = 0, !.welcomed = FALSE]

CanWelcome(s) ==
  /\ ~(WelcomeOnce /\ s.id # NoSession /\ s.welcomed)
  /\ s.state \in Unengaged

\* Mutant: a welcome starts the turn count of an open session again.
StartWelcomeRestarts(s, fresh) ==
  LET open == Renew(s, IF s.id = NoSession THEN fresh ELSE s.id)
  IN  [Transition(open, "welcoming", "welcome_triggered")
         EXCEPT !.welcomed = TRUE]

\* Mutant: a welcome always opens a session.
StartWelcomeOpens(s, fresh) ==
  [Transition(Renew(s, fresh), "welcoming", "welcome_triggered")
     EXCEPT !.welcomed = TRUE]

StartWelcome(s, fresh) ==
  LET open == IF s.id = NoSession THEN Renew(s, fresh) ELSE s
  IN  [Transition(open, "welcoming", "welcome_triggered")
         EXCEPT !.welcomed = TRUE]

WelcomePlaybackFinished(s) ==
  Transition(s, "listening", "welcome_playback_finished")

FollowupListening(s) ==
  Transition(s, "followup_listening", "response_playback_finished")

UtteranceReady(s) == Transition(s, "thinking", "utterance_ready")

PlaybackStarted(s) == Transition(s, "speaking", "playback_started")

RecoverToTracking(s) == Transition(s, "tracking", "listen_timeout")

AcceptsAbsence(s, force) == force \/ s.state \in Unengaged

PersonAbsent(s) ==
  Transition(Renew(s, NoSession), "disengaged", "person_absent")

\* Mutant: every turn clears the welcome flag, not only one that opens a
\* session.
NextTurnForgetsWelcome(s, fresh) ==
  [s EXCEPT !.id = IF @ = NoSession THEN fresh ELSE @,
            !.welcomed = FALSE, !.turn = @ + 1]

NextTurn(s, fresh) ==
  LET open == IF s.id = NoSession THEN Renew(s, fresh) ELSE s
  IN  [open EXCEPT !.turn = @ + 1]
=============================================================================
