------------------------ MODULE InteractionCoordinator ------------------------
(***************************************************************************)
(* The interaction coordinator (ai_robot_edge.interaction.coordinator):    *)
(* one step per vision event, and the task that confirms an absence after  *)
(* a delay.                                                                *)
(***************************************************************************)
EXTENDS LocalWelcomeFlow

\* The coordinator plays a greeting inline and handles no event meanwhile.
Attending == greeting["coordinator"] = "no"

Counted(n) == IF n < StableFrames THEN n + 1 ELSE n

\* _arm_presence_if_session_allows, which only the local welcome calls.
PresenceArmed(s) ==
  IF LocalWelcome /\ s.state \in {"tracking", "listening", "followup_listening"}
  THEN "presence" ELSE mic

\* PERSON_PRESENT: the absence timer is cancelled, and a stable presence is
\* greeted when the cooldown and the session allow it.
PersonSeen ==
  LET s == PersonPresent(session)
      stable == presentFrames + 1 >= StableFrames
      greets == stable /\ cooled /\ CanWelcome(s)
      welcoming == StartWelcome(s, SomeId)
  IN
  /\ Attending /\ person
  /\ presentFrames' = Counted(presentFrames) /\ absentFrames' = 0
  /\ absence' = FALSE /\ idleSent' = FALSE /\ idleActions' = 0
  /\ \/ /\ ~greets
        /\ session' = s
        /\ mic' = IF stable THEN PresenceArmed(s) ELSE mic
        /\ UNCHANGED <<cooled, playVars, welcomes, greeting>>
     \/ /\ greets /\ LocalWelcome
        /\ cooled' = FALSE
        /\ StartGreeting("coordinator", welcoming)
        /\ UNCHANGED welcomes
     \/ /\ greets /\ ~LocalWelcome /\ welcomes < ConversationQueueSize
        /\ cooled' = FALSE
        /\ session' = welcoming
        /\ welcomes' = welcomes + 1
        /\ UNCHANGED <<mic, playVars, greeting>>
  /\ UNCHANGED <<person, audio, echo, conv, utterances>>

\* Mutant: the timer runs once per absence.
PersonMissingOnce ==
  /\ Attending /\ ~person
  /\ presentFrames' = 0 /\ absentFrames' = Counted(absentFrames)
  /\ absence' = (absence \/ (absentFrames + 1 >= StableFrames /\ ~idleSent))
  /\ UNCHANGED <<session, micVars, playVars, convVars, greeting, person,
                 cooled, idleSent, idleActions>>

\* PERSON_ABSENT: a stable absence starts the timer, once.
PersonMissing ==
  /\ Attending /\ ~person
  /\ presentFrames' = 0 /\ absentFrames' = Counted(absentFrames)
  /\ absence' = (absence \/ absentFrames + 1 >= StableFrames)
  /\ UNCHANGED <<session, micVars, playVars, convVars, greeting, person,
                 cooled, idleSent, idleActions>>

\* _confirm_absence_after_delay: a local welcome forces the absence, else an
\* active session rejects it and the next event starts the timer again.
ConfirmAbsence ==
  /\ absence
  /\ absence' = FALSE
  /\ IF AcceptsAbsence(session, LocalWelcome)
     THEN /\ session' = PersonAbsent(session)
          /\ mic' = "off"
          /\ idleSent' = TRUE
          /\ idleActions' = IF idleSent \/ idleActions = 2 THEN idleActions
                            ELSE idleActions + 1
     ELSE UNCHANGED <<session, mic, idleSent, idleActions>>
  /\ UNCHANGED <<audio, echo, playVars, convVars, greeting, person, cooled,
                 presentFrames, absentFrames>>

CoordinatorStep == PersonSeen \/ PersonMissing \/ ConfirmAbsence
=============================================================================
