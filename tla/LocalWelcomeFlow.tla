--------------------------- MODULE LocalWelcomeFlow ---------------------------
(***************************************************************************)
(* queue_local_welcome of EdgeApp.run: the greeting the edge plays itself. *)
(* It runs inline in whoever started the welcome, the coordinator or the   *)
(* wake-word handler of the audio worker, which does nothing else until    *)
(* the greeting is over.                                                   *)
(***************************************************************************)
EXTENDS EdgeState

\* The greeting is over, or there is no audio file for it.
Greeted(g, s) ==
  /\ session' = WelcomePlaybackFinished(s)
  /\ mic' = "presence"
  /\ greeting' = [greeting EXCEPT ![g] = "no"]

\* From the call to its first await, on the session s that just started the
\* welcome.
StartGreeting(g, s) ==
  \/ Greeted(g, s) /\ UNCHANGED playVars
  \/ /\ session' = s
     /\ IF chunks < TtsQueueSize
        THEN chunks' = chunks + 1 /\ greeting' = [greeting EXCEPT ![g] = "start"]
        ELSE UNCHANGED chunks /\ greeting' = [greeting EXCEPT ![g] = "put"]
     /\ UNCHANGED <<mic, player, speaking, interrupted>>

GreetingQueued(g) ==
  /\ greeting[g] = "put" /\ chunks < TtsQueueSize
  /\ chunks' = chunks + 1
  /\ greeting' = [greeting EXCEPT ![g] = "start"]
  /\ UNCHANGED <<session, micVars, player, speaking, interrupted, convVars,
                 visionVars>>

\* _wait_for_playback_cycle: wait for playback_active, for 1 s at most ...
GreetingStarted(g) ==
  /\ greeting[g] = "start" /\ (speaking \/ NothingToPlay)
  /\ greeting' = [greeting EXCEPT ![g] = "playback"]
  /\ UNCHANGED <<session, micVars, playVars, convVars, visionVars>>

\* ... then for playback_idle.
GreetingEnded(g) ==
  /\ greeting[g] = "playback" /\ ~speaking
  /\ Greeted(g, session)
  /\ UNCHANGED <<audio, echo, playVars, convVars, visionVars>>

LocalWelcomeStep ==
  \E g \in Greeters : GreetingQueued(g) \/ GreetingStarted(g) \/ GreetingEnded(g)
=============================================================================
