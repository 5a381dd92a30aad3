---------------------------- MODULE PlaybackWorker ----------------------------
(***************************************************************************)
(* The playback worker (ai_robot_edge.playback), with the queue of chunks  *)
(* as a number: chunks have no identity here, so the order of playback is  *)
(* not a subject of this module.                                           *)
(***************************************************************************)
EXTENDS EdgeState

PlayerOnly == UNCHANGED <<micVars, convVars, greeting, visionVars>>

TakeChunk ==
  /\ player = "get" /\ chunks > 0
  /\ chunks' = chunks - 1 /\ player' = "coalesce"
  /\ PlayerOnly /\ UNCHANGED <<session, speaking, interrupted>>

\* _coalesce_chunks merges what arrives within its window.
MergeChunk ==
  /\ player = "coalesce" /\ chunks > 0
  /\ chunks' = chunks - 1
  /\ PlayerOnly /\ UNCHANGED <<session, player, speaking, interrupted>>

\* The loop goes on: a get() on a queue that is not empty does not wait.
NextChunk ==
  IF chunks > 0 THEN chunks' = chunks - 1 /\ player' = "coalesce"
                ELSE UNCHANGED chunks /\ player' = "get"

\* The burst is ready: mark the robot as speaking and play, unless an
\* interruption was requested, at whatever time since the last check.  The
\* burst is then dropped and the events stay as they were just set.
BeginBurst ==
  /\ player = "coalesce"
  /\ speaking' = TRUE
  /\ session' = IF speaking THEN session ELSE PlaybackStarted(session)
  /\ IF interrupted THEN NextChunk ELSE player' = "play" /\ UNCHANGED chunks
  /\ interrupted' = FALSE
  /\ PlayerOnly

\* Mutant: the events are not looked at when the queue ran empty.
FinishWithoutIdle ==
  /\ player = "play"
  /\ NextChunk
  /\ PlayerOnly /\ UNCHANGED <<session, speaking, interrupted>>

\* play() returns, is stopped, or raises and the burst is dropped; the robot
\* is idle when nothing is queued behind it.
FinishBurst ==
  /\ player = "play"
  /\ speaking' = (chunks > 0)
  /\ NextChunk
  /\ PlayerOnly /\ UNCHANGED <<session, interrupted>>

PlaybackStep == TakeChunk \/ MergeChunk \/ BeginBurst \/ FinishBurst
=============================================================================
