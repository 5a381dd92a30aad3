----------------------------- MODULE SpeechQueue -----------------------------
(***************************************************************************)
(* What becomes of every chunk of speech: the playback worker              *)
(* (ai_robot_edge.playback) with the queue it shares with the client and   *)
(* the local greeting, chunk by chunk.  EdgeVoice has the same worker with *)
(* chunks that are only counted, and with the sessions around it.          *)
(*                                                                         *)
(* queue, burst   chunks waiting, and the ones merged so far               *)
(* hand           the chunk a timed get has taken out, Nothing without one *)
(* player         "get"     waiting for a chunk                            *)
(*                "window"  collecting what arrives within 0.12 s          *)
(*                "hand"    the timed get has a chunk; its caller runs     *)
(*                          later (wait_for of Python 3.10, which          *)
(*                          install_edge.sh installs, runs it as a task)   *)
(*                "begin", "next"  about to begin, about to get: no await  *)
(*                          before the next step                           *)
(*                "hook"    on_playback_started                            *)
(*                "play"    speaker.play                                   *)
(*                "dead"    run() has raised, and the application ends     *)
(* speaking       playback_active, and the opposite of playback_idle       *)
(* client         the conversation worker receives the answer, waits for   *)
(*                its start, for its end ("idle"), or for speaker.stop     *)
(* turn, sent     which answer, and how much of it was put                 *)
(* barged         this turn has begun with an interruption                 *)
(*                                                                         *)
(* A chunk is its turn, its number in the answer, and its format: the      *)
(* media type that the server announces with it, which the TTS service     *)
(* that spoke it decides (the sample rate and the channels are always the  *)
(* session's).                                                             *)
(*                                                                         *)
(* heard and lost keep what was played and what was dropped, returned the  *)
(* chunks that were put back; discarded and interrupts count the bursts    *)
(* dropped and the interruptions.                                          *)
(***************************************************************************)
EXTENDS Naturals, Sequences

CONSTANTS
  MaxTurn, MaxChunks,  \* bounds: turns, and chunks of an answer
  QueueSize,           \* the capacity of tts_queue
  Formats,             \* the media types of answers
  Nothing

ASSUME SpeechAssumption ==
  /\ MaxTurn \in Nat \ {0} /\ MaxChunks \in Nat
  /\ QueueSize \in Nat \ {0}

VARIABLES queue, burst, hand, player, speaking, interrupted,
          client, turn, sent, barged, greeted,
          heard, lost, returned, discarded, interrupts

playerVars == <<burst, hand, player, speaking, heard, returned, discarded>>
clientVars == <<client, turn, sent, barged, interrupts>>
vars == <<playerVars, clientVars, queue, interrupted, greeted, lost>>

\* A local greeting ("turn" 0) is one chunk, and always WAV.
Answers == (1..MaxTurn) \X (1..MaxChunks) \X Formats
Greeting == <<0, 1, "wav">>
Chunks == Answers \cup {Greeting}

ASSUME NothingAssumption == Nothing \notin Chunks

Wav(c) == c[3] = "wav"

\* Mutant: a chunk only fits itself.
SameChunk(left, right) == left = right

\* _is_compatible.
Compatible(left, right) == ~Wav(right) /\ left[3] = right[3]

Elements(s) == {s[i] : i \in DOMAIN s}
Settled == Elements(heard) \cup lost

TypeOK ==
  /\ queue \in Seq(Chunks) /\ Len(queue) <= QueueSize
  /\ burst \in Seq(Chunks) /\ heard \in Seq(Chunks)
  /\ \A i \in DOMAIN burst : Wav(burst[i]) => Len(burst) = 1
  /\ hand \in Chunks \cup {Nothing}
  /\ lost \subseteq Chunks /\ returned \subseteq Chunks
  /\ (hand # Nothing) <=> (player \in {"hand", "dead"})
  /\ player \in {"get", "window", "hand", "begin", "next", "hook", "play", "dead"}
  /\ (burst = <<>>) <=> (player \in {"get", "next"})
  /\ client \in {"receive", "start", "idle", "stop", "done"}
  /\ turn \in 1..MaxTurn + 1 /\ sent \in 0..MaxChunks
  /\ speaking \in BOOLEAN /\ interrupted \in BOOLEAN
  /\ barged \in BOOLEAN /\ greeted \in BOOLEAN
  /\ discarded \in Nat /\ interrupts \in Nat

Init ==
  /\ queue = <<>> /\ burst = <<>> /\ hand = Nothing /\ player = "get"
  /\ speaking = FALSE /\ interrupted = FALSE
  /\ client = "receive" /\ turn = 1 /\ sent = 0 /\ barged = FALSE
  /\ greeted = FALSE
  /\ heard = <<>> /\ lost = {} /\ returned = {}
  /\ discarded = 0 /\ interrupts = 0

-----------------------------------------------------------------------------

\* The playback worker.  A get on a queue that is not empty does not wait.
GetChunk ==
  /\ player \in {"get", "next"} /\ queue # <<>>
  /\ queue' = Tail(queue) /\ burst' = <<Head(queue)>>
  /\ player' = IF Wav(Head(queue)) THEN "begin" ELSE "window"
  /\ UNCHANGED <<returned, hand, speaking, heard, discarded, interrupted, lost>>

WaitForChunk ==
  /\ player = "next" /\ queue = <<>>
  /\ player' = "get"
  /\ UNCHANGED <<returned, queue, burst, hand, speaking, heard, discarded, interrupted, lost>>

TimedGet ==
  /\ player = "window" /\ queue # <<>>
  /\ hand' = Head(queue) /\ queue' = Tail(queue) /\ player' = "hand"
  /\ UNCHANGED <<returned, burst, speaking, heard, discarded, interrupted, lost>>

Merge ==
  /\ player = "hand" /\ Compatible(Head(burst), hand)
  /\ burst' = Append(burst, hand) /\ hand' = Nothing /\ player' = "window"
  /\ UNCHANGED <<returned, queue, speaking, heard, discarded, interrupted, lost>>

\* Mutant: a chunk that does not fit is not put back.
PutBackNothing ==
  /\ player = "hand" /\ ~Compatible(Head(burst), hand)
  /\ hand' = Nothing /\ player' = "begin"
  /\ UNCHANGED <<returned, queue, burst, speaking, heard, discarded, interrupted, lost>>

\* A chunk that does not fit goes to the tail of the queue, if there is
\* room; a producer that waited may have taken its place.
PutBack ==
  /\ player = "hand" /\ ~Compatible(Head(burst), hand)
  /\ IF Len(queue) < QueueSize
     THEN /\ queue' = Append(queue, hand) /\ returned' = returned \cup {hand}
          /\ hand' = Nothing /\ player' = "begin"
     ELSE player' = "dead" /\ UNCHANGED <<queue, hand, returned>>
  /\ UNCHANGED <<burst, speaking, heard, discarded, interrupted, lost>>

WindowEnds ==
  /\ player = "window" /\ player' = "begin"
  /\ UNCHANGED <<returned, queue, burst, hand, speaking, heard, discarded, interrupted, lost>>

\* An interruption since the last look drops the burst.
PlayOrDrop ==
  IF interrupted
  THEN /\ player' = "next" /\ burst' = <<>>
       /\ lost' = lost \cup Elements(burst) /\ discarded' = discarded + 1
       /\ interrupted' = FALSE
  ELSE player' = "play" /\ UNCHANGED <<burst, lost, discarded, interrupted>>

\* The robot counts as speaking; if it did not, on_playback_started is
\* awaited first.
Begin ==
  /\ player = "begin"
  /\ speaking' = TRUE
  /\ IF speaking THEN PlayOrDrop
     ELSE player' = "hook" /\ UNCHANGED <<burst, lost, discarded, interrupted>>
  /\ UNCHANGED <<returned, queue, hand, heard>>

Started ==
  /\ player = "hook"
  /\ PlayOrDrop
  /\ UNCHANGED <<returned, queue, hand, speaking, heard>>

\* Mutant: the robot is idle between any two bursts.
EndBurstIdle ==
  /\ player = "play"
  /\ \/ heard' = heard \o burst /\ UNCHANGED lost
     \/ lost' = lost \cup Elements(burst) /\ UNCHANGED heard
  /\ speaking' = FALSE
  /\ burst' = <<>> /\ player' = "next"
  /\ UNCHANGED <<returned, queue, hand, discarded, interrupted>>

\* play() returns at its end or after speaker.stop, or raises and the burst
\* is dropped.  The robot is idle when nothing waits.
EndBurst ==
  /\ player = "play"
  /\ \/ heard' = heard \o burst /\ UNCHANGED lost
     \/ lost' = lost \cup Elements(burst) /\ UNCHANGED heard
  /\ speaking' = (queue # <<>>)
  /\ burst' = <<>> /\ player' = "next"
  /\ UNCHANGED <<returned, queue, hand, discarded, interrupted>>

PlayerStep ==
  /\ GetChunk \/ WaitForChunk \/ TimedGet \/ Merge \/ PutBack \/ WindowEnds
     \/ Begin \/ Started \/ EndBurst
  /\ UNCHANGED <<clientVars, greeted>>

-----------------------------------------------------------------------------

ClientOnly == UNCHANGED <<playerVars, greeted>>

\* queue.put waits for room.
Put(c) == Len(queue) < QueueSize /\ queue' = Append(queue, c)

ReceiveChunk ==
  /\ client = "receive" /\ sent < MaxChunks
  /\ \E f \in Formats : Put(<<turn, sent + 1, f>>)
  /\ sent' = sent + 1
  /\ ClientOnly /\ UNCHANGED <<client, turn, barged, interrupts, interrupted, lost>>

\* Whatever follows is another turn.
NextTurn(b) ==
  /\ turn' = turn + 1 /\ sent' = 0 /\ barged' = b
  /\ client' = IF turn < MaxTurn THEN "receive" ELSE "done"

\* The answer is complete.  Only an answer with audio is waited for, and one
\* to an interruption is not waited for to start.
ExchangeEnds ==
  /\ client = "receive"
  /\ client' = IF sent > 0 /\ ~barged THEN "start" ELSE "idle"
  /\ ClientOnly
  /\ UNCHANGED <<turn, sent, barged, interrupts, queue, interrupted, lost>>

\* The answer fails, and nobody waits for the part of it that was put.
ExchangeFails ==
  /\ client = "receive" /\ ~barged
  /\ NextTurn(FALSE)
  /\ ClientOnly /\ UNCHANGED <<interrupts, queue, interrupted, lost>>

\* _await_playback_start.  It gives up after 1 s, in which a chunk that
\* waits is taken and the window around it is closed.
PlaybackStartSeen ==
  /\ client = "start"
  /\ speaking \/ (player = "get" /\ queue = <<>>)
  /\ client' = "idle"
  /\ ClientOnly
  /\ UNCHANGED <<turn, sent, barged, interrupts, queue, interrupted, lost>>

PlaybackIdleSeen ==
  /\ client = "idle" /\ ~speaking
  /\ NextTurn(FALSE)
  /\ ClientOnly /\ UNCHANGED <<interrupts, queue, interrupted, lost>>

\* interrupt(): the user speaks while the robot does.
InterruptPlayback ==
  /\ client = "idle" /\ speaking
  /\ interrupted' = TRUE /\ interrupts' = interrupts + 1
  /\ lost' = lost \cup Elements(queue) /\ queue' = <<>>
  /\ client' = "stop"
  /\ ClientOnly /\ UNCHANGED <<turn, sent, barged>>

\* speaker.stop() has returned, and the next turn is under way.
PlaybackStopped ==
  /\ client = "stop"
  /\ NextTurn(TRUE)
  /\ ClientOnly /\ UNCHANGED <<interrupts, queue, interrupted, lost>>

\* The local greeting, at any time: an absence that ends the session does
\* not end the answer.
QueueLocalWelcome ==
  /\ ~greeted /\ greeted' = TRUE
  /\ Put(Greeting)
  /\ UNCHANGED <<playerVars, clientVars, interrupted, lost>>

ClientStep ==
  \/ ReceiveChunk \/ ExchangeEnds \/ ExchangeFails
  \/ PlaybackStartSeen \/ PlaybackIdleSeen
  \/ InterruptPlayback \/ PlaybackStopped

Next ==
  \/ PlayerStep
  \/ /\ player \notin {"begin", "next", "dead"}
     /\ ClientStep \/ QueueLocalWelcome

Spec == Init /\ [][Next]_vars

\* The event loop runs the worker, and the speaker comes to an end.
Fairness == WF_vars(PlayerStep)

FairSpec == Spec /\ Fairness

-----------------------------------------------------------------------------

Precedes(c, d) == c[1] < d[1] \/ (c[1] = d[1] /\ c[2] < d[2])

\* A chunk that was put back had met a burst of another format, which was
\* not WAV.
Misfit(c) ==
  /\ c \in returned
  /\ \E e \in Elements(burst) \cup Settled : ~Wav(e) /\ e[3] # c[3]

\* What the server says is heard in its order, within one answer and between
\* answers, but for a chunk that was put back because formats are mixed: of
\* two chunks, the one sent first is heard first unless it was put back.  An
\* answer in one format is in order, whatever the greeting does.
AnswersInOrder ==
  \A i, j \in DOMAIN heard :
    i < j /\ heard[i] \in Answers /\ heard[j] \in Answers =>
      Precedes(heard[i], heard[j]) \/ Misfit(heard[j])

\* An interruption costs, besides what is queued, one burst at most: the
\* flag it leaves is used once.
OneBurstPerInterruption == discarded <= interrupts

\* The conversation worker that takes an answer for played and goes on has
\* waited for all of it; not so after an interruption, whose answer may
\* still be in the window.
AnswerWasPlayed ==
  [][PlaybackIdleSeen /\ ~barged =>
       \A n \in 1..sent :
         \E f \in Formats : <<turn, n, f>> \in Settled]_vars

\* Whatever is put is heard or dropped in the end, the greeting that is put
\* back again and again included, unless the worker does not survive a
\* queue that is full.
EverythingSettles ==
  \A c \in Chunks :
    c \in Elements(queue) ~> c \in Settled \/ player = "dead"
=============================================================================
