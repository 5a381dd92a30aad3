------------------------------ MODULE VoiceTurn ------------------------------
(***************************************************************************)
(* One exchange between the edge and the server: _EdgeConversationSession  *)
(* (ai_robot_server.app) with its two tasks, the one that streams the      *)
(* answer and the one that synthesizes and sends its segments, the         *)
(* orchestrator's streams, and the edge's _receive_until_done.             *)
(*                                                                         *)
(* Text is counted in words 1, 2, ...; a delta is a word, or blank, and    *)
(* may end a segment (a delta of several words is that many deltas here).  *)
(* A segment is the interval of its words.                                 *)
(*                                                                         *)
(* main       where the session's task stands                              *)
(* produced   words in full_answer_parts                                   *)
(* cut        words that have left segment_buffer                          *)
(* streamed   streaming_segments_queued                                    *)
(* fallback   the fallback answer of stream_answer: not needed, about to   *)
(*            be produced, or being given                                  *)
(* queue      the segments' queue between the two tasks                    *)
(* tts        where the other task stands, and with which segment          *)
(* wire       frames on their way to the edge that mean something to it    *)
(* link       "up", or "closed" by the edge or by a fault                  *)
(* edge       the edge's result, "open" while it receives                  *)
(* meta       tts_meta: none, or whether the announced audio is final      *)
(* heard      words put on the edge's speech queue, in order               *)
(* recorded   the turn is in the conversation history                      *)
(* activity   what the monitor shows of this device                        *)
(***************************************************************************)
EXTENDS Naturals, Sequences

CONSTANT MaxWords  \* bound on the words of an answer

ASSUME BoundAssumption == MaxWords \in Nat \ {0}

VARIABLES main, produced, cut, streamed, fallback, queue, tts, wire, link,
          edge, meta, heard, recorded, activity

answerVars == <<produced, cut, streamed, fallback>>
edgeVars == <<edge, meta, heard>>
vars == <<main, answerVars, queue, tts, wire, link, edgeVars, recorded,
          activity>>

Segment(a, b, final) == [from |-> a, to |-> b, final |-> final]
NoSegment == Segment(0, 0, FALSE)
EndOfSegments == NoSegment

Words(s) == [k \in 1..(s.to + 1 - s.from) |-> s.from + k - 1]

Announce(s) == [kind |-> "tts", segment |-> s]
Audio(s) == [kind |-> "audio", segment |-> s]
ErrorFrame == [kind |-> "error", segment |-> NoSegment]

Over == main \in {"done", "failed", "refused", "escaped"}

Init ==
  /\ main \in {"audio", "welcome"}
  /\ produced = 0 /\ cut = 0 /\ streamed = FALSE /\ fallback = "no"
  /\ queue = <<>>
  /\ tts = [at |-> "none", segment |-> NoSegment]
  /\ wire = <<>> /\ link = "up"
  /\ edge = "open" /\ meta = "none" /\ heard = <<>>
  /\ recorded = FALSE
  /\ activity = IF main = "audio" THEN "busy" ELSE "idle"

-----------------------------------------------------------------------------
\* Sending.  A send on a link that has been closed is swallowed or raises;
\* only the frames the edge acts on are put on the wire.

Send(frames) ==
  wire' = IF link = "up" THEN wire \o frames ELSE wire

SendRaises == link = "closed"

\* Mutant: the TTS task is left alone.
StopTtsNot == UNCHANGED tts

\* The cancellation of tts_task, which is waited for.
StopTts ==
  tts' = IF tts.at \in {"get", "synth", "audio"}
         THEN [tts EXCEPT !.at = "cancelled"] ELSE tts

\* The except clauses: cancel the TTS task, show the error, send an error
\* frame; when that raises as well the exception leaves the session.
Fail ==
  /\ StopTts
  /\ activity' = IF main = "welcome" THEN activity ELSE "error"
  /\ \/ Send(<<ErrorFrame>>) /\ main' = "failed"
     \/ SendRaises /\ UNCHANGED wire /\ main' = "escaped"
  /\ UNCHANGED <<answerVars, queue, link, edgeVars, recorded>>

-----------------------------------------------------------------------------
\* finish_audio

\* No audio has been received: nothing but an error frame.
EmptyAudio ==
  /\ main = "audio"
  /\ main' = "refused"
  /\ \/ Send(<<ErrorFrame>>)
     \/ SendRaises /\ UNCHANGED wire
  /\ UNCHANGED <<answerVars, queue, tts, link, edgeVars, recorded, activity>>

\* The question is transcribed and sent; the two tasks start.
Transcribe ==
  /\ main = "audio"
  /\ main' = "stream"
  /\ tts' = [tts EXCEPT !.at = "get"]
  /\ UNCHANGED <<answerVars, queue, wire, link, edgeVars, recorded, activity>>

TranscriptionFails == main = "audio" /\ Fail

\* Mutant: a queued segment stays in the buffer.
SplitKeepsBuffer(n, ends) ==
  /\ UNCHANGED cut
  /\ IF ends /\ cut < n
     THEN queue' = Append(queue, Segment(cut + 1, n, FALSE)) /\ streamed' = TRUE
     ELSE UNCHANGED <<queue, streamed>>

\* Mutant: the first segment is announced as final.
SplitFirstFinal(n, ends) ==
  IF ends /\ cut < n
  THEN /\ queue' = Append(queue, Segment(cut + 1, n, ~streamed))
       /\ cut' = n /\ streamed' = TRUE
  ELSE UNCHANGED <<queue, cut, streamed>>

\* _split_ready_tts_segments on the n words so far: a segment that is not
\* blank is queued.
Split(n, ends) ==
  IF ends /\ cut < n
  THEN /\ queue' = Append(queue, Segment(cut + 1, n, FALSE))
       /\ cut' = n /\ streamed' = TRUE
  ELSE UNCHANGED <<queue, cut, streamed>>

\* One delta: sent as llm.partial, which waits while the TTS task is between
\* its two sends, and split.
Delta(word, ends) ==
  /\ main = "stream" /\ tts.at # "audio"
  /\ produced + word <= MaxWords
  /\ produced' = produced + word
  /\ Split(produced', ends)
  /\ fallback' = IF fallback = "no" THEN "no" ELSE "given"
  /\ UNCHANGED <<main, tts, wire, link, edgeVars, recorded, activity>>

DeltaRaises == main = "stream" /\ tts.at # "audio" /\ SendRaises /\ Fail

\* The stream of the language model breaks: the question is asked again, and
\* the complete answer follows what has already been passed on.
StreamBreaks ==
  /\ main = "stream" /\ fallback = "no"
  /\ fallback' = "due"
  /\ UNCHANGED <<main, produced, cut, streamed, queue, tts, wire, link,
                 edgeVars, recorded, activity>>

FallbackFails == main = "stream" /\ fallback = "due" /\ Fail

\* Mutant: the rest of a streamed answer is announced as final.
RestIsFinal == TRUE

\* Mutant: the rest is always announced as not final.
RestIsNotFinal == FALSE

\* Only a segment that is the whole answer carries the final mark.
RestFinal == ~streamed

\* The stream ends: the words still in the buffer are the last segment.  (A
\* word is in the buffer or in a queued segment, so that the branch for an
\* answer without any segment is not reached.)
StreamEnds ==
  /\ main = "stream" /\ fallback # "due" /\ produced > 0
  /\ main' = "drain"
  /\ queue' = queue \o
       (IF cut < produced THEN <<Segment(cut + 1, produced, RestFinal)>>
                          ELSE <<>>) \o <<EndOfSegments>>
  /\ cut' = produced
  /\ UNCHANGED <<produced, streamed, fallback, tts, wire, link, edgeVars,
                 recorded, activity>>

EmptyAnswer == main = "stream" /\ fallback # "due" /\ produced = 0 /\ Fail

\* await tts_task
SpeechSent == main = "drain" /\ tts.at = "returned"

\* A silent final marker follows an answer that was sent in segments.
SendMarker ==
  LET marker == Segment(produced + 1, produced, TRUE)
  IN
  /\ SpeechSent /\ streamed
  /\ Send(<<Announce(marker), Audio(marker)>>)
  /\ main' = "record"
  /\ UNCHANGED <<answerVars, queue, tts, link, edgeVars, recorded, activity>>

MarkerRaises == SpeechSent /\ streamed /\ SendRaises /\ Fail

SpeechFails == main = "drain" /\ tts.at = "raised" /\ Fail

\* The turn is recorded, then llm.final is sent.
Finish ==
  /\ main = "record" \/ (SpeechSent /\ ~streamed)
  /\ recorded' = TRUE
  /\ \/ main' = "done" /\ activity' = "completed"
        /\ UNCHANGED wire
     \/ /\ SendRaises
        /\ activity' = "error"
        /\ main' \in {"failed", "escaped"}
        /\ UNCHANGED wire
  /\ UNCHANGED <<answerVars, queue, tts, link, edgeVars>>

\* handle_vision_event: a welcome is one final chunk, and is not recorded.
Welcome ==
  LET all == Segment(1, 1, TRUE)
  IN
  /\ main = "welcome"
  /\ produced' = 1 /\ cut' = 1
  /\ Send(<<Announce(all), Audio(all)>>)
  /\ main' = "done"
  /\ UNCHANGED <<streamed, fallback, queue, tts, link, edgeVars, recorded,
                 activity>>

WelcomeFails == main = "welcome" /\ Fail

Answering ==
  \/ EmptyAudio \/ Transcribe \/ TranscriptionFails
  \/ \E word \in {0, 1}, ends \in BOOLEAN : Delta(word, ends)
  \/ DeltaRaises \/ StreamBreaks \/ FallbackFails
  \/ StreamEnds \/ EmptyAnswer
  \/ SendMarker \/ MarkerRaises \/ SpeechFails \/ Finish
  \/ Welcome \/ WelcomeFails

-----------------------------------------------------------------------------
\* _run_tts_queue

SpeechOnly ==
  UNCHANGED <<main, answerVars, link, edgeVars, recorded>>

TakeSegment ==
  /\ tts.at = "get" /\ queue # <<>>
  /\ queue' = Tail(queue)
  /\ IF Head(queue) = EndOfSegments
     THEN tts' = [tts EXCEPT !.at = "returned"] /\ UNCHANGED activity
     ELSE /\ tts' = [at |-> "synth", segment |-> Head(queue)]
          /\ activity' = "busy"
  /\ SpeechOnly /\ UNCHANGED wire

\* The segment is synthesized and announced, holding the send lock ...
AnnounceAudio ==
  /\ tts.at = "synth"
  /\ Send(<<Announce(tts.segment)>>)
  /\ tts' = [tts EXCEPT !.at = "audio"]
  /\ SpeechOnly /\ UNCHANGED <<queue, activity>>

\* ... and its audio sent.
SendAudio ==
  /\ tts.at = "audio"
  /\ Send(<<Audio(tts.segment)>>)
  /\ tts' = [tts EXCEPT !.at = "get"]
  /\ SpeechOnly /\ UNCHANGED <<queue, activity>>

\* The synthesis fails with its fallback, or a send raises: the exception
\* stays in the task until the session waits for it.
SpeechRaises ==
  /\ tts.at = "synth" \/ (tts.at = "audio" /\ SendRaises)
  /\ tts' = [tts EXCEPT !.at = "raised"]
  /\ SpeechOnly /\ UNCHANGED <<queue, wire, activity>>

Speaking == TakeSegment \/ AnnounceAudio \/ SendAudio \/ SpeechRaises

-----------------------------------------------------------------------------
\* _receive_until_done

EdgeOnly == UNCHANGED <<main, answerVars, queue, tts, recorded, activity>>

\* The client returns and closes the connection.
Return(result) ==
  /\ edge' = result
  /\ link' = "closed" /\ wire' = <<>>

Receive ==
  /\ edge = "open" /\ wire # <<>>
  /\ LET frame == Head(wire)
     IN  \/ /\ frame.kind = "tts"
            /\ meta' = IF frame.segment.final THEN "final" ELSE "more"
            /\ wire' = Tail(wire)
            /\ UNCHANGED <<link, edge, heard>>
         \/ /\ frame.kind = "audio"
            /\ heard' = IF meta = "none" THEN heard
                        ELSE heard \o Words(frame.segment)
            /\ IF meta = "final"
               THEN Return("success") /\ UNCHANGED meta
               ELSE /\ meta' = "none" /\ wire' = Tail(wire)
                    /\ UNCHANGED <<link, edge>>
         \/ /\ frame.kind = "error"
            /\ Return("failed")
            /\ UNCHANGED <<meta, heard>>
  /\ EdgeOnly

\* The connection is lost, or a ping is not answered in time.  (A peer that
\* closes in good order would count as a success; this server never does.)
LinkLost ==
  /\ edge = "open"
  /\ Return("failed")
  /\ EdgeOnly /\ UNCHANGED <<meta, heard>>

Next == Answering \/ Speaking \/ Receive \/ LinkLost

\* The event loops run their ready tasks, the services answer or fail, and
\* what is on the wire arrives.
Fairness == WF_vars(Answering) /\ WF_vars(Speaking) /\ WF_vars(Receive)

Spec == Init /\ [][Next]_vars /\ Fairness

-----------------------------------------------------------------------------

Segments == [from : 0..(MaxWords + 1), to : 0..MaxWords, final : BOOLEAN]

\* Types, and a word leaves the buffer after it was put in.
TypeOK ==
  /\ main \in {"audio", "welcome", "stream", "drain", "record", "done",
              "failed", "refused", "escaped"}
  /\ produced \in 0..MaxWords /\ cut \in 0..produced
  /\ streamed \in BOOLEAN /\ fallback \in {"no", "due", "given"}
  /\ queue \in Seq(Segments)
  /\ tts \in [at : {"none", "get", "synth", "audio", "returned", "raised",
                    "cancelled"}, segment : Segments]
  /\ wire \in Seq([kind : {"tts", "audio", "error"}, segment : Segments])
  /\ link \in {"up", "closed"}
  /\ edge \in {"open", "success", "failed"}
  /\ meta \in {"none", "more", "final"}
  /\ heard \in Seq(1..MaxWords)
  /\ recorded \in BOOLEAN /\ activity \in {"idle", "busy", "completed", "error"}

\* The edge hears the words of the answer in their order, each of them once,
\* however they were cut into segments and interleaved with the stream.
HeardInOrder ==
  heard = [k \in 1..Len(heard) |-> k] /\ Len(heard) <= produced

Delivery == INSTANCE AnswerDelivery
  WITH said <- produced, heard <- Len(heard),
       verdict <- edge

\* The edge is told of success only when it has heard the whole answer.
AnswerDelivered == Delivery!Spec

\* A session that has ended left no TTS task behind that sends audio or
\* changes what the monitor shows.  The monitor then shows a result, unless
\* no audio had come: finish_audio returns with an error frame only, and the
\* monitor goes on showing an utterance that is being received.
QuietAfterTurn ==
  Over => /\ tts.at \notin {"get", "synth", "audio"}
          /\ activity = "busy" <=> main = "refused"

\* The edge never waits for an answer for ever.
TurnEnds == edge = "open" ~> edge # "open"

\* A turn that succeeded for the edge is part of the history of the next
\* one, whatever happens to the connection that the edge closes at once.
\* (Only a welcome leaves the monitor idle.)
SuccessIsRemembered ==
  edge = "success" /\ activity # "idle" ~> recorded
=============================================================================
