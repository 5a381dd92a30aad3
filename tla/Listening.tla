------------------------------ MODULE Listening ------------------------------
(***************************************************************************)
(* From the microphone to the utterance queue: the capture callback and    *)
(* its queue (ai_robot_edge.devices.sounddevice_audio), the loop of the    *)
(* audio worker over the frames (ai_robot_edge.audio.worker), and the      *)
(* segmenter it feeds.                                                     *)
(*                                                                         *)
(* captured   number of the last frame captured                            *)
(* buffer     the microphone's queue                                       *)
(* dropped    frames that never got into it                                *)
(* engine     vad.engine: "energy" or "silero"                             *)
(* vad, pending  the segmenter, and the samples waiting for a window       *)
(* listening  "off", "window" until a deadline, or "presence"              *)
(* blocked    the worker waits in put() on the full utterance queue        *)
(* said       the last utterance, with its reason                          *)
(* used       frames up to this one belong to the past: they were handled  *)
(*            when the segmenter was reset, dropped a segment or finished  *)
(*            one, or while nobody listened                                *)
(* quiet      since the last voiced frame silence was analysed             *)
(***************************************************************************)
EXTENDS Vad, FiniteSets

CONSTANTS
  MaxFrames,   \* bound on the frames captured
  BufferSize   \* maxsize of the microphone's queue

ASSUME ListeningAssumption == MaxFrames \in Nat /\ BufferSize \in Nat \ {0}

VARIABLES captured, buffer, dropped, engine, vad, pending, listening,
          blocked, said, used, quiet

microphoneVars == <<captured, buffer, dropped>>
segmenterVars == <<vad, pending, said, used, quiet>>
vars == <<microphoneVars, engine, segmenterVars, listening, blocked>>

NothingSaid == [frames |-> <<>>, reason |-> "none", after |-> 0]

Init ==
  /\ captured = 0 /\ buffer = <<>> /\ dropped = {}
  /\ engine \in {"energy", "silero"}
  /\ vad = Fresh /\ pending = 0
  /\ listening = "off" /\ blocked = FALSE
  /\ said = NothingSaid /\ used = 0 /\ quiet = FALSE

\* The frame handled last: what was captured, less what waits.
Handled == IF buffer = <<>> THEN captured ELSE Head(buffer) - 1

-----------------------------------------------------------------------------
\* The callback puts the frame on the queue, in the event loop.  A full
\* queue raises there, and a frame with a status flag is left out: the frame
\* is lost, and the ones around it are numbered as if they were neighbours.
Capture ==
  /\ captured < MaxFrames
  /\ captured' = captured + 1
  /\ \/ /\ Len(buffer) < BufferSize
        /\ buffer' = Append(buffer, captured') /\ UNCHANGED dropped
     \/ dropped' = dropped \cup {captured'} /\ UNCHANGED buffer
  /\ UNCHANGED <<engine, segmenterVars, listening, blocked>>

-----------------------------------------------------------------------------
\* Mutant: a reset forgets the pre-roll.
ResetKeepsPreRoll(upTo) ==
  /\ vad' = [Fresh EXCEPT !.preRoll = vad.preRoll] /\ pending' = 0
  /\ used' = upTo
  /\ UNCHANGED <<said, quiet>>

\* reset() of the segmenter and its model.
Reset(upTo) ==
  /\ vad' = Fresh /\ pending' = 0
  /\ used' = upTo
  /\ UNCHANGED <<said, quiet>>

\* arm_listening_window, by whatever task asks for it.
ArmWindow ==
  /\ listening' = "window"
  /\ Reset(Handled)
  /\ UNCHANGED <<microphoneVars, engine, blocked>>

\* arm_presence_listening leaves a segment alone that is being listened to.
ArmPresence ==
  /\ listening' = "presence"
  /\ IF listening = "presence" THEN UNCHANGED segmenterVars ELSE Reset(Handled)
  /\ UNCHANGED <<microphoneVars, engine, blocked>>

\* disarm(), by whatever task asks for it.
Disarm ==
  /\ listening' = "off"
  /\ Reset(Handled)
  /\ UNCHANGED <<microphoneVars, engine, blocked>>

-----------------------------------------------------------------------------
\* run(): one frame

NextFrame ==
  /\ ~blocked /\ buffer # <<>>
  /\ buffer' = Tail(buffer)
  /\ UNCHANGED <<captured, dropped, engine>>

\* Nobody listens: the frame goes to the wake word detector, or nowhere.
SkipFrame ==
  /\ NextFrame /\ listening = "off"
  /\ used' = Head(buffer)
  /\ UNCHANGED <<vad, pending, said, quiet, listening, blocked>>

\* The robot speaks, or the window has expired: listening ends.
GiveUp ==
  /\ NextFrame /\ listening # "off"
  /\ listening' = "off"
  /\ Reset(Head(buffer))
  /\ UNCHANGED blocked

\* The sounds the analysis may report for the next frame.
Possible ==
  IF engine = "energy" THEN {"voiced", "silent"} ELSE SileroSounds(pending)

Analysed == engine = "energy" \/ (vad.cooldown = 0 /\ FillsWindow(pending))

Outcome(frame, sound) ==
  IF engine = "energy" THEN EnergyAccept(vad, frame, sound)
                       ELSE ProbabilityAccept(vad, frame, sound)

\* accept(), and the utterance on its way to the queue.  The worker may have
\* to wait there, listening still armed, before it disarms.
AcceptFrame(sound) ==
  /\ NextFrame /\ listening # "off" /\ sound \in Possible
  /\ LET outcome == Outcome(Head(buffer), sound)
         over == outcome.said # <<>> \/ (vad.started /\ ~outcome.vad.started)
     IN  /\ quiet' = ((sound = "silent" /\ Analysed) \/ (sound # "voiced" /\ quiet))
         /\ pending' = IF engine = "silero" /\ vad.cooldown = 0
                       THEN Pending(pending) ELSE pending
         /\ vad' = outcome.vad
         /\ used' = IF over THEN Head(buffer) ELSE used
         /\ IF outcome.said = <<>>
            THEN UNCHANGED <<said, blocked>>
            ELSE /\ said' = [frames |-> outcome.said, reason |-> outcome.reason,
                             after |-> used]
                 /\ blocked' = TRUE
  /\ UNCHANGED listening

\* put() has returned: disarm.
UtteranceQueued ==
  /\ blocked
  /\ blocked' = FALSE /\ listening' = "off"
  /\ Reset(Handled)
  /\ UNCHANGED <<microphoneVars, engine>>

Next ==
  \/ Capture
  \/ ArmWindow \/ ArmPresence \/ Disarm
  \/ SkipFrame \/ GiveUp
  \/ \E sound \in Sounds : AcceptFrame(sound)
  \/ UtteranceQueued

Spec == Init /\ [][Next]_vars

-----------------------------------------------------------------------------
Frames == 1..MaxFrames

Longest ==
  IF engine = "energy" THEN MaxUtterance + PreRoll
  ELSE IF PreRoll < MaxUtterance THEN MaxUtterance ELSE PreRoll + 1

\* Types, and no segment or pre-roll outgrows its limit, so that a speaker
\* who never pauses is heard at last.
TypeOK ==
  /\ captured \in 0..MaxFrames
  /\ buffer \in Seq(Frames) /\ Len(buffer) <= BufferSize
  /\ dropped \subseteq Frames
  /\ vad \in [started : BOOLEAN, preRoll : Seq(Frames), frames : Seq(Frames),
              silence : 0..Silence, speech : 0..MaxUtterance,
              duration : 0..(MaxUtterance + PreRoll), cooldown : 0..Cooldown]
  /\ Len(vad.preRoll) <= PreRoll
  /\ Len(vad.frames) <= Longest /\ Len(said.frames) <= Longest
  /\ pending \in 0..(WindowSamples - 1)
  /\ listening \in {"off", "window", "presence"} /\ blocked \in BOOLEAN
  /\ said \in [frames : Seq(Frames), reason : {"none", "max_duration", "vad_silence"},
               after : 0..MaxFrames]
  /\ used \in 0..MaxFrames /\ quiet \in BOOLEAN

\* Two neighbours in an utterance were captured one after the other, or what
\* was captured between them was lost by the microphone's queue.  Only the
\* energy segmenter repeats a frame, and no more than one.
Follows(f, g) == f < g /\ \A k \in (f + 1)..(g - 1) : k \in dropped

UtteranceIsUnbroken ==
  LET frames == said.frames
      Repeats == {k \in 1..(Len(frames) - 1) : frames[k + 1] = frames[k]}
  IN  /\ \A k \in 1..(Len(frames) - 1) :
           k \in Repeats \/ Follows(frames[k], frames[k + 1])
      /\ Repeats # {} => engine = "energy" /\ Cardinality(Repeats) = 1

\* An utterance is made of frames that were handled since listening was
\* armed and since the last segment ended: nothing is sent twice, nothing of
\* a dropped noise, nothing that was handled while nobody listened.  (Frames
\* captured at that time may still wait in the microphone's queue.)
UtteranceIsNew ==
  \A k \in 1..Len(said.frames) : said.frames[k] > said.after

\* The frames of the longest utterance that fill no window last less than
\* silence_ms: with the default settings every 16th of 334 frames, against 27
\* of silence, but the configuration accepts others.
GapsAreShort ==
  MaxUtterance * WindowSamples
    <= (Silence - 1) * WindowSamples + MaxUtterance * FrameSamples

\* Speech is then not cut off by frames that only seem silent because they did
\* not fill a window of the model: silence was analysed after the last
\* voiced frame, however long the frames between the thresholds go on.
SilenceWasHeard ==
  GapsAreShort /\ said.reason = "vad_silence" /\ blocked => quiet
=============================================================================
