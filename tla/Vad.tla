--------------------------------- MODULE Vad ---------------------------------
(***************************************************************************)
(* The segmenters of ai_robot_edge.audio.vad as functions of their state.  *)
(* All frames have the same duration, so that durations are counted in     *)
(* frames: a limit in milliseconds is the number of frames that reach it.  *)
(*                                                                         *)
(* A segmenter is a record: whether speech has started, the frames of the  *)
(* pre-roll and of the segment, the counters, and the samples that wait    *)
(* for a whole window of the Silero model.  A frame is its capture number; *)
(* a sound is what the analysis makes of it.                               *)
(***************************************************************************)
EXTENDS Naturals, Sequences

CONSTANTS
  PreRoll, Silence, MaxUtterance, MinSpeech, Cooldown,  \* VadConfig, in frames
  CaptureSamples, \* samples of a frame as captured
  CaptureRate, VadRate,  \* sample rates of microphone and model
  WindowSamples   \* SileroOnnxModel.WINDOW_SAMPLES

\* The length of a frame after Pcm16Resampler.resample: every step-th sample,
\* or as many as interpolation yields (round() takes a tie to the even side).
FrameSamples ==
  IF CaptureRate % VadRate = 0
  THEN LET step == CaptureRate \div VadRate
       IN  (CaptureSamples + step - 1) \div step
  ELSE LET whole == (CaptureSamples * VadRate) \div CaptureRate
           rest == 2 * ((CaptureSamples * VadRate) % CaptureRate)
           up == rest > CaptureRate \/ (rest = CaptureRate /\ whole % 2 = 1)
       IN  IF up \/ whole = 0 THEN whole + 1 ELSE whole

ASSUME VadAssumption ==
  /\ {PreRoll, Silence, MaxUtterance, CaptureSamples, CaptureRate, VadRate,
      WindowSamples} \subseteq Nat \ {0}
  /\ {MinSpeech, Cooldown} \subseteq Nat

Sounds == {"voiced", "unsure", "silent"}

Fresh ==
  [started |-> FALSE, preRoll |-> <<>>, frames |-> <<>>,
   silence |-> 0, speech |-> 0, duration |-> 0, cooldown |-> 0]

\* _drop_current_segment
Drop(v) == [Fresh EXCEPT !.cooldown = Cooldown]

\* The outcome of accept(): the state, and the utterance if there is one.
Nothing(v) == [vad |-> v, said |-> <<>>, reason |-> "none"]
Finish(v, reason) == [vad |-> Fresh, said |-> v.frames, reason |-> reason]

\* _append_pre_roll
WithPreRoll(v, frame) ==
  LET all == Append(v.preRoll, frame)
      first == IF Len(all) > PreRoll THEN Len(all) - PreRoll + 1 ELSE 1
  IN  [v EXCEPT !.preRoll = SubSeq(all, first, Len(all))]

\* The segment starts with what is in the pre-roll, this frame included.
Begin(v) ==
  [v EXCEPT !.started = TRUE, !.frames = v.preRoll, !.preRoll = <<>>]

-----------------------------------------------------------------------------
\* EnergyVadSegmenter

\* The frame that starts a segment is already in its pre-roll and is
\* appended once more; duration and silence do not count the pre-roll.
EnergyHeard(v, frame, sound) ==
  LET begun == IF v.started THEN v ELSE Begin(v)
  IN  [begun EXCEPT
         !.frames = Append(@, frame), !.duration = @ + 1,
         !.silence = IF sound = "voiced" THEN 0 ELSE @ + 1]

EnergyAccept(v, frame, sound) ==
  LET ready == WithPreRoll(v, frame)
      heard == EnergyHeard(ready, frame, sound)
  IN  IF ~ready.started /\ sound # "voiced" THEN Nothing(ready)
      ELSE IF heard.duration >= MaxUtterance THEN Finish(heard, "max_duration")
      ELSE IF heard.silence >= Silence THEN Finish(heard, "vad_silence")
      ELSE Nothing(heard)

-----------------------------------------------------------------------------
\* ProbabilityVadSegmenter

\* _finish_or_drop
FinishOrDrop(v, reason) ==
  IF v.speech < MinSpeech THEN Nothing(Drop(v)) ELSE Finish(v, reason)

ProbabilityBegin(v) ==
  [Begin(v) EXCEPT !.duration = Len(v.preRoll), !.speech = 1, !.silence = 0]

\* Mutant: what is not voiced is silence.
HeardUnsureAsSilence(v, frame, sound) ==
  [v EXCEPT !.frames = Append(@, frame), !.duration = @ + 1,
            !.speech = IF sound = "voiced" THEN @ + 1 ELSE @,
            !.silence = IF sound = "voiced" THEN 0 ELSE @ + 1]

\* Mutant: a frame that is neither voiced nor silent is left out.
HeardSkipsUnsure(v, frame, sound) ==
  [v EXCEPT !.frames = IF sound = "unsure" THEN @ ELSE Append(@, frame),
            !.duration = @ + 1,
            !.speech = IF sound = "voiced" THEN @ + 1 ELSE @,
            !.silence = CASE sound = "voiced" -> 0
                          [] sound = "silent" -> @ + 1
                          [] OTHER -> @]

\* Between the two thresholds a frame neither ends the silence nor prolongs it.
ProbabilityHeard(v, frame, sound) ==
  [v EXCEPT !.frames = Append(@, frame), !.duration = @ + 1,
            !.speech = IF sound = "voiced" THEN @ + 1 ELSE @,
            !.silence = CASE sound = "voiced" -> 0
                          [] sound = "silent" -> @ + 1
                          [] OTHER -> @]

\* Mutant: a segment is not ended by its duration.
ProbabilityAcceptUnbounded(v, frame, sound) ==
  LET ready == WithPreRoll(v, frame)
      heard == ProbabilityHeard(ready, frame, sound)
  IN  IF v.cooldown > 0
      THEN Nothing([ready EXCEPT !.cooldown = @ - 1])
      ELSE IF ~v.started
      THEN Nothing(IF sound = "voiced" THEN ProbabilityBegin(ready) ELSE ready)
      ELSE IF heard.silence >= Silence THEN FinishOrDrop(heard, "vad_silence")
      ELSE Nothing(heard)

\* The pre-roll is kept during the cooldown as well, when frames are not
\* analysed.
ProbabilityAccept(v, frame, sound) ==
  LET ready == WithPreRoll(v, frame)
      heard == ProbabilityHeard(ready, frame, sound)
  IN  IF v.cooldown > 0
      THEN Nothing([ready EXCEPT !.cooldown = @ - 1])
      ELSE IF ~v.started
      THEN Nothing(IF sound = "voiced" THEN ProbabilityBegin(ready) ELSE ready)
      ELSE IF heard.duration >= MaxUtterance
      THEN FinishOrDrop(heard, "max_duration")
      ELSE IF heard.silence >= Silence THEN FinishOrDrop(heard, "vad_silence")
      ELSE Nothing(heard)

-----------------------------------------------------------------------------
\* SileroOnnxVadSegmenter._speech_probability: the frame is analysed when it
\* fills a window, and counts as silent when it does not.
FillsWindow(pending) == pending + FrameSamples >= WindowSamples

Pending(pending) == (pending + FrameSamples) % WindowSamples

SileroSounds(pending) == IF FillsWindow(pending) THEN Sounds ELSE {"silent"}
=============================================================================
