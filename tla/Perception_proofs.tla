--------------------------- MODULE Perception_proofs ---------------------------
(***************************************************************************)
(* Theorems about what the robot hears (Listening) and whom it looks at    *)
(* (FaceTracking), for any capacity, limit and gain.  The two share no     *)
(* state; what each proves is about its own specification.                 *)
(***************************************************************************)
EXTENDS Listening, FaceTracking, SequenceTheorems, FiniteSetTheorems, TLAPS

-----------------------------------------------------------------------------
\* Listening: the frames of the pre-roll and of the segment follow one another
\* up to the frame that is handled next, but for the one that the energy
\* segmenter repeats; all of them came after the frames that are used.

\* g was captured after f, and what was captured between them is in D.
Joins(f, g, D) == f < g /\ \A k \in (f + 1)..(g - 1) : k \in D

Chain(s, D) == \A i \in 1..(Len(s) - 1) : Joins(s[i], s[i + 1], D)

ChainBut(s, r, D, e) ==
  \A i \in 1..(Len(s) - 1) :
    \/ Joins(s[i], s[i + 1], D)
    \/ i = r /\ e = "energy" /\ s[i + 1] = s[i]

Unbroken(s, D, e) == \E r \in Nat : ChainBut(s, r, D, e)

Reaches(s, g, D) == s # <<>> => Joins(s[Len(s)], g, D)

Newer(s, f) == \A i \in 1..Len(s) : s[i] > f

\* A segment of segmenter v of engine e, before frame g.
Segment(v, g, f, D, e) ==
  /\ Chain(v.preRoll, D) /\ Reaches(v.preRoll, g, D) /\ Newer(v.preRoll, f)
  /\ Unbroken(v.frames, D, e) /\ Reaches(v.frames, g, D) /\ Newer(v.frames, f)

\* What its counters say.
Counts(v, e) ==
  /\ Len(v.preRoll) <= PreRoll
  /\ ~v.started =>
       v.frames = <<>> /\ v.silence = 0 /\ v.speech = 0 /\ v.duration = 0
  /\ v.started => v.silence < Silence /\ v.cooldown = 0
  /\ e = "energy" =>
       /\ v.cooldown = 0 /\ v.speech = 0 /\ v.duration < MaxUtterance
       /\ v.started => Len(v.frames) <= v.duration + PreRoll
  /\ e = "silero" =>
       /\ Len(v.frames) = v.duration /\ v.speech <= v.duration
       /\ v.duration < MaxUtterance \/ v.duration <= PreRoll

\* As long as no silence was analysed, frames that fill no window are all the
\* silence there is, and they cannot be many.
FewGaps(v, rest) ==
  /\ FrameSamples >= WindowSamples => v.silence = 0
  /\ FrameSamples < WindowSamples =>
       v.silence * WindowSamples + v.duration * FrameSamples
         <= v.duration * WindowSamples + rest

VadStates ==
  [started : BOOLEAN, preRoll : Seq(Frames), frames : Seq(Frames),
   silence : 0..Silence, speech : 0..MaxUtterance,
   duration : 0..(MaxUtterance + PreRoll), cooldown : 0..Cooldown]

MicrophoneInv ==
  /\ captured \in 0..MaxFrames /\ buffer \in Seq(Frames) /\ Len(buffer) <= BufferSize
  /\ dropped \subseteq Frames
  /\ Chain(buffer, dropped) /\ Reaches(buffer, captured + 1, dropped)
  /\ \A i \in 1..Len(buffer) : buffer[i] \in 1..captured

SegmentInv ==
  /\ used <= Handled
  /\ Segment(vad, Handled + 1, used, dropped, engine)
  /\ Counts(vad, engine)
  /\ listening = "off" => vad = Fresh

SaidInv == Unbroken(said.frames, dropped, engine) /\ Newer(said.frames, said.after)

SilenceInv == engine = "silero" /\ vad.started /\ ~quiet => FewGaps(vad, pending)

ListeningInv ==
  /\ MicrophoneInv /\ SegmentInv /\ SaidInv /\ SilenceInv /\ SilenceWasHeard
  /\ engine \in {"energy", "silero"} /\ vad \in VadStates
  /\ pending \in 0..(WindowSamples - 1)
  /\ listening \in {"off", "window", "presence"} /\ blocked \in BOOLEAN
  /\ said \in [frames : Seq(Frames), after : 0..MaxFrames,
               reason : {"none", "max_duration", "vad_silence"}]
  /\ Len(said.frames) <= Longest
  /\ used \in Nat /\ quiet \in BOOLEAN

-----------------------------------------------------------------------------
\* Sequences of frames.

LEMMA AppendFrame ==
  ASSUME NEW s \in Seq(Frames), NEW f \in Frames
  PROVE  /\ Append(s, f) \in Seq(Frames) /\ Len(Append(s, f)) = Len(s) + 1
         /\ Append(s, f) # <<>> /\ Append(s, f)[Len(s) + 1] = f
         /\ \A i \in 1..Len(s) : Append(s, f)[i] = s[i] /\ s[i] \in Frames
         /\ Len(s) \in Nat
  OBVIOUS

LEMMA FramesAreNumbers == Frames \subseteq Nat /\ \A f \in Frames : f >= 1
  BY ListeningAssumption DEF Frames

\* The frame that comes next joins the chain.
LEMMA ChainGrows ==
  ASSUME NEW s \in Seq(Frames), NEW f \in Frames, NEW D, NEW u \in Nat, f > u,
         Chain(s, D), Reaches(s, f, D), Newer(s, u)
  PROVE  /\ Chain(Append(s, f), D) /\ Newer(Append(s, f), u)
         /\ \A g : Joins(f, g, D) => Reaches(Append(s, f), g, D)
<1> DEFINE r == Append(s, f)
<1>1. /\ Len(r) = Len(s) + 1 /\ r # <<>> /\ r[Len(s) + 1] = f
      /\ \A i \in 1..Len(s) : r[i] = s[i]
      /\ Len(s) \in Nat
  BY AppendFrame
<1> HIDE DEF r
<1>2. ASSUME NEW i \in 1..(Len(r) - 1) PROVE Joins(r[i], r[i + 1], D)
  <2>1. i \in 1..Len(s) /\ r[i] = s[i]
    BY <1>1
  <2>2. CASE i = Len(s)
    <3>1. s # <<>>
      BY <2>1, <2>2
    <3> QED
      BY <1>1, <2>1, <2>2, <3>1 DEF Reaches
  <2>3. CASE i # Len(s)
    <3>1. i \in 1..(Len(s) - 1) /\ i + 1 \in 1..Len(s) /\ r[i + 1] = s[i + 1]
      BY <1>1, <2>1, <2>3
    <3> QED
      BY <2>1, <3>1 DEF Chain
  <2> QED
    BY <2>2, <2>3
<1>3. ASSUME NEW i \in 1..Len(r) PROVE r[i] > u
  <2>1. i \in 1..Len(s) \/ i = Len(s) + 1
    BY <1>1
  <2> QED
    BY <1>1, <2>1 DEF Newer
<1> QED
  BY <1>1, <1>2, <1>3 DEF r, Chain, Newer, Reaches

\* So it does with the segment.
LEMMA SegmentGrows ==
  ASSUME NEW s \in Seq(Frames), NEW f \in Frames, NEW D, NEW e, NEW u \in Nat, f > u,
         Unbroken(s, D, e), Reaches(s, f, D), Newer(s, u)
  PROVE  /\ Unbroken(Append(s, f), D, e) /\ Newer(Append(s, f), u)
         /\ \A g : Joins(f, g, D) => Reaches(Append(s, f), g, D)
<1> DEFINE r == Append(s, f)
<1>1. /\ Len(r) = Len(s) + 1 /\ r # <<>> /\ r[Len(s) + 1] = f
      /\ \A i \in 1..Len(s) : r[i] = s[i]
      /\ Len(s) \in Nat
  BY AppendFrame
<1> HIDE DEF r
<1>0. PICK n \in Nat : ChainBut(s, n, D, e)
  BY DEF Unbroken
<1>2. ASSUME NEW i \in 1..(Len(r) - 1)
      PROVE  \/ Joins(r[i], r[i + 1], D)
             \/ i = n /\ e = "energy" /\ r[i + 1] = r[i]
  <2>1. i \in 1..Len(s) /\ r[i] = s[i]
    BY <1>1
  <2>2. CASE i = Len(s)
    <3>1. s # <<>>
      BY <2>1, <2>2
    <3> QED
      BY <1>1, <2>1, <2>2, <3>1 DEF Reaches
  <2>3. CASE i # Len(s)
    <3>1. i \in 1..(Len(s) - 1) /\ i + 1 \in 1..Len(s) /\ r[i + 1] = s[i + 1]
      BY <1>1, <2>1, <2>3
    <3> QED
      BY <1>0, <2>1, <3>1 DEF ChainBut
  <2> QED
    BY <2>2, <2>3
<1>3. ASSUME NEW i \in 1..Len(r) PROVE r[i] > u
  <2>1. i \in 1..Len(s) \/ i = Len(s) + 1
    BY <1>1
  <2> QED
    BY <1>1, <2>1 DEF Newer
<1>4. ChainBut(r, n, D, e)
  BY <1>2 DEF ChainBut
<1> QED
  BY <1>1, <1>3, <1>4 DEF r, Unbroken, Newer, Reaches

\* The energy segmenter starts with the pre-roll and its last frame once more.
LEMMA RepeatedOnce ==
  ASSUME NEW s \in Seq(Frames), s # <<>>, NEW D, NEW u \in Nat,
         Chain(s, D), Newer(s, u)
  PROVE  LET r == Append(s, s[Len(s)])
         IN  /\ Unbroken(r, D, "energy") /\ Newer(r, u)
             /\ \A g : Joins(s[Len(s)], g, D) => Reaches(r, g, D)
<1> DEFINE f == s[Len(s)]
           r == Append(s, f)
<1>0. Len(s) \in 1..Len(s) /\ f \in Frames
  OBVIOUS
<1>1. /\ Len(r) = Len(s) + 1 /\ r # <<>> /\ r[Len(s) + 1] = f
      /\ \A i \in 1..Len(s) : r[i] = s[i]
      /\ Len(s) \in Nat
  BY <1>0, AppendFrame
<1> HIDE DEF r
<1>2. ASSUME NEW i \in 1..(Len(r) - 1)
      PROVE  \/ Joins(r[i], r[i + 1], D)
             \/ i = Len(s) /\ r[i + 1] = r[i]
  <2>1. i \in 1..Len(s) /\ r[i] = s[i]
    BY <1>1
  <2>2. CASE i = Len(s)
    BY <1>1, <2>1, <2>2
  <2>3. CASE i # Len(s)
    <3>1. i \in 1..(Len(s) - 1) /\ i + 1 \in 1..Len(s) /\ r[i + 1] = s[i + 1]
      BY <1>1, <2>1, <2>3
    <3> QED
      BY <2>1, <3>1 DEF Chain
  <2> QED
    BY <2>2, <2>3
<1>3. ASSUME NEW i \in 1..Len(r) PROVE r[i] > u
  <2>1. i \in 1..Len(s) \/ i = Len(s) + 1
    BY <1>1
  <2> QED
    BY <1>0, <1>1, <2>1 DEF Newer
<1>4. ChainBut(r, Len(s), D, "energy")
  BY <1>2 DEF ChainBut
<1> QED
  BY <1>1, <1>3, <1>4 DEF r, Unbroken, Newer, Reaches

\* A chain is a segment, and the empty one is both.
LEMMA ChainIsUnbroken ==
  ASSUME NEW s, NEW D, NEW e, Chain(s, D)
  PROVE  Unbroken(s, D, e)
  BY DEF Chain, Unbroken, ChainBut

LEMMA NoFrames ==
  /\ <<>> \in Seq(Frames) /\ Len(<<>>) = 0
  /\ \A D : Chain(<<>>, D)
  /\ \A D, e : Unbroken(<<>>, D, e)
  /\ \A g, D : Reaches(<<>>, g, D)
  /\ \A f : Newer(<<>>, f)
  BY DEF Chain, Unbroken, ChainBut, Reaches, Newer

\* The last frames of a chain.
LEMMA LastFrames ==
  ASSUME NEW s \in Seq(Frames), NEW m \in 1..Len(s), NEW D, NEW u \in Nat,
         Chain(s, D), Newer(s, u)
  PROVE  LET r == SubSeq(s, m, Len(s))
         IN  /\ r \in Seq(Frames) /\ Len(r) = Len(s) - m + 1 /\ r # <<>>
             /\ r[Len(r)] = s[Len(s)]
             /\ Chain(r, D) /\ Newer(r, u)
<1> DEFINE r == SubSeq(s, m, Len(s))
<1>1. /\ r \in Seq(Frames) /\ Len(r) = Len(s) - m + 1
      /\ \A i \in 1..(Len(s) - m + 1) : r[i] = s[m + i - 1]
  OBVIOUS
<1>2. Len(s) \in Nat /\ m \in Nat /\ m >= 1 /\ m <= Len(s)
  OBVIOUS
<1> HIDE DEF r
<1>3. ASSUME NEW i \in 1..(Len(r) - 1) PROVE Joins(r[i], r[i + 1], D)
  <2>1. /\ i \in 1..(Len(s) - m + 1) /\ i + 1 \in 1..(Len(s) - m + 1)
        /\ m + i - 1 \in 1..(Len(s) - 1) /\ m + (i + 1) - 1 = (m + i - 1) + 1
    BY <1>1, <1>2
  <2> QED
    BY <1>1, <2>1 DEF Chain
<1>4. ASSUME NEW i \in 1..Len(r) PROVE r[i] > u
  <2>1. i \in 1..(Len(s) - m + 1) /\ m + i - 1 \in 1..Len(s)
    BY <1>1, <1>2
  <2> QED
    BY <1>1, <2>1 DEF Newer
<1>5. r[Len(r)] = s[Len(s)]
  <2>1. Len(r) \in 1..(Len(s) - m + 1) /\ m + Len(r) - 1 = Len(s)
    BY <1>1, <1>2
  <2> QED
    BY <1>1, <2>1
<1>6. r # <<>>
  BY <1>1, <1>2
<1> QED
  BY <1>1, <1>3, <1>4, <1>5, <1>6 DEF r, Chain, Newer

\* The pre-roll takes a frame.
LEMMA PreRollGrows ==
  ASSUME NEW v \in VadStates, NEW f \in Frames, NEW D, NEW u \in Nat, f > u,
         Chain(v.preRoll, D), Reaches(v.preRoll, f, D), Newer(v.preRoll, u)
  PROVE  LET w == WithPreRoll(v, f)
         IN  /\ w \in VadStates /\ w = [v EXCEPT !.preRoll = w.preRoll]
             /\ w.preRoll \in Seq(Frames) /\ w.preRoll # <<>>
             /\ w.preRoll[Len(w.preRoll)] = f /\ Len(w.preRoll) <= PreRoll
             /\ Chain(w.preRoll, D) /\ Newer(w.preRoll, u)
<1> DEFINE all == Append(v.preRoll, f)
           first == IF Len(all) > PreRoll THEN Len(all) - PreRoll + 1 ELSE 1
           r == SubSeq(all, first, Len(all))
<1>0. v.preRoll \in Seq(Frames) /\ PreRoll \in Nat \ {0}
  BY VadAssumption DEF VadStates
<1>1. /\ all \in Seq(Frames) /\ Len(all) = Len(v.preRoll) + 1 /\ Len(v.preRoll) \in Nat
      /\ all[Len(v.preRoll) + 1] = f
  BY <1>0, AppendFrame
<1>2. Chain(all, D) /\ Newer(all, u)
  BY <1>0, ChainGrows
<1> HIDE DEF all
<1>3. first \in 1..Len(all) /\ Len(all) - first + 1 <= PreRoll
  BY <1>0, <1>1
<1> HIDE DEF first
<1>4. /\ r \in Seq(Frames) /\ Len(r) = Len(all) - first + 1 /\ r # <<>>
      /\ r[Len(r)] = all[Len(all)] /\ Chain(r, D) /\ Newer(r, u)
  BY <1>1, <1>2, <1>3, LastFrames
<1>5. WithPreRoll(v, f) = [v EXCEPT !.preRoll = r]
  BY DEF WithPreRoll, all, first
<1> HIDE DEF r
<1>6. [v EXCEPT !.preRoll = r].preRoll = r /\ [v EXCEPT !.preRoll = r] \in VadStates
  BY <1>4 DEF VadStates
<1> QED
  BY <1>1, <1>3, <1>4, <1>5, <1>6

-----------------------------------------------------------------------------
\* The segmenters.

\* The state after a segment is over.
LEMMA NoSegment ==
  ASSUME NEW v, v = Fresh \/ v = Drop(Fresh)
  PROVE  /\ v \in VadStates /\ v.preRoll = <<>> /\ v.frames = <<>> /\ ~v.started
         /\ \A g, f, D, e : Segment(v, g, f, D, e)
         /\ Counts(v, "silero") /\ (v = Fresh => Counts(v, "energy"))
<1>0. /\ PreRoll \in Nat \ {0} /\ MaxUtterance \in Nat \ {0} /\ Silence \in Nat \ {0}
      /\ Cooldown \in Nat
  BY VadAssumption
<1>1. /\ v.started = FALSE /\ v.preRoll = <<>> /\ v.frames = <<>> /\ v.silence = 0
      /\ v.speech = 0 /\ v.duration = 0 /\ v.cooldown \in 0..Cooldown
      /\ v = Fresh => v.cooldown = 0
  BY <1>0 DEF Fresh, Drop
<1>2. v \in VadStates
  <2>1. /\ 0 \in 0..Silence /\ 0 \in 0..MaxUtterance /\ 0 \in 0..Cooldown
        /\ 0 \in 0..(MaxUtterance + PreRoll) /\ Cooldown \in 0..Cooldown
    BY <1>0
  <2>2. <<>> \in Seq(Frames)
    BY NoFrames
  <2>3. Fresh \in VadStates
    BY <2>1, <2>2 DEF Fresh, VadStates
  <2>4. Drop(Fresh) \in VadStates
    BY <2>1, <2>2 DEF Drop, Fresh, VadStates
  <2> QED
    BY <2>3, <2>4
<1>3. Counts(v, "silero") /\ (v = Fresh => Counts(v, "energy"))
  BY <1>0, <1>1, NoFrames DEF Counts
<1>4. \A g, f, D, e : Segment(v, g, f, D, e)
  BY <1>1, NoFrames DEF Segment
<1> QED
  BY <1>1, <1>2, <1>3, <1>4

\* A frame that is no part of a speech yet, or comes in the cooldown.
LEMMA OnlyPreRoll ==
  ASSUME NEW v \in VadStates, NEW f \in Frames, NEW D, NEW e, NEW u \in Nat, f > u,
         Segment(v, f, u, D, e), Counts(v, e), ~v.started,
         NEW g, Joins(f, g, D)
  PROVE  LET w == WithPreRoll(v, f)
         IN  /\ w \in VadStates /\ ~w.started /\ Segment(w, g, u, D, e) /\ Counts(w, e)
             /\ w.cooldown = v.cooldown /\ w.preRoll \in Seq(Frames)
<1> DEFINE w == WithPreRoll(v, f)
<1>1. /\ w \in VadStates /\ w = [v EXCEPT !.preRoll = w.preRoll]
      /\ w.preRoll \in Seq(Frames) /\ w.preRoll # <<>>
      /\ w.preRoll[Len(w.preRoll)] = f /\ Len(w.preRoll) <= PreRoll
      /\ Chain(w.preRoll, D) /\ Newer(w.preRoll, u)
  BY PreRollGrows DEF Segment
<1> HIDE DEF w
<1>2. /\ w.started = v.started /\ w.frames = v.frames /\ w.silence = v.silence
      /\ w.speech = v.speech /\ w.duration = v.duration /\ w.cooldown = v.cooldown
  BY <1>1 DEF VadStates
<1>3. v.frames = <<>>
  BY DEF Counts
<1>4. Segment(w, g, u, D, e)
  BY <1>1, <1>2, <1>3, NoFrames DEF Segment, Reaches
<1>5. Counts(w, e)
  BY <1>1, <1>2 DEF Counts
<1> QED
  BY <1>1, <1>2, <1>4, <1>5 DEF w

\* A state from its components.
LEMMA VadState ==
  ASSUME NEW a \in BOOLEAN, NEW pre \in Seq(Frames), NEW all \in Seq(Frames),
         NEW i \in 0..Silence, NEW n \in 0..MaxUtterance,
         NEW d \in 0..(MaxUtterance + PreRoll), NEW c \in 0..Cooldown
  PROVE  [started |-> a, preRoll |-> pre, frames |-> all, silence |-> i,
          speech |-> n, duration |-> d, cooldown |-> c] \in VadStates
  BY DEF VadStates

\* What the outcome of a frame is like, where it is no matter of the counters.
GoodOutcome(o, v, g, u, D, e) ==
  /\ o.vad \in VadStates /\ Segment(o.vad, g, u, D, e) /\ Counts(o.vad, e)
  /\ o.said \in Seq(Frames) /\ o.reason \in {"none", "max_duration", "vad_silence"}
  /\ o.said # <<>> \/ (v.started /\ ~o.vad.started) =>
       o.vad.preRoll = <<>> /\ o.vad.frames = <<>>
  /\ o.said # <<>> => Unbroken(o.said, D, e) /\ Newer(o.said, u)

\* The energy segmenter.  Nothing voiced ends an utterance by its silence.
LEMMA EnergyStep ==
  ASSUME NEW v \in VadStates, NEW f \in Frames, NEW D, NEW u \in Nat, f > u,
         Segment(v, f, u, D, "energy"), Counts(v, "energy"),
         NEW g, Joins(f, g, D), NEW sound \in {"voiced", "silent"}
  PROVE  LET o == EnergyAccept(v, f, sound)
         IN  /\ GoodOutcome(o, v, g, u, D, "energy")
             /\ Len(o.said) <= MaxUtterance + PreRoll
             /\ o.said # <<>> /\ o.reason = "vad_silence" => sound = "silent"
<1> DEFINE w == WithPreRoll(v, f)
           h == EnergyHeard(w, f, sound)
           o == EnergyAccept(v, f, sound)
<1>0. /\ PreRoll \in Nat \ {0} /\ MaxUtterance \in Nat \ {0} /\ Silence \in Nat \ {0}
      /\ Cooldown \in Nat
  BY VadAssumption
<1>1. /\ w \in VadStates /\ w = [v EXCEPT !.preRoll = w.preRoll]
      /\ w.preRoll \in Seq(Frames) /\ w.preRoll # <<>>
      /\ w.preRoll[Len(w.preRoll)] = f /\ Len(w.preRoll) <= PreRoll
      /\ Chain(w.preRoll, D) /\ Newer(w.preRoll, u)
  BY PreRollGrows DEF Segment
<1> HIDE DEF w
<1>2. /\ w.started = v.started /\ w.frames = v.frames /\ w.silence = v.silence
      /\ w.speech = v.speech /\ w.duration = v.duration /\ w.cooldown = v.cooldown
  BY <1>1 DEF VadStates
<1>3. CASE ~v.started /\ sound = "silent"
  <2>1. o = [vad |-> w, said |-> <<>>, reason |-> "none"]
    BY <1>2, <1>3 DEF EnergyAccept, Nothing, w
  <2>2. w \in VadStates /\ ~w.started /\ Segment(w, g, u, D, "energy") /\ Counts(w, "energy")
    BY <1>3, OnlyPreRoll DEF w
  <2> HIDE DEF o
  <2>3. o.vad = w /\ o.said = <<>> /\ o.reason = "none"
    BY <2>1
  <2>4. GoodOutcome(o, v, g, u, D, "energy")
    BY <1>3, <2>2, <2>3, NoFrames DEF GoodOutcome
  <2>5. Len(o.said) <= MaxUtterance + PreRoll
    BY <1>0, <2>3, NoFrames
  <2> QED
    BY <2>3, <2>4, <2>5 DEF o
<1>4. CASE v.started \/ sound = "voiced"
  <2> DEFINE begun == IF v.started THEN v.frames ELSE w.preRoll
  <2>1. /\ v.frames \in Seq(Frames) /\ begun \in Seq(Frames) /\ v.duration \in Nat
        /\ v.silence \in Nat /\ v.speech = 0 /\ v.cooldown = 0
        /\ v.duration < MaxUtterance
        /\ ~v.started => v.duration = 0 /\ v.silence = 0
        /\ v.started => v.silence < Silence
        /\ Len(begun) <= v.duration + PreRoll
    BY <1>0, <1>1 DEF VadStates, Counts
  <2> DEFINE pre == IF v.started THEN w.preRoll ELSE <<>>
             all == Append(begun, f)
             still == IF sound = "voiced" THEN 0 ELSE v.silence + 1
  <2>2. h = [started |-> TRUE, preRoll |-> pre, frames |-> all, silence |-> still,
             speech |-> 0, duration |-> v.duration + 1, cooldown |-> 0]
    <3> DEFINE b == IF v.started THEN w ELSE Begin(w)
    <3>1. b = [started |-> TRUE, preRoll |-> pre, frames |-> begun, silence |-> v.silence,
               speech |-> 0, duration |-> v.duration, cooldown |-> 0]
      <4>1. CASE v.started
        BY <1>1, <1>2, <2>1, <4>1 DEF VadStates
      <4>2. CASE ~v.started
        BY <1>1, <1>2, <2>1, <4>2 DEF VadStates, Begin
      <4> QED
        BY <4>1, <4>2
    <3>2. h = [b EXCEPT !.frames = Append(@, f), !.duration = @ + 1,
                        !.silence = IF sound = "voiced" THEN 0 ELSE @ + 1]
      BY <1>2 DEF EnergyHeard
    <3> HIDE DEF b, h, pre, begun
    <3> QED
      BY <3>1, <3>2
  <2>3. /\ Unbroken(all, D, "energy") /\ Newer(all, u) /\ Reaches(all, g, D)
        /\ all \in Seq(Frames) /\ all # <<>> /\ Len(all) = Len(begun) + 1
    <3>1. CASE v.started
      BY <2>1, <3>1, AppendFrame, SegmentGrows DEF Segment
    <3>2. CASE ~v.started
      <4>1. begun = w.preRoll /\ all = Append(w.preRoll, w.preRoll[Len(w.preRoll)])
        BY <1>1, <3>2
      <4>2. Joins(w.preRoll[Len(w.preRoll)], g, D)
        BY <1>1
      <4> DEFINE r == Append(w.preRoll, w.preRoll[Len(w.preRoll)])
      <4>3. Unbroken(r, D, "energy") /\ Newer(r, u) /\ Reaches(r, g, D)
        BY <1>1, <4>2, RepeatedOnce
      <4>4. r \in Seq(Frames) /\ r # <<>> /\ Len(r) = Len(w.preRoll) + 1
        BY <1>1, AppendFrame
      <4> QED
        BY <4>1, <4>3, <4>4
    <3> QED
      BY <3>1, <3>2
  <2>4. /\ Chain(pre, D) /\ Reaches(pre, g, D) /\ Newer(pre, u)
        /\ pre \in Seq(Frames) /\ Len(pre) <= PreRoll
    BY <1>0, <1>1, NoFrames DEF Reaches
  <2>5. o = IF h.duration >= MaxUtterance
            THEN [vad |-> Fresh, said |-> h.frames, reason |-> "max_duration"]
            ELSE IF h.silence >= Silence
            THEN [vad |-> Fresh, said |-> h.frames, reason |-> "vad_silence"]
            ELSE [vad |-> h, said |-> <<>>, reason |-> "none"]
    BY <1>2, <1>4 DEF EnergyAccept, Finish, Nothing, w
  <2>6. Len(all) <= MaxUtterance + PreRoll
    BY <1>0, <2>1, <2>3
  <2> HIDE DEF h, o, pre, all, begun
  <2>7. CASE v.duration + 1 >= MaxUtterance \/ still >= Silence
    <3>1. /\ o.vad = Fresh /\ o.said = all /\ o.reason \in {"max_duration", "vad_silence"}
          /\ o.reason = "vad_silence" => still >= Silence
      BY <2>2, <2>5, <2>7
    <3>2. o.reason = "vad_silence" => sound = "silent"
      BY <1>0, <3>1
    <3>3. GoodOutcome(o, v, g, u, D, "energy")
      BY <2>3, <3>1, NoSegment DEF GoodOutcome
    <3> QED
      BY <2>6, <3>1, <3>2, <3>3 DEF o
  <2>8. CASE ~(v.duration + 1 >= MaxUtterance \/ still >= Silence)
    <3>1. o.vad = h /\ o.said = <<>> /\ o.reason = "none"
      BY <2>2, <2>5, <2>8
    <3>2. /\ v.duration + 1 < MaxUtterance /\ still < Silence
          /\ v.duration + 1 \in Nat /\ still \in Nat
      BY <1>0, <2>1, <2>8
    <3>3. h \in VadStates
      <4>1. /\ still \in 0..Silence /\ 0 \in 0..MaxUtterance /\ 0 \in 0..Cooldown
            /\ v.duration + 1 \in 0..(MaxUtterance + PreRoll)
        BY <1>0, <3>2
      <4> HIDE DEF still
      <4> QED
        BY <2>2, <2>3, <2>4, <4>1, VadState
    <3>4. /\ h.started = TRUE /\ h.preRoll = pre /\ h.frames = all /\ h.silence = still
          /\ h.speech = 0 /\ h.duration = v.duration + 1 /\ h.cooldown = 0
      BY <2>2
    <3>5. Counts(h, "energy")
      <4>1. Len(all) <= v.duration + 1 + PreRoll
        BY <1>0, <2>1, <2>3
      <4> QED
        BY <2>4, <3>2, <3>4, <4>1 DEF Counts
    <3>6. Segment(h, g, u, D, "energy")
      BY <2>3, <2>4, <3>4 DEF Segment
    <3>7. GoodOutcome(o, v, g, u, D, "energy")
      BY <3>1, <3>3, <3>4, <3>5, <3>6, NoFrames DEF GoodOutcome
    <3>8. Len(o.said) <= MaxUtterance + PreRoll
      BY <1>0, <3>1, NoFrames
    <3> QED
      BY <3>1, <3>7, <3>8 DEF o
  <2> QED
    BY <2>7, <2>8
<1> QED
  BY <1>3, <1>4

\* A frame has a sample at least, and a rest of samples is less than a window.
LEMMA SamplesAreNumbers ==
  /\ FrameSamples \in Nat /\ WindowSamples \in Nat \ {0}
  /\ \A rest \in Nat : Pending(rest) \in 0..(WindowSamples - 1)
<1>0. /\ CaptureSamples \in Nat \ {0} /\ CaptureRate \in Nat \ {0}
      /\ VadRate \in Nat \ {0} /\ WindowSamples \in Nat \ {0}
  BY VadAssumption
<1>1. \A a \in Nat, b \in Nat \ {0} : a \div b \in Nat
  OBVIOUS
<1>2. FrameSamples \in Nat
  <2>1. CASE CaptureRate % VadRate = 0
    <3>1. CaptureRate \div VadRate \in Nat
      BY <1>0, <1>1
    <3>2. CaptureRate \div VadRate # 0
      BY <1>0, <2>1
    <3> DEFINE step == CaptureRate \div VadRate
    <3>3. step \in Nat \ {0}
      BY <3>1, <3>2
    <3>4. FrameSamples = (CaptureSamples + step - 1) \div step
      BY <2>1 DEF FrameSamples
    <3> HIDE DEF step
    <3>5. CaptureSamples + step - 1 \in Nat
      BY <1>0, <3>3
    <3> QED
      BY <1>1, <3>3, <3>4, <3>5
  <2>2. CASE CaptureRate % VadRate # 0
    <3>1. CaptureSamples * VadRate \in Nat
      BY <1>0
    <3>2. (CaptureSamples * VadRate) \div CaptureRate \in Nat
      BY <1>0, <1>1, <3>1
    <3> DEFINE whole == (CaptureSamples * VadRate) \div CaptureRate
    <3>3. FrameSamples = whole + 1 \/ FrameSamples = whole
      BY <2>2 DEF FrameSamples
    <3> HIDE DEF whole
    <3> QED
      BY <3>2, <3>3 DEF whole
  <2> QED
    BY <2>1, <2>2
<1>3. ASSUME NEW rest \in Nat PROVE Pending(rest) \in 0..(WindowSamples - 1)
  <2>1. rest + FrameSamples \in Nat
    BY <1>2
  <2> QED
    BY <1>0, <2>1 DEF Pending
<1> QED
  BY <1>0, <1>2, <1>3

\* A frame that is not voiced leaves few gaps, unless silence was analysed.
LEMMA GapsGrow ==
  ASSUME NEW i \in Nat, NEW d \in Nat, NEW rest \in 0..(WindowSamples - 1),
         NEW v, v.silence = i, v.duration = d, FewGaps(v, rest),
         NEW w, w.duration = d + 1,
         \/ FillsWindow(rest) /\ w.silence = i
         \/ ~FillsWindow(rest) /\ w.silence = i + 1
  PROVE  FewGaps(w, Pending(rest))
<1> DEFINE F == FrameSamples
           W == WindowSamples
<1>0. F \in Nat /\ W \in Nat \ {0} /\ rest \in Nat /\ rest < W
  BY SamplesAreNumbers
<1>1. CASE F >= W
  <2>1. FillsWindow(rest)
    BY <1>0, <1>1 DEF FillsWindow
  <2> QED
    BY <1>0, <1>1, <2>1 DEF FewGaps
<1>2. CASE F < W
  <2>0. i * W + d * F <= d * W + rest
    BY <1>2 DEF FewGaps
  <2>1. (d + 1) * F = d * F + F /\ (d + 1) * W = d * W + W /\ (i + 1) * W = i * W + W
    BY <1>0
  <2>2. d * F \in Nat /\ d * W \in Nat /\ i * W \in Nat
    BY <1>0
  <2>3. CASE FillsWindow(rest)
    <3>1. rest + F >= W /\ rest + F - W \in 0..(W - 1)
      BY <1>0, <1>2, <2>3 DEF FillsWindow
    <3>2. Pending(rest) = rest + F - W
      BY <1>0, <1>2, <3>1 DEF Pending
    <3>3. i * W + (d + 1) * F <= (d + 1) * W + Pending(rest)
      BY <1>0, <2>0, <2>1, <2>2, <3>2
    <3> QED
      BY <1>0, <1>2, <2>3, <3>3 DEF FewGaps
  <2>4. CASE ~FillsWindow(rest)
    <3>1. rest + F < W /\ rest + F \in Nat
      BY <1>0, <2>4 DEF FillsWindow
    <3>2. Pending(rest) = rest + F
      BY <1>0, <3>1 DEF Pending
    <3>3. (i + 1) * W + (d + 1) * F <= (d + 1) * W + Pending(rest)
      BY <1>0, <2>0, <2>1, <2>2, <3>2
    <3> QED
      BY <1>0, <1>2, <2>4, <3>3 DEF FewGaps
  <2> QED
    BY <2>3, <2>4
<1> QED
  BY <1>0, <1>1, <1>2

\* After a voiced frame there are none yet.
LEMMA NoGaps ==
  ASSUME NEW v, v.silence = 0, v.duration \in Nat, NEW rest \in Nat
  PROVE  FewGaps(v, rest)
<1>1. FrameSamples \in Nat /\ WindowSamples \in Nat
  BY SamplesAreNumbers
<1>2. FrameSamples < WindowSamples
        => v.duration * FrameSamples <= v.duration * WindowSamples + rest
  <2> DEFINE d == v.duration
             more == WindowSamples - FrameSamples
  <2> SUFFICES ASSUME FrameSamples < WindowSamples
               PROVE  d * FrameSamples <= d * WindowSamples + rest
    OBVIOUS
  <2>1. more \in Nat /\ WindowSamples = FrameSamples + more /\ d \in Nat
    BY <1>1
  <2> HIDE DEF d, more
  <2>2. d * WindowSamples = d * FrameSamples + d * more /\ d * more \in Nat
        /\ d * FrameSamples \in Nat
    BY <1>1, <2>1
  <2> QED
    BY <2>2
<1> QED
  BY <1>1, <1>2 DEF FewGaps

\* They never last as long as the silence that ends an utterance.
LEMMA GapsEndNothing ==
  ASSUME GapsAreShort, NEW v, v.silence \in Nat, v.duration \in Nat,
         NEW rest \in 0..(WindowSamples - 1), FewGaps(v, rest),
         v.duration < MaxUtterance
  PROVE  v.silence < Silence
<1> DEFINE F == FrameSamples
           W == WindowSamples
           M == MaxUtterance
           S == Silence
           d == v.duration
           i == v.silence
<1>0. /\ F \in Nat /\ W \in Nat \ {0} /\ rest \in Nat /\ rest < W
      /\ M \in Nat \ {0} /\ S \in Nat \ {0} /\ d \in Nat /\ i \in Nat /\ d < M
  BY SamplesAreNumbers, VadAssumption
<1>1. M * W <= (S - 1) * W + M * F
  BY DEF GapsAreShort
<1>2. /\ F >= W => i = 0
      /\ F < W => i * W + d * F <= d * W + rest
  BY DEF FewGaps
<1> HIDE DEF F, W, M, S, d, i
<1>3. CASE F >= W
  BY <1>0, <1>2, <1>3 DEF i, S
<1>4. CASE F < W
  <2> SUFFICES ASSUME i >= S PROVE FALSE
    BY <1>0 DEF i, S
  <2> DEFINE more == W - F
             left == M - d
             extra == i - S
  <2>1. more \in Nat /\ left \in Nat /\ extra \in Nat
        /\ W = F + more /\ M = d + left /\ i = S + extra
    BY <1>0, <1>4
  <2> HIDE DEF more, left, extra
  <2>2. /\ d * W = d * F + d * more
        /\ M * W = M * F + M * more
        /\ M * more = d * more + left * more
        /\ (S - 1) * W = S * W - W
        /\ i * W = S * W + extra * W
    BY <1>0, <2>1
  <2>3. /\ d * F \in Nat /\ d * more \in Nat /\ M * F \in Nat /\ left * more \in Nat
        /\ S * W \in Nat /\ extra * W \in Nat /\ M * more \in Nat
    BY <1>0, <2>1
  <2>4. S * W <= d * more + rest
    BY <1>0, <1>2, <1>4, <2>2, <2>3
  <2>5. d * more <= S * W - W
    BY <1>0, <1>1, <2>2, <2>3
  <2> QED
    BY <1>0, <2>3, <2>4, <2>5
<1> QED
  BY <1>0, <1>3, <1>4

\* The segmenter with the model of speech.  A segment that goes on counts the
\* frame, and so does an utterance that is finished by silence.
LEMMA SileroStep ==
  ASSUME NEW v \in VadStates, NEW f \in Frames, NEW D, NEW u \in Nat, f > u,
         Segment(v, f, u, D, "silero"), Counts(v, "silero"),
         NEW g, Joins(f, g, D), NEW sound \in Sounds
  PROVE  LET o == ProbabilityAccept(v, f, sound)
             i == CASE sound = "voiced" -> 0
                    [] sound = "silent" -> v.silence + 1
                    [] OTHER -> v.silence
         IN  /\ GoodOutcome(o, v, g, u, D, "silero")
             /\ Len(o.said) <= MaxUtterance \/ Len(o.said) <= PreRoll + 1
             /\ o.vad.started =>
                  \/ ~v.started /\ sound = "voiced" /\ o.vad.silence = 0
                  \/ v.started /\ o.vad.silence = i /\ o.vad.duration = v.duration + 1
             /\ o.said # <<>> => v.started
             /\ o.said # <<>> /\ o.reason = "vad_silence" =>
                  i >= Silence /\ v.duration + 1 < MaxUtterance
             /\ o.said # <<>> => v.cooldown = 0
<1> DEFINE w == WithPreRoll(v, f)
           h == ProbabilityHeard(w, f, sound)
           o == ProbabilityAccept(v, f, sound)
           i == CASE sound = "voiced" -> 0
                  [] sound = "silent" -> v.silence + 1
                  [] OTHER -> v.silence
<1>0. /\ PreRoll \in Nat \ {0} /\ MaxUtterance \in Nat \ {0} /\ Silence \in Nat \ {0}
      /\ Cooldown \in Nat
  BY VadAssumption
<1>1. /\ w \in VadStates /\ w = [v EXCEPT !.preRoll = w.preRoll]
      /\ w.preRoll \in Seq(Frames) /\ w.preRoll # <<>>
      /\ w.preRoll[Len(w.preRoll)] = f /\ Len(w.preRoll) <= PreRoll
      /\ Chain(w.preRoll, D) /\ Newer(w.preRoll, u)
  BY PreRollGrows DEF Segment
<1>2. ~v.started => /\ w \in VadStates /\ ~w.started /\ Segment(w, g, u, D, "silero")
                    /\ Counts(w, "silero") /\ w.cooldown = v.cooldown
  BY OnlyPreRoll
<1>3. o = IF v.cooldown > 0 THEN [vad |-> [w EXCEPT !.cooldown = @ - 1],
                                  said |-> <<>>, reason |-> "none"]
          ELSE IF ~v.started
          THEN [vad |-> IF sound = "voiced" THEN ProbabilityBegin(w) ELSE w,
                said |-> <<>>, reason |-> "none"]
          ELSE IF h.duration >= MaxUtterance THEN FinishOrDrop(h, "max_duration")
          ELSE IF h.silence >= Silence THEN FinishOrDrop(h, "vad_silence")
          ELSE [vad |-> h, said |-> <<>>, reason |-> "none"]
  BY DEF ProbabilityAccept, Nothing
<1> HIDE DEF w
<1>4. /\ w.started = v.started /\ w.frames = v.frames /\ w.silence = v.silence
      /\ w.speech = v.speech /\ w.duration = v.duration /\ w.cooldown = v.cooldown
      /\ v.cooldown \in Nat /\ v.frames \in Seq(Frames) /\ v.silence \in Nat
      /\ v.speech \in Nat /\ v.duration \in Nat /\ v.started \in BOOLEAN
  <2>1. /\ w.started = v.started /\ w.frames = v.frames /\ w.silence = v.silence
        /\ w.speech = v.speech /\ w.duration = v.duration /\ w.cooldown = v.cooldown
    BY <1>1 DEF VadStates
  <2>2. /\ v.cooldown \in 0..Cooldown /\ v.frames \in Seq(Frames)
        /\ v.silence \in 0..Silence /\ v.speech \in 0..MaxUtterance
        /\ v.duration \in 0..(MaxUtterance + PreRoll) /\ v.started \in BOOLEAN
    BY DEF VadStates
  <2> QED
    BY <1>0, <2>1, <2>2
<1>5. CASE v.cooldown > 0
  <2> DEFINE x == [w EXCEPT !.cooldown = @ - 1]
  <2>1. ~v.started
    BY <1>4, <1>5 DEF Counts
  <2>2. x.cooldown \in 0..Cooldown
    BY <1>0, <1>1, <1>4, <1>5 DEF VadStates
  <2>3. /\ x.started = w.started /\ x.preRoll = w.preRoll /\ x.frames = w.frames
        /\ x.silence = w.silence /\ x.speech = w.speech /\ x.duration = w.duration
        /\ x \in VadStates
    BY <1>1, <2>2 DEF VadStates
  <2> HIDE DEF x, h, o
  <2>4. Segment(x, g, u, D, "silero") /\ Counts(x, "silero") /\ ~x.started
    BY <1>2, <2>1, <2>3 DEF Segment, Counts
  <2>5. o.vad = x /\ o.said = <<>> /\ o.reason = "none"
    BY <1>3, <1>5 DEF x
  <2>6. GoodOutcome(o, v, g, u, D, "silero")
    BY <2>1, <2>3, <2>4, <2>5, NoFrames DEF GoodOutcome
  <2>7. Len(o.said) <= PreRoll + 1
    BY <1>0, <2>5, NoFrames
  <2> QED
    BY <2>4, <2>5, <2>6, <2>7 DEF o
<1>6. CASE ~(v.cooldown > 0) /\ ~v.started /\ sound # "voiced"
  <2> HIDE DEF h, o
  <2>1. o.vad = w /\ o.said = <<>> /\ o.reason = "none"
    BY <1>3, <1>6
  <2>2. GoodOutcome(o, v, g, u, D, "silero")
    BY <1>2, <1>6, <2>1, NoFrames DEF GoodOutcome
  <2>3. Len(o.said) <= PreRoll + 1
    BY <1>0, <2>1, NoFrames
  <2> QED
    BY <1>2, <1>6, <2>1, <2>2, <2>3 DEF o
<1>7. CASE ~(v.cooldown > 0) /\ ~v.started /\ sound = "voiced"
  <2> DEFINE x == ProbabilityBegin(w)
  <2>1. v.cooldown = 0
    BY <1>4, <1>7
  <2>2. x = [started |-> TRUE, preRoll |-> <<>>, frames |-> w.preRoll, silence |-> 0,
             speech |-> 1, duration |-> Len(w.preRoll), cooldown |-> 0]
    <3>1. w = [started |-> FALSE, preRoll |-> w.preRoll, frames |-> v.frames,
               silence |-> v.silence, speech |-> v.speech,
               duration |-> v.duration, cooldown |-> 0]
      BY <1>1, <1>4, <1>7, <2>1 DEF VadStates
    <3>2. Begin(w) = [started |-> TRUE, preRoll |-> <<>>, frames |-> w.preRoll,
                      silence |-> v.silence, speech |-> v.speech,
                      duration |-> v.duration, cooldown |-> 0]
      <4> DEFINE pre == w.preRoll
      <4>1. Begin(w) = [w EXCEPT !.started = TRUE, !.frames = pre, !.preRoll = <<>>]
        BY DEF Begin
      <4>2. w = [started |-> FALSE, preRoll |-> pre, frames |-> v.frames,
                 silence |-> v.silence, speech |-> v.speech,
                 duration |-> v.duration, cooldown |-> 0]
        BY <3>1
      <4> HIDE DEF pre
      <4>3. Begin(w) = [started |-> TRUE, preRoll |-> <<>>, frames |-> pre,
                        silence |-> v.silence, speech |-> v.speech,
                        duration |-> v.duration, cooldown |-> 0]
        BY <4>1, <4>2
      <4> QED
        BY <4>3 DEF pre
    <3>3. x = [Begin(w) EXCEPT !.duration = Len(w.preRoll), !.speech = 1, !.silence = 0]
      BY DEF ProbabilityBegin
    <3> DEFINE b == Begin(w)
               n == Len(w.preRoll)
               pre == w.preRoll
    <3>4. b = [started |-> TRUE, preRoll |-> <<>>, frames |-> pre,
               silence |-> v.silence, speech |-> v.speech,
               duration |-> v.duration, cooldown |-> 0]
      BY <3>2
    <3>5. x = [b EXCEPT !.duration = n, !.speech = 1, !.silence = 0]
      BY <3>3
    <3> HIDE DEF x, b, n, pre
    <3>6. x = [started |-> TRUE, preRoll |-> <<>>, frames |-> pre, silence |-> 0,
               speech |-> 1, duration |-> n, cooldown |-> 0]
      BY <3>4, <3>5
    <3> QED
      BY <3>6 DEF n, pre
  <2> HIDE DEF x, h, o
  <2>3. Len(w.preRoll) \in Nat /\ Len(w.preRoll) >= 1
    BY <1>1
  <2>4. x \in VadStates
    <3>1. /\ 0 \in 0..Silence /\ 1 \in 0..MaxUtterance /\ 0 \in 0..Cooldown
          /\ Len(w.preRoll) \in 0..(MaxUtterance + PreRoll)
      BY <1>0, <1>1, <2>3
    <3> QED
      BY <1>1, <2>2, <3>1, NoFrames, VadState
  <2>5. /\ x.started = TRUE /\ x.preRoll = <<>> /\ x.frames = w.preRoll /\ x.silence = 0
        /\ x.speech = 1 /\ x.duration = Len(w.preRoll) /\ x.cooldown = 0
    BY <2>2
  <2>6. Segment(x, g, u, D, "silero")
    BY <1>1, <2>5, NoFrames, ChainIsUnbroken DEF Segment, Reaches
  <2>7. Counts(x, "silero")
    BY <1>0, <1>1, <2>3, <2>5, NoFrames DEF Counts
  <2>8. o.vad = x /\ o.said = <<>> /\ o.reason = "none"
    BY <1>3, <1>7 DEF x
  <2>9. GoodOutcome(o, v, g, u, D, "silero")
    BY <1>7, <2>4, <2>5, <2>6, <2>7, <2>8, NoFrames DEF GoodOutcome
  <2>10. Len(o.said) <= PreRoll + 1
    BY <1>0, <2>8, NoFrames
  <2> QED
    BY <1>7, <2>5, <2>8, <2>9, <2>10 DEF o
<1>8. CASE ~(v.cooldown > 0) /\ v.started
  <2> DEFINE all == Append(v.frames, f)
             d == v.duration + 1
             n == IF sound = "voiced" THEN v.speech + 1 ELSE v.speech
  <2>1. v.cooldown = 0
    BY <1>4, <1>8
  <2>2. h = [started |-> TRUE, preRoll |-> w.preRoll, frames |-> all, silence |-> i,
             speech |-> n, duration |-> d, cooldown |-> 0]
    <3>1. w = [started |-> TRUE, preRoll |-> w.preRoll, frames |-> v.frames,
               silence |-> v.silence, speech |-> v.speech,
               duration |-> v.duration, cooldown |-> 0]
      BY <1>1, <1>4, <1>8, <2>1 DEF VadStates
    <3>2. h = [w EXCEPT !.frames = all, !.duration = d, !.speech = n, !.silence = i]
      BY <1>4 DEF ProbabilityHeard
    <3> DEFINE pre == w.preRoll
    <3>3. w = [started |-> TRUE, preRoll |-> pre, frames |-> v.frames,
               silence |-> v.silence, speech |-> v.speech,
               duration |-> v.duration, cooldown |-> 0]
      BY <3>1
    <3> HIDE DEF h, all, d, n, i, pre
    <3>4. h = [started |-> TRUE, preRoll |-> pre, frames |-> all, silence |-> i,
               speech |-> n, duration |-> d, cooldown |-> 0]
      BY <3>2, <3>3
    <3> QED
      BY <3>4 DEF pre
  <2>3. /\ Unbroken(all, D, "silero") /\ Newer(all, u) /\ Reaches(all, g, D)
        /\ all \in Seq(Frames) /\ all # <<>> /\ Len(all) = Len(v.frames) + 1
    BY <1>4, AppendFrame, SegmentGrows DEF Segment
  <2>4. /\ Len(v.frames) = v.duration /\ v.speech <= v.duration
        /\ v.duration < MaxUtterance \/ v.duration <= PreRoll
    BY DEF Counts
  <2>5. i \in Nat /\ n \in Nat /\ d \in Nat /\ n <= d
    BY <1>4, <2>4
  <2>6. Len(all) <= MaxUtterance \/ Len(all) <= PreRoll + 1
    BY <1>0, <1>4, <2>3, <2>4
  <2>7. o = IF h.duration >= MaxUtterance THEN FinishOrDrop(h, "max_duration")
            ELSE IF h.silence >= Silence THEN FinishOrDrop(h, "vad_silence")
            ELSE [vad |-> h, said |-> <<>>, reason |-> "none"]
    BY <1>3, <1>8
  <2> HIDE DEF h, o, all, n, i
  <2>8. CASE d >= MaxUtterance \/ i >= Silence
    <3>1. \/ o = FinishOrDrop(h, "max_duration")
          \/ o = FinishOrDrop(h, "vad_silence") /\ i >= Silence /\ d < MaxUtterance
      BY <1>0, <2>2, <2>5, <2>7, <2>8
    <3>2. CASE h.speech < MinSpeech
      <4>1. o.vad = Drop(Fresh) /\ o.said = <<>> /\ o.reason = "none"
        BY <3>1, <3>2 DEF FinishOrDrop, Nothing, Drop
      <4>2. GoodOutcome(o, v, g, u, D, "silero") /\ ~o.vad.started
        BY <4>1, NoSegment, NoFrames DEF GoodOutcome
      <4>3. Len(o.said) <= PreRoll + 1
        BY <1>0, <4>1, NoFrames
      <4> QED
        BY <4>1, <4>2, <4>3 DEF o, i
    <3>3. CASE ~(h.speech < MinSpeech)
      <4>1. /\ o.vad = Fresh /\ o.said = all
            /\ \/ o.reason = "max_duration"
               \/ o.reason = "vad_silence" /\ i >= Silence /\ d < MaxUtterance
        BY <2>2, <3>1, <3>3 DEF FinishOrDrop, Finish
      <4>2. GoodOutcome(o, v, g, u, D, "silero") /\ ~o.vad.started
        BY <2>3, <4>1, NoSegment DEF GoodOutcome
      <4> QED
        BY <1>8, <2>1, <2>6, <4>1, <4>2 DEF o, i
    <3> QED
      BY <3>2, <3>3
  <2>9. CASE ~(d >= MaxUtterance \/ i >= Silence)
    <3>1. o.vad = h /\ o.said = <<>> /\ o.reason = "none"
      BY <2>2, <2>7, <2>9
    <3>2. d < MaxUtterance /\ i < Silence
      BY <1>0, <2>5, <2>9
    <3>3. h \in VadStates
      <4>1. /\ i \in 0..Silence /\ n \in 0..MaxUtterance /\ 0 \in 0..Cooldown
            /\ d \in 0..(MaxUtterance + PreRoll)
        BY <1>0, <2>5, <3>2
      <4> QED
        BY <1>1, <2>2, <2>3, <4>1, VadState
    <3>4. /\ h.started = TRUE /\ h.preRoll = w.preRoll /\ h.frames = all
          /\ h.silence = i /\ h.speech = n /\ h.duration = d /\ h.cooldown = 0
      BY <2>2
    <3>5. Counts(h, "silero")
      <4>1. Len(all) = d
        BY <2>3, <2>4
      <4> QED
        BY <1>1, <2>5, <3>2, <3>4, <4>1 DEF Counts
    <3>6. Segment(h, g, u, D, "silero")
      BY <1>1, <2>3, <3>4 DEF Segment, Reaches
    <3>7. GoodOutcome(o, v, g, u, D, "silero")
      BY <3>1, <3>3, <3>4, <3>5, <3>6, NoFrames DEF GoodOutcome
    <3>8. Len(o.said) <= PreRoll + 1
      BY <1>0, <3>1, NoFrames
    <3> QED
      BY <1>8, <3>1, <3>4, <3>7, <3>8 DEF o, i
  <2> QED
    BY <2>8, <2>9
<1> QED
  BY <1>4, <1>5, <1>6, <1>7, <1>8

-----------------------------------------------------------------------------
\* The microphone's queue.

LEMMA NextJoins ==
  ASSUME NEW f \in Nat, NEW D
  PROVE  Joins(f, f + 1, D)
  BY DEF Joins

\* A frame more that is lost breaks no chain, and the chain reaches past it.
LEMMA MoreLost ==
  ASSUME NEW D, NEW E, D \subseteq E
  PROVE  /\ \A f, g : Joins(f, g, D) => Joins(f, g, E)
         /\ \A s : Chain(s, D) => Chain(s, E)
         /\ \A s, e : Unbroken(s, D, e) => Unbroken(s, E, e)
         /\ \A s, g : Reaches(s, g, D) => Reaches(s, g, E)
<1>1. \A f, g : Joins(f, g, D) => Joins(f, g, E)
  BY DEF Joins
<1>2. \A s : Chain(s, D) => Chain(s, E)
  BY <1>1 DEF Chain
<1>3. \A s, r, e : ChainBut(s, r, D, e) => ChainBut(s, r, E, e)
  BY <1>1 DEF ChainBut
<1> QED
  BY <1>1, <1>2, <1>3 DEF Unbroken, Reaches

LEMMA PastLost ==
  ASSUME NEW s \in Seq(Frames), NEW g \in Nat, NEW D, Reaches(s, g, D)
  PROVE  Reaches(s, g + 1, D \cup {g})
<1> SUFFICES ASSUME s # <<>> PROVE Joins(s[Len(s)], g + 1, D \cup {g})
  BY DEF Reaches
<1> DEFINE f == s[Len(s)]
<1>1. f \in Nat
  <2>1. s[Len(s)] \in Frames
    OBVIOUS
  <2> QED
    BY <2>1, FramesAreNumbers
<1>2. Joins(f, g, D)
  BY DEF Reaches
<1> HIDE DEF f
<1>3. f < g + 1 /\ \A k \in (f + 1)..((g + 1) - 1) : k = g \/ k \in (f + 1)..(g - 1)
  BY <1>1, <1>2 DEF Joins
<1> QED
  BY <1>2, <1>3 DEF Joins, f

\* The number of the frame handled last, from the queue s and the count c.
Past(s, c) == IF s = <<>> THEN c ELSE Head(s) - 1

LEMMA PastIsNumber == MicrophoneInv => Handled \in 0..MaxFrames
<1> SUFFICES ASSUME MicrophoneInv PROVE Handled \in 0..MaxFrames
  OBVIOUS
<1>1. CASE buffer = <<>>
  BY <1>1 DEF Handled, MicrophoneInv
<1>2. CASE buffer # <<>>
  <2>1. Head(buffer) = buffer[1] /\ 1 \in 1..Len(buffer)
    BY <1>2 DEF MicrophoneInv
  <2>2. captured \in 0..MaxFrames /\ MaxFrames \in Nat /\ buffer[1] \in 1..captured
    BY <2>1, ListeningAssumption DEF MicrophoneInv
  <2> QED
    BY <1>2, <2>1, <2>2 DEF Handled
<1> QED
  BY <1>1, <1>2

LEMMA PastNext == MicrophoneInv' => (Handled \in 0..MaxFrames)'
  BY PastIsNumber, PTL

\* The frame at the head is the one after the frame handled last, but for
\* what was lost; the rest of the queue goes on from it.
LEMMA TakeFrame ==
  ASSUME NEW s \in Seq(Frames), s # <<>>, NEW c \in Nat, NEW D,
         Chain(s, D), Reaches(s, c + 1, D), \A i \in 1..Len(s) : s[i] \in 1..c
  PROVE  /\ Head(s) \in Frames /\ Head(s) \in 1..c /\ Past(s, c) + 1 = Head(s)
         /\ Tail(s) \in Seq(Frames) /\ Len(Tail(s)) = Len(s) - 1
         /\ Chain(Tail(s), D) /\ Reaches(Tail(s), c + 1, D)
         /\ \A i \in 1..Len(Tail(s)) : Tail(s)[i] \in 1..c
         /\ Head(s) <= Past(Tail(s), c)
         /\ Joins(Head(s), Past(Tail(s), c) + 1, D)
<1> DEFINE t == Tail(s)
<1>1. /\ t \in Seq(Frames) /\ Len(t) = Len(s) - 1 /\ Len(s) \in Nat \ {0}
      /\ \A i \in 1..(Len(s) - 1) : t[i] = s[i + 1]
      /\ Head(s) = s[1] /\ s[1] \in Frames
      /\ t # <<>> => Head(t) = t[1] /\ Len(s) > 1
      /\ t = <<>> => Len(s) = 1
  <2>1. /\ t \in Seq(Frames) /\ Len(t) = Len(s) - 1 /\ Len(s) \in Nat \ {0}
        /\ \A i \in 1..(Len(s) - 1) : t[i] = s[i + 1]
    OBVIOUS
  <2>2. Head(s) = s[1] /\ s[1] \in Frames
    OBVIOUS
  <2> HIDE DEF t
  <2>3. t # <<>> => Head(t) = t[1] /\ Len(t) >= 1
    BY <2>1
  <2>4. t = <<>> => Len(t) = 0
    OBVIOUS
  <2> QED
    BY <2>1, <2>2, <2>3, <2>4
<1> HIDE DEF t
<1>2. 1 \in 1..Len(s) /\ Head(s) \in 1..c
  BY <1>1
<1>3. \A i \in 1..Len(t) : t[i] \in 1..c
  <2> SUFFICES ASSUME NEW i \in 1..Len(t) PROVE t[i] \in 1..c
    OBVIOUS
  <2>1. i \in 1..(Len(s) - 1) /\ i + 1 \in 1..Len(s)
    BY <1>1
  <2> QED
    BY <1>1, <2>1
<1>4. Chain(t, D)
  <2> SUFFICES ASSUME NEW i \in 1..(Len(t) - 1) PROVE Joins(t[i], t[i + 1], D)
    BY DEF Chain
  <2>1. /\ i \in 1..(Len(s) - 1) /\ i + 1 \in 1..(Len(s) - 1)
    BY <1>1
  <2> QED
    BY <1>1, <2>1 DEF Chain
<1>5. Reaches(t, c + 1, D)
  <2> SUFFICES ASSUME t # <<>> PROVE Joins(t[Len(t)], c + 1, D)
    BY DEF Reaches
  <2>1. Len(t) \in 1..(Len(s) - 1) /\ Len(t) + 1 = Len(s)
    BY <1>1
  <2>2. t[Len(t)] = s[Len(s)]
    BY <1>1, <2>1
  <2> QED
    BY <2>2 DEF Reaches
<1>6. Past(s, c) + 1 = Head(s)
  BY <1>2 DEF Past
<1>7. Head(s) <= Past(t, c) /\ Joins(Head(s), Past(t, c) + 1, D)
  <2>1. CASE t = <<>>
    <3>1. Past(t, c) = c /\ s[Len(s)] = s[1]
      BY <1>1, <2>1 DEF Past
    <3> QED
      BY <1>1, <1>2, <3>1 DEF Reaches
  <2>2. CASE t # <<>>
    <3>1. 1 \in 1..(Len(s) - 1) /\ t[1] = s[2] /\ 1 \in 1..Len(t)
      BY <1>1, <2>2
    <3>2. t[1] \in 1..c /\ Past(t, c) + 1 = t[1] /\ Past(t, c) = t[1] - 1
      BY <1>1, <1>3, <2>2, <3>1 DEF Past
    <3>3. Joins(s[1], s[2], D)
      BY <3>1 DEF Chain
    <3>4. s[1] < t[1]
      BY <3>1, <3>3 DEF Joins
    <3> QED
      BY <1>1, <1>2, <3>1, <3>2, <3>3, <3>4
  <2> QED
    BY <2>1, <2>2
<1> QED
  BY <1>1, <1>2, <1>3, <1>4, <1>5, <1>6, <1>7 DEF t

-----------------------------------------------------------------------------
\* The steps of the worker and of the tasks that arm and disarm it.

\* What the limits make of the counters.
LEMMA CountsBound ==
  ASSUME NEW v \in VadStates, Counts(v, engine), engine \in {"energy", "silero"}
  PROVE  Len(v.preRoll) <= PreRoll /\ Len(v.frames) <= Longest
<1>1. /\ PreRoll \in Nat \ {0} /\ MaxUtterance \in Nat \ {0}
      /\ v.duration \in Nat /\ v.frames \in Seq(Frames) /\ v.started \in BOOLEAN
  BY VadAssumption DEF VadStates
<1>2. Len(v.frames) \in Nat /\ (v.frames = <<>> => Len(v.frames) = 0)
  BY <1>1
<1>3. CASE engine = "energy"
  BY <1>1, <1>2, <1>3 DEF Counts, Longest
<1>4. CASE engine = "silero"
  BY <1>1, <1>2, <1>4 DEF Counts, Longest
<1>5. Len(v.preRoll) <= PreRoll
  BY DEF Counts
<1> QED
  BY <1>3, <1>4, <1>5

\* The invariant bounds what the types bound.
LEMMA ListeningTyped == ListeningInv => TypeOK
<1> SUFFICES ASSUME ListeningInv PROVE TypeOK
  OBVIOUS
<1>1. Len(vad.preRoll) <= PreRoll /\ Len(vad.frames) <= Longest
  BY CountsBound DEF ListeningInv, SegmentInv
<1>2. used \in 0..MaxFrames
  <2>1. Handled \in 0..MaxFrames /\ used <= Handled /\ MaxFrames \in Nat
    BY PastIsNumber, ListeningAssumption DEF ListeningInv, SegmentInv
  <2> QED
    BY <2>1 DEF ListeningInv
<1>3. vad \in [started : BOOLEAN, preRoll : Seq(Frames), frames : Seq(Frames),
               silence : 0..Silence, speech : 0..MaxUtterance,
               duration : 0..(MaxUtterance + PreRoll), cooldown : 0..Cooldown]
  BY DEF ListeningInv, VadStates
<1>4. said \in [frames : Seq(Frames), reason : {"none", "max_duration", "vad_silence"},
                after : 0..MaxFrames]
  BY DEF ListeningInv
<1>5. /\ captured \in 0..MaxFrames
      /\ buffer \in Seq(Frames) /\ Len(buffer) <= BufferSize
      /\ dropped \subseteq Frames
  BY DEF ListeningInv, MicrophoneInv
<1> QED
  BY <1>1, <1>2, <1>3, <1>4, <1>5 DEF TypeOK, ListeningInv

LEMMA ListeningStart ==
  ASSUME Init
  PROVE  ListeningInv
<1>0. /\ MaxFrames \in Nat /\ BufferSize \in Nat \ {0} /\ WindowSamples \in Nat \ {0}
      /\ PreRoll \in Nat \ {0} /\ MaxUtterance \in Nat \ {0}
  BY ListeningAssumption, VadAssumption
<1>1. MicrophoneInv
  BY <1>0, NoFrames DEF Init, MicrophoneInv
<1>2. SegmentInv
  <2>1. vad = Fresh /\ used = 0 /\ Handled = 0 /\ engine \in {"energy", "silero"}
    BY DEF Init, Handled
  <2> QED
    BY <2>1, NoSegment DEF SegmentInv
<1>3. SaidInv
  BY NoFrames DEF Init, SaidInv, NothingSaid
<1>4. SilenceInv /\ SilenceWasHeard
  BY NoSegment DEF Init, SilenceInv, SilenceWasHeard
<1>5. vad \in VadStates
  BY NoSegment DEF Init
<1>6. said \in [frames : Seq(Frames), after : 0..MaxFrames,
                reason : {"none", "max_duration", "vad_silence"}]
  BY <1>0, NoFrames DEF Init, NothingSaid
<1>7. Len(said.frames) <= Longest
  BY <1>0, NoFrames DEF Init, NothingSaid, Longest
<1>8. /\ engine \in {"energy", "silero"} /\ pending \in 0..(WindowSamples - 1)
      /\ listening \in {"off", "window", "presence"} /\ blocked \in BOOLEAN
      /\ used \in Nat /\ quiet \in BOOLEAN
  <2>1. 0 \in 0..(WindowSamples - 1)
    BY <1>0
  <2> QED
    BY <2>1 DEF Init
<1> QED
  BY <1>1, <1>2, <1>3, <1>4, <1>5, <1>6, <1>7, <1>8 DEF ListeningInv

\* A reset, whoever asks for it.
LEMMA ResetKeeps ==
  ASSUME ListeningInv, MicrophoneInv', UNCHANGED <<engine, dropped>>,
         NEW upTo \in Nat, Reset(upTo), upTo <= Handled',
         listening' \in {"off", "window", "presence"},
         blocked' \in BOOLEAN, blocked' => blocked
  PROVE  ListeningInv'
<1>0. vad' = Fresh /\ pending' = 0 /\ used' = upTo /\ UNCHANGED <<said, quiet>>
  BY DEF Reset
<1>1. SegmentInv'
  <2>1. Segment(vad', (Handled + 1)', used', dropped', engine') /\ Counts(vad', engine')
    BY <1>0, NoSegment DEF ListeningInv
  <2> QED
    BY <1>0, <2>1 DEF SegmentInv
<1>2. SaidInv'
  BY <1>0 DEF SaidInv, ListeningInv
<1>3. SilenceInv' /\ SilenceWasHeard'
  BY <1>0, NoSegment DEF ListeningInv, SilenceInv, SilenceWasHeard, GapsAreShort, FrameSamples
<1>4. vad' \in VadStates /\ pending' \in 0..(WindowSamples - 1)
  BY <1>0, NoSegment, SamplesAreNumbers
<1>5. Longest' = Longest
  BY DEF Longest
<1> QED
  BY <1>0, <1>1, <1>2, <1>3, <1>4, <1>5 DEF ListeningInv

LEMMA SameHandled == UNCHANGED microphoneVars => Handled' = Handled
  BY DEF microphoneVars, Handled

LEMMA FrameTaken ==
  ASSUME ListeningInv, NextFrame
  PROVE  LET f == Head(buffer)
         IN  /\ MicrophoneInv' /\ UNCHANGED <<engine, dropped>> /\ ~blocked
             /\ f \in Frames /\ f \in Nat /\ f = Handled + 1 /\ f > used
             /\ f <= Handled' /\ Joins(f, Handled' + 1, dropped)
<1> DEFINE f == Head(buffer)
<1>0. captured \in Nat /\ MicrophoneInv /\ MaxFrames \in Nat /\ used \in Nat
  BY ListeningAssumption DEF ListeningInv, MicrophoneInv
<1>1. /\ buffer # <<>> /\ buffer' = Tail(buffer) /\ ~blocked
      /\ UNCHANGED <<captured, dropped, engine>>
  BY DEF NextFrame
<1>2. /\ f \in Frames /\ f \in 1..captured /\ Past(buffer, captured) + 1 = f
      /\ buffer' \in Seq(Frames) /\ Len(buffer') = Len(buffer) - 1
      /\ Chain(buffer', dropped) /\ Reaches(buffer', captured + 1, dropped)
      /\ \A i \in 1..Len(buffer') : buffer'[i] \in 1..captured
      /\ f <= Past(buffer', captured)
      /\ Joins(f, Past(buffer', captured) + 1, dropped)
  BY <1>0, <1>1, TakeFrame DEF MicrophoneInv
<1>3. MicrophoneInv'
  <2>1. Len(buffer) \in Nat /\ Len(buffer) <= BufferSize /\ BufferSize \in Nat
    BY <1>0, ListeningAssumption DEF MicrophoneInv
  <2> QED
    BY <1>0, <1>1, <1>2, <2>1 DEF MicrophoneInv
<1>4. Handled = Past(buffer, captured) /\ Handled' = Past(buffer', captured)
  BY <1>1 DEF Handled, Past
<1>5. f \in Nat /\ f > used
  <2>1. used <= Handled /\ Handled \in 0..MaxFrames
    BY <1>0, PastIsNumber DEF ListeningInv, SegmentInv
  <2> QED
    BY <1>0, <1>2, <1>4, <2>1
<1> QED
  BY <1>1, <1>2, <1>3, <1>4, <1>5

\* A frame is captured: it waits behind the others, or the chains reach past it.
LEMMA CaptureKeeps ==
  ASSUME ListeningInv, Capture
  PROVE  ListeningInv'
<1> DEFINE f == captured + 1
<1>0. /\ captured \in Nat /\ captured < MaxFrames /\ MaxFrames \in Nat /\ captured' = f
      /\ MicrophoneInv /\ SegmentInv /\ SaidInv /\ BufferSize \in Nat
      /\ vad \in VadStates /\ said.frames \in Seq(Frames)
  BY ListeningAssumption DEF Capture, ListeningInv, MicrophoneInv
<1>1. UNCHANGED <<engine, vad, pending, said, used, quiet, listening, blocked>>
  BY DEF Capture, segmenterVars
<1>2. f \in Frames /\ f \in Nat /\ f > 0 /\ f <= MaxFrames
  BY <1>0 DEF Frames
<1>3. buffer \in Seq(Frames) /\ Len(buffer) \in Nat /\ Len(buffer) <= BufferSize
  BY <1>0 DEF MicrophoneInv
<1>4. CASE Len(buffer) < BufferSize /\ buffer' = Append(buffer, f) /\ UNCHANGED dropped
  <2>1. /\ buffer' \in Seq(Frames) /\ Len(buffer') = Len(buffer) + 1 /\ buffer' # <<>>
        /\ buffer'[Len(buffer) + 1] = f
        /\ \A i \in 1..Len(buffer) : buffer'[i] = buffer[i]
    BY <1>2, <1>3, <1>4, AppendFrame
  <2>2. Newer(buffer, 0)
    BY <1>0 DEF MicrophoneInv, Newer
  <2>3. Joins(f, f + 1, dropped)
    BY <1>2, NextJoins
  <2>4. Chain(buffer', dropped) /\ Reaches(buffer', f + 1, dropped)
    BY <1>0, <1>2, <1>3, <1>4, <2>2, <2>3, ChainGrows DEF MicrophoneInv
  <2>5. \A i \in 1..Len(buffer') : buffer'[i] \in 1..f
    <3> SUFFICES ASSUME NEW i \in 1..Len(buffer') PROVE buffer'[i] \in 1..f
      OBVIOUS
    <3>1. i \in 1..Len(buffer) \/ i = Len(buffer) + 1
      BY <1>3, <2>1
    <3>2. i \in 1..Len(buffer) => buffer'[i] \in 1..captured
      BY <1>0, <2>1 DEF MicrophoneInv
    <3> QED
      BY <1>0, <2>1, <3>1, <3>2
  <2>6. MicrophoneInv'
    BY <1>0, <1>2, <1>3, <1>4, <2>1, <2>4, <2>5 DEF MicrophoneInv
  <2>7. Handled' = Handled
    <3>1. CASE buffer = <<>>
      BY <1>0, <1>4, <2>1, <3>1 DEF Handled
    <3>2. CASE buffer # <<>>
      <4>1. Head(buffer') = Head(buffer)
        BY <1>3, <1>4, <2>1, <3>2
      <4> QED
        BY <2>1, <3>2, <4>1 DEF Handled
    <3> QED
      BY <3>1, <3>2
  <2>8. SegmentInv' /\ SaidInv' /\ SilenceInv' /\ SilenceWasHeard'
    BY <1>1, <1>4, <2>7
    DEF ListeningInv, SegmentInv, SaidInv, SilenceInv, SilenceWasHeard, GapsAreShort,
        FrameSamples
  <2> QED
    BY <1>1, <2>6, <2>8 DEF ListeningInv, Longest
<1>5. CASE dropped' = dropped \cup {f} /\ UNCHANGED buffer
  <2>0. dropped \subseteq dropped'
    BY <1>5
  <2>1. Chain(buffer, dropped') /\ Reaches(buffer, f + 1, dropped')
    BY <1>0, <1>2, <1>3, <1>5, <2>0, MoreLost, PastLost DEF MicrophoneInv
  <2>2. \A i \in 1..Len(buffer) : buffer[i] \in 1..f
    BY <1>0 DEF MicrophoneInv
  <2>3. MicrophoneInv'
    BY <1>0, <1>2, <1>3, <1>5, <2>1, <2>2 DEF MicrophoneInv
  <2>4. \/ Handled' = Handled
        \/ Handled' = Handled + 1 /\ Handled + 1 = f
    BY <1>0, <1>5 DEF Handled
  <2>5. ASSUME NEW s \in Seq(Frames), Reaches(s, Handled + 1, dropped)
        PROVE  Reaches(s, Handled' + 1, dropped')
    <3>1. CASE Handled' = Handled
      BY <2>0, <2>5, <3>1, MoreLost
    <3>2. CASE Handled' = Handled + 1 /\ Handled + 1 = f
      BY <1>2, <1>5, <2>5, <3>2, PastLost
    <3> QED
      BY <2>4, <3>1, <3>2
  <2>6. Segment(vad, Handled' + 1, used, dropped', engine)
    BY <1>0, <2>0, <2>5, MoreLost DEF SegmentInv, Segment, VadStates
  <2>7. used <= Handled'
    <3>1. used <= Handled /\ Handled \in 0..MaxFrames /\ used \in Nat
      BY <1>0, PastIsNumber DEF SegmentInv, ListeningInv
    <3> QED
      BY <1>0, <2>4, <3>1
  <2>8. SegmentInv' /\ SaidInv'
    BY <1>0, <1>1, <2>0, <2>6, <2>7, MoreLost DEF SegmentInv, SaidInv
  <2>9. SilenceInv' /\ SilenceWasHeard'
    BY <1>1 DEF ListeningInv, SilenceInv, SilenceWasHeard, GapsAreShort, FrameSamples
  <2> QED
    BY <1>1, <2>3, <2>8, <2>9 DEF ListeningInv, Longest
<1> QED
  BY <1>0, <1>4, <1>5 DEF Capture

\* Listening is armed, disarmed or given up.
LEMMA ArmingKeeps ==
  ASSUME ListeningInv, ArmWindow \/ ArmPresence \/ Disarm \/ UtteranceQueued
  PROVE  ListeningInv'
<1>1. /\ UNCHANGED <<microphoneVars, engine>> /\ listening' \in {"off", "window", "presence"}
      /\ blocked' \in BOOLEAN /\ (blocked' => blocked)
  <2>1. UNCHANGED <<microphoneVars, engine>>
    BY DEF ArmWindow, ArmPresence, Disarm, UtteranceQueued
  <2>2. listening' \in {"off", "window", "presence"}
    BY DEF ArmWindow, ArmPresence, Disarm, UtteranceQueued
  <2>3. blocked' = blocked \/ blocked' = FALSE
    BY DEF ArmWindow, ArmPresence, Disarm, UtteranceQueued
  <2>4. blocked \in BOOLEAN
    BY DEF ListeningInv
  <2>5. blocked' \in BOOLEAN
    BY <2>3, <2>4
  <2>6. blocked' => blocked
    BY <2>3, <2>4, Zenon
  <2> QED
    BY <2>1, <2>2, <2>5, <2>6
<1>2. MicrophoneInv' /\ UNCHANGED <<engine, dropped>>
  BY <1>1 DEF ListeningInv, MicrophoneInv, microphoneVars
<1>3. Handled' = Handled /\ Handled \in 0..MaxFrames
  BY <1>1, SameHandled, PastIsNumber DEF ListeningInv
<1>4. Handled \in Nat /\ Handled <= Handled'
  BY <1>3, ListeningAssumption
<1>5. CASE Reset(Handled)
  BY <1>1, <1>2, <1>4, <1>5, ResetKeeps
<1>6. CASE ArmPresence /\ listening = "presence" /\ UNCHANGED segmenterVars
  BY <1>1, <1>2, <1>3, <1>6
  DEF ArmPresence, segmenterVars, microphoneVars, ListeningInv, SegmentInv, SaidInv,
      SilenceInv, SilenceWasHeard, GapsAreShort, FrameSamples, Longest
<1> QED
  BY <1>5, <1>6 DEF ArmWindow, ArmPresence, Disarm, UtteranceQueued

LEMMA GiveUpKeeps ==
  ASSUME ListeningInv, GiveUp
  PROVE  ListeningInv'
<1>1. /\ NextFrame /\ listening' = "off" /\ Reset(Head(buffer)) /\ UNCHANGED blocked
  BY DEF GiveUp
<1>2. /\ MicrophoneInv' /\ UNCHANGED <<engine, dropped>>
      /\ Head(buffer) \in Nat /\ Head(buffer) <= Handled'
  BY <1>1, FrameTaken
<1>3. blocked' \in BOOLEAN /\ (blocked' => blocked)
  BY <1>1 DEF ListeningInv
<1> QED
  BY <1>1, <1>2, <1>3, ResetKeeps

LEMMA SkipKeeps ==
  ASSUME ListeningInv, SkipFrame
  PROVE  ListeningInv'
<1>1. /\ NextFrame /\ listening = "off" /\ used' = Head(buffer)
      /\ UNCHANGED <<vad, pending, said, quiet, listening, blocked>>
  BY DEF SkipFrame
<1>2. /\ MicrophoneInv' /\ UNCHANGED <<engine, dropped>>
      /\ Head(buffer) \in Nat /\ Head(buffer) <= Handled'
  BY <1>1, FrameTaken
<1>3. vad = Fresh
  BY <1>1 DEF ListeningInv, SegmentInv
<1>4. SegmentInv'
  <2>1. Segment(vad', (Handled + 1)', used', dropped', engine') /\ Counts(vad', engine')
    BY <1>1, <1>2, <1>3, NoSegment DEF ListeningInv
  <2> QED
    BY <1>1, <1>2, <1>3, <2>1 DEF SegmentInv
<1>5. SaidInv'
  BY <1>1, <1>2 DEF ListeningInv, SaidInv
<1>6. SilenceInv' /\ SilenceWasHeard'
  BY <1>1, <1>2
  DEF ListeningInv, SilenceInv, SilenceWasHeard, GapsAreShort, FrameSamples
<1> QED
  BY <1>1, <1>2, <1>4, <1>5, <1>6 DEF ListeningInv, Longest

\* Silence that was not analysed is a few frames at most that fill no window,
\* with the frame that is accepted now as well.
LEMMA GapsStep ==
  ASSUME ListeningInv, engine = "silero", vad.started,
         NEW sound \in Possible,
         ~((sound = "silent" /\ Analysed) \/ (sound # "voiced" /\ quiet)),
         NEW w, w.duration = vad.duration + 1,
         w.silence = CASE sound = "voiced" -> 0
                       [] sound = "silent" -> vad.silence + 1
                       [] OTHER -> vad.silence
  PROVE  FewGaps(w, Pending(pending)) /\ Pending(pending) \in 0..(WindowSamples - 1)
<1>0. /\ vad.silence \in Nat /\ vad.duration \in Nat /\ pending \in 0..(WindowSamples - 1)
      /\ pending \in Nat
  BY VadAssumption DEF ListeningInv, VadStates
<1>1. sound \in SileroSounds(pending) /\ sound \in Sounds
  BY DEF Possible, SileroSounds, Sounds
<1>2. Pending(pending) \in 0..(WindowSamples - 1) /\ Pending(pending) \in Nat
  BY <1>0, SamplesAreNumbers
<1>3. CASE sound = "voiced"
  <2>1. w.silence = 0 /\ w.duration \in Nat
    BY <1>0, <1>3
  <2> QED
    BY <1>2, <2>1, NoGaps
<1>4. CASE sound # "voiced"
  <2>1. FewGaps(vad, pending)
    BY <1>4 DEF ListeningInv, SilenceInv
  <2>2. vad.cooldown = 0
    BY DEF ListeningInv, SegmentInv, Counts
  <2>3. \/ FillsWindow(pending) /\ w.silence = vad.silence
        \/ ~FillsWindow(pending) /\ w.silence = vad.silence + 1
    <3>1. CASE sound = "silent"
      BY <2>2, <3>1 DEF Analysed
    <3>2. CASE sound = "unsure"
      BY <1>1, <3>2 DEF SileroSounds
    <3> QED
      BY <1>1, <1>4, <3>1, <3>2 DEF Sounds
  <2>4. FewGaps(w, Pending(pending))
    BY <1>0, <2>1, <2>3, GapsGrow
  <2> QED
    BY <1>2, <2>4
<1> QED
  BY <1>3, <1>4

\* What the worker gets from either segmenter for the frame at the head.
LEMMA OutcomeIsGood ==
  ASSUME ListeningInv, NextFrame, NEW sound \in Possible
  PROVE  LET o == Outcome(Head(buffer), sound)
         IN  /\ GoodOutcome(o, vad, Handled' + 1, used, dropped, engine)
             /\ Len(o.said) <= Longest
<1> DEFINE f == Head(buffer)
           o == Outcome(f, sound)
<1>0. /\ PreRoll \in Nat \ {0} /\ MaxUtterance \in Nat \ {0}
      /\ vad \in VadStates /\ engine \in {"energy", "silero"} /\ used \in Nat
      /\ f \in Frames /\ f = Handled + 1 /\ f > used /\ Joins(f, Handled' + 1, dropped)
  BY FrameTaken, VadAssumption DEF ListeningInv
<1>1. Segment(vad, f, used, dropped, engine) /\ Counts(vad, engine)
  BY <1>0 DEF ListeningInv, SegmentInv
<1>2. CASE engine = "energy"
  <2>1. o = EnergyAccept(vad, f, sound) /\ sound \in {"voiced", "silent"}
    BY <1>2 DEF Outcome, Possible
  <2> HIDE DEF o, f
  <2>2. /\ GoodOutcome(o, vad, Handled' + 1, used, dropped, "energy")
        /\ Len(o.said) <= MaxUtterance + PreRoll
    BY <1>0, <1>1, <1>2, <2>1, EnergyStep
  <2> QED
    BY <1>2, <2>2 DEF Longest, o, f
<1>3. CASE engine = "silero"
  <2>1. o = ProbabilityAccept(vad, f, sound) /\ sound \in Sounds
    BY <1>3 DEF Outcome, Possible, SileroSounds, Sounds
  <2> HIDE DEF o, f
  <2>2. /\ GoodOutcome(o, vad, Handled' + 1, used, dropped, "silero")
        /\ Len(o.said) <= MaxUtterance \/ Len(o.said) <= PreRoll + 1
    BY <1>0, <1>1, <1>3, <2>1, SileroStep
  <2>3. Len(o.said) \in Nat
    BY <2>2 DEF GoodOutcome
  <2>4. Len(o.said) <= Longest
    BY <1>0, <1>3, <2>2, <2>3 DEF Longest
  <2> QED
    BY <1>3, <2>2, <2>4 DEF o, f
<1> QED
  BY <1>0, <1>2, <1>3

\* A frame is accepted.
LEMMA AcceptKeeps ==
  ASSUME ListeningInv, NEW sound \in Sounds, AcceptFrame(sound)
  PROVE  ListeningInv'
<1> DEFINE f == Head(buffer)
           o == Outcome(f, sound)
           over == o.said # <<>> \/ (vad.started /\ ~o.vad.started)
           heard == (sound = "silent" /\ Analysed) \/ (sound # "voiced" /\ quiet)
           i == CASE sound = "voiced" -> 0
                  [] sound = "silent" -> vad.silence + 1
                  [] OTHER -> vad.silence
<1>1. /\ NextFrame /\ listening # "off" /\ sound \in Possible /\ UNCHANGED listening
      /\ quiet' = heard /\ vad' = o.vad
      /\ pending' = IF engine = "silero" /\ vad.cooldown = 0
                    THEN Pending(pending) ELSE pending
      /\ used' = IF over THEN f ELSE used
      /\ o.said = <<>> => UNCHANGED <<said, blocked>>
      /\ o.said # <<>> =>
           /\ said' = [frames |-> o.said, reason |-> o.reason, after |-> used]
           /\ blocked' = TRUE
  BY DEF AcceptFrame
<1>2. /\ MicrophoneInv' /\ UNCHANGED <<engine, dropped>> /\ ~blocked
      /\ f \in Frames /\ f \in Nat /\ f = Handled + 1 /\ f > used
      /\ f <= Handled' /\ Joins(f, Handled' + 1, dropped)
  BY <1>1, FrameTaken
<1>3. GoodOutcome(o, vad, Handled' + 1, used, dropped, engine) /\ Len(o.said) <= Longest
  BY <1>1, OutcomeIsGood
<1>4. /\ vad \in VadStates /\ engine \in {"energy", "silero"} /\ used \in Nat
      /\ Segment(vad, f, used, dropped, engine) /\ Counts(vad, engine)
      /\ pending \in 0..(WindowSamples - 1) /\ pending \in Nat
  BY <1>2, VadAssumption DEF ListeningInv, SegmentInv
<1>5. engine = "silero" => o = ProbabilityAccept(vad, f, sound)
  BY DEF Outcome
<1>6. engine = "energy" => o = EnergyAccept(vad, f, sound)
  BY DEF Outcome
<1> HIDE DEF f, o, over
<1>7. SegmentInv'
  <2>1. Segment(o.vad, Handled' + 1, used', dropped, engine)
    <3>1. CASE over
      BY <1>3, <3>1, NoFrames DEF GoodOutcome, Segment, over
    <3>2. CASE ~over
      BY <1>1, <1>3, <3>2 DEF GoodOutcome
    <3> QED
      BY <3>1, <3>2
  <2>2. used' <= Handled'
    <3>1. Handled \in 0..MaxFrames /\ used <= Handled /\ used \in Nat
      BY PastIsNumber DEF ListeningInv, SegmentInv
    <3>2. Handled' \in 0..MaxFrames
      BY <1>2, PastNext
    <3> QED
      BY <1>1, <1>2, <3>1, <3>2, ListeningAssumption
  <2>3. Counts(o.vad, engine)
    BY <1>3 DEF GoodOutcome
  <2> QED
    BY <1>1, <1>2, <2>1, <2>2, <2>3 DEF SegmentInv
<1>8. SaidInv'
  <2>1. CASE o.said = <<>>
    BY <1>1, <1>2, <2>1 DEF ListeningInv, SaidInv
  <2>2. CASE o.said # <<>>
    BY <1>1, <1>2, <1>3, <2>2 DEF GoodOutcome, SaidInv
  <2> QED
    BY <2>1, <2>2
<1>9. /\ said' \in [frames : Seq(Frames), after : 0..MaxFrames,
                    reason : {"none", "max_duration", "vad_silence"}]
      /\ Len(said'.frames) <= Longest
  <2>1. CASE o.said = <<>>
    BY <1>1, <2>1 DEF ListeningInv
  <2>2. CASE o.said # <<>>
    <3>1. used \in 0..MaxFrames
      BY ListeningTyped DEF TypeOK
    <3> QED
      BY <1>1, <1>3, <2>2, <3>1 DEF GoodOutcome
  <2> QED
    BY <2>1, <2>2
<1>10. SilenceInv'
  <2> SUFFICES ASSUME engine = "silero", o.vad.started, ~heard
               PROVE  FewGaps(o.vad, pending')
    BY <1>1, <1>2 DEF SilenceInv
  <2> HIDE DEF heard, i
  <2>1. \/ ~vad.started /\ o.vad.silence = 0
        \/ vad.started /\ o.vad.silence = i /\ o.vad.duration = vad.duration + 1
    BY <1>2, <1>4, <1>5, SileroStep DEF i
  <2>2. pending' \in Nat /\ (vad.started => pending' = Pending(pending))
    <3>1. vad.started => vad.cooldown = 0
      BY <1>4 DEF Counts
    <3>2. Pending(pending) \in Nat
      BY <1>4, SamplesAreNumbers
    <3> QED
      BY <1>1, <1>4, <3>1, <3>2
  <2>3. CASE ~vad.started /\ o.vad.silence = 0
    <3>1. o.vad.duration \in Nat
      BY <1>3, VadAssumption DEF GoodOutcome, VadStates
    <3> QED
      BY <2>2, <2>3, <3>1, NoGaps
  <2>4. CASE vad.started /\ o.vad.silence = i /\ o.vad.duration = vad.duration + 1
    BY <1>1, <2>2, <2>4, GapsStep DEF heard, i
  <2> QED
    BY <2>1, <2>3, <2>4
<1>11. SilenceWasHeard'
  <2> SUFFICES ASSUME GapsAreShort, said'.reason = "vad_silence", blocked'
               PROVE  heard
    BY <1>1 DEF SilenceWasHeard, GapsAreShort, FrameSamples
  <2>0. o.said # <<>>
    <3>1. o.said = <<>> => blocked' = blocked
      BY <1>1
    <3>2. ~blocked
      BY <1>2
    <3> QED
      BY <3>1, <3>2, Zenon
  <2>1. o.reason = "vad_silence"
    BY <1>1, <2>0
  <2>2. CASE engine = "energy"
    <3>1. sound \in {"voiced", "silent"}
      BY <1>1, <2>2 DEF Possible
    <3>2. sound = "silent"
      BY <1>2, <1>4, <1>6, <2>0, <2>1, <2>2, <3>1, EnergyStep
    <3> QED
      BY <2>2, <3>2 DEF Analysed
  <2>3. CASE engine = "silero"
    <3> SUFFICES ASSUME ~heard PROVE FALSE
      OBVIOUS
    <3> HIDE DEF heard, i
    <3>1. vad.started /\ i >= Silence /\ vad.duration + 1 < MaxUtterance
      BY <1>2, <1>4, <1>5, <2>0, <2>1, <2>3, SileroStep DEF i
    <3> DEFINE w == [silence |-> i, duration |-> vad.duration + 1]
    <3>2. w.silence = i /\ w.duration = vad.duration + 1
      OBVIOUS
    <3> HIDE DEF w
    <3>3. FewGaps(w, Pending(pending)) /\ Pending(pending) \in 0..(WindowSamples - 1)
      BY <1>1, <2>3, <3>1, <3>2, GapsStep DEF heard, i
    <3>4. i \in Nat /\ vad.duration + 1 \in Nat
      <4>1. vad.silence \in Nat /\ vad.duration \in Nat
        BY <1>4, VadAssumption DEF VadStates
      <4>2. i \in Nat
        BY <4>1 DEF Sounds, i
      <4> QED
        BY <4>1, <4>2
    <3>5. w.silence < Silence
      BY <3>1, <3>2, <3>3, <3>4, GapsEndNothing
    <3> QED
      BY <3>1, <3>2, <3>4, <3>5, VadAssumption
  <2> QED
    BY <1>4, <2>2, <2>3
<1>12. /\ vad' \in VadStates /\ used' \in Nat /\ quiet' \in BOOLEAN /\ blocked' \in BOOLEAN
       /\ pending' \in 0..(WindowSamples - 1)
  <2>1. Pending(pending) \in 0..(WindowSamples - 1)
    BY <1>4, SamplesAreNumbers
  <2>2. blocked' \in BOOLEAN
    BY <1>1 DEF ListeningInv
  <2>3. quiet' \in BOOLEAN
    BY <1>1
  <2> QED
    BY <1>1, <1>2, <1>3, <1>4, <2>1, <2>2, <2>3 DEF GoodOutcome
<1>13. Longest' = Longest
  BY <1>2 DEF Longest
<1> QED
  BY <1>1, <1>2, <1>7, <1>8, <1>9, <1>10, <1>11, <1>12, <1>13 DEF ListeningInv

-----------------------------------------------------------------------------
\* The invariant holds throughout.
LEMMA ListeningInvariance == Spec => []ListeningInv
<1>1. Init => ListeningInv
  BY ListeningStart
<1>2. ListeningInv /\ [Next]_vars => ListeningInv'
  <2> SUFFICES ASSUME ListeningInv, [Next]_vars PROVE ListeningInv'
    OBVIOUS
  <2>1. CASE Capture
    BY <2>1, CaptureKeeps
  <2>2. CASE ArmWindow \/ ArmPresence \/ Disarm \/ UtteranceQueued
    BY <2>2, ArmingKeeps
  <2>3. CASE SkipFrame
    BY <2>3, SkipKeeps
  <2>4. CASE GiveUp
    BY <2>4, GiveUpKeeps
  <2>5. CASE \E sound \in Sounds : AcceptFrame(sound)
    BY <2>5, AcceptKeeps
  <2>6. CASE UNCHANGED vars
    BY <2>6
    DEF vars, microphoneVars, segmenterVars, ListeningInv, MicrophoneInv, SegmentInv,
        SaidInv, SilenceInv, SilenceWasHeard, Handled, GapsAreShort, FrameSamples, Longest
  <2> QED
    BY <2>1, <2>2, <2>3, <2>4, <2>5, <2>6 DEF Next
<1> QED
  BY <1>1, <1>2, PTL DEF Spec

\* The counters and queues of the audio worker stay within their limits: no
\* segment, pre-roll or utterance grows longer than the configuration allows.
THEOREM ListeningTypeCorrect == Spec => []TypeOK
  BY ListeningTyped, ListeningInvariance, PTL

\* The frames of an utterance were captured one after the other, but for those
\* the microphone's queue lost and the one the energy segmenter repeats.
THEOREM UtteranceUnbroken == Spec => []UtteranceIsUnbroken
<1>1. ListeningInv => UtteranceIsUnbroken
  <2> SUFFICES ASSUME ListeningInv PROVE UtteranceIsUnbroken
    OBVIOUS
  <2> DEFINE frames == said.frames
             Repeats == {k \in 1..(Len(frames) - 1) : frames[k + 1] = frames[k]}
  <2>1. PICK r \in Nat : ChainBut(frames, r, dropped, engine)
    BY DEF ListeningInv, SaidInv, Unbroken
  <2>2. frames \in Seq(Frames)
    BY DEF ListeningInv
  <2>3. ASSUME NEW k \in 1..(Len(frames) - 1)
        PROVE  \/ Follows(frames[k], frames[k + 1]) /\ k \notin Repeats
               \/ k = r /\ engine = "energy" /\ k \in Repeats
    <3>1. frames[k] \in Nat /\ frames[k + 1] \in Nat
      <4>1. k \in 1..Len(frames) /\ k + 1 \in 1..Len(frames)
        BY <2>2
      <4>2. frames[k] \in Frames /\ frames[k + 1] \in Frames
        BY <2>2, <4>1
      <4> QED
        BY <4>2, FramesAreNumbers
    <3>2. CASE Joins(frames[k], frames[k + 1], dropped)
      BY <3>1, <3>2 DEF Joins, Follows
    <3>3. CASE k = r /\ engine = "energy" /\ frames[k + 1] = frames[k]
      BY <3>3
    <3> QED
      BY <2>1, <3>2, <3>3 DEF ChainBut
  <2> HIDE DEF frames
  <2>4. \A k \in 1..(Len(frames) - 1) :
          k \in Repeats \/ Follows(frames[k], frames[k + 1])
    BY <2>3
  <2>5. ASSUME Repeats # {} PROVE engine = "energy" /\ Cardinality(Repeats) = 1
    <3>1. Repeats = {r} /\ engine = "energy"
      BY <2>3, <2>5
    <3> QED
      BY <3>1, FS_Singleton
  <2> QED
    BY <2>4, <2>5 DEF UtteranceIsUnbroken, frames
<1> QED
  BY <1>1, ListeningInvariance, PTL

\* No utterance holds a frame from before the time when listening was armed or
\* the last segment ended.
THEOREM UtteranceFresh == Spec => []UtteranceIsNew
<1>1. ListeningInv => UtteranceIsNew
  BY DEF ListeningInv, SaidInv, Newer, UtteranceIsNew
<1> QED
  BY <1>1, ListeningInvariance, PTL

\* With settings under which the gaps are short, the silence that ends an
\* utterance was analysed after the last voiced frame.
THEOREM SilenceHeard == Spec => []SilenceWasHeard
<1>1. ListeningInv => SilenceWasHeard
  BY DEF ListeningInv
<1> QED
  BY <1>1, ListeningInvariance, PTL

-----------------------------------------------------------------------------
\* FaceTracking: what the tracker remembers is within its limits; a face that
\* the worker remembers is no further from its place in the image than a turn
\* of the head moves it; a head that works on old detections turns by less
\* each time.

Offsets == -Half..Half

SeenFaces == [x : Offsets, size : {Size[p] : p \in Persons}, who : Persons]

Pids == [integral : -MaxIntegral..MaxIntegral, prev : SUBSET Offsets, slope : Int]

Trackers ==
  [pid : Pids, last : SUBSET SeenFaces, raw : SUBSET Offsets, seen : Ages,
   delta : -MaxOutput..MaxOutput, moved : SUBSET Ages, lost : SUBSET Ages,
   home : BOOLEAN]

AtMostOne(faces) == faces = {} \/ \E f \in SeenFaces : faces = {f}

Detections == [faces : SUBSET SeenFaces, age : Ages]

LateInv ==
  /\ late \in Nat
  /\ StaleAfter > 0 =>
       /\ MaxChange * late + Abs(tracker.delta) <= MaxOutput
       /\ late > 0 => MaxChange * late < MaxOutput

Drift ==
  program = "worker" =>
    \A f \in tracker.last :
      f.size = Size[f.who] /\ Abs(where[f.who] - pan - f.x) <= MaxOutput

TrackingInv ==
  /\ program \in {"worker", "script"} /\ where \in [Persons -> Directions]
  /\ frame \in 0..1 /\ pan \in 0..Right
  /\ tracker \in Trackers /\ AtMostOne(tracker.last)
  /\ fresh \in Detections /\ held \in Detections /\ workedOn \in Detections
  /\ LateInv /\ Drift

-----------------------------------------------------------------------------
\* Numbers.

LEMMA LimitsAreNumbers ==
  /\ Half \in Nat \ {0} /\ MaxOutput \in Nat \ {0} /\ DecayTicks \in Nat \ {0}
  /\ MaxAge \in Nat \ {0}
  /\ Kp \in Nat /\ Ki \in Nat /\ Kd \in Nat /\ DeadZone \in Nat /\ IntegralZone \in Nat
  /\ MaxIntegral \in Nat /\ MaxChange \in Nat /\ MinDelta \in Nat /\ MinInterval \in Nat
  /\ Lead \in Nat /\ StaleAfter \in Nat /\ LockTimeout \in Nat /\ LossTimeout \in Nat
  /\ Alpha \in 0..10 /\ Right \in Nat /\ Home \in 0..Right /\ MaxGap \in Nat \ {0}
  /\ Response \in [Offsets -> Offsets]
  BY TrackingAssumption, FaceTrackingAssumption DEF Offsets

LEMMA Quotients ==
  /\ \A n \in Nat, d \in Nat \ {0} : n \div d \in Nat
  /\ \A n \in Int, d \in Nat \ {0} : Cut(n, d) \in Int
<1>1. \A n \in Nat, d \in Nat \ {0} : n \div d \in Nat
  OBVIOUS
<1>2. ASSUME NEW n \in Int, NEW d \in Nat \ {0} PROVE Cut(n, d) \in Int
  <2>1. CASE n < 0
    <3>1. (-n) \in Nat
      BY <2>1
    <3>2. (-n) \div d \in Nat
      BY <1>1, <3>1
    <3> QED
      BY <2>1, <3>2 DEF Cut
  <2>2. CASE ~(n < 0)
    BY <1>1, <2>2 DEF Cut
  <2> QED
    BY <2>1, <2>2
<1> QED
  BY <1>1, <1>2

LEMMA Clamped == \A n \in Int, most \in Nat : Clamp(n, most) \in -most..most
  BY DEF Clamp

LEMMA Absolute == \A n \in Int : Abs(n) \in Nat /\ Abs(n) >= n /\ Abs(n) >= -n
  BY DEF Abs

LEMMA GetsOlder ==
  ASSUME NEW a \in Ages, NEW ticks \in Nat
  PROVE  Older(a, ticks) \in Ages /\ Older(a, ticks) <= a + ticks
  BY LimitsAreNumbers DEF Ages, Older

LEMMA IsIn == \A set : set # {} => The(set) \in set
  BY DEF The

-----------------------------------------------------------------------------
\* One control step.

LEMMA ComputeTyped ==
  ASSUME NEW pid \in Pids, NEW error \in Offsets, NEW ticks \in Nat \ {0}
  PROVE  /\ Compute(pid, error, ticks).pid \in Pids
         /\ Compute(pid, error, ticks).output \in -MaxOutput..MaxOutput
<1> DEFINE e == IF Abs(error) <= DeadZone THEN 0 ELSE error
           raw == IF pid.prev = {} THEN 0 ELSE Cut(e - The(pid.prev), ticks)
           slope == Cut(Alpha * raw + (10 - Alpha) * pid.slope, 10)
           near == IntegralZone = 0 \/ Abs(e) <= IntegralZone
           left == IF ticks >= DecayTicks THEN 0 ELSE DecayTicks - ticks
           wished == IF e = 0 \/ ~near THEN Cut(pid.integral * left, DecayTicks)
                     ELSE pid.integral + e * ticks
           grown == Clamp(wished, MaxIntegral)
           Sum(i) == Cut(Kp * e + Ki * i + Kd * slope, Half)
           output == Clamp(Sum(grown), MaxOutput)
           saturated == near /\ output # Sum(grown) /\ e * output > 0
           kept == IF saturated THEN pid.integral ELSE grown
<1>0. /\ pid.integral \in -MaxIntegral..MaxIntegral /\ pid.prev \subseteq Offsets
      /\ pid.slope \in Int
  BY DEF Pids
<1>1. e \in Offsets /\ e \in Int
  BY LimitsAreNumbers DEF Offsets
<1> HIDE DEF e
<1>2. raw \in Int
  <2>1. CASE pid.prev = {}
    BY <2>1
  <2>2. CASE pid.prev # {}
    <3>1. The(pid.prev) \in Int
      BY <1>0, <2>2, IsIn, LimitsAreNumbers DEF Offsets
    <3> QED
      BY <1>1, <2>2, <3>1, Quotients
  <2> QED
    BY <2>1, <2>2
<1> HIDE DEF raw
<1>3. slope \in Int
  <2>1. Alpha * raw + (10 - Alpha) * pid.slope \in Int
    BY <1>0, <1>2, LimitsAreNumbers
  <2> QED
    BY <2>1, Quotients
<1> HIDE DEF slope, near
<1>4. grown \in -MaxIntegral..MaxIntegral
  <2>1. pid.integral \in Int /\ left \in Int
    BY <1>0, LimitsAreNumbers
  <2> HIDE DEF left
  <2>2. pid.integral * left \in Int /\ pid.integral + e * ticks \in Int
    BY <1>1, <2>1
  <2>3. wished \in Int
    BY <2>2, Quotients, LimitsAreNumbers
  <2> QED
    BY <2>3, Clamped, LimitsAreNumbers
<1> HIDE DEF grown, saturated
<1>5. kept \in -MaxIntegral..MaxIntegral
  BY <1>0, <1>4
<1> HIDE DEF kept
<1>6. Clamp(Sum(kept), MaxOutput) \in -MaxOutput..MaxOutput
  <2>1. kept \in Int
    BY <1>5, LimitsAreNumbers
  <2>2. Kp * e + Ki * kept + Kd * slope \in Int
    BY <1>1, <1>3, <2>1, LimitsAreNumbers
  <2>3. Sum(kept) \in Int
    BY <2>2, Quotients, LimitsAreNumbers
  <2> QED
    BY <2>3, Clamped, LimitsAreNumbers
<1> HIDE DEF Sum
<1>7. Compute(pid, error, ticks) =
        [pid |-> [integral |-> kept, prev |-> {e}, slope |-> slope],
         output |-> Clamp(Sum(kept), MaxOutput)]
  BY DEF Compute, Sum, kept, saturated, grown, near, slope, raw, e
<1>8. [integral |-> kept, prev |-> {e}, slope |-> slope] \in Pids
  BY <1>1, <1>3, <1>5 DEF Pids
<1> QED
  BY <1>6, <1>7, <1>8

\* A turn differs from the one before by a limited amount; wanted or not, it
\* stays within the limit of a turn, and from an unwanted one it fades.
LEMMA SlewedTyped ==
  ASSUME NEW wanted \in -MaxOutput..MaxOutput, NEW previous \in -MaxOutput..MaxOutput,
         NEW error \in Offsets
  PROVE  /\ Slewed(wanted, previous, error) \in -MaxOutput..MaxOutput
         /\ wanted = 0 /\ Slewed(wanted, previous, error) # 0 =>
              Abs(Slewed(wanted, previous, error)) + MaxChange <= Abs(previous)
<1> DEFINE scale == 2 * Half + 3 * Abs(error)
           most == Cut(MaxChange * scale, 2 * Half)
<1>0. /\ MaxChange \in Nat /\ Half \in Nat \ {0} /\ MaxOutput \in Nat \ {0}
      /\ error \in Int /\ Abs(error) \in Nat
  <2>1. MaxChange \in Nat /\ Half \in Nat \ {0} /\ MaxOutput \in Nat \ {0}
    BY LimitsAreNumbers
  <2>2. error \in Int
    BY <2>1 DEF Offsets
  <2> QED
    BY <2>1, <2>2, Absolute
<1>1. most \in Nat /\ most >= MaxChange
  <2>1. scale \in Nat /\ scale >= 2 * Half /\ 2 * Half \in Nat \ {0}
    BY <1>0
  <2> DEFINE extra == scale - 2 * Half
  <2>2. extra \in Nat /\ scale = 2 * Half + extra
    BY <2>1
  <2> HIDE DEF scale, extra
  <2>3. /\ MaxChange * scale = MaxChange * (2 * Half) + MaxChange * extra
        /\ MaxChange * extra \in Nat /\ MaxChange * scale \in Nat
    BY <1>0, <2>2
  <2>4. most = (MaxChange * scale) \div (2 * Half)
    BY <2>1, <2>3 DEF Cut
  <2>5. \A n \in Nat, d \in Nat \ {0}, c \in Nat : n >= c * d => n \div d >= c
    OBVIOUS
  <2>6. MaxChange * scale >= MaxChange * (2 * Half)
    BY <1>0, <2>3
  <2> QED
    BY <1>0, <2>1, <2>3, <2>4, <2>5, <2>6, Quotients
<1>2. Slewed(wanted, previous, error) =
        IF MaxChange = 0 THEN wanted
        ELSE IF wanted > previous + most THEN previous + most
        ELSE IF wanted < previous - most THEN previous - most ELSE wanted
  BY DEF Slewed
<1> HIDE DEF most
<1> QED
  BY <1>0, <1>1, <1>2 DEF Abs

LEMMA PredictedTyped ==
  ASSUME NEW t \in Trackers, NEW x \in Offsets, NEW age \in Ages
  PROVE  Predicted(t, x, age) \in Offsets
<1>1. CASE t.raw = {}
  BY <1>1 DEF Predicted
<1>2. CASE t.raw # {}
  <2> DEFINE velocity == x - The(t.raw)
             far == Cut(velocity * (Lead + age), AtLeast1(t.seen))
  <2>1. /\ The(t.raw) \in Int /\ x \in Int /\ age \in Nat /\ t.seen \in Nat
        /\ Lead \in Nat /\ Half \in Nat
    BY <1>2, IsIn, LimitsAreNumbers DEF Trackers, Offsets, Ages
  <2>2. velocity * (Lead + age) \in Int
    BY <2>1
  <2>3. AtLeast1(t.seen) \in Nat \ {0}
    BY <2>1 DEF AtLeast1
  <2> HIDE DEF velocity
  <2>4. far \in Int
    BY <2>2, <2>3, Quotients
  <2> HIDE DEF far
  <2>5. Predicted(t, x, age) = Clamp(x + far, Half)
    BY <1>2 DEF Predicted, far, velocity
  <2> QED
    BY <2>1, <2>4, <2>5, Clamped DEF Offsets
<1> QED
  BY <1>1, <1>2

LEMMA AgedTyped ==
  ASSUME NEW t \in Trackers, NEW ticks \in Nat
  PROVE  LET a == Aged(t, ticks)
         IN  /\ a \in Trackers /\ a.last = t.last /\ a.delta = t.delta
             /\ a.seen <= t.seen + ticks
<1> DEFINE seen == IF t.last = {} THEN 0 ELSE Older(t.seen, ticks)
           moved == {Older(n, ticks) : n \in t.moved}
           lost == {Older(n, ticks) : n \in t.lost}
<1>0. t.seen \in Ages /\ t.moved \subseteq Ages /\ t.lost \subseteq Ages
  BY DEF Trackers
<1>1. seen \in Ages /\ seen <= t.seen + ticks
  <2>1. Older(t.seen, ticks) \in Ages /\ Older(t.seen, ticks) <= t.seen + ticks
    BY <1>0, GetsOlder
  <2>2. 0 \in Ages /\ t.seen \in Nat
    BY <1>0, LimitsAreNumbers DEF Ages
  <2> QED
    BY <2>1, <2>2
<1>2. moved \subseteq Ages /\ lost \subseteq Ages
  BY <1>0, GetsOlder
<1>3. Aged(t, ticks) = [t EXCEPT !.seen = seen, !.moved = moved, !.lost = lost]
  BY DEF Aged
<1> HIDE DEF seen, moved, lost
<1>4. [t EXCEPT !.seen = seen, !.moved = moved, !.lost = lost] \in Trackers
  BY <1>1, <1>2 DEF Trackers
<1>5. /\ [t EXCEPT !.seen = seen, !.moved = moved, !.lost = lost].last = t.last
      /\ [t EXCEPT !.seen = seen, !.moved = moved, !.lost = lost].delta = t.delta
      /\ [t EXCEPT !.seen = seen, !.moved = moved, !.lost = lost].seen = seen
  BY DEF Trackers
<1> QED
  BY <1>1, <1>3, <1>4, <1>5

LEMMA ChosenAmong ==
  ASSUME NEW t, NEW faces
  PROVE  Select(t, faces) \subseteq faces
<1>1. \A num, den : Best(faces, num, den) \subseteq faces
  BY DEF Best
<1>2. Nearest(faces) \subseteq faces /\ \A last : Locked(faces, last) \subseteq faces
  BY <1>1 DEF Nearest, Locked
<1>3. \A last : Baseline(faces, last) \subseteq faces
  BY <1>1, <1>2 DEF Baseline
<1> QED
  BY <1>2, <1>3 DEF Select

LEMMA FollowTyped ==
  ASSUME NEW t \in Trackers, NEW face \in SeenFaces, NEW age \in Ages
  PROVE  LET next == Follow(t, face, age)
         IN  /\ next.tracker \in Trackers /\ next.tracker.last = {face}
             /\ next.turn = next.tracker.delta /\ next.turn \in -MaxOutput..MaxOutput
             /\ StaleAfter > 0 /\ age > StaleAfter /\ next.turn # 0 =>
                  Abs(next.tracker.delta) + MaxChange <= Abs(t.delta)
<1> DEFINE error == Predicted(t, face.x, age)
           ticks == IF t.moved = {} THEN 1 ELSE AtLeast1(The(t.moved))
           control == Compute(t.pid, Response[error], ticks)
           wanted == IF StaleAfter > 0 /\ age > StaleAfter THEN 0 ELSE control.output
           delta == Slewed(wanted, t.delta, error)
           moves == Abs(delta) > MinDelta /\ \A a \in t.moved : a >= MinInterval
           turn == IF moves THEN delta ELSE 0
           moved == IF moves THEN {0} ELSE t.moved
           pid == control.pid
           last == {face}
           raw == {face.x}
           next == Follow(t, face, age)
<1>0. /\ t.pid \in Pids /\ t.moved \subseteq Ages /\ t.delta \in -MaxOutput..MaxOutput
      /\ face.x \in Offsets
  BY DEF Trackers, SeenFaces
<1>1. error \in Offsets /\ Response[error] \in Offsets
  BY <1>0, PredictedTyped, LimitsAreNumbers
<1>2. ticks \in Nat \ {0}
  <2>1. t.moved # {} => The(t.moved) \in Nat
    BY <1>0, IsIn DEF Ages
  <2> QED
    BY <2>1 DEF AtLeast1
<1> HIDE DEF error, ticks
<1>3. control.pid \in Pids /\ control.output \in -MaxOutput..MaxOutput
  BY <1>0, <1>1, <1>2, ComputeTyped
<1> HIDE DEF control
<1>4. wanted \in -MaxOutput..MaxOutput
  BY <1>3, LimitsAreNumbers
<1>5. /\ delta \in -MaxOutput..MaxOutput
      /\ wanted = 0 /\ delta # 0 => Abs(delta) + MaxChange <= Abs(t.delta)
  BY <1>0, <1>1, <1>4, SlewedTyped
<1>6. next = [turn |-> turn,
              tracker |-> [t EXCEPT !.pid = pid, !.last = last, !.raw = raw,
                                    !.seen = 0, !.delta = turn, !.moved = moved,
                                    !.lost = {}, !.home = FALSE]]
  BY DEF Follow, error, ticks, control
<1> HIDE DEF wanted, delta, moves, next
<1>7. turn \in -MaxOutput..MaxOutput /\ (turn # 0 => turn = delta)
  BY <1>5, LimitsAreNumbers
<1>8. moved \subseteq Ages /\ 0 \in Ages
  BY <1>0, LimitsAreNumbers DEF Ages
<1>9. pid \in Pids /\ last \subseteq SeenFaces /\ raw \subseteq Offsets
  BY <1>0, <1>3
<1> HIDE DEF turn, moved, pid, last, raw
<1> DEFINE new == [t EXCEPT !.pid = pid, !.last = last, !.raw = raw, !.seen = 0,
                            !.delta = turn, !.moved = moved, !.lost = {},
                            !.home = FALSE]
<1>10. new \in Trackers
  BY <1>7, <1>8, <1>9 DEF Trackers
<1>11. new.last = last /\ new.delta = turn
  BY DEF Trackers
<1>12. /\ next.turn = turn /\ next.tracker \in Trackers /\ next.tracker.last = {face}
       /\ next.tracker.delta = turn
  <2>1. next.turn = turn /\ next.tracker = new
    BY <1>6
  <2> QED
    BY <1>10, <1>11, <2>1 DEF last
<1>13. ASSUME StaleAfter > 0, age > StaleAfter, turn # 0
       PROVE  Abs(turn) + MaxChange <= Abs(t.delta)
  <2>1. wanted = 0
    BY <1>13 DEF wanted
  <2> QED
    BY <1>5, <1>7, <1>13, <2>1
<1> QED
  BY <1>7, <1>12, <1>13 DEF next

LEMMA LoseTyped ==
  ASSUME NEW t \in Trackers
  PROVE  LET next == Lose(t)
         IN  /\ next.tracker \in Trackers
             /\ \/ next.tracker.last = {} /\ next.tracker.delta = 0
                \/ next.tracker = t /\ next.home = FALSE
<1> DEFINE reset == ResetMotion(t)
           next == Lose(t)
<1>0. 0 \in Ages /\ 0 \in -MaxOutput..MaxOutput /\ FreshPid \in Pids
  <2>1. 0 \in Ages /\ 0 \in -MaxOutput..MaxOutput /\ 0 \in -MaxIntegral..MaxIntegral
    BY LimitsAreNumbers DEF Ages
  <2> QED
    BY <2>1 DEF FreshPid, Pids
<1>1. reset \in Trackers /\ reset.last = {} /\ reset.delta = 0
  BY <1>0 DEF ResetMotion, Trackers
<1> HIDE DEF reset
<1>2. /\ [reset EXCEPT !.lost = {0}] \in Trackers
      /\ [reset EXCEPT !.lost = {0}].last = {} /\ [reset EXCEPT !.lost = {0}].delta = 0
  BY <1>0, <1>1 DEF Trackers
<1>3. /\ [reset EXCEPT !.home = TRUE] \in Trackers
      /\ [reset EXCEPT !.home = TRUE].last = {} /\ [reset EXCEPT !.home = TRUE].delta = 0
  BY <1>1 DEF Trackers
<1>4. \/ next.tracker = [reset EXCEPT !.lost = {0}]
      \/ next.tracker = t /\ next.home = FALSE
      \/ next.tracker = [reset EXCEPT !.home = TRUE]
  BY DEF Lose, reset
<1> HIDE DEF next
<1> QED
  BY <1>2, <1>3, <1>4 DEF next

\* What is detected, and what the script keeps of it.
LEMMA DetectionTyped ==
  ASSUME TrackingInv, NEW persons \in SUBSET InView
  PROVE  /\ Detected(persons) \in Detections
         /\ \A f \in Detected(persons).faces :
              f.who \in Persons /\ f.x = where[f.who] - pan /\ f.size = Size[f.who]
<1>1. ASSUME NEW q \in persons
      PROVE  /\ Face(q) \in SeenFaces /\ Face(q).who \in Persons
             /\ Face(q).x = where[Face(q).who] - pan /\ Face(q).size = Size[Face(q).who]
  <2>1. q \in Persons /\ Abs(where[q] - pan) <= Half
    BY DEF InView
  <2>2. where[q] \in Int /\ pan \in Int /\ Half \in Nat
    <3>1. where[q] \in Directions /\ pan \in 0..Right
      BY <2>1 DEF TrackingInv
    <3>2. Directions \subseteq Int
      BY FaceTrackingAssumption
    <3>3. where[q] \in Int
      BY <3>1, <3>2
    <3> QED
      BY <3>1, <3>3, LimitsAreNumbers
  <2>3. where[q] - pan \in Offsets
    BY <2>1, <2>2 DEF Abs, Offsets
  <2> QED
    BY <2>1, <2>3 DEF Face, SeenFaces
<1>2. 0 \in Ages
  BY LimitsAreNumbers DEF Ages
<1> QED
  BY <1>1, <1>2 DEF Detected, Detections

LEMMA LaterTyped ==
  ASSUME NEW d \in Detections
  PROVE  Later(d) \in Detections
<1>1. Older(d.age, 1) \in Ages
  BY GetsOlder DEF Detections
<1> QED
  BY <1>1 DEF Later, Detections

LEMMA NoDetectionTyped == NoDetection \in Detections
<1>1. 0 \in Ages
  BY LimitsAreNumbers DEF Ages
<1> QED
  BY <1>1 DEF NoDetection, Detections

LEMMA ControlKeeps ==
  ASSUME TrackingInv, NEW ticks \in Nat, NEW detection \in Detections,
         Control(ticks, detection), UNCHANGED <<program, where>>,
         fresh' \in Detections, held' \in Detections,
         program = "worker" =>
           \A f \in detection.faces :
             f.who \in Persons /\ f.x = where[f.who] - pan /\ f.size = Size[f.who]
  PROVE  TrackingInv'
<1> DEFINE t == Aged(tracker, ticks)
           faces == detection.faces
<1>0. /\ frame \in 0..1 /\ pan \in 0..Right /\ tracker \in Trackers
      /\ AtMostOne(tracker.last) /\ LateInv /\ Drift
      /\ where \in [Persons -> Directions] /\ program \in {"worker", "script"}
  BY DEF TrackingInv
<1>1. t \in Trackers /\ t.last = tracker.last /\ t.delta = tracker.delta
  BY <1>0, AgedTyped
<1>2. faces \subseteq SeenFaces /\ detection.age \in Ages
  BY DEF Detections
<1>3. /\ tracker.delta \in -MaxOutput..MaxOutput /\ tracker.delta \in Int
      /\ MaxOutput \in Nat \ {0} /\ MaxChange \in Nat /\ StaleAfter \in Nat
      /\ Right \in Nat /\ Home \in 0..Right /\ pan \in Int /\ Abs(tracker.delta) \in Nat
      /\ Abs(tracker.delta) <= MaxOutput /\ Abs(0) = 0
  <2>1. MaxOutput \in Nat \ {0} /\ tracker.delta \in -MaxOutput..MaxOutput
    BY <1>0, LimitsAreNumbers DEF Trackers
  <2>2. tracker.delta \in Int
    BY <2>1
  <2>3. Abs(tracker.delta) <= MaxOutput
    BY <2>1, <2>2 DEF Abs
  <2> QED
    BY <1>0, <2>1, <2>2, <2>3, Absolute, LimitsAreNumbers DEF Abs
<1>4. frame' \in 0..1 /\ workedOn' \in Detections
  BY <1>0 DEF Control
<1> HIDE DEF t
<1> SUFFICES /\ pan' \in 0..Right /\ tracker' \in Trackers /\ AtMostOne(tracker'.last)
             /\ LateInv' /\ Drift'
  BY <1>0, <1>4 DEF TrackingInv
<1>5. CASE faces = {}
  <2>1. /\ tracker' = Lose(t).tracker /\ late' = 0
        /\ pan' = IF Lose(t).home THEN Home ELSE pan
    BY <1>5 DEF Control, t
  <2>2. /\ tracker' \in Trackers
        /\ \/ tracker'.last = {} /\ tracker'.delta = 0
           \/ tracker' = t /\ pan' = pan
    BY <1>1, <2>1, LoseTyped
  <2>3. pan' \in 0..Right
    BY <1>0, <1>3, <2>1
  <2>4. AtMostOne(tracker'.last)
    BY <1>0, <1>1, <2>2 DEF AtMostOne
  <2>5. LateInv'
    <3>1. Abs(tracker'.delta) <= MaxOutput /\ Abs(tracker'.delta) \in Nat
      BY <1>1, <1>3, <2>2
    <3> QED
      BY <1>3, <2>1, <3>1 DEF LateInv
  <2>6. Drift'
    BY <1>0, <1>1, <2>2 DEF Drift
  <2> QED
    BY <2>2, <2>3, <2>4, <2>5, <2>6
<1>6. CASE faces # {} /\ Select(t, faces) = {}
  <2>1. tracker' = t /\ UNCHANGED <<pan, late>>
    BY <1>6 DEF Control, t
  <2>2. LateInv' /\ Drift'
    BY <1>0, <1>1, <2>1 DEF LateInv, Drift
  <2> QED
    BY <1>0, <1>1, <2>1, <2>2
<1>7. CASE faces # {} /\ Select(t, faces) # {}
  <2>1. PICK face \in Select(t, faces) :
          LET next == Follow(t, face, detection.age)
          IN  /\ tracker' = next.tracker
              /\ pan' = Turned(pan + next.turn)
              /\ late' = IF detection.age <= StaleAfter THEN 0
                         ELSE IF next.turn = 0 THEN late ELSE late + 1
    BY <1>7 DEF Control, t
  <2> DEFINE turn == Follow(t, face, detection.age).turn
  <2>2. face \in faces /\ face \in SeenFaces
    BY <1>2, ChosenAmong
  <2>3. /\ tracker' \in Trackers /\ tracker'.last = {face} /\ turn = tracker'.delta
        /\ turn \in -MaxOutput..MaxOutput
        /\ StaleAfter > 0 /\ detection.age > StaleAfter /\ turn # 0 =>
             Abs(tracker'.delta) + MaxChange <= Abs(tracker.delta)
    BY <1>1, <1>2, <2>1, <2>2, FollowTyped
  <2>4. /\ pan' = Turned(pan + turn)
        /\ late' = IF detection.age <= StaleAfter THEN 0
                   ELSE IF turn = 0 THEN late ELSE late + 1
    BY <2>1
  <2> HIDE DEF turn
  <2>5. turn \in Int /\ Abs(turn) \in Nat /\ Abs(turn) <= MaxOutput
    BY <1>3, <2>3 DEF Abs
  <2>6. pan' \in 0..Right /\ Abs(pan - pan') <= MaxOutput
    BY <1>0, <1>3, <2>3, <2>4, <2>5 DEF Turned, Abs
  <2>7. LateInv'
    <3>1. late \in Nat /\ late' \in Nat /\ detection.age \in Nat
      BY <1>0, <1>2, <2>4 DEF LateInv, Ages
    <3> SUFFICES ASSUME StaleAfter > 0
                 PROVE  /\ MaxChange * late' + Abs(turn) <= MaxOutput
                        /\ late' > 0 => MaxChange * late' < MaxOutput
      BY <2>3, <3>1 DEF LateInv
    <3>2. CASE late' = 0
      BY <1>3, <2>5, <3>2
    <3>3. CASE late' = late /\ turn = 0
      <4>1. MaxChange * late \in Nat
        BY <1>3, <3>1
      <4> QED
        BY <1>0, <1>3, <3>3, <4>1 DEF LateInv
    <3>4. CASE late' = late + 1 /\ turn # 0 /\ detection.age > StaleAfter
      <4>1. /\ MaxChange * (late + 1) = MaxChange * late + MaxChange
            /\ MaxChange * late \in Nat
        BY <1>3, <3>1
      <4>2. Abs(turn) + MaxChange <= Abs(tracker.delta) /\ Abs(turn) >= 1
        BY <2>3, <2>5, <3>4 DEF Abs
      <4>3. MaxChange * late + Abs(tracker.delta) <= MaxOutput
        BY <1>0 DEF LateInv
      <4> QED
        BY <1>3, <2>5, <3>4, <4>1, <4>2, <4>3
    <3> QED
      BY <1>3, <2>4, <3>1, <3>2, <3>3, <3>4
  <2>8. Drift'
    <3> SUFFICES ASSUME program = "worker"
                 PROVE  /\ face.size = Size[face.who]
                        /\ Abs(where[face.who] - pan' - face.x) <= MaxOutput
      BY <2>3 DEF Drift
    <3>1. face.who \in Persons /\ face.x = where[face.who] - pan /\ face.size = Size[face.who]
      BY <2>2
    <3>2. where[face.who] \in Int
      BY <1>0, <3>1, FaceTrackingAssumption
    <3>3. where[face.who] - pan' - face.x = pan - pan'
      BY <1>3, <2>6, <3>1, <3>2
    <3> QED
      BY <2>6, <3>1, <3>3
  <2> QED
    BY <2>2, <2>3, <2>6, <2>7, <2>8 DEF AtMostOne
<1> QED
  BY <1>5, <1>6, <1>7

-----------------------------------------------------------------------------
\* The invariant holds throughout.
LEMMA TrackingInvariance == TrackingSpec => []TrackingInv
<1>1. TrackingInit => TrackingInv
  <2> SUFFICES ASSUME TrackingInit PROVE TrackingInv
    OBVIOUS
  <2>1. 0 \in Ages /\ 0 \in -MaxOutput..MaxOutput /\ 0 \in -MaxIntegral..MaxIntegral
    BY LimitsAreNumbers DEF Ages
  <2>2. FreshTracker \in Trackers /\ FreshTracker.last = {} /\ FreshTracker.delta = 0
    BY <2>1 DEF FreshTracker, FreshPid, Trackers, Pids
  <2>3. LateInv /\ Drift
    BY <2>2, LimitsAreNumbers DEF TrackingInit, LateInv, Drift, Abs
  <2> QED
    BY <2>2, <2>3, NoDetectionTyped, LimitsAreNumbers
    DEF TrackingInit, TrackingInv, AtMostOne
<1>2. TrackingInv /\ [TrackingNext]_trackingVars => TrackingInv'
  <2> SUFFICES ASSUME TrackingInv, [TrackingNext]_trackingVars PROVE TrackingInv'
    OBVIOUS
  <2>0. fresh \in Detections /\ held \in Detections
    BY DEF TrackingInv
  <2>1. CASE WorkerFrame
    <3>1. PICK ticks \in 1..MaxGap, persons \in SUBSET InView :
            Control(ticks, Detected(persons))
      BY <2>1 DEF WorkerFrame
    <3>2. ticks \in Nat
      BY LimitsAreNumbers
    <3>3. UNCHANGED <<program, where, fresh, held>>
      BY <2>1 DEF WorkerFrame
    <3> QED
      BY <2>0, <3>1, <3>2, <3>3, DetectionTyped, ControlKeeps
  <2>2. CASE ScriptTurn
    <3>1. /\ program = "script" /\ UNCHANGED <<program, where>>
          /\ Control(1, Snapshot(fresh', held'))
      BY <2>2 DEF ScriptTurn
    <3>2. fresh' \in Detections /\ held' \in Detections
      <4>1. CASE fresh' = Later(fresh) /\ held' = Later(held)
        BY <2>0, <4>1, LaterTyped
      <4>2. ASSUME NEW persons \in SUBSET InView, fresh' = Detected(persons),
                   held' = IF persons = {} THEN Later(held) ELSE fresh'
            PROVE  fresh' \in Detections /\ held' \in Detections
        BY <2>0, <4>2, LaterTyped, DetectionTyped
      <4> QED
        BY <2>2, <4>1, <4>2 DEF ScriptTurn
    <3>3. Snapshot(fresh', held') \in Detections
      BY <3>2, NoDetectionTyped DEF Snapshot
    <3> QED
      BY <3>1, <3>2, <3>3, ControlKeeps
  <2>3. CASE UNCHANGED trackingVars
    BY <2>3 DEF trackingVars, TrackingInv, LateInv, Drift
  <2> QED
    BY <2>1, <2>2, <2>3 DEF TrackingNext
<1> QED
  BY <1>1, <1>2, PTL DEF TrackingSpec

\* The turns of the head, what the PID remembers and the times of the tracker
\* stay within their limits.
THEOREM TrackingTypeCorrect == TrackingSpec => []TrackingTypeOK
<1>1. TrackingInv => TrackingTypeOK
  <2> SUFFICES ASSUME TrackingInv PROVE TrackingTypeOK
    OBVIOUS
  <2>1. SeenFaces \subseteq Faces
    <3>1. Offsets \subseteq -(2 * Half + Right)..(2 * Half + Right)
      BY LimitsAreNumbers DEF Offsets
    <3> QED
      BY <3>1 DEF SeenFaces, Faces
  <2>2. /\ pan \in 0..Right /\ frame \in 0..1
        /\ tracker.delta \in -MaxOutput..MaxOutput
        /\ tracker.pid.integral \in -MaxIntegral..MaxIntegral
        /\ tracker.pid.prev \subseteq -Half..Half
        /\ tracker.seen \in Ages /\ tracker.moved \subseteq Ages
        /\ tracker.lost \subseteq Ages
    BY DEF TrackingInv, Trackers, Pids, Offsets
  <2>3. tracker.last \subseteq Faces
    BY <2>1 DEF TrackingInv, Trackers
  <2>4. Cardinality(tracker.last) <= 1
    <3>1. CASE tracker.last = {}
      BY <3>1, FS_EmptySet
    <3>2. CASE \E f \in SeenFaces : tracker.last = {f}
      BY <3>2, FS_Singleton
    <3> QED
      BY <3>1, <3>2 DEF TrackingInv, AtMostOne
  <2>5. \A d \in {fresh, held, workedOn} : d.faces \subseteq Faces /\ d.age \in Ages
    BY <2>1 DEF TrackingInv, Detections
  <2> QED
    BY <2>2, <2>3, <2>4, <2>5 DEF TrackingTypeOK
<1> QED
  BY <1>1, TrackingInvariance, PTL

\* The head of the script's loop comes to rest when detections are too old:
\* after so many turns at most as the change between two of them allows.
THEOREM StaleTurnsFade == TrackingSpec => []StaleHeadStops
<1>1. TrackingInv => StaleHeadStops
  <2> SUFFICES ASSUME TrackingInv, StaleAfter > 0, MaxChange > 0
               PROVE  late <= Fading
    BY DEF StaleHeadStops
  <2>1. /\ late \in Nat /\ MaxOutput - 1 \in Nat /\ MaxChange \in Nat \ {0}
        /\ MaxChange \in Nat
    BY LimitsAreNumbers DEF TrackingInv, LateInv
  <2>2. late * MaxChange <= MaxOutput - 1
    <3>1. CASE late = 0
      BY <2>1, <3>1
    <3>2. CASE late > 0
      <4>1. MaxChange * late < MaxOutput
        BY <3>2 DEF TrackingInv, LateInv
      <4>2. MaxChange * late = late * MaxChange /\ late * MaxChange \in Nat
        BY <2>1
      <4> QED
        BY <2>1, <4>1, <4>2, LimitsAreNumbers
    <3> QED
      BY <2>1, <3>1, <3>2
  <2>3. \A n \in Nat, d \in Nat \ {0}, c \in Nat : n >= c * d => n \div d >= c
    OBVIOUS
  <2>4. (MaxOutput - 1) \div MaxChange >= late
    BY <2>1, <2>2, <2>3
  <2>5. (MaxOutput - 1) \div MaxChange \in Nat
    BY <2>1, Quotients
  <2> QED
    BY <2>1, <2>4, <2>5 DEF Fading
<1> QED
  BY <1>1, TrackingInvariance, PTL

-----------------------------------------------------------------------------
\* Whom the head follows.

\* After a control step the tracker remembers the face it did, none, or one it
\* selected.
LEMMA RememberedFace ==
  ASSUME TrackingInv, NEW ticks \in Nat, NEW detection \in Detections,
         Control(ticks, detection)
  PROVE  LET t == Aged(tracker, ticks)
         IN  /\ t.last = tracker.last /\ t.seen <= tracker.seen + ticks /\ t.seen \in Nat
             /\ \/ detection.faces = {} /\ tracker'.last = {}
                \/ (detection.faces = {} \/ Select(t, detection.faces) = {})
                     /\ tracker'.last = tracker.last
                \/ \E face \in Select(t, detection.faces) : tracker'.last = {face}
<1> DEFINE t == Aged(tracker, ticks)
           faces == detection.faces
<1>1. /\ t \in Trackers /\ t.last = tracker.last /\ t.seen <= tracker.seen + ticks
      /\ t.seen \in Nat
  BY AgedTyped DEF TrackingInv, Trackers, Ages
<1>2. faces \subseteq SeenFaces /\ detection.age \in Ages
  BY DEF Detections
<1>3. CASE faces = {}
  <2>1. tracker' = Lose(t).tracker
    BY <1>3 DEF Control
  <2> HIDE DEF t
  <2>2. tracker'.last = {} \/ tracker' = t
    BY <1>1, <2>1, LoseTyped
  <2> QED
    BY <1>1, <1>3, <2>2 DEF t
<1>4. CASE faces # {} /\ Select(t, faces) = {}
  <2>1. tracker' = t
    BY <1>4 DEF Control
  <2> QED
    BY <1>1, <1>4, <2>1
<1>5. CASE faces # {} /\ Select(t, faces) # {}
  <2>1. PICK face \in Select(t, faces) :
          tracker' = Follow(t, face, detection.age).tracker
    BY <1>5 DEF Control
  <2> HIDE DEF t
  <2>2. face \in SeenFaces
    BY <1>2, ChosenAmong
  <2>3. tracker'.last = {face}
    BY <1>1, <1>2, <2>1, <2>2, FollowTyped
  <2> QED
    BY <1>1, <2>3 DEF t
<1> QED
  BY <1>3, <1>4, <1>5

\* The lock: while it is held, only a face close to the one remembered.
LEMMA LockedIsClose ==
  ASSUME NEW t, NEW faces, NEW f, t.last = {f}, t.seen < LockTimeout, LockTimeout > 0,
         NEW face \in Select(t, faces)
  PROVE  IsClose(f, face)
<1>1. t.last # {} /\ The(t.last) = f
  BY DEF The
<1>2. face \in Locked(faces, f)
  BY <1>1 DEF Select
<1> QED
  BY <1>2 DEF Locked

\* A step of either program is a control step on faces seen in time.
LEMMA EveryStepControls ==
  ASSUME TrackingInv, TrackingNext
  PROVE  \E ticks \in 1..MaxGap, detection \in Detections : Control(ticks, detection)
<1>1. CASE WorkerFrame
  <2>1. PICK ticks \in 1..MaxGap, persons \in SUBSET InView :
          Control(ticks, Detected(persons))
    BY <1>1 DEF WorkerFrame
  <2> QED
    BY <2>1, DetectionTyped
<1>2. CASE ScriptTurn
  <2>1. Control(1, Snapshot(fresh', held'))
    BY <1>2 DEF ScriptTurn
  <2>2. fresh \in Detections /\ held \in Detections
    BY DEF TrackingInv
  <2>3. fresh' \in Detections /\ held' \in Detections
    <3>1. CASE fresh' = Later(fresh) /\ held' = Later(held)
      BY <2>2, <3>1, LaterTyped
    <3>2. ASSUME NEW persons \in SUBSET InView, fresh' = Detected(persons),
                 held' = IF persons = {} THEN Later(held) ELSE fresh'
          PROVE  fresh' \in Detections /\ held' \in Detections
      BY <2>2, <3>2, LaterTyped, DetectionTyped
    <3> QED
      BY <1>2, <3>1, <3>2 DEF ScriptTurn
  <2>4. Snapshot(fresh', held') \in Detections
    BY <2>3, NoDetectionTyped DEF Snapshot
  <2>5. 1 \in 1..MaxGap
    BY LimitsAreNumbers
  <2> QED
    BY <2>1, <2>4, <2>5
<1> QED
  BY <1>1, <1>2 DEF TrackingNext

\* The head turns to another face that is not close to the first only when the
\* first has been missing for the time of the lock.
THEOREM LockIsKept == TrackingSpec => SwitchesAfterLock
<1> DEFINE Kept == \A f \in tracker.last, g \in tracker'.last :
                     f.who # g.who /\ tracker.seen + MaxGap < LockTimeout => IsClose(f, g)
<1>1. TrackingInv /\ [TrackingNext]_trackingVars => [Kept]_trackingVars
  <2> SUFFICES ASSUME TrackingInv, TrackingNext,
                      NEW f \in tracker.last, NEW g \in tracker'.last,
                      f.who # g.who, tracker.seen + MaxGap < LockTimeout
               PROVE  IsClose(f, g)
    OBVIOUS
  <2>1. PICK ticks \in 1..MaxGap, detection \in Detections : Control(ticks, detection)
    BY EveryStepControls
  <2> DEFINE t == Aged(tracker, ticks)
  <2>2. ticks \in Nat /\ ticks <= MaxGap /\ MaxGap \in Nat /\ LockTimeout \in Nat
    BY LimitsAreNumbers
  <2>3. /\ t.last = tracker.last /\ t.seen <= tracker.seen + ticks /\ t.seen \in Nat
        /\ \/ tracker'.last = {} \/ tracker'.last = tracker.last
           \/ \E face \in Select(t, detection.faces) : tracker'.last = {face}
    BY <2>1, <2>2, RememberedFace
  <2>4. tracker.last = {f} /\ tracker.seen \in Nat
    BY DEF TrackingInv, AtMostOne, Trackers, Ages
  <2> HIDE DEF t
  <2>5. PICK face \in Select(t, detection.faces) : tracker'.last = {face}
    BY <2>3, <2>4
  <2>6. t.seen < LockTimeout /\ LockTimeout > 0
    BY <2>2, <2>3, <2>4
  <2>7. IsClose(f, face)
    BY <2>3, <2>4, <2>6, LockedIsClose
  <2> QED
    BY <2>5, <2>7
<1> QED
  BY <1>1, TrackingInvariance, PTL DEF TrackingSpec, SwitchesAfterLock

\* The face that has moved by a turn at most is close enough for the lock, and
\* closer than one that is further away in proportion to its size.
LEMMA ClosestWins ==
  ASSUME NEW f, NEW own, NEW g, NEW S \in Nat \ {0}, NEW L \in Nat \ {0},
         f.x \in Int, own.x \in Int, g.x \in Int,
         Span(f, own) = S, Span(f, g) = L,
         NEW most \in Nat, Abs(f.x - own.x) <= most, 32 * most <= 65 * S,
         Abs(f.x - g.x) * S > most * L
  PROVE  /\ IsClose(f, own)
         /\ Closeness(f, own).num \in Nat /\ Closeness(f, own).den \in Nat
         /\ Closeness(f, own).num * Closeness(f, g).den
              > Closeness(f, g).num * Closeness(f, own).den
<1> DEFINE d == Abs(f.x - own.x)
           e == Abs(f.x - g.x)
<1>0. d \in Nat /\ e \in Nat /\ d <= most
  BY Absolute
<1>1. Closeness(f, own) = [num |-> IF 20 * S - 8 * d < 0 THEN 0 ELSE 20 * S - 8 * d,
                           den |-> 5 * S]
  BY DEF Closeness
<1>2. Closeness(f, g) = [num |-> IF 20 * L - 8 * e < 0 THEN 0 ELSE 20 * L - 8 * e,
                         den |-> 5 * L]
  BY DEF Closeness
<1> HIDE DEF d, e
<1> DEFINE own1 == 20 * S - 8 * d
           other == IF 20 * L - 8 * e < 0 THEN 0 ELSE 20 * L - 8 * e
<1>3. own1 > 0 /\ own1 \in Nat /\ 4 * own1 >= 3 * (5 * S)
  BY <1>0
<1>4. own1 * (5 * L) > other * (5 * S)
  <2>1. /\ own1 * (5 * L) = 100 * (S * L) - 40 * (d * L)
        /\ (20 * L - 8 * e) * (5 * S) = 100 * (S * L) - 40 * (e * S)
    BY <1>0
  <2>2. /\ most * L = d * L + (most - d) * L
        /\ (most - d) * L \in Nat
    BY <1>0
  <2>3. d * L \in Nat /\ e * S \in Nat /\ S * L \in Nat /\ most * L \in Nat
    BY <1>0
  <2>4. e * S > d * L
    BY <2>2, <2>3 DEF e
  <2>5. own1 * (5 * L) > (20 * L - 8 * e) * (5 * S)
    BY <2>1, <2>3, <2>4
  <2>6. own1 * (5 * L) > 0
    BY <1>3
  <2> QED
    BY <2>5, <2>6
<1> HIDE DEF other
<1>5. /\ Closeness(f, own).num = own1 /\ Closeness(f, own).den = 5 * S
      /\ Closeness(f, g).num = other /\ Closeness(f, g).den = 5 * L
  BY <1>1, <1>2, <1>3 DEF other
<1> HIDE DEF own1
<1> QED
  BY <1>3, <1>4, <1>5 DEF IsClose

\* The worker's faces are where their persons stand now; of those apart from
\* the others, the one that is followed is the one that is selected.
LEMMA OwnFaceIsLocked ==
  ASSUME TrackingInv, program = "worker", NEW p \in Persons, Apart(p),
         NEW f \in SeenFaces, tracker.last = {f}, f.who = p,
         NEW persons \in SUBSET InView, p \in persons
  PROVE  Locked(Detected(persons).faces, f) = {Face(p)}
<1> DEFINE faces == Detected(persons).faces
           own == Face(p)
           num == [g \in faces |-> Closeness(f, g).num]
           den == [g \in faces |-> Closeness(f, g).den]
<1>0. /\ \A q \in Persons : where[q] \in Int /\ Size[q] \in Nat \ {0}
      /\ pan \in Int /\ MaxOutput \in Nat /\ f.x \in Int /\ f.size = Size[p]
      /\ Abs(where[p] - pan - f.x) <= MaxOutput
  <2>1. /\ where \in [Persons -> Directions] /\ Directions \subseteq Int
        /\ Size \in [Persons -> Nat \ {0}]
    BY FaceTrackingAssumption DEF TrackingInv
  <2>2. pan \in 0..Right /\ Right \in Nat /\ MaxOutput \in Nat /\ Half \in Nat
    BY LimitsAreNumbers DEF TrackingInv
  <2>3. f.x \in Int
    BY <2>2 DEF SeenFaces, Offsets
  <2>4. f.size = Size[p] /\ Abs(where[p] - pan - f.x) <= MaxOutput
    BY DEF TrackingInv, Drift
  <2>5. \A q \in Persons : where[q] \in Int
    BY <2>1
  <2>6. \A q \in Persons : Size[q] \in Nat \ {0}
    BY <2>1
  <2>7. pan \in Int
    BY <2>2
  <2> QED
    BY <2>2, <2>3, <2>4, <2>5, <2>6, <2>7
<1>1. 32 * MaxOutput <= 65 * Size[p]
  BY DEF Apart, MovesLittle
<1>2. faces = {Face(q) : q \in persons} /\ persons \subseteq Persons /\ own \in faces
  BY DEF Detected, InView
<1>3. \A q \in Persons : Face(q).x = where[q] - pan /\ Face(q).size = Size[q]
  BY DEF Face
<1> HIDE DEF own, faces
<1>4. Abs(f.x - own.x) <= MaxOutput /\ own.x \in Int /\ Span(f, own) = Size[p]
  BY <1>0, <1>3 DEF Abs, Span, own
<1>5. ASSUME NEW q \in Persons \ {p}
      PROVE  LET g == Face(q)
             IN  /\ IsClose(f, own)
                 /\ Closeness(f, own).num \in Nat /\ Closeness(f, own).den \in Nat
                 /\ Closeness(f, own).num * Closeness(f, g).den
                      > Closeness(f, g).num * Closeness(f, own).den
  <2> DEFINE g == Face(q)
             larger == IF Size[p] > Size[q] THEN Size[p] ELSE Size[q]
             far == Abs(where[p] - where[q])
  <2>1. (far - MaxOutput) * Size[p] > MaxOutput * larger
    BY DEF Apart, StandsApart
  <2>2. g.x = where[q] - pan /\ g.x \in Int /\ Span(f, g) = larger
        /\ larger \in Nat \ {0}
    BY <1>0, <1>3 DEF Span
  <2>3. far - MaxOutput <= Abs(f.x - g.x) /\ far \in Nat /\ Abs(f.x - g.x) \in Nat
    BY <1>0, <2>2 DEF Abs
  <2> HIDE DEF g, larger, far
  <2>4. Abs(f.x - g.x) * Size[p] > MaxOutput * larger
    <3> DEFINE a == Abs(f.x - g.x)
               b == far - MaxOutput
               S == Size[p]
    <3>1. a \in Nat /\ b \in Int /\ S \in Nat \ {0} /\ b <= a
      BY <1>0, <2>3
    <3> HIDE DEF a, b, S
    <3>2. a * S = b * S + (a - b) * S /\ (a - b) * S \in Nat /\ b * S \in Int
      BY <3>1
    <3>3. b * S > MaxOutput * larger /\ MaxOutput * larger \in Nat
      BY <1>0, <2>1, <2>2 DEF b, S
    <3>4. a * S > MaxOutput * larger
      BY <3>2, <3>3
    <3> QED
      BY <3>4 DEF a, S
  <2>5. Size[p] \in Nat \ {0} /\ 32 * MaxOutput <= 65 * Size[p]
    BY <1>0, <1>1
  <2>6. f.x \in Int /\ MaxOutput \in Nat
    BY <1>0
  <2>7. /\ IsClose(f, own)
        /\ Closeness(f, own).num \in Nat /\ Closeness(f, own).den \in Nat
        /\ Closeness(f, own).num * Closeness(f, g).den
             > Closeness(f, g).num * Closeness(f, own).den
    BY <1>4, <2>2, <2>4, <2>5, <2>6, ClosestWins
  <2> QED
    BY <2>7 DEF g
<1>6. IsClose(f, own) /\ Closeness(f, own).num \in Nat /\ Closeness(f, own).den \in Nat
  <2> DEFINE S == Size[p]
             d == Abs(f.x - own.x)
  <2>1. S \in Nat \ {0} /\ d \in Nat /\ d <= MaxOutput /\ 32 * MaxOutput <= 65 * S
    <3>1. f.x \in Int /\ own.x \in Int /\ S \in Nat \ {0}
      BY <1>0, <1>4
    <3>2. d \in Nat
      BY <3>1, Absolute
    <3>3. 32 * MaxOutput <= 65 * S
      BY <1>1
    <3> QED
      BY <1>4, <3>1, <3>2, <3>3
  <2>2. Closeness(f, own) = [num |-> IF 20 * S - 8 * d < 0 THEN 0 ELSE 20 * S - 8 * d,
                             den |-> 5 * S]
    BY <1>4 DEF Closeness
  <2> HIDE DEF S, d
  <2> QED
    BY <1>0, <2>1, <2>2 DEF IsClose
<1>7. Best(faces, num, den) = {own}
  <2>1. \A g \in faces : num[g] = Closeness(f, g).num /\ den[g] = Closeness(f, g).den
    OBVIOUS
  <2> HIDE DEF num, den
  <2>2. ASSUME NEW g \in faces, g # own
        PROVE  num[own] * den[g] > num[g] * den[own]
    <3>1. PICK q \in persons : g = Face(q)
      BY <1>2
    <3>2. q \in Persons \ {p}
      BY <1>2, <2>2, <3>1 DEF own
    <3> QED
      BY <1>2, <1>5, <2>1, <3>1, <3>2
  <2>3. num[own] * den[own] >= num[own] * den[own]
    <3>1. num[own] \in Nat /\ den[own] \in Nat
      BY <1>2, <1>6, <2>1
    <3> QED
      BY <3>1
  <2>4. \A g \in faces : num[own] * den[g] \in Int /\ num[g] * den[own] \in Int
    <3>1. \A g \in faces : Closeness(f, g).num \in Int /\ Closeness(f, g).den \in Int
      <4> SUFFICES ASSUME NEW g \in faces
                   PROVE  Closeness(f, g).num \in Int /\ Closeness(f, g).den \in Int
        OBVIOUS
      <4>1. PICK q \in persons : g = Face(q)
        BY <1>2
      <4>2. g.x \in Int /\ Span(f, g) \in Int
        BY <1>0, <1>2, <1>3, <4>1 DEF Span
      <4>3. Abs(f.x - g.x) \in Int
        BY <1>0, <4>2 DEF Abs
      <4> QED
        BY <4>2, <4>3 DEF Closeness
    <3> QED
      BY <1>2, <2>1, <3>1
  <2>5. own \in Best(faces, num, den)
    BY <1>2, <2>2, <2>3, <2>4 DEF Best
  <2>6. ASSUME NEW g \in Best(faces, num, den), g # own PROVE FALSE
    <3>1. g \in faces /\ num[g] * den[own] >= num[own] * den[g]
      BY <1>2 DEF Best
    <3> QED
      BY <2>2, <2>4, <2>6, <3>1
  <2> QED
    BY <2>5, <2>6
<1>8. Locked(faces, f) = {g \in Best(faces, num, den) : IsClose(f, g)}
  BY DEF Locked
<1> HIDE DEF num, den
<1> QED
  BY <1>6, <1>7, <1>8 DEF faces, own

\* While the camera worker follows somebody whose face it sees, and a turn
\* blurs neither that face nor the distance to the others, it takes nobody
\* else's face for it.
THEOREM PersonIsKept == TrackingSpec => KeepsPerson
<1> DEFINE Kept ==
      \A p \in Persons :
        program = "worker" /\ Followed = {p} /\ p \in Who(workedOn'.faces) /\ Apart(p)
          => Followed' = {p}
<1>1. TrackingInv /\ [TrackingNext]_trackingVars => [Kept]_trackingVars
  <2> SUFFICES ASSUME TrackingInv, TrackingNext, NEW p \in Persons,
                      program = "worker", Followed = {p}, p \in Who(workedOn'.faces),
                      Apart(p)
               PROVE  Followed' = {p}
    OBVIOUS
  <2>1. PICK ticks \in 1..MaxGap, persons \in SUBSET InView :
          Control(ticks, Detected(persons))
    BY DEF TrackingNext, WorkerFrame, ScriptTurn
  <2> DEFINE faces == Detected(persons).faces
             t == Aged(tracker, ticks)
  <2>2. faces = {Face(q) : q \in persons} /\ \A q \in persons : Face(q).who = q
    BY DEF Detected, Face
  <2>3. p \in persons
    <3>1. workedOn'.faces = faces
      BY <2>1 DEF Control
    <3> QED
      BY <2>2, <3>1 DEF Who
  <2>4. PICK f \in SeenFaces : tracker.last = {f} /\ f.who = p
    <3>1. tracker.last # {} /\ \A f \in tracker.last : f.who = p
      BY DEF Followed, Who
    <3> QED
      BY <3>1 DEF TrackingInv, AtMostOne
  <2>5. Locked(faces, f) = {Face(p)}
    BY <2>3, <2>4, OwnFaceIsLocked
  <2>6. ticks \in Nat /\ Detected(persons) \in Detections /\ faces # {}
    BY <2>2, <2>3, DetectionTyped, LimitsAreNumbers
  <2>7. /\ t.last = tracker.last
        /\ \/ tracker'.last = tracker.last
           \/ \E face \in Select(t, faces) : tracker'.last = {face}
    BY <2>1, <2>6, RememberedFace
  <2> HIDE DEF faces, t
  <2>8. Select(t, faces) = {Face(p)}
    <3>1. t.last # {} /\ The(t.last) = f
      BY <2>4, <2>7 DEF The
    <3> QED
      BY <2>5, <3>1 DEF Select
  <2>9. tracker'.last = {f} \/ tracker'.last = {Face(p)}
    BY <2>4, <2>7, <2>8
  <2>10. f.who = p /\ Face(p).who = p
    BY <2>4 DEF Face
  <2> QED
    BY <2>9, <2>10 DEF Followed, Who
<1> QED
  BY <1>1, TrackingInvariance, PTL DEF TrackingSpec, KeepsPerson
=============================================================================
