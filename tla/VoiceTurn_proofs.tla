--------------------------- MODULE VoiceTurn_proofs ---------------------------
(***************************************************************************)
(* Theorems about VoiceTurn, for answers of any length.                    *)
(*                                                                         *)
(* The words on their way to the edge form one chain: what was heard, the  *)
(* frames on the wire, the segment being spoken, the queued segments, the  *)
(* buffer.  Each link begins with the word after the one the link before   *)
(* it ends with, as long as the connection is up.                          *)
(***************************************************************************)
EXTENDS VoiceTurn, SequenceTheorems, TLAPS

Frames == [kind : {"tts", "audio", "error"}, segment : Segments]

Mark(s) == IF s.final THEN "final" ELSE "more"

Beginnings == {"audio", "welcome", "stream"}

\* The answer may still grow.
Early == main \in Beginnings

\* A segment of an answer of p words, when the session stands at m; a final
\* one ends it, and no word follows.
Fits(s, p, m) ==
  /\ s \in Segments /\ s.from >= 1 /\ s.from <= s.to + 1 /\ s.to <= p
  /\ ~s.final => s.from <= s.to
  /\ s.final => s.to = p /\ p > 0 /\ m \notin Beginnings

QueueFits(q, p, m) ==
  \A i \in 1..Len(q) : q[i] = EndOfSegments \/ Fits(q[i], p, m)

WireFits(w, p, m) ==
  \A i \in 1..Len(w) : w[i].kind = "error" \/ Fits(w[i].segment, p, m)

-----------------------------------------------------------------------------
\* The wire w towards an edge that has heard n words and has the mark m.

Follows(x, y) ==
  /\ x.kind # "error"
  /\ \/ y.kind = "error"
     \/ x.kind = "tts" /\ y = Audio(x.segment)
     \/ x.kind = "audio" /\ y.kind = "tts" /\ y.segment.from = x.segment.to + 1

First(y, n, m) ==
  \/ y.kind = "error"
  \/ y.kind = "audio" /\ m = Mark(y.segment) /\ y.segment.from = n + 1
  \/ y.kind = "tts" /\ m = "none" /\ y.segment.from = n + 1

WireChain(w, n, m) ==
  /\ \A i \in 1..(Len(w) - 1) : Follows(w[i], w[i + 1])
  /\ w # <<>> => First(w[1], n, m)

\* Frame y may be sent next.
MaySend(w, n, m, y) ==
  IF w = <<>> THEN First(y, n, m) ELSE Follows(w[Len(w)], y)

\* The first k words have been sent, and no announcement is open.
Sent(w, n, m, k) ==
  IF w = <<>> THEN n = k /\ m = "none"
  ELSE w[Len(w)].kind = "audio" /\ w[Len(w)].segment.to = k

-----------------------------------------------------------------------------
\* The segments q that wait, when the first c words have left the buffer.

\* The words before the i-th of them.
BeforeIn(q, c, i) ==
  IF i <= Len(q) /\ q[i] # EndOfSegments THEN q[i].from - 1 ELSE c

QueueChain(q, c) ==
  \A i \in 1..Len(q) :
    /\ q[i] # EndOfSegments => q[i].to = BeforeIn(q, c, i + 1)
    /\ q[i] = EndOfSegments => i = Len(q)

Unsent == BeforeIn(queue, cut, 1)

-----------------------------------------------------------------------------
\* The inductive invariant.

\* What has been heard ends with the turn.
LinkInv ==
  /\ link = "up" <=> edge = "open"
  /\ link = "closed" => wire = <<>>
  /\ edge = "success" => ~Early /\ produced > 0 /\ Len(heard) = produced

\* Where the two tasks stand together.
ControlInv ==
  /\ main \in {"audio", "welcome"} =>
       /\ tts.at = "none" /\ produced = 0 /\ cut = 0
       /\ queue = <<>> /\ wire = <<>> /\ heard = <<>> /\ meta = "none"
  /\ main = "welcome" => activity = "idle"
  /\ main = "audio" => activity = "busy"
  /\ main = "refused" => tts.at = "none"
  /\ main = "record" => tts.at = "returned"
  /\ main = "stream" => tts.at \in {"get", "synth", "audio", "raised"}
  /\ main = "drain" =>
       /\ tts.at \in {"get", "synth", "audio", "raised", "returned"}
       /\ cut = produced /\ produced > 0

FitsInv ==
  /\ QueueFits(queue, produced, main) /\ WireFits(wire, produced, main)
  /\ tts.at \in {"synth", "audio"} => Fits(tts.segment, produced, main)

QueueInv ==
  /\ QueueChain(queue, cut)
  /\ main = "stream" => \A i \in 1..Len(queue) : queue[i] # EndOfSegments
  /\ tts.at \in {"synth", "audio"} => tts.segment.to = Unsent

May(y) == MaySend(wire, Len(heard), meta, y)

ChainInv ==
  link = "up" =>
    /\ WireChain(wire, Len(heard), meta)
    /\ main \notin {"failed", "refused"} => May(ErrorFrame)
    /\ tts.at = "get" => Sent(wire, Len(heard), meta, Unsent)
    /\ tts.at = "synth" => May(Announce(tts.segment))
    /\ tts.at = "audio" => May(Audio(tts.segment))
    /\ main = "drain" /\ tts.at = "returned" =>
         Sent(wire, Len(heard), meta, cut)

IInv ==
  /\ TypeOK /\ LinkInv /\ ControlInv /\ FitsInv /\ QueueInv /\ ChainInv
  /\ HeardInOrder /\ QuietAfterTurn

USE BoundAssumption

LEMMA SnocProperties ==
  ASSUME NEW S, NEW s \in Seq(S), NEW e \in S
  PROVE  /\ s \o <<e>> \in Seq(S) /\ Len(s \o <<e>>) = Len(s) + 1
         /\ s \o <<e>> # <<>>
         /\ \A i \in 1..Len(s) : (s \o <<e>>)[i] = s[i]
         /\ (s \o <<e>>)[Len(s) + 1] = e
<1>1. <<e>> \in Seq(S) /\ Len(<<e>>) = 1 /\ <<e>>[1] = e
  OBVIOUS
<1> DEFINE t == <<e>>
<1>2. t \in Seq(S) /\ Len(t) = 1 /\ t[1] = e
  BY <1>1
<1> HIDE DEF t
<1>3. /\ s \o t \in Seq(S) /\ Len(s \o t) = Len(s) + Len(t)
      /\ \A i \in 1 .. Len(s) + Len(t) :
           (s \o t)[i] = IF i <= Len(s) THEN s[i] ELSE t[i - Len(s)]
  BY ONLY <1>2, s \in Seq(S), ConcatProperties, Zenon
<1>4. Len(s) \in Nat /\ Len(s \o t) = Len(s) + 1
  BY <1>2, <1>3
<1>5. \A i \in 1..Len(s) : (s \o t)[i] = s[i]
  BY <1>2, <1>3, <1>4
<1>6. (s \o t)[Len(s) + 1] = t[1]
  BY <1>2, <1>3, <1>4
<1>7. s \o t # <<>>
  BY <1>3, <1>4
<1> QED
  BY <1>2, <1>3, <1>4, <1>5, <1>6, <1>7 DEF t

LEMMA SendChain ==
  ASSUME NEW w \in Seq(Frames), NEW n \in Nat, NEW m, NEW y \in Frames,
         WireChain(w, n, m), MaySend(w, n, m, y)
  PROVE  /\ w \o <<y>> \in Seq(Frames)
         /\ WireChain(w \o <<y>>, n, m)
         /\ w \o <<y>> # <<>>
         /\ (w \o <<y>>)[Len(w \o <<y>>)] = y
<1> DEFINE v == w \o <<y>>
<1>1. /\ v \in Seq(Frames) /\ Len(v) = Len(w) + 1 /\ v # <<>>
      /\ \A i \in 1..Len(w) : v[i] = w[i]
      /\ v[Len(w) + 1] = y
  BY SnocProperties
<1> HIDE DEF v
<1>2. Len(w) \in Nat
  OBVIOUS
<1>3. ASSUME NEW i \in 1..(Len(v) - 1) PROVE Follows(v[i], v[i + 1])
  <2>1. i \in 1..Len(w) /\ v[i] = w[i]
    BY <1>1, <1>2
  <2>2. CASE i = Len(w)
    <3>1. w # <<>> /\ v[i + 1] = y
      BY <1>1, <1>2, <2>1, <2>2
    <3> QED
      BY <2>1, <2>2, <3>1 DEF MaySend
  <2>3. CASE i # Len(w)
    <3>1. i \in 1..(Len(w) - 1) /\ i + 1 \in 1..Len(w)
      BY <1>2, <2>1, <2>3
    <3>2. v[i + 1] = w[i + 1]
      BY <1>1, <3>1
    <3> QED
      BY <2>1, <3>1, <3>2 DEF WireChain
  <2> QED
    BY <2>2, <2>3
<1>4. First(v[1], n, m)
  <2>1. CASE w = <<>>
    BY <1>1, <2>1 DEF MaySend
  <2>2. CASE w # <<>>
    <3>1. 1 \in 1..Len(w)
      BY <2>2
    <3> QED
      BY <1>1, <2>2, <3>1 DEF WireChain
  <2> QED
    BY <2>1, <2>2
<1>5. v[Len(v)] = y
  BY <1>1
<1> QED
  BY <1>1, <1>3, <1>4, <1>5 DEF WireChain, v

\* The edge takes the first frame: what may be sent next remains, and so
\* does what has been sent.
LEMMA ReceiveChain ==
  ASSUME NEW w \in Seq(Frames), w # <<>>, NEW n \in Nat, NEW m,
         NEW n2 \in Nat, NEW m2, WireChain(w, n, m),
         \/ w[1].kind = "tts" /\ n2 = n /\ m2 = Mark(w[1].segment)
         \/ w[1].kind = "audio" /\ n2 = w[1].segment.to /\ m2 = "none"
  PROVE  /\ WireChain(Tail(w), n2, m2)
         /\ \A y : MaySend(w, n, m, y) => MaySend(Tail(w), n2, m2, y)
         /\ \A k : Sent(w, n, m, k) => Sent(Tail(w), n2, m2, k)
<1> DEFINE v == Tail(w)
<1>1. /\ v \in Seq(Frames) /\ Len(v) = Len(w) - 1 /\ Len(w) \in Nat /\ Len(w) >= 1
      /\ \A i \in 1..Len(v) : v[i] = w[i + 1]
  OBVIOUS
<1> HIDE DEF v
<1>2. /\ First(w[1], n, m) /\ w[1].kind # "error"
      /\ \A i \in 1..(Len(w) - 1) : Follows(w[i], w[i + 1])
  BY DEF WireChain
<1>3. ASSUME NEW y, Follows(w[1], y) PROVE First(y, n2, m2)
  BY <1>2, <1>3 DEF First, Follows, Audio
<1>4. \A i \in 1..(Len(v) - 1) : Follows(v[i], v[i + 1])
  <2> TAKE i \in 1..(Len(v) - 1)
  <2>1. i + 1 \in 1..(Len(w) - 1) /\ i \in 1..Len(v) /\ i + 1 \in 1..Len(v)
    BY <1>1
  <2> QED
    BY <1>1, <1>2, <2>1
<1>5. v # <<>> => First(v[1], n2, m2)
  <2> SUFFICES ASSUME v # <<>> PROVE First(v[1], n2, m2)
    OBVIOUS
  <2>1. 1 \in 1..Len(v) /\ 1 \in 1..(Len(w) - 1)
    BY <1>1
  <2>2. v[1] = w[2] /\ Follows(w[1], w[2])
    BY <1>1, <1>2, <2>1
  <2> QED
    BY <1>3, <2>2
<1>6. v # <<>> => Len(v) \in 1..Len(v) /\ v[Len(v)] = w[Len(w)]
  BY <1>1
<1>7. v = <<>> => Len(w) = 1
  BY <1>1
<1>8. ASSUME NEW y, MaySend(w, n, m, y) PROVE MaySend(v, n2, m2, y)
  BY <1>3, <1>6, <1>7, <1>8 DEF MaySend
<1>9. ASSUME NEW k, Sent(w, n, m, k) PROVE Sent(v, n2, m2, k)
  BY <1>6, <1>7, <1>9 DEF Sent
<1> QED
  BY <1>4, <1>5, <1>8, <1>9 DEF WireChain, v

\* An announcement of the words after those sent may be sent.
LEMMA SentMay ==
  ASSUME NEW w \in Seq(Frames), NEW n \in Nat, NEW m, NEW s \in Segments,
         Sent(w, n, m, s.from - 1)
  PROVE  MaySend(w, n, m, Announce(s))
<1>1. Announce(s).kind = "tts" /\ Announce(s).segment = s
  BY DEF Announce
<1>2. n = s.from - 1 => s.from = n + 1
  BY DEF Segments
<1>3. CASE w = <<>>
  BY <1>1, <1>2, <1>3 DEF Sent, MaySend, First
<1>4. CASE w # <<>>
  <2>1. w[Len(w)] \in Frames
    BY <1>4
  <2>2. w[Len(w)].segment.to \in Nat
    BY <2>1 DEF Frames, Segments
  <2> QED
    BY <1>1, <1>4, <2>2 DEF Sent, MaySend, Follows, Segments
<1> QED
  BY <1>3, <1>4

-----------------------------------------------------------------------------
\* The queue.

LEMMA EndIsSegment == EndOfSegments \in Segments /\ EndOfSegments.from = 0
  BY DEF EndOfSegments, NoSegment, Segment, Segments

\* A segment that continues the chain is appended.
LEMMA QueueSegment ==
  ASSUME NEW q \in Seq(Segments), NEW c \in Nat, NEW s \in Segments,
         QueueChain(q, c), \A i \in 1..Len(q) : q[i] # EndOfSegments,
         s.from = c + 1
  PROVE  /\ QueueChain(Append(q, s), s.to)
         /\ \A i \in 1..Len(Append(q, s)) : Append(q, s)[i] # EndOfSegments
         /\ BeforeIn(Append(q, s), s.to, 1) = BeforeIn(q, c, 1)
<1> DEFINE r == Append(q, s)
<1>1. /\ r \in Seq(Segments) /\ Len(r) = Len(q) + 1 /\ Len(q) \in Nat
      /\ \A i \in 1..Len(q) : r[i] = q[i]
      /\ r[Len(q) + 1] = s
  OBVIOUS
<1> HIDE DEF r
<1>2. s # EndOfSegments /\ s.from - 1 = c
  BY EndIsSegment
<1>3. ASSUME NEW i \in 1..Len(r) PROVE BeforeIn(r, s.to, i) = BeforeIn(q, c, i)
  BY <1>1, <1>2 DEF BeforeIn
<1>4. ASSUME NEW i \in 1..Len(r) PROVE r[i] # EndOfSegments
  BY <1>1, <1>2
<1>5. ASSUME NEW i \in 1..Len(r) PROVE r[i].to = BeforeIn(r, s.to, i + 1)
  <2>1. CASE i = Len(q) + 1
    BY <1>1, <2>1 DEF BeforeIn
  <2>2. CASE i # Len(q) + 1
    <3>1. i \in 1..Len(q) /\ i + 1 \in 1..Len(r) /\ r[i] = q[i]
      BY <1>1, <2>2
    <3>2. q[i].to = BeforeIn(q, c, i + 1)
      BY <3>1 DEF QueueChain
    <3> QED
      BY <1>3, <3>1, <3>2
  <2> QED
    BY <2>1, <2>2
<1>6. 1 \in 1..Len(r)
  BY <1>1
<1> QED
  BY <1>3, <1>4, <1>5, <1>6 DEF QueueChain, r

\* The end is appended.
LEMMA QueueEnd ==
  ASSUME NEW q \in Seq(Segments), NEW c \in Nat,
         QueueChain(q, c), \A i \in 1..Len(q) : q[i] # EndOfSegments
  PROVE  /\ QueueChain(Append(q, EndOfSegments), c)
         /\ BeforeIn(Append(q, EndOfSegments), c, 1) = BeforeIn(q, c, 1)
<1> DEFINE r == Append(q, EndOfSegments)
<1>1. /\ r \in Seq(Segments) /\ Len(r) = Len(q) + 1 /\ Len(q) \in Nat
      /\ \A i \in 1..Len(q) : r[i] = q[i]
      /\ r[Len(q) + 1] = EndOfSegments
  BY EndIsSegment
<1> HIDE DEF r
<1>2. ASSUME NEW i \in 1..Len(r) PROVE BeforeIn(r, c, i) = BeforeIn(q, c, i)
  BY <1>1 DEF BeforeIn
<1>3. ASSUME NEW i \in 1..Len(r), r[i] # EndOfSegments
      PROVE  r[i].to = BeforeIn(r, c, i + 1)
  <2>1. i \in 1..Len(q) /\ i + 1 \in 1..Len(r) /\ r[i] = q[i]
    BY <1>1, <1>3
  <2>2. q[i].to = BeforeIn(q, c, i + 1)
    BY <2>1 DEF QueueChain
  <2> QED
    BY <1>2, <2>1, <2>2
<1>4. ASSUME NEW i \in 1..Len(r), r[i] = EndOfSegments PROVE i = Len(r)
  BY <1>1, <1>4
<1>5. 1 \in 1..Len(r)
  BY <1>1
<1> QED
  BY <1>2, <1>3, <1>4, <1>5 DEF QueueChain, r

\* The first segment is taken.
LEMMA QueueTail ==
  ASSUME NEW q \in Seq(Segments), q # <<>>, NEW c \in Nat, QueueChain(q, c)
  PROVE  /\ QueueChain(Tail(q), c)
         /\ q[1] = EndOfSegments => BeforeIn(Tail(q), c, 1) = c
                                    /\ BeforeIn(q, c, 1) = c
         /\ q[1] # EndOfSegments =>
              /\ q[1].to = BeforeIn(Tail(q), c, 1)
              /\ BeforeIn(q, c, 1) = q[1].from - 1
<1> DEFINE r == Tail(q)
<1>1. /\ r \in Seq(Segments) /\ Len(r) = Len(q) - 1 /\ Len(q) \in Nat /\ Len(q) >= 1
      /\ \A i \in 1..Len(r) : r[i] = q[i + 1]
  OBVIOUS
<1> HIDE DEF r
<1>2. ASSUME NEW i \in Nat, i >= 1 PROVE BeforeIn(r, c, i) = BeforeIn(q, c, i + 1)
  <2>1. CASE i <= Len(r)
    BY <1>1, <1>2, <2>1 DEF BeforeIn
  <2>2. CASE ~(i <= Len(r))
    BY <1>1, <1>2, <2>2 DEF BeforeIn
  <2> QED
    BY <2>1, <2>2
<1>3. QueueChain(r, c)
  <2> SUFFICES ASSUME NEW i \in 1..Len(r)
               PROVE  /\ r[i] # EndOfSegments => r[i].to = BeforeIn(r, c, i + 1)
                      /\ r[i] = EndOfSegments => i = Len(r)
    BY DEF QueueChain
  <2>1. i + 1 \in 1..Len(q) /\ r[i] = q[i + 1] /\ i + 1 \in Nat /\ i + 1 >= 1
    BY <1>1
  <2>2. BeforeIn(r, c, i + 1) = BeforeIn(q, c, i + 1 + 1)
    BY <1>2, <2>1
  <2>3. /\ q[i + 1] # EndOfSegments => q[i + 1].to = BeforeIn(q, c, i + 1 + 1)
        /\ q[i + 1] = EndOfSegments => i + 1 = Len(q)
    BY <2>1 DEF QueueChain
  <2> QED
    BY <1>1, <2>1, <2>2, <2>3
<1>4. BeforeIn(r, c, 1) = BeforeIn(q, c, 1 + 1)
  BY <1>2
<1>5. 1 \in 1..Len(q)
  BY <1>1
<1>6. /\ q[1] # EndOfSegments => q[1].to = BeforeIn(q, c, 1 + 1)
      /\ q[1] = EndOfSegments => 1 = Len(q)
  BY <1>5 DEF QueueChain
<1>7. q[1] = EndOfSegments => BeforeIn(r, c, 1) = c /\ BeforeIn(q, c, 1) = c
  BY <1>1, <1>6 DEF BeforeIn
<1>8. q[1] # EndOfSegments => BeforeIn(q, c, 1) = q[1].from - 1
  BY <1>5 DEF BeforeIn
<1> QED
  BY <1>3, <1>4, <1>6, <1>7, <1>8 DEF r

-----------------------------------------------------------------------------
\* Segments that fit still do when the answer has grown.

LEMMA FitsKept ==
  ASSUME NEW p \in Nat, NEW p2 \in Nat, p <= p2, NEW m, NEW m2,
         m \notin Beginnings => m2 \notin Beginnings /\ p2 = p,
         NEW s, Fits(s, p, m)
  PROVE  Fits(s, p2, m2)
<1>1. s.to \in Nat
  BY DEF Fits, Segments
<1> QED
  BY <1>1 DEF Fits

LEMMA AllFit ==
  ASSUME NEW p \in Nat, NEW p2 \in Nat, p <= p2, NEW m, NEW m2,
         m \notin Beginnings => m2 \notin Beginnings /\ p2 = p
  PROVE  /\ \A s : Fits(s, p, m) => Fits(s, p2, m2)
         /\ \A q : QueueFits(q, p, m) => QueueFits(q, p2, m2)
         /\ \A w : WireFits(w, p, m) => WireFits(w, p2, m2)
<1>1. \A s : Fits(s, p, m) => Fits(s, p2, m2)
  BY FitsKept
<1> QED
  BY <1>1 DEF QueueFits, WireFits

LEMMA GrownFits ==
  ASSUME produced \in Nat, produced' \in Nat, produced <= produced',
         main \notin Beginnings => main' \notin Beginnings /\ produced' = produced
  PROVE  /\ \A s : Fits(s, produced, main) => Fits(s, produced', main')
         /\ \A q : QueueFits(q, produced, main) => QueueFits(q, produced', main')
         /\ \A w : WireFits(w, produced, main) => WireFits(w, produced', main')
BY AllFit, Zenon

\* A frame is sent, a frame is received.
LEMMA SendFits ==
  ASSUME NEW w \in Seq(Frames), NEW p, NEW m, NEW y \in Frames,
         WireFits(w, p, m), y.kind = "error" \/ Fits(y.segment, p, m)
  PROVE  WireFits(w \o <<y>>, p, m)
<1> DEFINE v == w \o <<y>>
<1>1. /\ Len(v) = Len(w) + 1
      /\ \A i \in 1..Len(w) : v[i] = w[i]
      /\ v[Len(w) + 1] = y
  BY SnocProperties
<1> HIDE DEF v
<1>2. Len(w) \in Nat
  OBVIOUS
<1>3. ASSUME NEW i \in 1..Len(v) PROVE v[i].kind = "error" \/ Fits(v[i].segment, p, m)
  <2>1. CASE i = Len(w) + 1
    BY <1>1, <2>1
  <2>2. CASE i # Len(w) + 1
    <3>1. i \in 1..Len(w)
      BY <1>1, <1>2, <2>2
    <3> QED
      BY <1>1, <3>1 DEF WireFits
  <2> QED
    BY <2>1, <2>2
<1> QED
  BY <1>3 DEF WireFits, v

LEMMA TailFits ==
  ASSUME NEW p, NEW m
  PROVE  /\ \A w \in Seq(Frames) : w # <<>> /\ WireFits(w, p, m) =>
              /\ WireFits(Tail(w), p, m)
              /\ w[1].kind = "error" \/ Fits(w[1].segment, p, m)
         /\ \A q \in Seq(Segments) : q # <<>> /\ QueueFits(q, p, m) =>
              /\ QueueFits(Tail(q), p, m)
              /\ q[1] = EndOfSegments \/ Fits(q[1], p, m)
<1>1. ASSUME NEW S, NEW q \in Seq(S), q # <<>>
      PROVE  /\ Len(Tail(q)) = Len(q) - 1 /\ Len(q) \in Nat /\ 1 \in 1..Len(q)
             /\ \A i \in 1..Len(Tail(q)) : i + 1 \in 1..Len(q) /\ Tail(q)[i] = q[i + 1]
  BY <1>1
<1> QED
  BY <1>1 DEF WireFits, QueueFits

LEMMA AppendFits ==
  ASSUME NEW q \in Seq(Segments), NEW p, NEW m, NEW s \in Segments,
         QueueFits(q, p, m), s = EndOfSegments \/ Fits(s, p, m)
  PROVE  QueueFits(Append(q, s), p, m)
<1> DEFINE r == Append(q, s)
<1>1. /\ Len(r) = Len(q) + 1 /\ Len(q) \in Nat
      /\ \A i \in 1..Len(q) : r[i] = q[i]
      /\ r[Len(q) + 1] = s
  OBVIOUS
<1> HIDE DEF r
<1>2. ASSUME NEW i \in 1..Len(r) PROVE r[i] = EndOfSegments \/ Fits(r[i], p, m)
  <2>1. CASE i = Len(q) + 1
    BY <1>1, <2>1
  <2>2. CASE i # Len(q) + 1
    <3>1. i \in 1..Len(q)
      BY <1>1, <2>2
    <3> QED
      BY <1>1, <3>1 DEF QueueFits
  <2> QED
    BY <2>1, <2>2
<1> QED
  BY <1>2 DEF QueueFits, r

LEMMA TwoFrames ==
  ASSUME NEW w \in Seq(Frames), NEW x \in Frames, NEW y \in Frames
  PROVE  w \o <<x, y>> = (w \o <<x>>) \o <<y>>
<1> DEFINE a == <<x>>
           b == <<y>>
<1>1. a \in Seq(Frames) /\ b \in Seq(Frames)
  OBVIOUS
<1>2. <<x, y>> = a \o b
  <2>1. /\ a \o b \in Seq(Frames) /\ Len(a \o b) = 2
        /\ (a \o b)[1] = x /\ (a \o b)[2] = y
    <3>1. /\ Len(a) = 1 /\ 1 \in 1..Len(a) /\ Len(a) + 1 = 2 /\ a[1] = x
      OBVIOUS
    <3>2. /\ a \o <<y>> \in Seq(Frames) /\ Len(a \o <<y>>) = Len(a) + 1
          /\ \A i \in 1..Len(a) : (a \o <<y>>)[i] = a[i]
          /\ (a \o <<y>>)[Len(a) + 1] = y
      BY <1>1, SnocProperties
    <3> HIDE DEF a
    <3> QED
      BY <3>1, <3>2
  <2>2. /\ <<x, y>> \in Seq(Frames) /\ Len(<<x, y>>) = 2
        /\ <<x, y>>[1] = x /\ <<x, y>>[2] = y
    OBVIOUS
  <2> DEFINE c == <<x, y>>
             d == a \o b
  <2>3. /\ c \in Seq(Frames) /\ d \in Seq(Frames) /\ Len(c) = Len(d)
        /\ \A i \in 1..Len(c) : c[i] = d[i]
    BY <2>1, <2>2
  <2> HIDE DEF c, d
  <2>4. c = d
    BY <2>3, SeqEqual
  <2> QED
    BY <2>4 DEF c, d
<1> HIDE DEF a, b
<1>3. w \o (a \o b) = (w \o a) \o b
  BY <1>1, ConcatAssociative
<1> QED
  BY <1>2, <1>3 DEF a, b

-----------------------------------------------------------------------------
\* The steps.  Parts that depend on little are kept by several of them.

LEMMA LinkKept ==
  ASSUME LinkInv, UNCHANGED <<link, edge, heard>>, link = "closed" => wire' = wire,
         ~Early => ~Early' /\ produced' = produced
  PROVE  LinkInv'
BY DEF LinkInv

LEMMA HeardKept ==
  ASSUME HeardInOrder, produced \in Nat, produced' \in Nat, produced <= produced',
         heard \in Seq(1..MaxWords), heard' = heard
  PROVE  HeardInOrder'
<1>1. Len(heard) \in Nat
  OBVIOUS
<1> QED
  BY <1>1 DEF HeardInOrder

LEMMA FramesAre ==
  /\ ErrorFrame \in Frames
  /\ \A s \in Segments : Announce(s) \in Frames /\ Audio(s) \in Frames
BY EndIsSegment DEF EndOfSegments, ErrorFrame, Announce, Audio, Frames

\* Types of the parts that the steps below use.
LEMMA Parts ==
  ASSUME TypeOK
  PROVE  /\ produced \in Nat /\ cut \in Nat /\ cut <= produced /\ produced <= MaxWords
         /\ queue \in Seq(Segments) /\ wire \in Seq(Frames)
         /\ heard \in Seq(1..MaxWords) /\ Len(heard) \in Nat
         /\ MaxWords \in Nat /\ tts.segment \in Segments
<1>1. heard \in Seq(1..MaxWords)
  BY DEF TypeOK
<1>2. Len(heard) \in Nat
  BY <1>1
<1> QED
  BY <1>1, <1>2, BoundAssumption DEF TypeOK, Frames

\* The session ends with an error.
LEMMA FailStep ==
  ASSUME IInv, main \in {"audio", "welcome", "stream", "drain"}, Fail
  PROVE  IInv'
<1> USE DEF IInv
<1>0. /\ UNCHANGED <<produced, cut, streamed, fallback, queue, link, edge, meta,
                     heard, recorded>>
      /\ main' \in {"failed", "escaped"}
      /\ tts' = IF tts.at \in {"get", "synth", "audio"}
                THEN [tts EXCEPT !.at = "cancelled"] ELSE tts
      /\ activity' = IF main = "welcome" THEN activity ELSE "error"
  BY DEF Fail, StopTts, answerVars, edgeVars
<1>1. \/ wire' = wire /\ link = "closed"
      \/ wire' = wire \o <<ErrorFrame>> /\ main' = "failed" /\ link = "up"
      \/ wire' = wire /\ main' = "failed"
  BY DEF Fail, Send, SendRaises, TypeOK
<1>2. tts' \in [at : {"none", "get", "synth", "audio", "returned", "raised",
                      "cancelled"}, segment : Segments]
      /\ tts'.at \notin {"get", "synth", "audio"}
  BY <1>0 DEF TypeOK
<1>3. wire' \in Seq(Frames)
  <2>1. wire \o <<ErrorFrame>> \in Seq(Frames)
    BY Parts, FramesAre, SnocProperties
  <2> QED
    BY <1>1, <2>1, Parts
<1>4. TypeOK'
  <2>1. main' \in {"audio", "welcome", "stream", "drain", "record", "done",
                   "failed", "refused", "escaped"}
        /\ activity' \in {"idle", "busy", "completed", "error"}
    BY <1>0 DEF TypeOK
  <2> QED
    BY <1>0, <1>2, <1>3, <2>1 DEF TypeOK, Frames
<1>5. ~Early'
  BY <1>0 DEF Early, Beginnings
<1>6. LinkInv'
  BY <1>0, <1>1, <1>5, LinkKept DEF LinkInv
<1>7. ControlInv' /\ QuietAfterTurn'
  BY <1>0, <1>2 DEF ControlInv, QuietAfterTurn, Over
<1>8. FitsInv'
  <2>1. WireFits(wire', produced, main)
    BY <1>1, Parts, FramesAre, SendFits DEF FitsInv, ErrorFrame
  <2>2. main' \notin Beginnings
    BY <1>0 DEF Beginnings
  <2>3. /\ QueueFits(queue, produced', main')
        /\ WireFits(wire', produced', main')
    BY <1>0, <2>1, <2>2, Parts, GrownFits DEF FitsInv
  <2> QED
    BY <1>0, <1>2, <2>3 DEF FitsInv
<1>9. QueueInv'
  BY <1>0, <1>2 DEF QueueInv
<1>10. ChainInv'
  <2>1. wire' = wire \o <<ErrorFrame>> /\ link = "up" => WireChain(wire', Len(heard), meta)
    BY Parts, FramesAre, SendChain DEF ChainInv, May
  <2>2. link' = "up" => WireChain(wire', Len(heard'), meta')
    BY <1>0, <1>1, <2>1 DEF ChainInv
  <2>3. link' = "up" => main' = "failed"
    BY <1>0, <1>1
  <2> QED
    BY <1>0, <1>2, <2>2, <2>3 DEF ChainInv
<1>11. HeardInOrder'
  BY <1>0, Parts, HeardKept
<1> QED
  BY <1>4, <1>6, <1>7, <1>8, <1>9, <1>10, <1>11

\* Nothing was said: no answer.
LEMMA EmptyAudioStep ==
  ASSUME IInv, EmptyAudio
  PROVE  IInv'
<1> USE DEF IInv
<1>0. /\ main = "audio" /\ main' = "refused"
      /\ UNCHANGED <<produced, cut, streamed, fallback, queue, tts, link, edge,
                     meta, heard, recorded, activity>>
  BY DEF EmptyAudio, answerVars, edgeVars
<1>1. \/ wire' = wire \o <<ErrorFrame>>
      \/ wire' = wire
  BY DEF EmptyAudio, Send
<1>2. link = "closed" => wire' = wire
  BY DEF EmptyAudio, Send
<1>3. wire' \in Seq(Frames)
  <2>1. wire \o <<ErrorFrame>> \in Seq(Frames)
    BY Parts, FramesAre, SnocProperties
  <2> QED
    BY <1>1, <2>1, Parts
<1>4. TypeOK'
  BY <1>0, <1>3 DEF TypeOK, Frames
<1>5. tts'.at = "none" /\ ~Early' /\ produced' = produced
  BY <1>0 DEF ControlInv, Early, Beginnings
<1>6. LinkInv'
  BY <1>0, <1>2, <1>5, LinkKept
<1>7. ControlInv' /\ QuietAfterTurn'
  BY <1>0, <1>5 DEF ControlInv, QuietAfterTurn, Over
<1>8. FitsInv'
  <2>1. WireFits(wire', produced, main)
    BY <1>1, Parts, FramesAre, SendFits DEF FitsInv, ErrorFrame
  <2>2. main' \notin Beginnings
    BY <1>0 DEF Beginnings
  <2>3. /\ QueueFits(queue, produced', main')
        /\ WireFits(wire', produced', main')
    BY <1>0, <2>1, <2>2, Parts, GrownFits DEF FitsInv
  <2> QED
    BY <1>0, <1>5, <2>3 DEF FitsInv
<1>9. QueueInv'
  BY <1>0, <1>5 DEF QueueInv
<1>10. ChainInv'
  <2>1. wire' = wire \o <<ErrorFrame>> /\ link = "up" => WireChain(wire', Len(heard), meta)
    <3>1. link = "up" => WireChain(wire, Len(heard), meta)
                         /\ MaySend(wire, Len(heard), meta, ErrorFrame)
      BY <1>0 DEF ChainInv, May
    <3> QED
      BY <3>1, Parts, FramesAre, SendChain
  <2>2. link' = "up" => WireChain(wire', Len(heard'), meta')
    BY <1>0, <1>1, <2>1 DEF ChainInv
  <2> QED
    BY <1>0, <1>5, <2>2 DEF ChainInv
<1>11. HeardInOrder'
  BY <1>0, Parts, HeardKept
<1> QED
  BY <1>4, <1>6, <1>7, <1>8, <1>9, <1>10, <1>11

\* The two tasks start.
LEMMA TranscribeStep ==
  ASSUME IInv, Transcribe
  PROVE  IInv'
<1> USE DEF IInv
<1>0. /\ main = "audio" /\ main' = "stream"
      /\ tts' = [tts EXCEPT !.at = "get"]
      /\ UNCHANGED <<produced, cut, streamed, fallback, queue, wire, link, edge,
                     meta, heard, recorded, activity>>
      /\ produced = 0 /\ cut = 0 /\ queue = <<>> /\ wire = <<>> /\ heard = <<>>
      /\ meta = "none"
  BY DEF Transcribe, answerVars, edgeVars, ControlInv
<1>1. tts'.at = "get"
      /\ tts' \in [at : {"none", "get", "synth", "audio", "returned", "raised",
                         "cancelled"}, segment : Segments]
  BY <1>0 DEF TypeOK
<1>4. TypeOK'
  BY <1>0, <1>1 DEF TypeOK
<1>6. LinkInv'
  BY <1>0 DEF LinkInv, Early, Beginnings
<1>7. ControlInv' /\ QuietAfterTurn'
  BY <1>0, <1>1 DEF ControlInv, QuietAfterTurn, Over
<1>8. FitsInv'
  BY <1>0, <1>1 DEF FitsInv, QueueFits, WireFits
<1>9. QueueInv'
  BY <1>0, <1>1 DEF QueueInv, QueueChain
<1>10. ChainInv'
  <2>1. Unsent' = 0
    BY <1>0 DEF Unsent, BeforeIn
  <2>2. Sent(wire', Len(heard'), meta', Unsent') /\ May(ErrorFrame)'
    BY <1>0, <2>1 DEF Sent, May, MaySend, First, ErrorFrame
  <2> QED
    BY <1>0, <1>1, <2>2 DEF ChainInv
<1>11. HeardInOrder'
  BY <1>0, Parts, HeardKept
<1> QED
  BY <1>4, <1>6, <1>7, <1>8, <1>9, <1>10, <1>11

\* Only the variable fallback changes.
LEMMA StreamBreaksStep ==
  ASSUME IInv, StreamBreaks
  PROVE  IInv'
<1>0. /\ fallback' = "due"
      /\ UNCHANGED <<main, produced, cut, streamed, queue, tts, wire, link,
                     edge, meta, heard, recorded, activity>>
  BY DEF StreamBreaks, edgeVars
<1>1. TypeOK'
  BY <1>0 DEF IInv, TypeOK
<1>2. LinkInv' /\ ControlInv' /\ FitsInv'
  BY <1>0 DEF IInv, LinkInv, Early, ControlInv, FitsInv
<1>3. QueueInv' /\ ChainInv'
  BY <1>0 DEF IInv, QueueInv, ChainInv, Unsent, May
<1>4. HeardInOrder' /\ QuietAfterTurn'
  BY <1>0 DEF IInv, HeardInOrder, QuietAfterTurn, Over
<1> QED
  BY <1>1, <1>2, <1>3, <1>4 DEF IInv

\* What a step keeps of the queue and the wire that changes neither the
\* other task nor the words before the queue.
LEMMA ChainKept ==
  ASSUME ChainInv, UNCHANGED <<tts, wire, link, meta, heard>>, Unsent' = Unsent,
         main' = "drain" /\ tts.at = "returned" => main = "drain" /\ cut' = cut,
         main \in {"failed", "refused"} => main' \in {"failed", "refused"}
  PROVE  ChainInv'
BY DEF ChainInv, May

\* A delta may cut a segment off the buffer.
LEMMA DeltaStep ==
  ASSUME IInv, NEW word \in {0, 1}, NEW ends \in BOOLEAN, Delta(word, ends)
  PROVE  IInv'
<1> USE DEF IInv
<1>0. /\ main = "stream" /\ produced' = produced + word /\ produced' <= MaxWords
      /\ fallback' \in {"no", "given"}
      /\ UNCHANGED <<main, tts, wire, link, edge, meta, heard, recorded, activity>>
  BY DEF Delta, edgeVars
<1>1. produced' \in Nat /\ produced <= produced' /\ cut <= produced'
  BY <1>0, Parts
<1>2. \A i \in 1..Len(queue) : queue[i] # EndOfSegments
  BY <1>0 DEF QueueInv
<1>3. QueueFits(queue, produced', main') /\ WireFits(wire, produced', main')
      /\ (tts.at \in {"synth", "audio"} => Fits(tts.segment, produced', main'))
  BY <1>0, <1>1, Parts, GrownFits DEF FitsInv, Beginnings
<1>4. /\ queue' \in Seq(Segments) /\ cut' \in 0..produced' /\ streamed' \in BOOLEAN
      /\ QueueFits(queue', produced', main')
      /\ QueueChain(queue', cut') /\ Unsent' = Unsent
      /\ \A i \in 1..Len(queue') : queue'[i] # EndOfSegments
  <2>1. CASE ends /\ cut < produced'
    <3> DEFINE s == Segment(cut + 1, produced', FALSE)
    <3>1. /\ s \in Segments /\ s.from = cut + 1 /\ s.to = produced'
          /\ Fits(s, produced', main')
      BY <1>0, <1>1, <2>1, Parts DEF Segment, Segments, Fits
    <3>2. queue' = Append(queue, s) /\ cut' = produced' /\ streamed' = TRUE
      BY <2>1 DEF Delta, Split
    <3> HIDE DEF s
    <3>3. QueueFits(queue', produced', main') /\ queue' \in Seq(Segments)
      BY <1>3, <3>1, <3>2, Parts, AppendFits
    <3>4. QueueChain(queue, cut)
      BY DEF QueueInv
    <3>5. /\ QueueChain(queue', cut')
          /\ \A i \in 1..Len(queue') : queue'[i] # EndOfSegments
          /\ BeforeIn(queue', cut', 1) = BeforeIn(queue, cut, 1)
      BY <1>2, <3>1, <3>2, <3>4, Parts, QueueSegment
    <3> QED
      BY <1>1, <3>2, <3>3, <3>5 DEF Unsent
  <2>2. CASE ~(ends /\ cut < produced')
    <3>1. UNCHANGED <<queue, cut, streamed>>
      BY <2>2 DEF Delta, Split
    <3> QED
      BY <1>1, <1>2, <1>3, <3>1, Parts DEF TypeOK, QueueInv, Unsent
  <2> QED
    BY <2>1, <2>2
<1>5. TypeOK'
  <2>1. produced' \in 0..MaxWords
    BY <1>0, <1>1
  <2> QED
    BY <1>0, <1>4, <2>1 DEF TypeOK
<1>6. LinkInv'
  BY <1>0, LinkKept DEF Early, Beginnings
<1>7. ControlInv' /\ QuietAfterTurn'
  BY <1>0 DEF ControlInv, QuietAfterTurn, Over
<1>8. FitsInv'
  BY <1>0, <1>3, <1>4 DEF FitsInv
<1>9. QueueInv'
  BY <1>0, <1>4 DEF QueueInv
<1>10. ChainInv'
  BY <1>0, <1>4, ChainKept
<1>11. HeardInOrder'
  BY <1>0, <1>1, Parts, HeardKept
<1> QED
  BY <1>5, <1>6, <1>7, <1>8, <1>9, <1>10, <1>11

\* What is left in the buffer is the last segment, and the queue ends.
LEMMA StreamEndsStep ==
  ASSUME IInv, StreamEnds
  PROVE  IInv'
<1> USE DEF IInv
<1>0. /\ main = "stream" /\ main' = "drain" /\ produced > 0 /\ cut' = produced
      /\ UNCHANGED <<produced, streamed, fallback, tts, wire, link, edge, meta,
                     heard, recorded, activity>>
      /\ queue' = queue \o
           (IF cut < produced THEN <<Segment(cut + 1, produced, RestFinal)>>
                              ELSE <<>>) \o <<EndOfSegments>>
  BY DEF StreamEnds, edgeVars
<1>1. \A i \in 1..Len(queue) : queue[i] # EndOfSegments
  BY <1>0 DEF QueueInv
<1>2. QueueFits(queue, produced, main') /\ WireFits(wire, produced, main')
      /\ (tts.at \in {"synth", "audio"} => Fits(tts.segment, produced, main'))
  BY <1>0, Parts, GrownFits DEF FitsInv, Beginnings
<1>3. PICK q \in Seq(Segments) :
        /\ queue' = Append(q, EndOfSegments)
        /\ QueueFits(q, produced, main')
        /\ QueueChain(q, produced) /\ BeforeIn(q, produced, 1) = Unsent
        /\ \A i \in 1..Len(q) : q[i] # EndOfSegments
  <2>0. QueueChain(queue, cut)
    BY DEF QueueInv
  <2>1. CASE cut < produced
    <3> DEFINE s == Segment(cut + 1, produced, RestFinal)
               q == Append(queue, s)
    <3>1. RestFinal \in BOOLEAN
      BY DEF RestFinal
    <3>2. /\ s \in Segments /\ s.from = cut + 1 /\ s.to = produced
          /\ Fits(s, produced, main')
      BY <1>0, <2>1, <3>1, Parts DEF Segment, Segments, Fits, Beginnings
    <3>3. queue' = queue \o <<s>> \o <<EndOfSegments>>
      BY <1>0, <2>1
    <3> HIDE DEF s
    <3>4. queue \o <<s>> = q
      BY <3>2, Parts
    <3>5. q \in Seq(Segments)
      BY <3>2, Parts
    <3>6. /\ QueueChain(q, produced)
          /\ BeforeIn(q, produced, 1) = Unsent
          /\ \A i \in 1..Len(q) : q[i] # EndOfSegments
      BY <1>1, <2>0, <3>2, Parts, QueueSegment DEF Unsent
    <3>7. QueueFits(q, produced, main')
      BY <1>2, <3>2, Parts, AppendFits
    <3> HIDE DEF q
    <3>8. queue' = Append(q, EndOfSegments)
      BY <3>3, <3>4, <3>5, EndIsSegment
    <3> QED
      BY <3>5, <3>6, <3>7, <3>8
  <2>2. CASE ~(cut < produced)
    <3>1. cut = produced
      BY <2>2, Parts
    <3>2. queue' = queue \o <<>> \o <<EndOfSegments>>
      BY <1>0, <2>2
    <3>3. queue \o <<>> = queue
      BY Parts, ConcatEmptySeq
    <3>4. queue' = Append(queue, EndOfSegments)
      BY <3>2, <3>3, EndIsSegment, Parts
    <3> QED
      BY <1>1, <1>2, <2>0, <3>1, <3>4, Parts DEF Unsent
  <2> QED
    BY <2>1, <2>2
<1>4. queue' \in Seq(Segments)
  BY <1>3, EndIsSegment
<1>5. TypeOK'
  <2>1. cut' \in 0..produced
    BY <1>0, Parts
  <2> QED
    BY <1>0, <1>4, <2>1 DEF TypeOK
<1>6. LinkInv'
  BY <1>0, LinkKept DEF Early, Beginnings, LinkInv
<1>7. ControlInv' /\ QuietAfterTurn'
  BY <1>0 DEF ControlInv, QuietAfterTurn, Over
<1>8. FitsInv'
  <2>1. QueueFits(queue', produced, main')
    BY <1>3, EndIsSegment, AppendFits
  <2> QED
    BY <1>0, <1>2, <2>1 DEF FitsInv
<1>9. QueueChain(queue', cut') /\ Unsent' = Unsent
  <2>1. /\ QueueChain(queue', produced)
        /\ BeforeIn(queue', produced, 1) = BeforeIn(q, produced, 1)
    BY <1>3, Parts, QueueEnd
  <2> QED
    BY <1>0, <1>3, <2>1 DEF Unsent
<1>10. QueueInv'
  BY <1>0, <1>9 DEF QueueInv
<1>11. ChainInv'
  BY <1>0, <1>9, ChainKept DEF ControlInv
<1>12. HeardInOrder'
  BY <1>0, Parts, HeardKept
<1> QED
  BY <1>5, <1>6, <1>7, <1>8, <1>10, <1>11, <1>12

\* A frame that is announced or sent in its place, in a session whose other
\* parts do not change: the wire after it.
LEMMA SendOne ==
  ASSUME TypeOK, FitsInv, ChainInv, NEW y \in Frames,
         y.kind = "error" \/ Fits(y.segment, produced, main),
         link = "up" => May(y), Send(<<y>>)
  PROVE  /\ wire' \in Seq(Frames) /\ WireFits(wire', produced, main)
         /\ link = "closed" => wire' = wire
         /\ link = "up" =>
              /\ WireChain(wire', Len(heard), meta)
              /\ wire' # <<>> /\ wire'[Len(wire')] = y
<1>1. wire \o <<y>> \in Seq(Frames)
  BY Parts, SnocProperties
<1>2. WireFits(wire, produced, main)
  BY DEF FitsInv
<1>3. WireFits(wire \o <<y>>, produced, main)
  BY <1>2, Parts, SendFits
<1>4. link \in {"up", "closed"}
  BY DEF TypeOK
<1>5. CASE link = "up"
  <2>1. WireChain(wire, Len(heard), meta) /\ MaySend(wire, Len(heard), meta, y)
    BY <1>5 DEF ChainInv, May
  <2>2. /\ WireChain(wire \o <<y>>, Len(heard), meta)
        /\ wire \o <<y>> # <<>>
        /\ (wire \o <<y>>)[Len(wire \o <<y>>)] = y
    BY <2>1, Parts, SendChain
  <2>3. wire' = wire \o <<y>>
    BY <1>5 DEF Send
  <2> QED
    BY <1>1, <1>3, <1>5, <2>2, <2>3
<1>6. CASE link # "up"
  BY <1>2, <1>6, Parts DEF Send
<1> QED
  BY <1>5, <1>6

\* The silent final marker.
LEMMA SendMarkerStep ==
  ASSUME IInv, SendMarker
  PROVE  IInv'
<1> USE DEF IInv
<1> DEFINE s == Segment(produced + 1, produced, TRUE)
           a == Announce(s)
           b == Audio(s)
           v == wire \o <<a>>
<1>0. /\ main = "drain" /\ tts.at = "returned" /\ main' = "record"
      /\ UNCHANGED <<produced, cut, streamed, fallback, queue, tts, link, edge,
                     meta, heard, recorded, activity>>
      /\ wire' = IF link = "up" THEN wire \o <<a, b>> ELSE wire
      /\ cut = produced /\ produced > 0
  BY DEF SendMarker, SpeechSent, Send, answerVars, edgeVars, ControlInv
<1>1. /\ s \in Segments /\ s.from = produced + 1 /\ s.to = produced
      /\ s.from - 1 = produced /\ Fits(s, produced, main)
  BY <1>0, Parts DEF Segment, Segments, Fits, Beginnings
<1>2. /\ a \in Frames /\ b \in Frames /\ a.segment = s /\ b.segment = s
      /\ a.kind = "tts" /\ b.kind = "audio" /\ b = Audio(a.segment)
  BY <1>1, FramesAre DEF Announce, Audio
<1> HIDE DEF s, a, b
<1>3. wire \o <<a, b>> = v \o <<b>>
  BY <1>2, Parts, TwoFrames
<1>4. /\ v \in Seq(Frames) /\ WireFits(v, produced, main)
      /\ v \o <<b>> \in Seq(Frames) /\ WireFits(v \o <<b>>, produced, main)
  <2>1. v \in Seq(Frames) /\ WireFits(v, produced, main)
    BY <1>1, <1>2, Parts, SnocProperties, SendFits DEF FitsInv
  <2> HIDE DEF v
  <2> QED
    BY <1>1, <1>2, <2>1, SnocProperties, SendFits
<1>5. ASSUME link = "up"
      PROVE  WireChain(v \o <<b>>, Len(heard), meta)
             /\ MaySend(v \o <<b>>, Len(heard), meta, ErrorFrame)
  <2>1. /\ WireChain(wire, Len(heard), meta)
        /\ Sent(wire, Len(heard), meta, s.from - 1)
    BY <1>0, <1>1, <1>5 DEF ChainInv
  <2>2. MaySend(wire, Len(heard), meta, Announce(s))
    BY <1>1, <2>1, Parts, SentMay
  <2>3. MaySend(wire, Len(heard), meta, a)
    BY <2>2 DEF a
  <2>4. /\ WireChain(v, Len(heard), meta) /\ v # <<>> /\ v[Len(v)] = a
    BY <1>2, <2>1, <2>3, Parts, SendChain
  <2> HIDE DEF v
  <2>5. MaySend(v, Len(heard), meta, b)
    BY <1>2, <2>4 DEF MaySend, Follows
  <2>6. /\ WireChain(v \o <<b>>, Len(heard), meta)
        /\ v \o <<b>> # <<>> /\ (v \o <<b>>)[Len(v \o <<b>>)] = b
    BY <1>2, <1>4, <2>4, <2>5, Parts, SendChain
  <2> QED
    BY <1>2, <2>6 DEF MaySend, Follows, ErrorFrame
<1> HIDE DEF v
<1>6. wire' \in Seq(Frames) /\ WireFits(wire', produced, main)
  BY <1>0, <1>3, <1>4, Parts DEF FitsInv
<1>7. TypeOK'
  BY <1>0, <1>6 DEF TypeOK, Frames
<1>8. LinkInv'
  BY <1>0, LinkKept DEF Early, Beginnings, LinkInv
<1>9. ControlInv' /\ QuietAfterTurn'
  BY <1>0 DEF ControlInv, QuietAfterTurn, Over
<1>10. FitsInv'
  <2>1. /\ QueueFits(queue, produced', main')
        /\ WireFits(wire', produced', main')
    BY <1>0, <1>6, Parts, GrownFits DEF FitsInv, Beginnings
  <2> QED
    BY <1>0, <2>1 DEF FitsInv
<1>11. QueueInv'
  BY <1>0 DEF QueueInv, Unsent
<1>12. ChainInv'
  BY <1>0, <1>3, <1>5 DEF ChainInv, May
<1>13. HeardInOrder'
  BY <1>0, Parts, HeardKept
<1> QED
  BY <1>7, <1>8, <1>9, <1>10, <1>11, <1>12, <1>13

\* The turn is recorded and the session ends, in order or not.
LEMMA FinishStep ==
  ASSUME IInv, Finish
  PROVE  IInv'
<1> USE DEF IInv
<1>0. /\ main \in {"record", "drain"} /\ tts.at = "returned"
      /\ main' \in {"done", "failed", "escaped"} /\ recorded' = TRUE
      /\ activity' \in {"completed", "error"}
      /\ main' # "done" => link = "closed"
      /\ UNCHANGED <<produced, cut, streamed, fallback, queue, tts, wire, link,
                     edge, meta, heard>>
  BY DEF Finish, SpeechSent, SendRaises, answerVars, edgeVars, ControlInv
<1>1. TypeOK'
  BY <1>0 DEF TypeOK
<1>2. LinkInv'
  BY <1>0, LinkKept DEF Early, Beginnings, LinkInv
<1>3. ControlInv' /\ QuietAfterTurn'
  BY <1>0 DEF ControlInv, QuietAfterTurn, Over
<1>4. FitsInv'
  <2>1. /\ QueueFits(queue, produced', main')
        /\ WireFits(wire, produced', main')
    BY <1>0, Parts, GrownFits DEF FitsInv, Beginnings
  <2> QED
    BY <1>0, <2>1 DEF FitsInv
<1>5. QueueInv' /\ Unsent' = Unsent
  BY <1>0 DEF QueueInv, Unsent
<1>6. ChainInv'
  BY <1>0, <1>5, ChainKept
<1>7. HeardInOrder'
  BY <1>0, Parts, HeardKept
<1> QED
  BY <1>1, <1>2, <1>3, <1>4, <1>5, <1>6, <1>7

\* A welcome: one word and one final segment.
LEMMA WelcomeStep ==
  ASSUME IInv, Welcome
  PROVE  IInv'
<1> USE DEF IInv
<1> DEFINE s == Segment(1, 1, TRUE)
           a == Announce(s)
           b == Audio(s)
           v == wire \o <<a>>
<1>0. /\ main = "welcome" /\ main' = "done" /\ produced' = 1 /\ cut' = 1
      /\ UNCHANGED <<streamed, fallback, queue, tts, link, edge, meta, heard,
                     recorded, activity>>
      /\ wire' = IF link = "up" THEN wire \o <<a, b>> ELSE wire
  BY DEF Welcome, Send, edgeVars
<1>1. /\ produced = 0 /\ cut = 0 /\ queue = <<>> /\ wire = <<>> /\ heard = <<>>
      /\ meta = "none" /\ tts.at = "none" /\ activity = "idle" /\ Len(heard) = 0
  BY <1>0 DEF ControlInv
<1>2. /\ s \in Segments /\ s.from = 1 /\ s.from - 1 = 0
      /\ Fits(s, produced', main')
  BY <1>0, Parts, BoundAssumption DEF Segment, Segments, Fits, Beginnings
<1>3. /\ a \in Frames /\ b \in Frames /\ a.segment = s /\ b.segment = s
      /\ a.kind = "tts" /\ b.kind = "audio" /\ b = Audio(a.segment)
  BY <1>2, FramesAre DEF Announce, Audio
<1> HIDE DEF s, a, b
<1>4. wire \o <<a, b>> = v \o <<b>>
  BY <1>3, Parts, TwoFrames
<1>5. WireFits(wire, produced', main')
  BY <1>1 DEF WireFits
<1>6. /\ v \in Seq(Frames) /\ WireFits(v, produced', main')
      /\ v \o <<b>> \in Seq(Frames) /\ WireFits(v \o <<b>>, produced', main')
  <2>1. v \in Seq(Frames) /\ WireFits(v, produced', main')
    BY <1>2, <1>3, <1>5, Parts, SnocProperties, SendFits
  <2> HIDE DEF v
  <2> QED
    BY <1>2, <1>3, <2>1, SnocProperties, SendFits
<1>7. WireChain(v \o <<b>>, 0, "none") /\ MaySend(v \o <<b>>, 0, "none", ErrorFrame)
  <2>1. WireChain(wire, 0, "none") /\ MaySend(wire, 0, "none", a)
    BY <1>1, <1>2, <1>3 DEF WireChain, MaySend, First
  <2>2. /\ WireChain(v, 0, "none") /\ v # <<>> /\ v[Len(v)] = a
    BY <1>3, <2>1, Parts, SendChain
  <2> HIDE DEF v
  <2>3. MaySend(v, 0, "none", b)
    BY <1>3, <2>2 DEF MaySend, Follows
  <2>4. /\ WireChain(v \o <<b>>, 0, "none")
        /\ v \o <<b>> # <<>> /\ (v \o <<b>>)[Len(v \o <<b>>)] = b
    BY <1>3, <1>6, <2>2, <2>3, SendChain
  <2> QED
    BY <1>3, <2>4 DEF MaySend, Follows, ErrorFrame
<1> HIDE DEF v
<1>8. wire' \in Seq(Frames) /\ WireFits(wire', produced', main')
  BY <1>0, <1>4, <1>5, <1>6, Parts
<1>9. TypeOK'
  BY <1>0, <1>8, BoundAssumption DEF TypeOK, Frames
<1>10. LinkInv'
  BY <1>0, <1>1 DEF Early, Beginnings, LinkInv
<1>11. ControlInv' /\ QuietAfterTurn'
  BY <1>0, <1>1 DEF ControlInv, QuietAfterTurn, Over
<1>12. FitsInv'
  BY <1>0, <1>1, <1>8 DEF FitsInv, QueueFits
<1>13. QueueInv'
  BY <1>0, <1>1 DEF QueueInv, QueueChain
<1>14. ChainInv'
  BY <1>0, <1>1, <1>4, <1>7 DEF ChainInv, May
<1>15. HeardInOrder'
  <2>1. 1 \in Nat /\ produced <= 1
    BY <1>1
  <2> QED
    BY <1>0, <2>1, Parts, HeardKept
<1> QED
  BY <1>9, <1>10, <1>11, <1>12, <1>13, <1>14, <1>15

\* The other task takes what is queued: a segment, or the end.
LEMMA TakeSegmentStep ==
  ASSUME IInv, TakeSegment
  PROVE  IInv'
<1> USE DEF IInv
<1>0. /\ tts.at = "get" /\ queue # <<>> /\ queue' = Tail(queue)
      /\ UNCHANGED <<main, produced, cut, streamed, fallback, wire, link, edge,
                     meta, heard, recorded>>
      /\ Head(queue) = queue[1]
      /\ main \in {"stream", "drain"}
  BY DEF TakeSegment, SpeechOnly, answerVars, edgeVars, ControlInv,
         QuietAfterTurn, Over, TypeOK
<1>1. queue' \in Seq(Segments) /\ queue[1] \in Segments
      /\ QueueFits(queue', produced, main)
      /\ (queue[1] = EndOfSegments \/ Fits(queue[1], produced, main))
  <2>1. QueueFits(queue, produced, main) /\ queue \in Seq(Segments)
    BY Parts DEF FitsInv
  <2>2. queue[1] \in Segments /\ Tail(queue) \in Seq(Segments)
    BY <1>0, <2>1
  <2> QED
    BY <1>0, <2>1, <2>2, TailFits
<1>2. /\ QueueChain(queue', cut)
      /\ queue[1] = EndOfSegments => Unsent' = cut /\ Unsent = cut
      /\ queue[1] # EndOfSegments =>
           queue[1].to = Unsent' /\ Unsent = queue[1].from - 1
  <2>1. QueueChain(queue, cut)
    BY DEF QueueInv
  <2>2. /\ QueueChain(Tail(queue), cut)
        /\ queue[1] = EndOfSegments => BeforeIn(Tail(queue), cut, 1) = cut
                                       /\ BeforeIn(queue, cut, 1) = cut
        /\ queue[1] # EndOfSegments =>
             /\ queue[1].to = BeforeIn(Tail(queue), cut, 1)
             /\ BeforeIn(queue, cut, 1) = queue[1].from - 1
    BY <1>0, <2>1, Parts, QueueTail
  <2> QED
    BY <1>0, <2>2 DEF Unsent
<1>3. main = "stream" =>
        /\ queue[1] # EndOfSegments
        /\ \A i \in 1..Len(queue') : queue'[i] # EndOfSegments
  <2> SUFFICES ASSUME main = "stream"
               PROVE  /\ queue[1] # EndOfSegments
                      /\ \A i \in 1..Len(queue') : queue'[i] # EndOfSegments
    OBVIOUS
  <2>1. \A i \in 1..Len(queue) : queue[i] # EndOfSegments
    BY DEF QueueInv
  <2>2. /\ 1 \in 1..Len(queue)
        /\ \A i \in 1..Len(queue') : i + 1 \in 1..Len(queue) /\ queue'[i] = queue[i + 1]
    BY <1>0, Parts
  <2> QED
    BY <2>1, <2>2
<1>4. LinkInv' /\ HeardInOrder'
  BY <1>0, Parts, LinkKept, HeardKept DEF Early
<1>5. link = "up" => Sent(wire, Len(heard), meta, Unsent)
                     /\ WireChain(wire, Len(heard), meta) /\ May(ErrorFrame)
  BY <1>0 DEF ChainInv
<1>6. May(ErrorFrame)' <=> May(ErrorFrame)
  BY <1>0 DEF May
<1>7. CASE queue[1] = EndOfSegments
  <2>1. /\ tts' = [tts EXCEPT !.at = "returned"] /\ activity' = activity
        /\ main = "drain"
    BY <1>0, <1>3, <1>7 DEF TakeSegment
  <2>2. tts' \in [at : {"none", "get", "synth", "audio", "returned", "raised",
                        "cancelled"}, segment : Segments]
        /\ tts'.at = "returned"
    BY <2>1 DEF TypeOK
  <2>3. TypeOK'
    BY <1>0, <1>1, <2>1, <2>2 DEF TypeOK
  <2>4. ControlInv' /\ QuietAfterTurn'
    BY <1>0, <2>1, <2>2 DEF ControlInv, QuietAfterTurn, Over
  <2>5. FitsInv'
    BY <1>0, <1>1, <2>2 DEF FitsInv
  <2>6. QueueInv'
    BY <1>0, <1>2, <2>1, <2>2 DEF QueueInv
  <2>7. ChainInv'
    BY <1>0, <1>2, <1>5, <1>6, <1>7, <2>2 DEF ChainInv
  <2> QED
    BY <1>4, <2>3, <2>4, <2>5, <2>6, <2>7
<1>8. CASE queue[1] # EndOfSegments
  <2>1. /\ tts' = [at |-> "synth", segment |-> queue[1]] /\ activity' = "busy"
    BY <1>0, <1>8 DEF TakeSegment
  <2>2. tts' \in [at : {"none", "get", "synth", "audio", "returned", "raised",
                        "cancelled"}, segment : Segments]
        /\ tts'.at = "synth" /\ tts'.segment = queue[1]
    BY <1>1, <2>1
  <2>3. TypeOK'
    BY <1>0, <1>1, <2>1, <2>2 DEF TypeOK
  <2>4. ControlInv' /\ QuietAfterTurn'
    BY <1>0, <2>1, <2>2 DEF ControlInv, QuietAfterTurn, Over
  <2>5. FitsInv'
    BY <1>0, <1>1, <1>8, <2>2 DEF FitsInv
  <2>6. QueueInv'
    BY <1>0, <1>2, <1>3, <1>8, <2>2 DEF QueueInv
  <2>7. link = "up" => May(Announce(tts.segment))'
    <3>1. link = "up" => Sent(wire, Len(heard), meta, queue[1].from - 1)
      BY <1>2, <1>5, <1>8
    <3>2. link = "up" => MaySend(wire, Len(heard), meta, Announce(queue[1]))
      BY <1>1, <3>1, Parts, SentMay
    <3> QED
      BY <1>0, <2>2, <3>2 DEF May
  <2>8. ChainInv'
    BY <1>0, <1>5, <1>6, <2>2, <2>7 DEF ChainInv
  <2> QED
    BY <1>4, <2>3, <2>4, <2>5, <2>6, <2>8
<1> QED
  BY <1>7, <1>8

\* A segment is announced.
LEMMA AnnounceAudioStep ==
  ASSUME IInv, AnnounceAudio
  PROVE  IInv'
<1> USE DEF IInv
<1> DEFINE a == Announce(tts.segment)
<1>0. /\ tts.at = "synth" /\ tts' = [tts EXCEPT !.at = "audio"] /\ Send(<<a>>)
      /\ UNCHANGED <<main, produced, cut, streamed, fallback, queue, link, edge,
                     meta, heard, recorded, activity>>
      /\ main \in {"stream", "drain"}
  BY DEF AnnounceAudio, SpeechOnly, answerVars, edgeVars, ControlInv,
         QuietAfterTurn, Over, TypeOK
<1>1. tts' \in [at : {"none", "get", "synth", "audio", "returned", "raised",
                      "cancelled"}, segment : Segments]
      /\ tts'.at = "audio" /\ tts'.segment = tts.segment
  BY <1>0 DEF TypeOK
<1>2. /\ a \in Frames /\ a.kind = "tts" /\ a.segment = tts.segment
      /\ Fits(tts.segment, produced, main)
  BY <1>0, Parts, FramesAre DEF Announce, FitsInv
<1>3. link = "up" => May(a)
  BY <1>0 DEF ChainInv
<1> HIDE DEF a
<1>4. /\ wire' \in Seq(Frames) /\ WireFits(wire', produced, main)
      /\ link = "closed" => wire' = wire
      /\ link = "up" =>
           /\ WireChain(wire', Len(heard), meta)
           /\ wire' # <<>> /\ wire'[Len(wire')] = a
  BY <1>0, <1>2, <1>3, SendOne
<1>5. TypeOK'
  BY <1>0, <1>1, <1>4 DEF TypeOK, Frames
<1>6. LinkInv' /\ HeardInOrder'
  BY <1>0, <1>4, Parts, LinkKept, HeardKept DEF Early
<1>7. ControlInv' /\ QuietAfterTurn'
  BY <1>0, <1>1 DEF ControlInv, QuietAfterTurn, Over
<1>8. FitsInv'
  BY <1>0, <1>1, <1>2, <1>4 DEF FitsInv
<1>9. QueueInv'
  BY <1>0, <1>1 DEF QueueInv, Unsent
<1>10. ChainInv'
  <2>1. link = "up" => May(Audio(tts.segment))' /\ May(ErrorFrame)'
    BY <1>0, <1>1, <1>2, <1>4 DEF May, MaySend, Follows, ErrorFrame
  <2> QED
    BY <1>0, <1>1, <1>4, <2>1 DEF ChainInv
<1> QED
  BY <1>5, <1>6, <1>7, <1>8, <1>9, <1>10

\* Its audio is sent.
LEMMA SendAudioStep ==
  ASSUME IInv, SendAudio
  PROVE  IInv'
<1> USE DEF IInv
<1> DEFINE b == Audio(tts.segment)
<1>0. /\ tts.at = "audio" /\ tts' = [tts EXCEPT !.at = "get"] /\ Send(<<b>>)
      /\ UNCHANGED <<main, produced, cut, streamed, fallback, queue, link, edge,
                     meta, heard, recorded, activity>>
      /\ main \in {"stream", "drain"}
  BY DEF SendAudio, SpeechOnly, answerVars, edgeVars, ControlInv,
         QuietAfterTurn, Over, TypeOK
<1>1. tts' \in [at : {"none", "get", "synth", "audio", "returned", "raised",
                      "cancelled"}, segment : Segments]
      /\ tts'.at = "get"
  BY <1>0 DEF TypeOK
<1>2. /\ b \in Frames /\ b.kind = "audio" /\ b.segment = tts.segment
      /\ Fits(tts.segment, produced, main) /\ tts.segment.to = Unsent
  BY <1>0, Parts, FramesAre DEF Audio, FitsInv, QueueInv
<1>3. link = "up" => May(b)
  BY <1>0 DEF ChainInv
<1> HIDE DEF b
<1>4. /\ wire' \in Seq(Frames) /\ WireFits(wire', produced, main)
      /\ link = "closed" => wire' = wire
      /\ link = "up" =>
           /\ WireChain(wire', Len(heard), meta)
           /\ wire' # <<>> /\ wire'[Len(wire')] = b
  BY <1>0, <1>2, <1>3, SendOne
<1>5. TypeOK'
  BY <1>0, <1>1, <1>4 DEF TypeOK, Frames
<1>6. LinkInv' /\ HeardInOrder'
  BY <1>0, <1>4, Parts, LinkKept, HeardKept DEF Early
<1>7. ControlInv' /\ QuietAfterTurn'
  BY <1>0, <1>1 DEF ControlInv, QuietAfterTurn, Over
<1>8. FitsInv'
  BY <1>0, <1>1, <1>4 DEF FitsInv
<1>9. QueueInv' /\ Unsent' = Unsent
  BY <1>0, <1>1 DEF QueueInv, Unsent
<1>10. ChainInv'
  <2>1. link = "up" => Sent(wire', Len(heard'), meta', Unsent') /\ May(ErrorFrame)'
    BY <1>0, <1>2, <1>4, <1>9 DEF May, MaySend, Follows, ErrorFrame, Sent
  <2> QED
    BY <1>0, <1>1, <1>4, <2>1 DEF ChainInv
<1> QED
  BY <1>5, <1>6, <1>7, <1>8, <1>9, <1>10

\* The other task ends with an exception.
LEMMA SpeechRaisesStep ==
  ASSUME IInv, SpeechRaises
  PROVE  IInv'
<1> USE DEF IInv
<1>0. /\ tts.at \in {"synth", "audio"} /\ tts' = [tts EXCEPT !.at = "raised"]
      /\ UNCHANGED <<main, produced, cut, streamed, fallback, queue, wire, link,
                     edge, meta, heard, recorded, activity>>
      /\ main \in {"stream", "drain"}
  BY DEF SpeechRaises, SpeechOnly, answerVars, edgeVars, ControlInv,
         QuietAfterTurn, Over, TypeOK
<1>1. tts' \in [at : {"none", "get", "synth", "audio", "returned", "raised",
                      "cancelled"}, segment : Segments]
      /\ tts'.at = "raised"
  BY <1>0 DEF TypeOK
<1>2. TypeOK'
  BY <1>0, <1>1 DEF TypeOK
<1>3. LinkInv' /\ HeardInOrder'
  BY <1>0, Parts, LinkKept, HeardKept DEF Early
<1>4. ControlInv' /\ QuietAfterTurn'
  BY <1>0, <1>1 DEF ControlInv, QuietAfterTurn, Over
<1>5. FitsInv' /\ QueueInv' /\ ChainInv'
  BY <1>0, <1>1 DEF FitsInv, QueueInv, Unsent, ChainInv, May
<1> QED
  BY <1>2, <1>3, <1>4, <1>5

\* The words of the audio that the edge takes continue what it has heard.
LEMMA HearWords ==
  ASSUME TypeOK, HeardInOrder, NEW s, Fits(s, produced, main),
         s.from = Len(heard) + 1
  PROVE  /\ heard \o Words(s) \in Seq(1..MaxWords)
         /\ Len(heard \o Words(s)) = s.to
         /\ heard \o Words(s) = [k \in 1..s.to |-> k]
         /\ s.to \in Nat /\ s.to <= produced
<1>1. /\ s.from \in Nat /\ s.to \in Nat /\ s.from >= 1 /\ s.from <= s.to + 1
      /\ s.to <= produced /\ produced <= MaxWords /\ MaxWords \in Nat
      /\ produced \in Nat /\ heard \in Seq(1..MaxWords) /\ Len(heard) \in Nat
  BY Parts DEF Fits, Segments
<1> DEFINE n == Len(heard)
           u == Words(s)
           v == heard \o u
           c == [k \in 1..s.to |-> k]
<1>2. /\ u \in Seq(1..MaxWords) /\ Len(u) = s.to - n
      /\ \A k \in 1..Len(u) : u[k] = n + k
  <2>1. u = [k \in 1..(s.to - n) |-> n + k]
    <3>1. s.to + 1 - s.from = s.to - n
      BY <1>1
    <3>2. \A k \in 1..(s.to - n) : s.from + k - 1 = n + k
      BY <1>1
    <3> QED
      BY <3>1, <3>2 DEF Words
  <2>2. \A k \in 1..(s.to - n) : n + k \in 1..MaxWords
    BY <1>1
  <2> HIDE DEF u
  <2>3. s.to - n \in Nat
    BY <1>1
  <2> QED
    BY <2>1, <2>2, <2>3
<1>3. \A k \in 1..n : heard[k] = k
  BY <1>1 DEF HeardInOrder
<1> HIDE DEF u
<1>4. /\ v \in Seq(1..MaxWords) /\ Len(v) = Len(heard) + Len(u)
      /\ \A k \in 1 .. Len(heard) + Len(u) :
           v[k] = IF k <= Len(heard) THEN heard[k] ELSE u[k - Len(heard)]
  BY ONLY <1>1, <1>2, ConcatProperties, Zenon
<1> HIDE DEF v
<1>5. Len(v) = s.to /\ Len(heard) + Len(u) = s.to
  <2>1. Len(v) = Len(heard) + Len(u) /\ Len(u) = s.to - Len(heard)
    BY <1>2, <1>4
  <2>2. Len(heard) \in Nat /\ s.to \in Nat
    BY <1>1
  <2> QED
    BY ONLY <2>1, <2>2
<1>6. \A k \in 1..s.to : v[k] = k
  <2> TAKE k \in 1..s.to
  <2>1. v[k] = IF k <= Len(heard) THEN heard[k] ELSE u[k - Len(heard)]
    BY <1>4, <1>5
  <2>2. CASE k <= n
    BY <1>1, <1>3, <2>1, <2>2
  <2>3. CASE ~(k <= n)
    <3>1. k - n \in 1..Len(u) /\ n + (k - n) = k
      BY <1>1, <1>2, <2>3
    <3> QED
      BY <1>2, <2>1, <2>3, <3>1
  <2> QED
    BY <2>2, <2>3
<1>7. v = c
  <2>1. \A k \in 1..s.to : k \in 1..MaxWords
    BY <1>1
  <2>2. c \in Seq(1..MaxWords) /\ Len(c) = s.to /\ \A k \in 1..s.to : c[k] = k
    BY <1>1, <2>1
  <2> HIDE DEF c
  <2> QED
    BY <1>4, <1>5, <1>6, <2>2, SeqEqual
<1> QED
  BY <1>1, <1>4, <1>5, <1>7 DEF v, u

\* The connection is closed, by the edge or by a fault.
LEMMA ClosedStep ==
  ASSUME IInv, EdgeOnly, edge = "open", link' = "closed", wire' = <<>>,
         UNCHANGED <<meta, heard>>, edge' = "failed"
  PROVE  IInv'
<1> USE DEF IInv
<1>0. UNCHANGED <<main, produced, cut, streamed, fallback, queue, tts, recorded,
                  activity>>
  BY DEF EdgeOnly, answerVars
<1>1. TypeOK'
  <2>1. wire' \in Seq([kind : {"tts", "audio", "error"}, segment : Segments])
    OBVIOUS
  <2> QED
    BY <1>0, <2>1 DEF TypeOK
<1>2. LinkInv' /\ HeardInOrder'
  BY <1>0 DEF LinkInv, HeardInOrder
<1>3. ControlInv' /\ QuietAfterTurn'
  BY <1>0 DEF ControlInv, QuietAfterTurn, Over
<1>4. FitsInv'
  BY <1>0 DEF FitsInv, WireFits
<1>5. QueueInv' /\ ChainInv'
  BY <1>0 DEF QueueInv, Unsent, ChainInv
<1> QED
  BY <1>1, <1>2, <1>3, <1>4, <1>5

\* The wire moves on by a frame that is no error.
LEMMA MoveOn ==
  ASSUME IInv, EdgeOnly, edge = "open", wire # <<>>, wire' = Tail(wire),
         UNCHANGED <<link, edge>>, heard' \in Seq(1..MaxWords), HeardInOrder',
         meta' \in {"none", "more", "final"},
         \/ wire[1].kind = "tts" /\ Len(heard') = Len(heard)
              /\ meta' = Mark(wire[1].segment)
         \/ wire[1].kind = "audio" /\ Len(heard') = wire[1].segment.to
              /\ meta' = "none"
  PROVE  IInv'
<1> USE DEF IInv
<1>0. /\ UNCHANGED <<main, produced, cut, streamed, fallback, queue, tts,
                     recorded, activity>>
      /\ link = "up"
  BY DEF EdgeOnly, answerVars, LinkInv
<1>1. wire' \in Seq(Frames) /\ WireFits(wire', produced, main)
  BY Parts, TailFits DEF FitsInv
<1>2. TypeOK'
  BY <1>0, <1>1 DEF TypeOK, Frames
<1>3. LinkInv'
  BY <1>0 DEF LinkInv
<1>4. ControlInv' /\ QuietAfterTurn'
  BY <1>0 DEF ControlInv, QuietAfterTurn, Over
<1>5. FitsInv'
  BY <1>0, <1>1 DEF FitsInv
<1>6. QueueInv' /\ Unsent' = Unsent
  BY <1>0 DEF QueueInv, Unsent
<1>7. ChainInv'
  <2>1. WireChain(wire, Len(heard), meta)
    BY <1>0 DEF ChainInv
  <2>2. Len(heard') \in Nat
    OBVIOUS
  <2>3. /\ WireChain(Tail(wire), Len(heard'), meta')
        /\ \A y : MaySend(wire, Len(heard), meta, y) =>
                    MaySend(Tail(wire), Len(heard'), meta', y)
        /\ \A k : Sent(wire, Len(heard), meta, k) =>
                    Sent(Tail(wire), Len(heard'), meta', k)
    BY <2>1, <2>2, Parts, ReceiveChain
  <2>4. \A y : MaySend(wire, Len(heard), meta, y) =>
                    MaySend(wire', Len(heard'), meta', y)
    BY <2>3
  <2>5. /\ May(ErrorFrame) => May(ErrorFrame)'
        /\ May(Announce(tts.segment)) => May(Announce(tts.segment))'
        /\ May(Audio(tts.segment)) => May(Audio(tts.segment))'
    BY <1>0, <2>4 DEF May, Announce, Audio, ErrorFrame
  <2> QED
    BY <1>0, <1>6, <2>3, <2>5 DEF ChainInv
<1> QED
  BY <1>2, <1>3, <1>4, <1>5, <1>6, <1>7

\* What the first frame on the wire does for an edge that receives.
LEMMA FirstFrame ==
  ASSUME IInv, edge = "open", wire # <<>>
  PROVE  /\ wire[1] \in Frames /\ Head(wire) = wire[1]
         /\ First(wire[1], Len(heard), meta)
         /\ wire[1].kind = "error" \/ Fits(wire[1].segment, produced, main)
<1>1. WireChain(wire, Len(heard), meta) /\ WireFits(wire, produced, main)
  BY DEF IInv, LinkInv, ChainInv, FitsInv
<1>2. wire \in Seq(Frames) /\ 1 \in 1..Len(wire)
  BY Parts DEF IInv
<1> QED
  BY <1>1, <1>2 DEF WireChain, WireFits

LEMMA ReceiveStep ==
  ASSUME IInv, Receive
  PROVE  IInv'
<1>0. /\ edge = "open" /\ wire # <<>> /\ EdgeOnly
      /\ UNCHANGED <<main, produced>>
  BY DEF Receive, EdgeOnly, answerVars
<1>1. /\ wire[1] \in Frames /\ Head(wire) = wire[1]
      /\ First(wire[1], Len(heard), meta)
      /\ wire[1].kind = "error" \/ Fits(wire[1].segment, produced, main)
  BY <1>0, FirstFrame
<1>2. heard \in Seq(1..MaxWords) /\ HeardInOrder /\ TypeOK
  BY Parts DEF IInv
<1>3. CASE wire[1].kind = "tts"
  <2>1. /\ meta' = Mark(wire[1].segment) /\ wire' = Tail(wire)
        /\ UNCHANGED <<link, edge, heard>>
    BY <1>1, <1>3 DEF Receive, Mark
  <2>2. HeardInOrder' /\ meta' \in {"none", "more", "final"}
    BY <1>0, <1>2, <2>1 DEF HeardInOrder, Mark
  <2> QED
    BY <1>0, <1>2, <1>3, <2>1, <2>2, MoveOn
<1>4. CASE wire[1].kind = "audio"
  <2> DEFINE s == wire[1].segment
  <2>1. meta = Mark(s) /\ s.from = Len(heard) + 1 /\ Fits(s, produced, main)
    BY <1>1, <1>4 DEF First
  <2>2. heard' = heard \o Words(s)
    BY <1>1, <1>4, <2>1 DEF Receive, Mark
  <2> HIDE DEF s
  <2>3. /\ heard' \in Seq(1..MaxWords) /\ Len(heard') = s.to
        /\ heard' = [k \in 1..s.to |-> k] /\ s.to <= produced
    BY <1>2, <2>1, <2>2, HearWords
  <2>4. HeardInOrder'
    BY <1>0, <2>3 DEF HeardInOrder
  <2>5. CASE s.final
    <3>1. /\ edge' = "success" /\ link' = "closed" /\ wire' = <<>>
          /\ UNCHANGED meta
      BY <1>1, <1>4, <2>1, <2>5 DEF Receive, Return, Mark
    <3>2. UNCHANGED <<main, produced, cut, streamed, fallback, queue, tts,
                      recorded, activity>>
      BY <1>0 DEF EdgeOnly, answerVars
    <3>3. Len(heard') = produced /\ produced > 0 /\ ~Early
      BY <2>1, <2>3, <2>5 DEF Fits, Early
    <3>4. TypeOK'
      <4>1. wire' \in Seq([kind : {"tts", "audio", "error"}, segment : Segments])
        BY <3>1
      <4> QED
        BY <1>2, <2>3, <3>1, <3>2, <4>1 DEF TypeOK
    <3>5. LinkInv'
      BY <3>1, <3>2, <3>3 DEF LinkInv, Early
    <3>6. ControlInv' /\ QuietAfterTurn'
      BY <3>1, <3>2, <3>3 DEF IInv, ControlInv, QuietAfterTurn, Over, Early, Beginnings
    <3>7. FitsInv'
      BY <3>1, <3>2 DEF IInv, FitsInv, WireFits
    <3>8. QueueInv' /\ ChainInv'
      BY <3>1, <3>2 DEF IInv, QueueInv, Unsent, ChainInv
    <3> QED
      BY <2>4, <3>4, <3>5, <3>6, <3>7, <3>8 DEF IInv
  <2>6. CASE ~s.final
    <3>1. /\ meta' = "none" /\ wire' = Tail(wire) /\ UNCHANGED <<link, edge>>
      BY <1>1, <1>4, <2>1, <2>6 DEF Receive, Mark
    <3> QED
      BY <1>0, <1>4, <2>3, <2>4, <3>1, MoveOn DEF s
  <2> QED
    BY <2>5, <2>6
<1>5. CASE wire[1].kind = "error"
  <2>1. /\ edge' = "failed" /\ link' = "closed" /\ wire' = <<>>
        /\ UNCHANGED <<meta, heard>>
    BY <1>1, <1>5 DEF Receive, Return
  <2> QED
    BY <1>0, <2>1, ClosedStep
<1> QED
  BY <1>1, <1>3, <1>4, <1>5 DEF Frames

LEMMA LinkLostStep ==
  ASSUME IInv, LinkLost
  PROVE  IInv'
BY ClosedStep DEF LinkLost, Return

-----------------------------------------------------------------------------

LEMMA InitInv == Init => IInv
<1> SUFFICES ASSUME Init PROVE IInv
  OBVIOUS
<1> USE DEF Init
<1>1. TypeOK
  <2>1. tts \in [at : {"none", "get", "synth", "audio", "returned", "raised",
                       "cancelled"}, segment : Segments]
    BY EndIsSegment DEF EndOfSegments
  <2>2. queue \in Seq(Segments) /\ heard \in Seq(1..MaxWords)
        /\ wire \in Seq([kind : {"tts", "audio", "error"}, segment : Segments])
    OBVIOUS
  <2>3. produced \in 0..MaxWords /\ cut \in 0..produced
    OBVIOUS
  <2> QED
    BY <2>1, <2>2, <2>3 DEF TypeOK
<1>2. LinkInv /\ ControlInv /\ QuietAfterTurn
  BY DEF LinkInv, ControlInv, QuietAfterTurn, Over
<1>3. FitsInv /\ QueueInv
  BY DEF FitsInv, QueueFits, WireFits, QueueInv, QueueChain
<1>4. ChainInv
  BY DEF ChainInv, WireChain, May, MaySend, First, ErrorFrame
<1>5. HeardInOrder
  <2>1. Len(heard) = 0 /\ heard = <<>> /\ produced = 0
    OBVIOUS
  <2>2. [k \in 1..0 |-> k] = <<>>
    OBVIOUS
  <2> QED
    BY ONLY <2>1, <2>2, 0 <= 0 DEF HeardInOrder
<1> QED
  BY <1>1, <1>2, <1>3, <1>4, <1>5 DEF IInv

\* Every way in which the session fails.
LEMMA Failures ==
  ASSUME TranscriptionFails \/ DeltaRaises \/ FallbackFails \/ EmptyAnswer
         \/ MarkerRaises \/ SpeechFails \/ WelcomeFails
  PROVE  main \in {"audio", "welcome", "stream", "drain"} /\ Fail
BY DEF TranscriptionFails, DeltaRaises, FallbackFails, EmptyAnswer, MarkerRaises,
       SpeechFails, WelcomeFails, SpeechSent

LEMMA NextInv ==
  ASSUME IInv, [Next]_vars
  PROVE  IInv'
<1>1. CASE TranscriptionFails \/ DeltaRaises \/ FallbackFails \/ EmptyAnswer
           \/ MarkerRaises \/ SpeechFails \/ WelcomeFails
  BY <1>1, Failures, FailStep
<1>2. CASE EmptyAudio \/ Transcribe
  BY <1>2, EmptyAudioStep, TranscribeStep
<1>3. CASE \E word \in {0, 1}, ends \in BOOLEAN : Delta(word, ends)
  BY <1>3, DeltaStep
<1>4. CASE StreamBreaks \/ StreamEnds
  BY <1>4, StreamBreaksStep, StreamEndsStep
<1>5. CASE SendMarker \/ Finish \/ Welcome
  BY <1>5, SendMarkerStep, FinishStep, WelcomeStep
<1>6. CASE Speaking
  BY <1>6, TakeSegmentStep, AnnounceAudioStep, SendAudioStep, SpeechRaisesStep
  DEF Speaking
<1>7. CASE Receive \/ LinkLost
  BY <1>7, ReceiveStep, LinkLostStep
<1>8. CASE UNCHANGED vars
  <2>0. UNCHANGED <<main, produced, cut, streamed, fallback, queue, tts, wire,
                    link, edge, meta, heard, recorded, activity>>
    BY <1>8 DEF vars, answerVars, edgeVars
  <2>1. TypeOK' /\ LinkInv' /\ ControlInv' /\ FitsInv'
    BY <2>0 DEF IInv, TypeOK, LinkInv, Early, ControlInv, FitsInv
  <2>2. QueueInv' /\ ChainInv' /\ HeardInOrder' /\ QuietAfterTurn'
    BY <2>0 DEF IInv, QueueInv, Unsent, ChainInv, May, HeardInOrder,
                QuietAfterTurn, Over
  <2> QED
    BY <2>1, <2>2 DEF IInv
<1> QED
  BY <1>1, <1>2, <1>3, <1>4, <1>5, <1>6, <1>7, <1>8 DEF Next, Answering

\* The invariant holds throughout.
THEOREM Invariance == Spec => []IInv
<1>1. Init => IInv
  BY InitInv
<1>2. IInv /\ [Next]_vars => IInv'
  BY NextInv
<1> QED
  BY <1>1, <1>2, PTL DEF Spec

\* The variables keep their types, and a word leaves the buffer after it was
\* put in.
THEOREM TypeCorrect == Spec => []TypeOK
<1>1. IInv => TypeOK
  BY DEF IInv
<1> QED
  BY <1>1, Invariance, PTL

\* The edge hears the words of every answer in their order and once, however
\* _split_ready_tts_segments cuts them and the two tasks interleave.
THEOREM WordsInOrder == Spec => []HeardInOrder
<1>1. IInv => HeardInOrder
  BY DEF IInv
<1> QED
  BY <1>1, Invariance, PTL

\* No TTS task speaks or touches the monitor after its session has ended, and
\* the monitor is left without a result exactly when no audio had come.
THEOREM QuietAfterwards == Spec => []QuietAfterTurn
<1>1. IInv => QuietAfterTurn
  BY DEF IInv
<1> QED
  BY <1>1, Invariance, PTL

-----------------------------------------------------------------------------
\* The exchange implements what AnswerDelivery promises.

\* A step that neither adds words nor reaches the edge.
LEMMA Unnoticed ==
  ASSUME UNCHANGED <<produced, heard, edge>>
  PROVE  UNCHANGED Delivery!vars
BY DEF Delivery!vars

LEMMA GrowthIsSay ==
  ASSUME IInv, UNCHANGED <<heard, edge>>, main \in Beginnings,
         produced' = produced \/ produced' = produced + 1
  PROVE  [Delivery!Next]_(Delivery!vars)
<1>1. edge # "success"
  BY DEF IInv, LinkInv, Early
<1> QED
  BY <1>1 DEF Delivery!Next, Delivery!Say, Delivery!vars

LEMMA ReceiveDelivers ==
  ASSUME IInv, Receive
  PROVE  [Delivery!Next]_(Delivery!vars)
<1>0. /\ edge = "open" /\ wire # <<>>
      /\ UNCHANGED <<main, produced>>
  BY DEF Receive, EdgeOnly, answerVars
<1>1. /\ wire[1] \in Frames /\ Head(wire) = wire[1]
      /\ First(wire[1], Len(heard), meta)
      /\ wire[1].kind = "error" \/ Fits(wire[1].segment, produced, main)
  BY <1>0, FirstFrame
<1>2. TypeOK /\ HeardInOrder /\ produced \in Nat /\ Len(heard) \in Nat
  BY Parts DEF IInv
<1>3. CASE wire[1].kind = "tts"
  BY <1>0, <1>1, <1>3 DEF Receive, Delivery!vars
<1>4. CASE wire[1].kind = "audio"
  <2> DEFINE s == wire[1].segment
  <2>1. meta = Mark(s) /\ s.from = Len(heard) + 1 /\ Fits(s, produced, main)
    BY <1>1, <1>4 DEF First
  <2>2. heard' = heard \o Words(s)
    BY <1>1, <1>4, <2>1 DEF Receive, Mark
  <2>3. s \in Segments
    BY <2>1 DEF Fits
  <2> HIDE DEF s
  <2>4. Len(heard') = s.to /\ s.to \in Nat /\ s.to <= produced
    BY <1>2, <2>1, <2>2, HearWords
  <2>5. CASE s.final
    <3>1. edge' = "success"
      BY <1>1, <1>4, <2>1, <2>5 DEF Receive, Return, Mark, s
    <3>2. s.to = produced /\ produced > 0
      BY <2>1, <2>5 DEF Fits
    <3> QED
      BY <1>0, <2>4, <3>1, <3>2 DEF Delivery!Next, Delivery!Succeed
  <2>6. CASE ~s.final
    <3>1. edge' = edge
      BY <1>1, <1>4, <2>1, <2>6 DEF Receive, Mark, s
    <3>2. s.from <= s.to
      BY <2>1, <2>6 DEF Fits
    <3>3. Len(heard') \in (Len(heard) + 1)..produced
      BY <1>2, <2>1, <2>4, <3>2
    <3> QED
      BY <1>0, <3>1, <3>3 DEF Delivery!Next, Delivery!Hear
  <2> QED
    BY <2>5, <2>6
<1>5. CASE wire[1].kind = "error"
  <2>1. edge' = "failed" /\ heard' = heard
    BY <1>1, <1>5 DEF Receive, Return
  <2> QED
    BY <1>0, <2>1 DEF Delivery!Next, Delivery!Fail
<1> QED
  BY <1>1, <1>3, <1>4, <1>5 DEF Frames

LEMMA StepDelivers ==
  ASSUME IInv, [Next]_vars
  PROVE  [Delivery!Next]_(Delivery!vars)
<1>1. CASE TranscriptionFails \/ DeltaRaises \/ FallbackFails \/ EmptyAnswer
           \/ MarkerRaises \/ SpeechFails \/ WelcomeFails
  BY <1>1, Failures, Unnoticed DEF Fail, answerVars, edgeVars
<1>2. CASE EmptyAudio \/ Transcribe \/ StreamBreaks \/ StreamEnds \/ SendMarker
           \/ Finish
  BY <1>2, Unnoticed DEF EmptyAudio, Transcribe, StreamBreaks, StreamEnds,
     SendMarker, Finish, answerVars, edgeVars
<1>3. CASE \E word \in {0, 1}, ends \in BOOLEAN : Delta(word, ends)
  <2>1. PICK word \in {0, 1} : \E ends \in BOOLEAN : Delta(word, ends)
    BY <1>3
  <2>2. /\ UNCHANGED <<heard, edge>> /\ main \in Beginnings
        /\ produced' = produced + word /\ produced \in Nat
    BY <2>1, Parts DEF Delta, edgeVars, Beginnings, IInv
  <2>3. produced' = produced \/ produced' = produced + 1
    BY <2>2
  <2> QED
    BY <2>2, <2>3, GrowthIsSay
<1>4. CASE Welcome
  <2>1. /\ UNCHANGED <<heard, edge>> /\ main \in Beginnings
        /\ produced' = 1 /\ produced = 0
    BY <1>4 DEF Welcome, edgeVars, Beginnings, IInv, ControlInv
  <2> QED
    BY <2>1, GrowthIsSay
<1>5. CASE Speaking
  BY <1>5, Unnoticed DEF Speaking, TakeSegment, AnnounceAudio, SendAudio,
     SpeechRaises, SpeechOnly, answerVars, edgeVars
<1>6. CASE Receive
  BY <1>6, ReceiveDelivers
<1>7. CASE LinkLost
  BY <1>7 DEF LinkLost, Return, EdgeOnly, answerVars, Delivery!Next, Delivery!Fail
<1>8. CASE UNCHANGED vars
  BY <1>8, Unnoticed DEF vars, answerVars, edgeVars
<1> QED
  BY <1>1, <1>2, <1>3, <1>4, <1>5, <1>6, <1>7, <1>8 DEF Next, Answering

\* The edge is told of success only when it has heard the whole answer,
\* and hears no more than a beginning of it before.
THEOREM DeliveryImplemented == Spec => AnswerDelivered
<1>1. Init => Delivery!Init
  BY DEF Init, Delivery!Init
<1>2. IInv /\ [Next]_vars => [Delivery!Next]_(Delivery!vars)
  BY StepDelivers
<1> QED
  BY <1>1, <1>2, Invariance, PTL DEF Spec, AnswerDelivered, Delivery!Spec
=============================================================================
