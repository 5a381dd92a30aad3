-------------------------- MODULE SpeechQueue_proofs --------------------------
(***************************************************************************)
(* Theorems about SpeechQueue, for any number of turns, chunks and formats *)
(* and any size of the queue.                                              *)
(*                                                                         *)
(* Answers stay in line from the queue through the chunk in hand and the   *)
(* burst to what was heard: whatever is put comes behind everything there  *)
(* is, and the only chunk that ever moves back is one that is put back,    *)
(* which remembers the burst of another format that it met.  The line      *)
(* loses no chunk either, so a client that finds the robot silent has had  *)
(* its answer played or dropped.                                           *)
(***************************************************************************)
EXTENDS SpeechQueue, SequenceTheorems, TLAPS

\* The second chunk may follow the first: a greeting, and a chunk of R, the
\* ones that were put back, may follow anything.
Ahead(R, c, d) == Precedes(c, d) \/ d = Greeting \/ d \in R

Rising(R, s) == \A i, j \in DOMAIN s : i < j => Ahead(R, s[i], s[j])

AllAhead(R, S, T) == \A c \in S, d \in T : Ahead(R, c, d)

Held == IF hand = Nothing THEN {} ELSE {hand}

\* The chunk has been put by the client.
WasPut(c, t, n) == c[1] < t \/ (c[1] = t /\ c[2] <= n)

TurnInv == client # "done" => turn <= MaxTurn

\* A burst that collects begins with an answer that is not WAV.
WindowInv == player \in {"window", "hand", "dead"} => ~Wav(burst[1])

LineInv ==
  /\ Rising(returned, heard) /\ Rising(returned, burst) /\ Rising(returned, queue)
  /\ AllAhead(returned, Elements(heard), Elements(burst))
  /\ AllAhead(returned, Elements(heard), Held)
  /\ AllAhead(returned, Elements(heard), Elements(queue))
  /\ AllAhead(returned, Elements(burst), Held)
  /\ AllAhead(returned, Elements(burst), Elements(queue))
  /\ AllAhead(returned, Held, Elements(queue))

PutInv ==
  \A c \in Elements(heard) \cup Elements(burst) \cup Held \cup Elements(queue) :
    WasPut(c, turn, sent)

\* The flag stands for an interruption that has not dropped a burst yet.
DebtInv == discarded + (IF interrupted THEN 1 ELSE 0) <= interrupts

IInv == TypeOK /\ TurnInv /\ WindowInv /\ LineInv /\ PutInv /\ DebtInv

-----------------------------------------------------------------------------
\* Sequences and their elements.

LEMMA AppendLine ==
  ASSUME NEW R, NEW S, NEW s \in Seq(S), NEW e \in S, Rising(R, s), AllAhead(R, Elements(s), {e})
  PROVE  /\ Append(s, e) \in Seq(S) /\ Len(Append(s, e)) = Len(s) + 1
         /\ Append(s, e) # <<>>
         /\ Rising(R, Append(s, e))
         /\ Elements(Append(s, e)) = Elements(s) \cup {e}
<1> DEFINE r == Append(s, e)
<1>1. /\ r \in Seq(S) /\ Len(r) = Len(s) + 1 /\ Len(s) \in Nat
      /\ \A i \in 1..Len(s) : r[i] = s[i]
      /\ r[Len(s) + 1] = e
      /\ DOMAIN s = 1..Len(s) /\ DOMAIN r = 1..(Len(s) + 1)
  OBVIOUS
<1> HIDE DEF r
<1>2. ASSUME NEW i \in DOMAIN r, NEW j \in DOMAIN r, i < j PROVE Ahead(R, r[i], r[j])
  <2>1. i \in 1..Len(s) /\ r[i] = s[i]
    BY <1>1, <1>2
  <2>2. CASE j = Len(s) + 1
    BY <1>1, <2>1, <2>2 DEF AllAhead, Elements
  <2>3. CASE j # Len(s) + 1
    <3>1. j \in 1..Len(s) /\ r[j] = s[j]
      BY <1>1, <2>3
    <3> QED
      BY <1>1, <1>2, <2>1, <3>1 DEF Rising
  <2> QED
    BY <2>2, <2>3
<1>3. Elements(r) = Elements(s) \cup {e}
  <2>1. ASSUME NEW c \in Elements(r) PROVE c \in Elements(s) \cup {e}
    <3>1. PICK i \in DOMAIN r : c = r[i]
      BY <2>1 DEF Elements
    <3>2. CASE i = Len(s) + 1
      BY <1>1, <3>1, <3>2
    <3>3. CASE i # Len(s) + 1
      <4>1. i \in DOMAIN s /\ c = s[i]
        BY <1>1, <3>1, <3>3
      <4> QED
        BY <4>1 DEF Elements
    <3> QED
      BY <3>2, <3>3
  <2>2. ASSUME NEW c \in Elements(s) PROVE c \in Elements(r)
    <3>1. PICK i \in DOMAIN s : c = s[i]
      BY <2>2 DEF Elements
    <3>2. i \in DOMAIN r /\ c = r[i]
      BY <1>1, <3>1
    <3> QED
      BY <3>2 DEF Elements
  <2>3. Len(s) + 1 \in DOMAIN r
    BY <1>1
  <2>4. e \in Elements(r)
    BY <1>1, <2>3 DEF Elements
  <2> QED
    BY <2>1, <2>2, <2>4
<1>4. r # <<>>
  BY <1>1
<1> QED
  BY <1>1, <1>2, <1>3, <1>4 DEF r, Rising

LEMMA TailLine ==
  ASSUME NEW R, NEW S, NEW s \in Seq(S), s # <<>>, Rising(R, s)
  PROVE  /\ Tail(s) \in Seq(S) /\ Len(Tail(s)) = Len(s) - 1
         /\ Head(s) \in S /\ Head(s) = s[1]
         /\ Rising(R, Tail(s)) /\ AllAhead(R, {Head(s)}, Elements(Tail(s)))
         /\ Elements(s) = Elements(Tail(s)) \cup {Head(s)}
<1> DEFINE r == Tail(s)
<1>1. /\ r \in Seq(S) /\ Len(r) = Len(s) - 1 /\ Len(s) \in Nat /\ Len(s) >= 1
      /\ \A i \in 1..Len(r) : r[i] = s[i + 1]
      /\ DOMAIN s = 1..Len(s) /\ DOMAIN r = 1..(Len(s) - 1)
      /\ Head(s) = s[1] /\ Head(s) \in S
  OBVIOUS
<1> HIDE DEF r
<1>2. ASSUME NEW i \in DOMAIN r
      PROVE  i + 1 \in DOMAIN s /\ r[i] = s[i + 1] /\ 1 < i + 1 /\ i \in Nat
  BY <1>1
<1>3. Rising(R, r)
  <2> SUFFICES ASSUME NEW i \in DOMAIN r, NEW j \in DOMAIN r, i < j
               PROVE  Ahead(R, r[i], r[j])
    BY DEF Rising
  <2>1. i + 1 < j + 1
    BY <1>2
  <2> QED
    BY <1>2, <2>1 DEF Rising
<1>4. 1 \in DOMAIN s
  BY <1>1
<1>5. AllAhead(R, {Head(s)}, Elements(r))
  BY <1>1, <1>2, <1>4 DEF AllAhead, Elements, Rising
<1>6. Elements(s) = Elements(r) \cup {Head(s)}
  <2>1. ASSUME NEW c \in Elements(s) PROVE c \in Elements(r) \cup {Head(s)}
    <3>1. PICK i \in DOMAIN s : c = s[i]
      BY <2>1 DEF Elements
    <3>2. CASE i = 1
      BY <1>1, <3>1, <3>2
    <3>3. CASE i # 1
      <4>1. i - 1 \in DOMAIN r /\ (i - 1) + 1 = i
        BY <1>1, <3>3
      <4>2. c = r[i - 1]
        BY <1>2, <3>1, <4>1
      <4> QED
        BY <4>1, <4>2 DEF Elements
    <3> QED
      BY <3>2, <3>3
  <2>2. ASSUME NEW c \in Elements(r) PROVE c \in Elements(s)
    BY <1>2, <2>2 DEF Elements
  <2>3. Head(s) \in Elements(s)
    BY <1>1, <1>4 DEF Elements
  <2> QED
    BY <2>1, <2>2, <2>3
<1> QED
  BY <1>1, <1>3, <1>5, <1>6 DEF r

LEMMA ConcatLine ==
  ASSUME NEW R, NEW S, NEW s \in Seq(S), NEW t \in Seq(S), Rising(R, s), Rising(R, t),
         AllAhead(R, Elements(s), Elements(t))
  PROVE  /\ s \o t \in Seq(S) /\ Rising(R, s \o t)
         /\ Elements(s \o t) = Elements(s) \cup Elements(t)
<1> DEFINE r == s \o t
<1>0. /\ r \in Seq(S) /\ Len(r) = Len(s) + Len(t)
      /\ \A i \in 1 .. Len(s) + Len(t) :
           r[i] = IF i <= Len(s) THEN s[i] ELSE t[i - Len(s)]
  BY ONLY s \in Seq(S), t \in Seq(S), ConcatProperties, Zenon
<1> HIDE DEF r
<1>1. /\ Len(s) \in Nat /\ Len(t) \in Nat
      /\ DOMAIN s = 1..Len(s) /\ DOMAIN t = 1..Len(t)
      /\ DOMAIN r = 1..(Len(s) + Len(t))
  BY <1>0
<1>2. ASSUME NEW i \in DOMAIN r
      PROVE  \/ i <= Len(s) /\ i \in DOMAIN s /\ r[i] = s[i]
             \/ i > Len(s) /\ i - Len(s) \in DOMAIN t /\ r[i] = t[i - Len(s)]
  <2>1. r[i] = IF i <= Len(s) THEN s[i] ELSE t[i - Len(s)]
    BY <1>0, <1>1
  <2>2. i \in Nat /\ i >= 1 /\ i <= Len(s) + Len(t)
    BY <1>1
  <2>3. i <= Len(s) => i \in DOMAIN s
    BY <1>1, <2>2
  <2>4. ~(i <= Len(s)) => i > Len(s) /\ i - Len(s) \in DOMAIN t
    BY <1>1, <2>2
  <2> QED
    BY <2>1, <2>3, <2>4
<1>3. Rising(R, r)
  <2> SUFFICES ASSUME NEW i \in DOMAIN r, NEW j \in DOMAIN r, i < j
               PROVE  Ahead(R, r[i], r[j])
    BY DEF Rising
  <2>0. i \in Nat /\ j \in Nat
    BY <1>1
  <2>1. CASE j <= Len(s)
    <3>1. i \in DOMAIN s /\ j \in DOMAIN s /\ r[i] = s[i] /\ r[j] = s[j]
      BY <1>1, <1>2, <2>0, <2>1
    <3> QED
      BY <3>1 DEF Rising
  <2>2. CASE j > Len(s) /\ i <= Len(s)
    <3>1. /\ i \in DOMAIN s /\ j - Len(s) \in DOMAIN t
          /\ r[i] = s[i] /\ r[j] = t[j - Len(s)]
      BY <1>1, <1>2, <2>0, <2>2
    <3>2. r[i] \in Elements(s) /\ r[j] \in Elements(t)
      BY <3>1 DEF Elements
    <3> QED
      BY <3>2 DEF AllAhead
  <2>3. CASE j > Len(s) /\ i > Len(s)
    <3>1. /\ i - Len(s) \in DOMAIN t /\ j - Len(s) \in DOMAIN t
          /\ r[i] = t[i - Len(s)] /\ r[j] = t[j - Len(s)]
      BY <1>1, <1>2, <2>0, <2>3
    <3>2. i - Len(s) < j - Len(s)
      BY <1>1, <2>0
    <3> QED
      BY <3>1, <3>2 DEF Rising
  <2> QED
    BY <1>1, <2>0, <2>1, <2>2, <2>3
<1>4. Elements(r) = Elements(s) \cup Elements(t)
  <2>1. ASSUME NEW c \in Elements(r) PROVE c \in Elements(s) \cup Elements(t)
    <3>1. PICK i \in DOMAIN r : c = r[i]
      BY <2>1 DEF Elements
    <3> QED
      BY <1>2, <3>1 DEF Elements
  <2>2. ASSUME NEW c \in Elements(s) PROVE c \in Elements(r)
    <3>1. PICK i \in DOMAIN s : c = s[i]
      BY <2>2 DEF Elements
    <3>2. i \in DOMAIN r /\ r[i] = s[i]
      <4>1. i \in 1..(Len(s) + Len(t)) /\ i <= Len(s)
        BY <1>1
      <4> QED
        BY <1>0, <1>1, <4>1
    <3> QED
      BY <3>1, <3>2 DEF Elements
  <2>3. ASSUME NEW c \in Elements(t) PROVE c \in Elements(r)
    <3>1. PICK i \in DOMAIN t : c = t[i]
      BY <2>3 DEF Elements
    <3>2. /\ i + Len(s) \in DOMAIN r /\ i + Len(s) \in 1..(Len(s) + Len(t))
          /\ ~(i + Len(s) <= Len(s)) /\ (i + Len(s)) - Len(s) = i
      BY <1>1
    <3>3. r[i + Len(s)] = t[i]
      BY <1>0, <3>2
    <3> QED
      BY <3>1, <3>2, <3>3 DEF Elements
  <2> QED
    BY <2>1, <2>2, <2>3
<1> QED
  BY <1>0, <1>3, <1>4 DEF r

LEMMA NoLine == Elements(<<>>) = {} /\ \A R : Rising(R, <<>>)
BY DEF Elements, Rising

LEMMA OneLine ==
  ASSUME NEW R, NEW c
  PROVE  /\ Elements(<<c>>) = {c} /\ Rising(R, <<c>>) /\ Len(<<c>>) = 1
         /\ <<c>> # <<>> /\ <<c>>[1] = c /\ Head(<<c>>) = c
BY DEF Elements, Rising

LEMMA AheadSets ==
  /\ \A R, S : AllAhead(R, {}, S) /\ AllAhead(R, S, {})
  /\ \A R, S, T, U : AllAhead(R, S, T \cup U) <=> AllAhead(R, S, T) /\ AllAhead(R, S, U)
  /\ \A R, S, T, U : AllAhead(R, S \cup T, U) <=> AllAhead(R, S, U) /\ AllAhead(R, T, U)
BY DEF AllAhead

\* What was put back once may follow anything for good.
LEMMA MoreReturned ==
  ASSUME NEW R, NEW Q, R \subseteq Q
  PROVE  /\ \A s : Rising(R, s) => Rising(Q, s)
         /\ \A S, T : AllAhead(R, S, T) => AllAhead(Q, S, T)
<1>1. \A c, d : Ahead(R, c, d) => Ahead(Q, c, d)
  BY DEF Ahead
<1> QED
  BY <1>1 DEF Rising, AllAhead

-----------------------------------------------------------------------------
\* The steps of the worker.

USE SpeechAssumption

LEMMA Facts ==
  ASSUME IInv
  PROVE  /\ queue \in Seq(Chunks) /\ burst \in Seq(Chunks) /\ heard \in Seq(Chunks)
         /\ Len(queue) \in Nat /\ Len(queue) <= QueueSize
         /\ Rising(returned, queue) /\ Rising(returned, burst) /\ Rising(returned, heard)
         /\ turn \in Nat /\ sent \in Nat
  BY DEF IInv, TypeOK, LineInv

LEMMA ChunkParts ==
  /\ \A c \in Chunks : c[1] \in Nat /\ c[2] \in Nat
  /\ Greeting \in Chunks /\ Greeting[1] = 0
BY DEF Greeting, Chunks, Answers

\* The queue loses its first chunk.
LEMMA QueueTaken ==
  ASSUME IInv, queue # <<>>, queue' = Tail(queue)
  PROVE  /\ queue' \in Seq(Chunks) /\ Len(queue') < QueueSize /\ Head(queue) \in Chunks
         /\ Rising(returned, queue') /\ AllAhead(returned, {Head(queue)}, Elements(queue'))
         /\ Elements(queue) = Elements(queue') \cup {Head(queue)}
<1>1. /\ Tail(queue) \in Seq(Chunks) /\ Len(Tail(queue)) = Len(queue) - 1
      /\ Head(queue) \in Chunks
      /\ Rising(returned, Tail(queue)) /\ AllAhead(returned, {Head(queue)}, Elements(Tail(queue)))
      /\ Elements(queue) = Elements(Tail(queue)) \cup {Head(queue)}
  BY Facts, TailLine
<1> QED
  BY <1>1, Facts

LEMMA GetChunkStep ==
  ASSUME IInv, GetChunk, UNCHANGED <<clientVars, greeted>>
  PROVE  IInv'
<1> DEFINE c == Head(queue)
<1>0. /\ player \in {"get", "next"} /\ queue # <<>> /\ queue' = Tail(queue)
      /\ burst' = <<c>> /\ player' = IF Wav(c) THEN "begin" ELSE "window"
      /\ UNCHANGED <<hand, speaking, heard, returned, discarded, interrupted, lost>>
      /\ UNCHANGED <<client, turn, sent, barged, interrupts, greeted>>
      /\ burst = <<>> /\ hand = Nothing
  BY DEF GetChunk, clientVars, IInv, TypeOK
<1>1. /\ queue' \in Seq(Chunks) /\ Len(queue') < QueueSize /\ c \in Chunks
      /\ Rising(returned, queue') /\ AllAhead(returned, {c}, Elements(queue'))
      /\ Elements(queue) = Elements(queue') \cup {c}
  BY <1>0, QueueTaken
<1> HIDE DEF c
<1>2. /\ Elements(burst') = {c} /\ Rising(returned, burst') /\ Len(burst') = 1
      /\ burst' # <<>> /\ burst'[1] = c /\ burst' \in Seq(Chunks)
  BY <1>0, <1>1, OneLine
<1>3. Held = {} /\ Held' = {}
  BY <1>0 DEF Held
<1>4. TypeOK'
  <2>1. \A i \in DOMAIN burst' : Wav(burst'[i]) => Len(burst') = 1
    BY <1>2
  <2>2. Len(queue') <= QueueSize
    BY <1>1, Facts
  <2>3. player' \in {"begin", "window"}
    BY <1>0
  <2> QED
    BY <1>0, <1>1, <1>2, <2>1, <2>2, <2>3 DEF IInv, TypeOK
<1>5. TurnInv' /\ DebtInv'
  BY <1>0 DEF IInv, TurnInv, DebtInv
<1>6. WindowInv'
  BY <1>0, <1>2 DEF WindowInv
<1>7. LineInv'
  BY <1>0, <1>1, <1>2, <1>3, AheadSets DEF IInv, LineInv
<1>8. PutInv'
  BY <1>0, <1>1, <1>2, <1>3 DEF IInv, PutInv
<1> QED
  BY <1>4, <1>5, <1>6, <1>7, <1>8 DEF IInv

\* Steps that move no chunk.
LEMMA SameLine ==
  ASSUME IInv, UNCHANGED <<queue, burst, hand, heard, returned>>
  PROVE  /\ LineInv'
         /\ (UNCHANGED <<turn, sent>> => PutInv')
<1>1. Held' = Held
  BY DEF Held
<1> QED
  BY <1>1 DEF IInv, LineInv, PutInv

LEMMA WaitStep ==
  ASSUME IInv, WaitForChunk \/ WindowEnds, UNCHANGED <<clientVars, greeted>>
  PROVE  IInv'
<1>0. /\ \/ player = "next" /\ player' = "get"
         \/ player = "window" /\ player' = "begin"
      /\ UNCHANGED <<queue, burst, hand, speaking, heard, returned, discarded, interrupted, lost>>
      /\ UNCHANGED <<client, turn, sent, barged, interrupts, greeted>>
  BY DEF WaitForChunk, WindowEnds, clientVars
<1>1. TypeOK' /\ TurnInv' /\ WindowInv' /\ DebtInv'
  BY <1>0 DEF IInv, TypeOK, TurnInv, WindowInv, DebtInv
<1> QED
  BY <1>0, <1>1, SameLine DEF IInv

LEMMA TimedGetStep ==
  ASSUME IInv, TimedGet, UNCHANGED <<clientVars, greeted>>
  PROVE  IInv'
<1> DEFINE c == Head(queue)
<1>0. /\ player = "window" /\ queue # <<>> /\ queue' = Tail(queue)
      /\ hand' = c /\ player' = "hand"
      /\ UNCHANGED <<burst, speaking, heard, returned, discarded, interrupted, lost>>
      /\ UNCHANGED <<client, turn, sent, barged, interrupts, greeted>>
      /\ hand = Nothing
  BY DEF TimedGet, clientVars, IInv, TypeOK
<1>1. /\ queue' \in Seq(Chunks) /\ Len(queue') < QueueSize /\ c \in Chunks
      /\ Rising(returned, queue') /\ AllAhead(returned, {c}, Elements(queue'))
      /\ Elements(queue) = Elements(queue') \cup {c}
  BY <1>0, QueueTaken
<1> HIDE DEF c
<1>2. c # Nothing
  BY <1>1, NothingAssumption
<1>3. Held = {} /\ Held' = {c}
  BY <1>0, <1>2 DEF Held
<1>4. TypeOK'
  <2>1. Len(queue') <= QueueSize
    BY <1>1, Facts
  <2> QED
    BY <1>0, <1>1, <1>2, <2>1 DEF IInv, TypeOK
<1>5. TurnInv' /\ DebtInv' /\ WindowInv'
  BY <1>0 DEF IInv, TurnInv, DebtInv, WindowInv
<1>6. LineInv'
  BY <1>0, <1>1, <1>3, AheadSets DEF IInv, LineInv
<1>7. PutInv'
  BY <1>0, <1>1, <1>3 DEF IInv, PutInv
<1> QED
  BY <1>4, <1>5, <1>6, <1>7 DEF IInv

LEMMA MergeStep ==
  ASSUME IInv, Merge, UNCHANGED <<clientVars, greeted>>
  PROVE  IInv'
<1>0. /\ player = "hand" /\ Compatible(Head(burst), hand) /\ hand' = Nothing
      /\ burst' = Append(burst, hand) /\ player' = "window"
      /\ UNCHANGED <<queue, speaking, heard, returned, discarded, interrupted, lost>>
      /\ UNCHANGED <<client, turn, sent, barged, interrupts, greeted>>
  BY DEF Merge, clientVars
<1>1. /\ hand \in Chunks /\ burst # <<>> /\ ~Wav(hand) /\ ~Wav(burst[1])
      /\ Held = {hand} /\ Held' = {} /\ AllAhead(returned, Elements(burst), {hand})
  BY <1>0 DEF IInv, TypeOK, Compatible, WindowInv, Held, LineInv
<1>2. /\ burst' \in Seq(Chunks) /\ Len(burst') = Len(burst) + 1
      /\ burst' # <<>> /\ Rising(returned, burst')
      /\ Elements(burst') = Elements(burst) \cup {hand}
  BY <1>0, <1>1, Facts, AppendLine
<1>3. burst'[1] = burst[1]
  BY <1>0, <1>1, Facts
<1>4. \A i \in DOMAIN burst' : ~Wav(burst'[i])
  <2>1. \A i \in DOMAIN burst : ~Wav(burst[i])
    <3>1. \A i \in DOMAIN burst : Wav(burst[i]) => Len(burst) = 1
      BY DEF IInv, TypeOK
    <3>2. Len(burst) = 1 => \A i \in DOMAIN burst : i = 1
      BY Facts
    <3> QED
      BY <1>1, <3>1, <3>2
  <2> TAKE i \in DOMAIN burst'
  <2>2. burst'[i] = hand \/ (i \in DOMAIN burst /\ burst'[i] = burst[i])
    BY <1>0, <1>1, Facts
  <2> QED
    BY <1>1, <2>1, <2>2
<1>5. TypeOK'
  BY <1>0, <1>2, <1>4 DEF IInv, TypeOK
<1>6. TurnInv' /\ DebtInv' /\ WindowInv'
  BY <1>0, <1>1, <1>3 DEF IInv, TurnInv, DebtInv, WindowInv
<1>7. LineInv'
  BY <1>0, <1>1, <1>2, AheadSets DEF IInv, LineInv
<1>8. PutInv'
  BY <1>0, <1>1, <1>2 DEF IInv, PutInv
<1> QED
  BY <1>5, <1>6, <1>7, <1>8 DEF IInv

\* The chunk that is put back is the last of the line, and excused for it.
LEMMA PutBackStep ==
  ASSUME IInv, PutBack, UNCHANGED <<clientVars, greeted>>
  PROVE  IInv'
<1>0. /\ player = "hand" /\ ~Compatible(Head(burst), hand)
      /\ UNCHANGED <<burst, speaking, heard, discarded, interrupted, lost>>
      /\ UNCHANGED <<client, turn, sent, barged, interrupts, greeted>>
      /\ hand \in Chunks /\ burst # <<>> /\ Held = {hand}
  BY DEF PutBack, clientVars, IInv, TypeOK, Held
<1>2. CASE Len(queue) < QueueSize
  <2> DEFINE R == returned \cup {hand}
  <2>0. /\ queue' = Append(queue, hand) /\ hand' = Nothing /\ player' = "begin"
        /\ returned' = R /\ Held' = {}
    BY <1>2 DEF PutBack, Held
  <2>1. \A S : AllAhead(R, S, {hand})
    BY DEF AllAhead, Ahead
  <2>9. /\ Rising(R, queue) /\ Rising(R, burst) /\ Rising(R, heard)
        /\ AllAhead(R, Elements(heard), Elements(burst))
        /\ AllAhead(R, Elements(heard), Elements(queue))
        /\ AllAhead(R, Elements(burst), Elements(queue))
    BY MoreReturned DEF IInv, LineInv
  <2>8. returned' \subseteq Chunks
    BY <1>0, <2>0 DEF IInv, TypeOK
  <2> HIDE DEF R
  <2>2. /\ queue' \in Seq(Chunks) /\ Len(queue') = Len(queue) + 1 /\ Rising(R, queue')
        /\ Elements(queue') = Elements(queue) \cup {hand}
    <3>1. AllAhead(R, Elements(queue), {hand})
      BY <2>1
    <3> QED
      BY <1>0, <2>0, <2>9, <3>1, Facts, AppendLine
  <2>3. TypeOK'
    <3>1. Len(queue') <= QueueSize
      BY <1>2, <2>2, Facts
    <3> QED
      BY <1>0, <2>0, <2>8, <2>2, <3>1 DEF IInv, TypeOK
  <2>4. TurnInv' /\ DebtInv' /\ WindowInv'
    BY <1>0, <2>0 DEF IInv, TurnInv, DebtInv, WindowInv
  <2>5. LineInv'
    BY <1>0, <2>0, <2>1, <2>9, <2>2, AheadSets DEF LineInv
  <2>6. PutInv'
    BY <1>0, <2>0, <2>2 DEF IInv, PutInv
  <2> QED
    BY <2>3, <2>4, <2>5, <2>6 DEF IInv
<1>3. CASE ~(Len(queue) < QueueSize)
  <2>0. player' = "dead" /\ UNCHANGED <<queue, hand, returned>>
    BY <1>3 DEF PutBack
  <2>1. TypeOK' /\ TurnInv' /\ DebtInv' /\ WindowInv'
    BY <1>0, <2>0 DEF IInv, TypeOK, TurnInv, DebtInv, WindowInv
  <2> QED
    BY <1>0, <2>0, <2>1, SameLine DEF IInv
<1> QED
  BY <1>2, <1>3

\* A burst that is dropped leaves the line.
LEMMA PlayOrDropStep ==
  ASSUME IInv, Begin \/ Started, UNCHANGED <<clientVars, greeted>>
  PROVE  IInv'
<1>0. /\ player \in {"begin", "hook"} /\ speaking' \in BOOLEAN
      /\ UNCHANGED <<queue, hand, heard, returned>>
      /\ UNCHANGED <<client, turn, sent, barged, interrupts, greeted>>
      /\ hand = Nothing /\ burst # <<>> /\ Held' = Held
  BY DEF Begin, Started, clientVars, IInv, TypeOK, Held
<1>1. \/ PlayOrDrop
      \/ player' = "hook" /\ UNCHANGED <<burst, lost, discarded, interrupted>>
  BY DEF Begin, Started
<1>2. CASE PlayOrDrop /\ interrupted
  <2>0. /\ player' = "next" /\ burst' = <<>> /\ lost' = lost \cup Elements(burst)
        /\ discarded' = discarded + 1 /\ interrupted' = FALSE
    BY <1>2 DEF PlayOrDrop
  <2>1. Elements(burst) \subseteq Chunks
    BY Facts DEF Elements
  <2>2. TypeOK'
    <3>1. burst' \in Seq(Chunks) /\ \A i \in DOMAIN burst' : Wav(burst'[i]) => Len(burst') = 1
      BY <2>0
    <3>2. discarded' \in Nat
      BY <2>0 DEF IInv, TypeOK
    <3> QED
      BY <1>0, <2>0, <2>1, <3>1, <3>2 DEF IInv, TypeOK
  <2>3. Elements(burst') = {} /\ Rising(returned, burst')
    BY <2>0, NoLine
  <2>4. TurnInv' /\ WindowInv'
    BY <1>0, <2>0 DEF IInv, TurnInv, WindowInv
  <2>5. DebtInv'
    BY <1>0, <1>2, <2>0 DEF IInv, DebtInv, TypeOK
  <2>6. LineInv'
    BY <1>0, <2>3, AheadSets DEF IInv, LineInv
  <2>7. PutInv'
    BY <1>0, <2>3 DEF IInv, PutInv
  <2> QED
    BY <2>2, <2>4, <2>5, <2>6, <2>7 DEF IInv
<1>3. CASE ~(PlayOrDrop /\ interrupted)
  <2>0. player' \in {"hook", "play"} /\ UNCHANGED <<burst, lost, discarded, interrupted>>
    BY <1>1, <1>3 DEF PlayOrDrop
  <2>1. TypeOK' /\ TurnInv' /\ WindowInv' /\ DebtInv'
    BY <1>0, <2>0 DEF IInv, TypeOK, TurnInv, WindowInv, DebtInv
  <2> QED
    BY <1>0, <2>0, <2>1, SameLine DEF IInv
<1> QED
  BY <1>2, <1>3

LEMMA EndBurstStep ==
  ASSUME IInv, EndBurst, UNCHANGED <<clientVars, greeted>>
  PROVE  IInv'
<1>0. /\ player = "play" /\ burst' = <<>> /\ player' = "next" /\ speaking' \in BOOLEAN
      /\ UNCHANGED <<queue, hand, returned, discarded, interrupted>>
      /\ UNCHANGED <<client, turn, sent, barged, interrupts, greeted>>
      /\ Held' = Held
  BY DEF EndBurst, clientVars, Held
<1>1. Elements(burst') = {} /\ Rising(returned, burst') /\ burst' \in Seq(Chunks)
      /\ DOMAIN burst' = {}
  BY <1>0, NoLine
<1>2. Elements(burst) \subseteq Chunks
  BY Facts DEF Elements
<1>3. /\ heard' \in Seq(Chunks) /\ Rising(returned, heard') /\ lost' \subseteq Chunks
      /\ Elements(heard') \subseteq Elements(heard) \cup Elements(burst)
  <2>1. CASE heard' = heard \o burst /\ UNCHANGED lost
    <3>1. AllAhead(returned, Elements(heard), Elements(burst))
      BY DEF IInv, LineInv
    <3>2. /\ heard \o burst \in Seq(Chunks) /\ Rising(returned, heard \o burst)
          /\ Elements(heard \o burst) = Elements(heard) \cup Elements(burst)
      BY <3>1, Facts, ConcatLine
    <3> QED
      BY <2>1, <3>2 DEF IInv, TypeOK
  <2>2. CASE lost' = lost \cup Elements(burst) /\ UNCHANGED heard
    BY <1>2, <2>2, Facts DEF IInv, TypeOK
  <2> QED
    BY <2>1, <2>2 DEF EndBurst
<1>4. TypeOK'
  BY <1>0, <1>1, <1>3 DEF IInv, TypeOK
<1>5. TurnInv' /\ WindowInv' /\ DebtInv'
  BY <1>0 DEF IInv, TurnInv, WindowInv, DebtInv
<1>6. LineInv'
  <2>1. \A S : AllAhead(returned, Elements(heard), S) /\ AllAhead(returned, Elements(burst), S)
                 => AllAhead(returned, Elements(heard'), S)
    BY <1>3 DEF AllAhead
  <2> QED
    BY <1>0, <1>1, <1>3, <2>1, AheadSets DEF IInv, LineInv
<1>7. PutInv'
  BY <1>0, <1>1, <1>3 DEF IInv, PutInv
<1> QED
  BY <1>4, <1>5, <1>6, <1>7 DEF IInv

-----------------------------------------------------------------------------
\* The steps of the client and the greeting.

Everything == Elements(heard) \cup Elements(burst) \cup Held \cup Elements(queue)

LEMMA EverythingIsPut ==
  ASSUME IInv
  PROVE  \A c \in Everything : c \in Chunks /\ WasPut(c, turn, sent)
<1>1. /\ Elements(heard) \subseteq Chunks /\ Elements(burst) \subseteq Chunks
      /\ Elements(queue) \subseteq Chunks
  BY Facts DEF Elements
<1>2. Held \subseteq Chunks
  BY DEF Held, IInv, TypeOK
<1> QED
  BY <1>1, <1>2 DEF Everything, IInv, PutInv

\* Time passes for what was put.
LEMMA StillPut ==
  ASSUME NEW c \in Chunks, NEW t \in Nat, NEW n \in Nat, WasPut(c, t, n)
  PROVE  WasPut(c, t, n + 1) /\ WasPut(c, t + 1, 0)
BY ChunkParts DEF WasPut

\* A chunk that comes behind everything is put.
LEMMA PutStep ==
  ASSUME IInv, NEW c \in Chunks, Put(c), AllAhead(returned, Everything, {c}),
         UNCHANGED playerVars
  PROVE  /\ queue' \in Seq(Chunks) /\ Len(queue') <= QueueSize
         /\ LineInv' /\ Everything' = Everything \cup {c}
<1>0. UNCHANGED <<burst, hand, player, speaking, heard, returned, discarded>> /\ Held' = Held
  BY DEF playerVars, Held
<1>1. AllAhead(returned, Elements(queue), {c})
  BY DEF Everything, AllAhead
<1>2. /\ queue' \in Seq(Chunks) /\ Len(queue') = Len(queue) + 1 /\ Rising(returned, queue')
      /\ Elements(queue') = Elements(queue) \cup {c}
  BY <1>1, Facts, AppendLine DEF Put
<1>3. Len(queue') <= QueueSize
  BY <1>2, Facts DEF Put
<1>4. LineInv'
  <2>1. /\ AllAhead(returned, Elements(heard), {c}) /\ AllAhead(returned, Elements(burst), {c})
        /\ AllAhead(returned, Held, {c})
    BY DEF Everything, AllAhead
  <2>2. \A S : AllAhead(returned, S, Elements(queue)) /\ AllAhead(returned, S, {c})
                => AllAhead(returned, S, Elements(queue'))
    BY <1>2 DEF AllAhead
  <2> QED
    BY <1>0, <1>2, <2>1, <2>2 DEF IInv, LineInv
<1> QED
  BY <1>0, <1>2, <1>3, <1>4 DEF Everything

LEMMA ReceiveChunkStep ==
  ASSUME IInv, ReceiveChunk
  PROVE  IInv'
<1>0. /\ client = "receive" /\ sent < MaxChunks /\ sent' = sent + 1
      /\ UNCHANGED playerVars
      /\ UNCHANGED <<greeted, client, turn, barged, interrupts, interrupted, lost>>
      /\ UNCHANGED <<burst, hand, player, speaking, heard, returned, discarded>>
  BY DEF ReceiveChunk, ClientOnly, playerVars
<1>1. turn \in 1..MaxTurn /\ sent + 1 \in 1..MaxChunks /\ sent \in Nat /\ turn \in Nat
  BY <1>0, Facts DEF IInv, TypeOK, TurnInv
<1>8. PICK f \in Formats : Put(<<turn, sent + 1, f>>)
  BY DEF ReceiveChunk
<1> DEFINE c == <<turn, sent + 1, f>>
<1>9. Put(c)
  BY <1>8
<1>2. c \in Chunks /\ c[1] = turn /\ c[2] = sent + 1
  BY <1>1 DEF Chunks, Answers
<1> HIDE DEF c
<1>3. AllAhead(returned, Everything, {c})
  <2> SUFFICES ASSUME NEW d \in Everything PROVE Ahead(returned, d, c)
    BY DEF AllAhead
  <2>1. d \in Chunks /\ WasPut(d, turn, sent)
    BY EverythingIsPut
  <2> QED
    BY <1>1, <1>2, <2>1, ChunkParts DEF WasPut, Ahead, Precedes
<1>4. /\ queue' \in Seq(Chunks) /\ Len(queue') <= QueueSize
      /\ LineInv' /\ Everything' = Everything \cup {c}
  BY <1>0, <1>9, <1>2, <1>3, PutStep
<1>5. TypeOK'
  BY <1>0, <1>1, <1>4 DEF IInv, TypeOK
<1>6. TurnInv' /\ WindowInv' /\ DebtInv'
  BY <1>0 DEF IInv, TurnInv, WindowInv, DebtInv
<1>7. PutInv'
  <2>1. \A d \in Everything' : WasPut(d, turn, sent + 1)
    <3>1. \A d \in Everything : WasPut(d, turn, sent + 1)
      BY <1>1, EverythingIsPut, StillPut
    <3>2. WasPut(c, turn, sent + 1)
      BY <1>1, <1>2 DEF WasPut
    <3> QED
      BY <1>4, <3>1, <3>2
  <2> QED
    BY <1>0, <2>1 DEF PutInv, Everything
<1> QED
  BY <1>4, <1>5, <1>6, <1>7 DEF IInv

LEMMA GreetingStep ==
  ASSUME IInv, QueueLocalWelcome
  PROVE  IInv'
<1>0. /\ Put(Greeting) /\ greeted' = TRUE /\ UNCHANGED playerVars
      /\ UNCHANGED <<client, turn, sent, barged, interrupts, interrupted, lost>>
      /\ UNCHANGED <<burst, hand, player, speaking, heard, returned, discarded>>
  BY DEF QueueLocalWelcome, playerVars, clientVars
<1>1. AllAhead(returned, Everything, {Greeting})
  BY DEF AllAhead, Ahead
<1>2. /\ queue' \in Seq(Chunks) /\ Len(queue') <= QueueSize
      /\ LineInv' /\ Everything' = Everything \cup {Greeting}
  BY <1>0, <1>1, ChunkParts, PutStep
<1>3. TypeOK'
  BY <1>0, <1>2 DEF IInv, TypeOK
<1>4. TurnInv' /\ WindowInv' /\ DebtInv'
  BY <1>0 DEF IInv, TurnInv, WindowInv, DebtInv
<1>5. PutInv'
  <2>1. \A d \in Everything' : WasPut(d, turn, sent)
    <3>1. turn \in 1..MaxTurn + 1
      BY DEF IInv, TypeOK
    <3>2. WasPut(Greeting, turn, sent)
      BY <3>1, ChunkParts DEF WasPut
    <3> QED
      BY <1>2, <3>2, EverythingIsPut
  <2> QED
    BY <1>0, <2>1 DEF PutInv, Everything
<1> QED
  BY <1>2, <1>3, <1>4, <1>5 DEF IInv

\* The client waits for something else.
LEMMA WaitsStep ==
  ASSUME IInv, ExchangeEnds \/ PlaybackStartSeen
  PROVE  IInv'
<1>0. /\ client # "done" /\ client' \in {"start", "idle"}
      /\ UNCHANGED <<burst, hand, player, speaking, heard, returned, discarded, greeted,
                     turn, sent, barged, interrupts, queue, interrupted, lost>>
  BY DEF ExchangeEnds, PlaybackStartSeen, ClientOnly, playerVars
<1>1. TypeOK' /\ TurnInv' /\ WindowInv' /\ DebtInv'
  BY <1>0 DEF IInv, TypeOK, TurnInv, WindowInv, DebtInv
<1> QED
  BY <1>0, <1>1, SameLine DEF IInv

\* The next turn begins.
LEMMA NextTurnStep ==
  ASSUME IInv, ExchangeFails \/ PlaybackIdleSeen \/ PlaybackStopped
  PROVE  IInv'
<1>0. /\ client # "done" /\ turn' = turn + 1 /\ sent' = 0 /\ barged' \in BOOLEAN
      /\ client' = IF turn < MaxTurn THEN "receive" ELSE "done"
      /\ UNCHANGED <<burst, hand, player, speaking, heard, returned, discarded, greeted,
                     interrupts, queue, interrupted, lost>>
  BY DEF ExchangeFails, PlaybackIdleSeen, PlaybackStopped, NextTurn, ClientOnly,
         playerVars
<1>1. turn \in 1..MaxTurn
  BY <1>0 DEF IInv, TypeOK, TurnInv
<1>2. TypeOK'
  <2>1. turn' \in 1..MaxTurn + 1 /\ client' \in {"receive", "done"} /\ sent' \in 0..MaxChunks
    BY <1>0, <1>1
  <2> QED
    BY <1>0, <2>1 DEF IInv, TypeOK
<1>3. TurnInv'
  BY <1>0, <1>1 DEF TurnInv
<1>4. WindowInv' /\ DebtInv' /\ LineInv'
  BY <1>0, SameLine DEF IInv, WindowInv, DebtInv
<1>5. PutInv'
  <2>1. \A d \in Everything : WasPut(d, turn + 1, 0)
    BY <1>1, EverythingIsPut, StillPut, Facts
  <2>2. Everything' = Everything
    BY <1>0 DEF Everything, Held
  <2>3. \A d \in Everything' : WasPut(d, turn', sent')
    BY <1>0, <2>1, <2>2
  <2> QED
    BY <2>3 DEF PutInv, Everything
<1> QED
  BY <1>2, <1>3, <1>4, <1>5 DEF IInv

\* An interruption empties the queue.
LEMMA InterruptStep ==
  ASSUME IInv, InterruptPlayback
  PROVE  IInv'
<1>0. /\ client = "idle" /\ client' = "stop" /\ interrupted' = TRUE
      /\ interrupts' = interrupts + 1 /\ queue' = <<>>
      /\ lost' = lost \cup Elements(queue)
      /\ UNCHANGED <<burst, hand, player, speaking, heard, returned, discarded, greeted,
                     turn, sent, barged>>
      /\ Held' = Held
  BY DEF InterruptPlayback, ClientOnly, playerVars, Held
<1>1. Elements(queue') = {} /\ Rising(returned, queue') /\ queue' \in Seq(Chunks)
      /\ Len(queue') = 0
  BY <1>0, NoLine
<1>2. Elements(queue) \subseteq Chunks
  BY Facts DEF Elements
<1>3. TypeOK'
  <2>1. interrupts' \in Nat /\ Len(queue') <= QueueSize
    BY <1>0, <1>1 DEF IInv, TypeOK
  <2> QED
    BY <1>0, <1>1, <1>2, <2>1 DEF IInv, TypeOK
<1>4. TurnInv' /\ WindowInv'
  BY <1>0 DEF IInv, TurnInv, WindowInv
<1>5. DebtInv'
  BY <1>0 DEF IInv, TypeOK, DebtInv
<1>6. LineInv'
  BY <1>0, <1>1, AheadSets DEF IInv, LineInv
<1>7. PutInv'
  BY <1>0, <1>1 DEF IInv, PutInv
<1> QED
  BY <1>3, <1>4, <1>5, <1>6, <1>7 DEF IInv

-----------------------------------------------------------------------------

LEMMA InitInv == Init => IInv
<1> SUFFICES ASSUME Init PROVE IInv
  OBVIOUS
<1> USE DEF Init
<1>1. /\ Elements(heard) = {} /\ Elements(burst) = {} /\ Elements(queue) = {}
      /\ Held = {} /\ Rising(returned, heard) /\ Rising(returned, burst) /\ Rising(returned, queue)
  BY NoLine DEF Held
<1>2. TypeOK
  <2>1. <<>> \in Seq(Chunks) /\ Len(<<>>) = 0 /\ DOMAIN <<>> = {}
    OBVIOUS
  <2>2. turn \in 1..MaxTurn + 1 /\ sent \in 0..MaxChunks /\ 0 <= QueueSize
    OBVIOUS
  <2> QED
    BY <2>1, <2>2 DEF TypeOK
<1>3. TurnInv /\ WindowInv /\ DebtInv
  BY DEF TurnInv, WindowInv, DebtInv
<1>4. LineInv /\ PutInv
  BY <1>1, AheadSets DEF LineInv, PutInv
<1> QED
  BY <1>2, <1>3, <1>4 DEF IInv

LEMMA NextInv ==
  ASSUME IInv, [Next]_vars
  PROVE  IInv'
<1>1. CASE PlayerStep
  BY <1>1, GetChunkStep, WaitStep, TimedGetStep, MergeStep, PutBackStep,
     PlayOrDropStep, EndBurstStep DEF PlayerStep
<1>2. CASE ClientStep
  BY <1>2, ReceiveChunkStep, WaitsStep, NextTurnStep, InterruptStep DEF ClientStep
<1>3. CASE QueueLocalWelcome
  BY <1>3, GreetingStep
<1>4. CASE UNCHANGED vars
  <2>0. UNCHANGED <<queue, burst, hand, player, speaking, interrupted, client, turn,
                    sent, barged, greeted, heard, lost, returned, discarded, interrupts>>
    BY <1>4 DEF vars, playerVars, clientVars
  <2>1. TypeOK' /\ TurnInv' /\ WindowInv' /\ DebtInv'
    BY <2>0 DEF IInv, TypeOK, TurnInv, WindowInv, DebtInv
  <2> QED
    BY <2>0, <2>1, SameLine DEF IInv
<1> QED
  BY <1>1, <1>2, <1>3, <1>4 DEF Next

\* The invariant holds throughout.
THEOREM Invariance == Spec => []IInv
<1>1. Init => IInv
  BY InitInv
<1>2. IInv /\ [Next]_vars => IInv'
  BY NextInv
<1> QED
  BY <1>1, <1>2, PTL DEF Spec

\* The variables keep their types, the queue its capacity, and a burst with
\* a WAV chunk is that chunk alone.
THEOREM TypeCorrect == Spec => []TypeOK
<1>1. IInv => TypeOK
  BY DEF IInv
<1> QED
  BY <1>1, Invariance, PTL

\* The flag that interrupt() leaves drops at most one burst.
THEOREM OneBurstDropped == Spec => []OneBurstPerInterruption
<1>1. IInv => OneBurstPerInterruption
  BY DEF IInv, TypeOK, DebtInv, OneBurstPerInterruption
<1> QED
  BY <1>1, Invariance, PTL

-----------------------------------------------------------------------------
\* What was put back has met a burst of another format, and what was in a
\* burst is played or dropped with it.

MisfitInv == \A c \in returned : Misfit(c)

Met == Elements(burst) \cup Settled

\* Chunks leave a burst only for what was heard or lost.
LEMMA MetStays ==
  ASSUME IInv, [Next]_vars
  PROVE  Met \subseteq Met'
<1>1. CASE GetChunk
  <2>1. Elements(burst) = {} /\ heard' = heard /\ lost' = lost
    BY <1>1, NoLine DEF GetChunk, IInv, TypeOK
  <2> QED
    BY <2>1 DEF Met, Settled
<1>2. CASE Merge
  <2>1. /\ hand \in Chunks /\ Held = {hand} /\ AllAhead(returned, Elements(burst), {hand})
        /\ heard' = heard /\ lost' = lost /\ burst' = Append(burst, hand)
    BY <1>2 DEF Merge, IInv, TypeOK, LineInv, Held
  <2>2. Elements(burst') = Elements(burst) \cup {hand}
    BY <2>1, Facts, AppendLine
  <2> QED
    BY <2>1, <2>2 DEF Met, Settled
<1>3. CASE Begin \/ Started
  BY <1>3 DEF Begin, Started, PlayOrDrop, Met, Settled
<1>4. CASE EndBurst
  <2>1. \/ heard' = heard \o burst /\ lost' = lost
        \/ lost' = lost \cup Elements(burst) /\ heard' = heard
    BY <1>4 DEF EndBurst
  <2>2. Elements(heard \o burst) = Elements(heard) \cup Elements(burst)
    BY Facts, ConcatLine DEF IInv, LineInv
  <2> QED
    BY <2>1, <2>2 DEF Met, Settled
<1>5. ASSUME UNCHANGED <<burst, heard>>, lost \subseteq lost'
      PROVE  Met \subseteq Met'
  BY <1>5 DEF Met, Settled
<1>6. CASE WaitForChunk \/ TimedGet \/ PutBack \/ WindowEnds
  BY <1>5, <1>6 DEF WaitForChunk, TimedGet, PutBack, WindowEnds
<1>7. CASE ClientStep \/ QueueLocalWelcome
  <2>1. UNCHANGED <<burst, heard>>
    BY <1>7 DEF ClientStep, QueueLocalWelcome, ClientOnly, playerVars, ReceiveChunk,
           ExchangeEnds, ExchangeFails, PlaybackStartSeen, PlaybackIdleSeen,
           InterruptPlayback, PlaybackStopped
  <2>2. lost \subseteq lost'
    BY <1>7 DEF ClientStep, QueueLocalWelcome, ReceiveChunk, ExchangeEnds,
           ExchangeFails, PlaybackStartSeen, PlaybackIdleSeen, InterruptPlayback,
           PlaybackStopped
  <2> QED
    BY <1>5, <2>1, <2>2
<1>8. CASE UNCHANGED vars
  BY <1>5, <1>8 DEF vars, playerVars
<1> QED
  BY <1>1, <1>2, <1>3, <1>4, <1>6, <1>7, <1>8 DEF Next, PlayerStep

\* The chunk in hand is put back because of the first chunk of the burst.
LEMMA MisfitStep ==
  ASSUME IInv, MisfitInv, [Next]_vars
  PROVE  MisfitInv'
<1>1. ASSUME NEW c \in returned' PROVE Misfit(c)'
  <2>1. CASE c \in returned
    <3>1. PICK e \in Met : ~Wav(e) /\ e[3] # c[3]
      BY <2>1 DEF MisfitInv, Misfit, Met
    <3>2. e \in Met'
      BY <3>1, MetStays
    <3> QED
      BY <1>1, <3>1, <3>2 DEF Misfit, Met
  <2>2. CASE c \notin returned
    <3>1. PutBack /\ c = hand
      BY <1>1, <2>2 DEF Next, PlayerStep, GetChunk, WaitForChunk, TimedGet, Merge,
         PutBack, WindowEnds, Begin, Started, EndBurst, ClientStep, QueueLocalWelcome,
         ClientOnly, playerVars, ReceiveChunk, ExchangeEnds, ExchangeFails,
         PlaybackStartSeen, PlaybackIdleSeen, InterruptPlayback, PlaybackStopped, vars
    <3>2. burst # <<>> /\ ~Wav(burst[1])
      BY <3>1 DEF PutBack, IInv, TypeOK, WindowInv
    <3>3. Head(burst) = burst[1] /\ 1 \in DOMAIN burst
      BY <3>2, Facts
    <3>4. burst[1][3] # hand[3]
      BY <3>1, <3>2, <3>3 DEF PutBack, Compatible, Wav
    <3>5. burst[1] \in Elements(burst')
      BY <3>1, <3>3 DEF PutBack, Elements
    <3> QED
      BY <1>1, <3>1, <3>2, <3>4, <3>5 DEF Misfit
  <2> QED
    BY <2>1, <2>2
<1> QED
  BY <1>1 DEF MisfitInv

LEMMA MisfitInvariance == Spec => []MisfitInv
<1>1. Init => MisfitInv
  BY DEF Init, MisfitInv
<1>2. IInv /\ MisfitInv /\ [Next]_vars => MisfitInv'
  BY MisfitStep
<1> QED
  BY <1>1, <1>2, Invariance, PTL DEF Spec

\* Whatever the timed get of _collect_burst puts back, of two chunks of
\* answers the one that the server sent first is heard first, unless the
\* second one was put back, which takes a burst of another format.
THEOREM HeardInLine == Spec => []AnswersInOrder
<1>1. IInv /\ MisfitInv => AnswersInOrder
  <2> SUFFICES ASSUME IInv, MisfitInv, NEW i \in DOMAIN heard, NEW j \in DOMAIN heard,
                      i < j, heard[i] \in Answers, heard[j] \in Answers
               PROVE  Precedes(heard[i], heard[j]) \/ Misfit(heard[j])
    BY DEF AnswersInOrder
  <2>1. Ahead(returned, heard[i], heard[j])
    BY DEF IInv, LineInv, Rising
  <2>2. heard[j] # Greeting
    BY DEF Answers, Greeting
  <2> QED
    BY <2>1, <2>2 DEF Ahead, MisfitInv
<1> QED
  BY <1>1, Invariance, MisfitInvariance, PTL

\* With a TTS service that always answers in one format, WAV or not, the
\* answers are heard in the order of the server.
THEOREM OneFormatInOrder ==
  ASSUME \A f, g \in Formats : f = g
  PROVE  Spec => [](\A i, j \in DOMAIN heard :
                      i < j /\ heard[i] \in Answers /\ heard[j] \in Answers =>
                        Precedes(heard[i], heard[j]))
<1> DEFINE InOrder == \A i, j \in DOMAIN heard :
             i < j /\ heard[i] \in Answers /\ heard[j] \in Answers =>
               Precedes(heard[i], heard[j])
<1>1. IInv /\ AnswersInOrder => InOrder
  <2> SUFFICES ASSUME IInv, NEW c \in Answers, Misfit(c) PROVE FALSE
    BY DEF AnswersInOrder
  <2>1. PICK e \in Elements(burst) \cup Settled : ~Wav(e) /\ e[3] # c[3]
    BY DEF Misfit
  <2>2. e \in Chunks
    BY Facts DEF Settled, Elements, IInv, TypeOK
  <2>3. e[3] \in Formats /\ c[3] \in Formats
    BY <2>1, <2>2 DEF Chunks, Answers, Greeting, Wav
  <2> QED
    BY <2>1, <2>3
<1> QED
  BY <1>1, Invariance, HeardInLine, PTL

-----------------------------------------------------------------------------
\* What the client waits for: the chunks of its answer are somewhere, and
\* once an idle robot is waited for, they are settled.

Answered(S) == \A n \in 1..sent : \E f \in Formats : <<turn, n, f>> \in S

Known == Everything \cup lost

WaitInv ==
  /\ client # "done" => Answered(Known)
  /\ client = "idle" /\ ~barged /\ ~speaking => Answered(Settled)

\* The worker loses sight of no chunk, and what is settled stays so.
LEMMA WorkerKeeps ==
  ASSUME IInv, PlayerStep
  PROVE  Known \subseteq Known' /\ Settled \subseteq Settled'
<1>1. CASE GetChunk
  <2>1. /\ Elements(queue) = Elements(queue') \cup {Head(queue)}
        /\ Elements(burst') = {Head(queue)} /\ burst = <<>> /\ hand' = hand
        /\ heard' = heard /\ lost' = lost
    BY <1>1, QueueTaken, OneLine DEF GetChunk, IInv, TypeOK
  <2> QED
    BY <2>1, NoLine DEF Known, Everything, Held, Settled
<1>2. CASE WaitForChunk \/ WindowEnds
  BY <1>2 DEF WaitForChunk, WindowEnds, Known, Everything, Held, Settled
<1>3. CASE TimedGet
  <2>1. /\ Elements(queue) = Elements(queue') \cup {Head(queue)} /\ Head(queue) \in Chunks
        /\ hand = Nothing /\ hand' = Head(queue)
        /\ burst' = burst /\ heard' = heard /\ lost' = lost
    BY <1>3, QueueTaken DEF TimedGet, IInv, TypeOK
  <2>2. Held' = {Head(queue)} /\ Held = {}
    BY <2>1, NothingAssumption DEF Held
  <2> QED
    BY <2>1, <2>2 DEF Known, Everything, Settled
<1>4. CASE Merge
  <2>1. /\ hand \in Chunks /\ Held = {hand} /\ AllAhead(returned, Elements(burst), {hand})
        /\ queue' = queue /\ heard' = heard /\ lost' = lost
    BY <1>4 DEF Merge, IInv, TypeOK, LineInv, Held
  <2>2. Elements(burst') = Elements(burst) \cup {hand}
    BY <1>4, <2>1, Facts, AppendLine DEF Merge
  <2> QED
    BY <2>1, <2>2 DEF Known, Everything, Settled
<1>5. CASE PutBack
  <2>1. /\ burst' = burst /\ heard' = heard /\ lost' = lost /\ Held \subseteq {hand}
        /\ hand \in Chunks
    BY <1>5 DEF PutBack, Held, IInv, TypeOK
  <2>2. CASE queue' = queue /\ hand' = hand
    BY <2>1, <2>2 DEF Known, Everything, Held, Settled
  <2>3. CASE queue' = Append(queue, hand)
    <3>1. \A i \in 1..Len(queue) :
            i \in DOMAIN queue' /\ queue'[i] = queue[i]
      BY <2>1, <2>3, Facts
    <3>2. Len(queue) + 1 \in DOMAIN queue' /\ queue'[Len(queue) + 1] = hand
      BY <2>1, <2>3, Facts
    <3>3. DOMAIN queue = 1..Len(queue)
      BY Facts
    <3>4. Elements(queue) \cup {hand} \subseteq Elements(queue')
      BY <3>1, <3>2, <3>3 DEF Elements
    <3> QED
      BY <2>1, <3>4 DEF Known, Everything, Settled
  <2> QED
    BY <1>5, <2>2, <2>3 DEF PutBack
<1>6. CASE Begin \/ Started
  <2>1. /\ queue' = queue /\ hand' = hand /\ heard' = heard
        /\ \/ UNCHANGED <<burst, lost>>
           \/ lost' = lost \cup Elements(burst)
    BY <1>6 DEF Begin, Started, PlayOrDrop
  <2> QED
    BY <2>1 DEF Known, Everything, Held, Settled
<1>7. CASE EndBurst
  <2>1. /\ queue' = queue /\ hand' = hand
        /\ \/ heard' = heard \o burst /\ lost' = lost
           \/ lost' = lost \cup Elements(burst) /\ heard' = heard
    BY <1>7 DEF EndBurst
  <2>2. Elements(heard \o burst) = Elements(heard) \cup Elements(burst)
    BY Facts, ConcatLine DEF IInv, LineInv
  <2> QED
    BY <2>1, <2>2 DEF Known, Everything, Held, Settled
<1> QED
  BY <1>1, <1>2, <1>3, <1>4, <1>5, <1>6, <1>7 DEF PlayerStep

\* The client and the greeting lose sight of none either.
LEMMA ClientKeeps ==
  ASSUME IInv, ClientStep \/ QueueLocalWelcome
  PROVE  Known \subseteq Known' /\ Settled \subseteq Settled'
<1>0. UNCHANGED <<burst, hand, heard>>
  BY DEF ClientStep, QueueLocalWelcome, ClientOnly, playerVars, ReceiveChunk,
         ExchangeEnds, ExchangeFails, PlaybackStartSeen, PlaybackIdleSeen,
         InterruptPlayback, PlaybackStopped
<1>1. Held' = Held /\ Elements(burst') = Elements(burst)
      /\ Elements(heard') = Elements(heard)
  BY <1>0 DEF Held
<1>2. CASE UNCHANGED <<queue, lost>>
  BY <1>1, <1>2 DEF Known, Everything, Settled
<1>3. ASSUME NEW c \in Chunks, queue' = Append(queue, c), lost' = lost
      PROVE  Known \subseteq Known' /\ Settled \subseteq Settled'
  <2>1. \A i \in DOMAIN queue : i \in DOMAIN queue' /\ queue'[i] = queue[i]
    BY <1>3, Facts
  <2>2. Elements(queue) \subseteq Elements(queue')
    BY <2>1 DEF Elements
  <2> QED
    BY <1>1, <1>3, <2>2 DEF Known, Everything, Settled
<1>4. CASE lost' = lost \cup Elements(queue)
  BY <1>1, <1>4 DEF Known, Everything, Settled
<1>5. CASE ReceiveChunk
  <2>1. turn \in 1..MaxTurn /\ sent + 1 \in 1..MaxChunks
    BY <1>5 DEF ReceiveChunk, IInv, TypeOK, TurnInv
  <2>2. PICK f \in Formats : queue' = Append(queue, <<turn, sent + 1, f>>)
    BY <1>5 DEF ReceiveChunk, Put
  <2>3. <<turn, sent + 1, f>> \in Chunks
    BY <2>1 DEF Chunks, Answers
  <2>4. lost' = lost
    BY <1>5 DEF ReceiveChunk
  <2> QED
    BY <1>3, <2>2, <2>3, <2>4
<1>6. CASE QueueLocalWelcome
  BY <1>3, <1>6, ChunkParts DEF QueueLocalWelcome, Put
<1>7. CASE InterruptPlayback
  BY <1>4, <1>7 DEF InterruptPlayback
<1>8. CASE ExchangeEnds \/ ExchangeFails \/ PlaybackStartSeen \/ PlaybackIdleSeen
           \/ PlaybackStopped
  BY <1>2, <1>8 DEF ExchangeEnds, ExchangeFails, PlaybackStartSeen, PlaybackIdleSeen,
                    PlaybackStopped
<1> QED
  BY <1>5, <1>6, <1>7, <1>8 DEF ClientStep

\* The worker turns the robot idle when a burst has ended and nothing waits,
\* so nothing of the answer is left anywhere else.
LEMMA WorkerWait ==
  ASSUME IInv, WaitInv, PlayerStep
  PROVE  WaitInv'
<1>1. UNCHANGED <<client, turn, sent, barged>>
  BY DEF PlayerStep, clientVars
<1>2. client # "done" => Answered(Known)'
  BY <1>1, WorkerKeeps DEF WaitInv, Answered
<1>3. ASSUME client = "idle", ~barged, ~speaking'
      PROVE  Answered(Settled)'
  <2>1. CASE ~speaking
    BY <1>1, <1>3, <2>1, WorkerKeeps DEF WaitInv, Answered
  <2>2. CASE speaking
    <3>1. EndBurst
      BY <1>3, <2>2 DEF PlayerStep, GetChunk, WaitForChunk, TimedGet, Merge, PutBack,
                        WindowEnds, Begin, Started
    <3>2. /\ burst' = <<>> /\ queue' = <<>> /\ hand' = Nothing
      BY <1>3, <3>1 DEF EndBurst, IInv, TypeOK
    <3>3. Known' = Settled'
      BY <3>2, NoLine DEF Known, Everything, Held, Settled
    <3> QED
      BY <1>2, <1>3, <3>3
  <2> QED
    BY <2>1, <2>2 DEF IInv, TypeOK
<1> QED
  BY <1>1, <1>2, <1>3 DEF WaitInv

\* An answer that is played to its end is waited for from a moment at which
\* the robot speaks, or at which nothing of it is left to play.
LEMMA ClientWait ==
  ASSUME IInv, WaitInv, ClientStep \/ QueueLocalWelcome
  PROVE  WaitInv'
<1>0. UNCHANGED <<burst, hand, heard, player, speaking>>
  BY DEF ClientStep, QueueLocalWelcome, ClientOnly, playerVars, ReceiveChunk,
         ExchangeEnds, ExchangeFails, PlaybackStartSeen, PlaybackIdleSeen,
         InterruptPlayback, PlaybackStopped
<1>1. CASE ReceiveChunk
  <2>0. /\ client = "receive" /\ client' = client /\ turn' = turn /\ sent' = sent + 1
    BY <1>1 DEF ReceiveChunk
  <2>9. PICK f \in Formats : queue' = Append(queue, <<turn, sent + 1, f>>)
    BY <1>1 DEF ReceiveChunk, Put
  <2>1. sent \in Nat /\ queue \in Seq(Chunks) /\ turn \in 1..MaxTurn
        /\ sent + 1 \in 1..MaxChunks
    BY <1>1, Facts DEF ReceiveChunk, IInv, TypeOK, TurnInv
  <2>2. <<turn, sent + 1, f>> \in Chunks
    BY <2>1 DEF Chunks, Answers
  <2> DEFINE c == <<turn, sent + 1, f>>
  <2>3. c \in Elements(queue')
    <3> HIDE DEF c
    <3>1. Len(queue) + 1 \in DOMAIN queue' /\ queue'[Len(queue) + 1] = c
      BY <2>9, <2>1, <2>2 DEF c
    <3> QED
      BY <3>1 DEF Elements
  <2>4. ASSUME NEW n \in 1..sent'
        PROVE  \E g \in Formats : <<turn', n, g>> \in Known'
    <3>1. CASE n = sent + 1
      <4>1. <<turn', n, f>> \in Known'
        BY <2>0, <2>3, <3>1 DEF Known, Everything
      <4> QED
        BY <4>1
    <3>2. CASE n # sent + 1
      <4>1. n \in 1..sent
        BY <2>0, <2>1, <3>2
      <4> QED
        BY <1>1, <2>0, <4>1, ClientKeeps DEF WaitInv, Answered, ClientStep
    <3> QED
      BY <3>1, <3>2
  <2> QED
    BY <2>0, <2>4 DEF WaitInv, Answered
<1>2. CASE QueueLocalWelcome \/ InterruptPlayback
  <2>1. /\ UNCHANGED <<turn, sent, barged>>
        /\ \/ client' = client
           \/ client = "idle" /\ client' = "stop"
    BY <1>2 DEF QueueLocalWelcome, clientVars, InterruptPlayback
  <2> QED
    BY <1>0, <1>2, <2>1, ClientKeeps DEF WaitInv, Answered, ClientStep
<1>3. CASE ExchangeEnds
  <2>1. /\ UNCHANGED <<turn, sent, barged>> /\ client # "done"
        /\ client' = "idle" => sent = 0 \/ barged
    BY <1>3, Facts DEF ExchangeEnds
  <2>2. sent = 0 => Answered(Settled)'
    BY <2>1 DEF Answered
  <2> QED
    BY <1>3, <2>1, <2>2, ClientKeeps DEF WaitInv, Answered, ClientStep
<1>4. CASE PlaybackStartSeen
  <2>1. /\ UNCHANGED <<turn, sent, barged, speaking>> /\ client # "done"
        /\ speaking \/ (player = "get" /\ queue = <<>>)
    BY <1>0, <1>4 DEF PlaybackStartSeen
  <2>2. Answered(Known)'
    BY <1>4, <2>1, ClientKeeps DEF WaitInv, Answered, ClientStep
  <2>3. CASE speaking
    BY <2>1, <2>2, <2>3 DEF WaitInv
  <2>4. CASE player = "get" /\ queue = <<>>
    <3>1. burst' = <<>> /\ hand' = Nothing /\ queue' = <<>>
      BY <1>0, <1>4, <2>4 DEF PlaybackStartSeen, IInv, TypeOK
    <3>2. Known' = Settled'
      BY <3>1, NoLine DEF Known, Everything, Held, Settled
    <3> QED
      BY <2>2, <3>2 DEF WaitInv
  <2> QED
    BY <2>1, <2>3, <2>4
<1>5. CASE ExchangeFails \/ PlaybackIdleSeen \/ PlaybackStopped
  <2>1. sent' = 0 /\ client' # "idle"
    BY <1>5 DEF ExchangeFails, PlaybackIdleSeen, PlaybackStopped, NextTurn
  <2> QED
    BY <2>1 DEF WaitInv, Answered
<1> QED
  BY <1>1, <1>2, <1>3, <1>4, <1>5 DEF ClientStep

\* Both parts hold throughout.
LEMMA WaitInvariance == Spec => []WaitInv
<1>1. Init => WaitInv
  BY DEF Init, WaitInv, Answered
<1>2. IInv /\ WaitInv /\ [Next]_vars => WaitInv'
  <2> SUFFICES ASSUME IInv, WaitInv, [Next]_vars PROVE WaitInv'
    OBVIOUS
  <2>1. CASE UNCHANGED vars
    BY <2>1 DEF vars, playerVars, clientVars, WaitInv, Answered, Known, Everything, Held,
                Settled
  <2> QED
    BY <2>1, WorkerWait, ClientWait DEF Next
<1> QED
  BY <1>1, <1>2, Invariance, PTL DEF Spec

\* The client that goes on after an idle robot has had its answer played, or
\* dropped in the sight of everybody: no chunk of it is still in the queue,
\* in the window or in the hand of the timed get.
THEOREM WaitedForTheAnswer == Spec => AnswerWasPlayed
<1>1. WaitInv => (PlaybackIdleSeen /\ ~barged =>
                    \A n \in 1..sent :
                      \E f \in Formats : <<turn, n, f>> \in Settled)
  BY DEF WaitInv, Answered, PlaybackIdleSeen
<1> QED
  BY <1>1, WaitInvariance, PTL DEF AnswerWasPlayed
=============================================================================
