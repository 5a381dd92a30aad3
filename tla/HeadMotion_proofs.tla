--------------------------- MODULE HeadMotion_proofs ---------------------------
(***************************************************************************)
(* Theorems about HeadMotion, for any axes, limits and lengths of actions. *)
(***************************************************************************)
EXTENDS HeadMotion, SequenceTheorems, TLAPS

Positions == {p \in [Axes -> Nat] : \A a \in Axes : p[a] \in Angles(a)}

Moves ==
  UNION {{m \in [S -> Nat] : \A a \in S : m[a] \in Angles(a)} : S \in SUBSET Axes}

Jobs ==
  [kind : {"move", "wave", "halt", "none"}, moves : Moves, target : Positions,
   forced : BOOLEAN]

Gimbals ==
  [position : Positions, holder : Clients \cup {"none"}, waiters : Seq(Clients),
   phase : [Clients -> {"idle", "waiting", "writing", "reading"}],
   job : [Clients -> Jobs]]

USE GimbalAssumption, HeadAssumption

-----------------------------------------------------------------------------
\* Commands

LEMMA LimitIsAngle ==
  ASSUME NEW a \in Axes, NEW angle \in Int
  PROVE  Limit(a, angle) \in Angles(a) /\ Limit(a, angle) \in Nat
  BY DEF Limit, Angles

LEMMA PhysicalIsAngle ==
  ASSUME NEW a \in Axes, NEW angle \in Angles(a)
  PROVE  Physical(a, angle) \in Angles(a) /\ Physical(a, angle) \in Nat
  BY DEF Physical, Angles

LEMMA NeutralIsPosition == Neutral \in Positions
  BY DEF Positions, Angles

LEMMA MoveToIsJob ==
  ASSUME NEW position, NEW aim \in [Axes -> Int], NEW forced \in BOOLEAN
  PROVE  MoveTo(position, aim, forced) \in Jobs
<1> DEFINE target == [a \in Axes |-> Limit(a, aim[a])]
           moved == {a \in Axes : forced \/ target[a] # position[a]}
           moves == [a \in moved |-> Physical(a, target[a])]
<1>1. target \in Positions
  BY LimitIsAngle DEF Positions
<1>2. \A a \in Axes : target[a] \in Angles(a)
  BY LimitIsAngle
<1>3. moved \in SUBSET Axes
  OBVIOUS
<1> HIDE DEF target, moved
<1>4. /\ moves \in [moved -> Nat]
      /\ \A a \in moved : moves[a] \in Angles(a)
  BY <1>2, <1>3, PhysicalIsAngle
<1>5. moves \in Moves
  BY <1>3, <1>4 DEF Moves
<1>6. MoveTo(position, aim, forced) =
        [kind |-> "move", moves |-> moves, target |-> target, forced |-> forced]
  BY DEF MoveTo, Move, target, moved
<1> HIDE DEF moves
<1> QED
  BY <1>1, <1>5, <1>6 DEF Jobs

LEMMA OtherIsJob ==
  ASSUME NEW kind \in {"wave", "halt", "none"}
  PROVE  Other(kind) \in Jobs
<1>1. <<>> \in [{} -> Nat]
  OBVIOUS
<1>2. <<>> \in Moves
  <2> DEFINE none == <<>>
  <2>1. none \in [{} -> Nat]
    BY <1>1
  <2> HIDE DEF none
  <2>2. none \in {m \in [{} -> Nat] : \A a \in {} : m[a] \in Angles(a)}
    BY <2>1
  <2>3. none \in Moves
    <3> DEFINE parts(S) == {m \in [S -> Nat] : \A a \in S : m[a] \in Angles(a)}
    <3>1. {} \in SUBSET Axes /\ none \in parts({})
      BY <2>2
    <3>2. Moves = UNION {parts(S) : S \in SUBSET Axes}
      BY DEF Moves
    <3> HIDE DEF parts
    <3> QED
      BY <3>1, <3>2
  <2> QED
    BY <2>3 DEF none
<1>3. Other(kind) = [kind |-> kind, moves |-> <<>>, target |-> Neutral,
                     forced |-> FALSE]
  BY DEF Other
<1> QED
  BY <1>2, <1>3, NeutralIsPosition DEF Jobs

-----------------------------------------------------------------------------
\* The lock

LEMMA RemoveAtProperties ==
  ASSUME NEW S, NEW s \in Seq(S), NEW k \in 1..Len(s)
  PROVE  /\ RemoveAt(s, k) \in Seq(S)
         /\ Len(RemoveAt(s, k)) = Len(s) - 1
         /\ \A i \in 1..(Len(s) - 1) :
              RemoveAt(s, k)[i] = IF i < k THEN s[i] ELSE s[i + 1]
<1> DEFINE p == SubSeq(s, 1, k - 1)
           q == SubSeq(s, k + 1, Len(s))
<1>1. p \in Seq(S) /\ Len(p) = k - 1 /\ \A i \in 1..(k - 1) : p[i] = s[i]
  BY SubSeqProperties
<1>2. /\ q \in Seq(S) /\ Len(q) = Len(s) - k
      /\ \A i \in 1..(Len(s) - k) : q[i] = s[k + i]
  BY SubSeqProperties
<1>3. RemoveAt(s, k) = p \o q
  BY DEF RemoveAt
<1> HIDE DEF p, q
<1>4. /\ p \o q \in Seq(S)
      /\ Len(p \o q) = Len(p) + Len(q)
      /\ \A i \in 1 .. Len(p) + Len(q) :
           (p \o q)[i] = IF i <= Len(p) THEN p[i] ELSE q[i - Len(p)]
  BY ONLY <1>1, <1>2, ConcatProperties, Zenon
<1>5. ASSUME NEW i \in 1..(Len(s) - 1)
      PROVE  (p \o q)[i] = IF i < k THEN s[i] ELSE s[i + 1]
  <2>0. k \in Nat /\ i \in Nat /\ Len(s) \in Nat /\ k >= 1 /\ i >= 1 /\ i < Len(s)
    BY ONLY s \in Seq(S), k \in 1..Len(s), i \in 1..(Len(s) - 1)
  <2>1. CASE i < k
    <3>1. i \in 1 .. Len(p) + Len(q) /\ i <= Len(p) /\ i \in 1..(k - 1)
      BY ONLY <2>0, <2>1, <1>1, <1>2
    <3>2. (p \o q)[i] = p[i]
      BY ONLY <1>4, <3>1
    <3>3. p[i] = s[i]
      BY ONLY <1>1, <3>1
    <3> QED
      BY ONLY <2>1, <3>2, <3>3
  <2>2. CASE ~(i < k)
    <3>1. /\ i - Len(p) \in 1..(Len(s) - k) /\ k + (i - Len(p)) = i + 1
          /\ i \in 1 .. Len(p) + Len(q) /\ ~(i <= Len(p)) /\ ~(i < k)
      BY ONLY <2>0, <2>2, <1>1, <1>2
    <3>2. (p \o q)[i] = q[i - Len(p)]
      BY <1>4, <3>1
    <3>3. q[i - Len(p)] = s[k + (i - Len(p))]
      BY <1>2, <3>1
    <3> QED
      BY <3>1, <3>2, <3>3
  <2> QED
    BY <2>1, <2>2
<1>6. Len(p) + Len(q) = Len(s) - 1
  BY <1>1, <1>2
<1> QED
  BY <1>3, <1>4, <1>5, <1>6

LEMMA ParkedIsSound == Parked \in Gimbals /\ IsSound(Parked)
<1>1. Parked \in Gimbals
  <2>1. Other("none") \in Jobs
    BY OtherIsJob
  <2> QED
    BY <2>1, NeutralIsPosition DEF Parked, Gimbals
<1>2. IsSound(Parked)
  BY DEF Parked, IsSound, Clients
<1> QED
  BY <1>1, <1>2

LEMMA AskSound ==
  ASSUME NEW g \in Gimbals, IsSound(g), NEW c \in Clients,
         g.phase[c] = "idle", NEW command \in Jobs
  PROVE  /\ Ask(g, c, command) \in Gimbals /\ IsSound(Ask(g, c, command))
         /\ Ask(g, c, command).phase[c] # "idle"
         /\ \A d \in Clients \ {c} : Ask(g, c, command).phase[d] = g.phase[d]
<1> DEFINE r == Ask(g, c, command)
<1>1. CASE g.holder = "none"
  <2>1. r = [g EXCEPT !.holder = c, !.phase[c] = "writing", !.job[c] = command]
    BY <1>1 DEF Ask
  <2>2. /\ r \in Gimbals /\ r.holder = c /\ r.waiters = g.waiters
        /\ r.phase = [g.phase EXCEPT ![c] = "writing"]
    <3> DEFINE phase == [g.phase EXCEPT ![c] = "writing"]
               job == [g.job EXCEPT ![c] = command]
    <3>1. /\ phase \in [Clients -> {"idle", "waiting", "writing", "reading"}]
          /\ job \in [Clients -> Jobs]
      BY DEF Gimbals
    <3>2. r = [g EXCEPT !.holder = c, !.phase = phase, !.job = job]
      BY <2>1 DEF Gimbals
    <3> HIDE DEF phase, job
    <3>3. r \in Gimbals /\ r.holder = c /\ r.waiters = g.waiters /\ r.phase = phase
      BY <3>1, <3>2 DEF Gimbals
    <3> QED
      BY <3>3 DEF phase
  <2>3. \A d \in Clients : g.phase[d] \notin {"writing", "reading"}
    BY <1>1 DEF IsSound, Clients
  <2>4. g.waiters = <<>> /\ Len(g.waiters) = 0
    BY <1>1 DEF IsSound
  <2>5. \A d \in Clients : g.phase[d] # "waiting"
    BY <2>4 DEF IsSound
  <2> HIDE DEF r
  <2>6. /\ r.phase[c] = "writing"
        /\ \A d \in Clients \ {c} : r.phase[d] = g.phase[d]
    BY <2>2 DEF Gimbals
  <2>7. IsSound(r)
    BY <2>2, <2>3, <2>4, <2>5, <2>6 DEF IsSound, Clients
  <2> QED
    BY <2>2, <2>6, <2>7 DEF r
<1>2. CASE g.holder # "none"
  <2>1. r = [g EXCEPT !.waiters = Append(@, c), !.phase[c] = "waiting",
                      !.job[c] = command]
    BY <1>2 DEF Ask
  <2>2. /\ r \in Gimbals /\ r.holder = g.holder
        /\ r.waiters = Append(g.waiters, c)
        /\ r.phase = [g.phase EXCEPT ![c] = "waiting"]
    <3> DEFINE phase == [g.phase EXCEPT ![c] = "waiting"]
               job == [g.job EXCEPT ![c] = command]
               waiters == Append(g.waiters, c)
    <3>1. /\ phase \in [Clients -> {"idle", "waiting", "writing", "reading"}]
          /\ job \in [Clients -> Jobs] /\ waiters \in Seq(Clients)
      BY DEF Gimbals
    <3>2. r = [g EXCEPT !.waiters = waiters, !.phase = phase, !.job = job]
      BY <2>1 DEF Gimbals
    <3> HIDE DEF phase, job, waiters
    <3>3. /\ r \in Gimbals /\ r.holder = g.holder /\ r.waiters = waiters
          /\ r.phase = phase
      BY <3>1, <3>2 DEF Gimbals
    <3> QED
      BY <3>3 DEF phase, waiters
  <2>3. /\ g.waiters \in Seq(Clients)
        /\ \A k \in 1..Len(g.waiters) : g.waiters[k] # c
    BY DEF Gimbals, IsSound
  <2> HIDE DEF r
  <2>4. /\ r.phase[c] = "waiting"
        /\ \A d \in Clients \ {c} : r.phase[d] = g.phase[d]
    BY <2>2 DEF Gimbals
  <2>5. /\ Len(r.waiters) = Len(g.waiters) + 1
        /\ r.waiters[Len(g.waiters) + 1] = c
        /\ \A k \in 1..Len(g.waiters) : r.waiters[k] = g.waiters[k]
        /\ Len(g.waiters) \in Nat
    BY <2>2, <2>3
  <2>6. \A d \in Clients :
          r.phase[d] \in {"writing", "reading"} <=> r.holder = d
    <3>1. g.holder # c
      BY DEF IsSound
    <3> QED
      BY <2>2, <2>4, <3>1 DEF IsSound
  <2>7. \A d \in Clients :
          r.phase[d] = "waiting" <=> (\E k \in 1..Len(r.waiters) : r.waiters[k] = d)
    <3> SUFFICES ASSUME NEW d \in Clients
                 PROVE  r.phase[d] = "waiting" <=>
                          (\E k \in 1..Len(r.waiters) : r.waiters[k] = d)
      OBVIOUS
    <3>1. CASE d = c
      <4>1. Len(g.waiters) + 1 \in 1..Len(r.waiters)
        BY <2>5
      <4> QED
        BY <2>4, <2>5, <3>1, <4>1
    <3>2. CASE d # c
      <4>0. \A k \in 1..Len(r.waiters) :
              k \in 1..Len(g.waiters) \/ k = Len(g.waiters) + 1
        BY <2>5
      <4>3. \A k \in 1..Len(g.waiters) : k \in 1..Len(r.waiters)
        BY <2>5
      <4>1. (\E k \in 1..Len(r.waiters) : r.waiters[k] = d)
              <=> (\E k \in 1..Len(g.waiters) : g.waiters[k] = d)
        BY <2>5, <3>2, <4>0, <4>3
      <4>2. (g.phase[d] = "waiting")
              <=> (\E k \in 1..Len(g.waiters) : g.waiters[k] = d)
        BY DEF IsSound
      <4> QED
        BY <2>4, <3>2, <4>1, <4>2
    <3> QED
      BY <3>1, <3>2
  <2>8. \A k, l \in 1..Len(r.waiters) : r.waiters[k] = r.waiters[l] => k = l
    <3>1. \A k \in 1..Len(r.waiters) :
            k \in 1..Len(g.waiters) \/ k = Len(g.waiters) + 1
      BY <2>5
    <3>2. \A k, l \in 1..Len(g.waiters) : g.waiters[k] = g.waiters[l] => k = l
      BY DEF IsSound
    <3> QED
      BY <2>3, <2>5, <3>1, <3>2
  <2>9. IsSound(r)
    BY <1>2, <2>2, <2>6, <2>7, <2>8 DEF IsSound
  <2> QED
    BY <2>2, <2>4, <2>9 DEF r
<1> QED
  BY <1>1, <1>2

\* What the holder leaves behind.
LEMMA ReleaseFields ==
  ASSUME NEW g \in Gimbals, NEW c \in Clients, g.holder = c, c # "none"
  PROVE  /\ Release(g) \in Gimbals /\ Release(g).position = g.position
         /\ g.waiters = <<>> =>
              /\ Release(g).holder = "none" /\ Release(g).waiters = <<>>
              /\ Release(g).phase = [g.phase EXCEPT ![c] = "idle"]
         /\ g.waiters # <<>> =>
              /\ Release(g).holder = Head(g.waiters)
              /\ Release(g).waiters = Tail(g.waiters)
              /\ Release(g).phase = [g.phase EXCEPT ![c] = "idle",
                                       ![Head(g.waiters)] = "writing"]
<1> DEFINE phase == [g.phase EXCEPT ![c] = "idle"]
           job == [g.job EXCEPT ![c] = Other("none")]
           free == [Idle(g, c) EXCEPT !.holder = "none"]
<1>1. /\ phase \in [Clients -> {"idle", "waiting", "writing", "reading"}]
      /\ job \in [Clients -> Jobs]
  BY OtherIsJob DEF Gimbals
<1>2. free = [g EXCEPT !.phase = phase, !.job = job, !.holder = "none"]
  BY DEF Idle, Gimbals
<1>3. Release(g) =
        IF g.waiters = <<>> THEN free
        ELSE [free EXCEPT !.holder = Head(g.waiters), !.waiters = Tail(@),
                          !.phase[Head(g.waiters)] = "writing"]
  BY DEF Release
<1> HIDE DEF phase, job, free
<1>4. /\ free \in Gimbals /\ free.position = g.position /\ free.holder = "none"
      /\ free.waiters = g.waiters /\ free.phase = phase /\ free.job = job
  BY <1>1, <1>2 DEF Gimbals
<1>5. CASE g.waiters = <<>>
  BY <1>3, <1>4, <1>5 DEF phase
<1>6. CASE g.waiters # <<>>
  <2> DEFINE next_ == Head(g.waiters)
             rest == Tail(g.waiters)
             phase2 == [phase EXCEPT ![Head(g.waiters)] = "writing"]
  <2>1. next_ \in Clients /\ rest \in Seq(Clients)
    BY <1>6 DEF Gimbals
  <2>2. phase2 \in [Clients -> {"idle", "waiting", "writing", "reading"}]
    BY <1>1
  <2>3. Release(g) = [free EXCEPT !.holder = next_, !.waiters = rest,
                                  !.phase = phase2]
    BY <1>3, <1>4, <1>6 DEF Gimbals
  <2>4. phase2 = [g.phase EXCEPT ![c] = "idle", ![next_] = "writing"]
    BY DEF phase
  <2> HIDE DEF next_, rest, phase2
  <2>5. /\ Release(g) \in Gimbals /\ Release(g).position = g.position
        /\ Release(g).holder = next_ /\ Release(g).waiters = rest
        /\ Release(g).phase = phase2
    BY <1>4, <2>1, <2>2, <2>3 DEF Gimbals
  <2> QED
    BY <1>6, <2>4, <2>5 DEF next_, rest
<1> QED
  BY <1>5, <1>6

LEMMA ReleaseSound ==
  ASSUME NEW g \in Gimbals, IsSound(g), NEW c \in Clients, g.holder = c
  PROVE  /\ Release(g) \in Gimbals /\ IsSound(Release(g))
         /\ Release(g).position = g.position
         /\ Release(g).phase[c] = "idle"
         /\ \A d \in Clients \ {c} :
              Release(g).phase[d] = "idle" <=> g.phase[d] = "idle"
<1> DEFINE r == Release(g)
<1>1. /\ c # "none" /\ g.waiters \in Seq(Clients)
      /\ g.phase \in [Clients -> {"idle", "waiting", "writing", "reading"}]
  BY DEF Clients, Gimbals
<1>2. CASE g.waiters = <<>>
  <2>1. /\ r \in Gimbals /\ r.position = g.position
        /\ r.holder = "none" /\ r.waiters = <<>>
        /\ r.phase = [g.phase EXCEPT ![c] = "idle"]
    BY <1>1, <1>2, ReleaseFields
  <2>2. \A d \in Clients : g.phase[d] # "waiting"
    BY <1>2 DEF IsSound
  <2>3. \A d \in Clients \ {c} : g.phase[d] \notin {"writing", "reading"}
    BY DEF IsSound
  <2> HIDE DEF r
  <2>4. r.phase[c] = "idle" /\ \A d \in Clients \ {c} : r.phase[d] = g.phase[d]
    BY <1>1, <2>1
  <2>5. IsSound(r)
    BY <2>1, <2>2, <2>3, <2>4 DEF IsSound, Clients
  <2> QED
    BY <2>1, <2>4, <2>5 DEF r
<1>3. CASE g.waiters # <<>>
  <2> DEFINE h == Head(g.waiters)
  <2>1. /\ r \in Gimbals /\ r.position = g.position
        /\ r.holder = h /\ r.waiters = Tail(g.waiters)
        /\ r.phase = [g.phase EXCEPT ![c] = "idle", ![h] = "writing"]
    BY <1>1, <1>3, ReleaseFields
  <2>2. /\ h = g.waiters[1] /\ h \in Clients /\ 1 \in 1..Len(g.waiters)
        /\ Len(r.waiters) = Len(g.waiters) - 1 /\ Len(g.waiters) \in Nat
        /\ \A k \in 1..Len(r.waiters) : r.waiters[k] = g.waiters[k + 1]
    BY <1>1, <1>3, <2>1
  <2> HIDE DEF r, h
  <2>3. g.phase[h] = "waiting" /\ h # c
    <3>1. g.phase[h] = "waiting"
          <=> \E k \in 1..Len(g.waiters) : g.waiters[k] = h
      BY ONLY <2>2, IsSound(g) DEF IsSound
    <3>2. g.phase[h] = "waiting"
      BY ONLY <2>2, <3>1
    <3>3. g.phase[c] \in {"writing", "reading"}
      BY ONLY IsSound(g), g.holder = c, c \in Clients DEF IsSound
    <3> QED
      BY ONLY <3>2, <3>3
  <2>4. /\ r.phase[c] = "idle" /\ r.phase[h] = "writing"
        /\ \A d \in Clients \ {c, h} : r.phase[d] = g.phase[d]
    BY <1>1, <2>1, <2>2, <2>3
  <2>5. \A d \in Clients : r.phase[d] \in {"writing", "reading"} <=> r.holder = d
    <3>1. \A d \in Clients \ {c} : g.phase[d] \notin {"writing", "reading"}
      BY DEF IsSound
    <3> QED
      BY <2>1, <2>3, <2>4, <3>1
  <2>6. \A k \in 1..Len(r.waiters) : k + 1 \in 1..Len(g.waiters) /\ k + 1 # 1
    BY <2>2
  <2>7. \A k \in 1..Len(g.waiters) : k = 1 \/ k - 1 \in 1..Len(r.waiters)
    BY <2>2
  <2>8. \A d \in Clients :
          r.phase[d] = "waiting" <=> \E k \in 1..Len(r.waiters) : r.waiters[k] = d
    <3> SUFFICES ASSUME NEW d \in Clients
                 PROVE  r.phase[d] = "waiting" <=>
                          \E k \in 1..Len(r.waiters) : r.waiters[k] = d
      OBVIOUS
    <3>1. g.phase[d] = "waiting" <=> \E k \in 1..Len(g.waiters) : g.waiters[k] = d
      BY DEF IsSound
    <3>2. \A k, l \in 1..Len(g.waiters) : g.waiters[k] = g.waiters[l] => k = l
      BY DEF IsSound
    <3>3. CASE d = h
      BY <2>2, <2>4, <2>6, <3>2, <3>3
    <3>4. CASE d # h
      <4>1. (\E k \in 1..Len(r.waiters) : r.waiters[k] = d)
               => \E k \in 1..Len(g.waiters) : g.waiters[k] = d
        BY <2>2, <2>6
      <4>2. ASSUME NEW k \in 1..Len(g.waiters), g.waiters[k] = d
            PROVE  \E l \in 1..Len(r.waiters) : r.waiters[l] = d
        <5>1. k - 1 \in 1..Len(r.waiters) /\ (k - 1) + 1 = k
          BY <2>2, <2>7, <3>4, <4>2
        <5> QED
          BY <2>2, <4>2, <5>1
      <4>3. d = c => g.phase[d] # "waiting" /\ r.phase[d] # "waiting"
        BY <2>4 DEF IsSound
      <4> QED
        BY <2>4, <3>1, <3>4, <4>1, <4>2, <4>3
    <3> QED
      BY <3>3, <3>4
  <2>9. \A k, l \in 1..Len(r.waiters) : r.waiters[k] = r.waiters[l] => k = l
    <3> SUFFICES ASSUME NEW k \in 1..Len(r.waiters), NEW l \in 1..Len(r.waiters),
                        r.waiters[k] = r.waiters[l]
                 PROVE  k = l
      OBVIOUS
    <3>1. g.waiters[k + 1] = g.waiters[l + 1]
      BY <2>2
    <3>2. \A m, n \in 1..Len(g.waiters) : g.waiters[m] = g.waiters[n] => m = n
      BY ONLY IsSound(g) DEF IsSound
    <3>3. k + 1 \in 1..Len(g.waiters) /\ l + 1 \in 1..Len(g.waiters)
      BY ONLY <2>6, k \in 1..Len(r.waiters), l \in 1..Len(r.waiters)
    <3>4. k + 1 = l + 1
      BY ONLY <3>1, <3>2, <3>3
    <3> QED
      BY ONLY <3>4, <2>2, k \in 1..Len(r.waiters), l \in 1..Len(r.waiters)
  <2>10. IsSound(r)
    BY <2>1, <2>2, <2>5, <2>8, <2>9 DEF IsSound, Clients
  <2> QED
    BY <2>1, <2>3, <2>4, <2>10 DEF r
<1> QED
  BY <1>2, <1>3

LEMMA WaiterLeaves ==
  ASSUME NEW g \in Gimbals, IsSound(g), NEW c \in Clients,
         g.phase[c] = "waiting"
  PROVE  /\ Leave(g, c) \in Gimbals /\ IsSound(Leave(g, c))
         /\ Leave(g, c).phase[c] = "idle"
         /\ \A d \in Clients \ {c} : Leave(g, c).phase[d] = g.phase[d]
<1> DEFINE w == g.waiters
           place == CHOOSE k \in 1..Len(w) : w[k] = c
           r == Leave(g, c)
           phase == [g.phase EXCEPT ![c] = "idle"]
           job == [g.job EXCEPT ![c] = Other("none")]
           rest == RemoveAt(w, place)
<1>1. /\ w \in Seq(Clients) /\ g.holder # c
      /\ g.phase \in [Clients -> {"idle", "waiting", "writing", "reading"}]
  BY DEF Gimbals, IsSound
<1>2. place \in 1..Len(w) /\ w[place] = c
  BY DEF IsSound
<1>3. /\ phase \in [Clients -> {"idle", "waiting", "writing", "reading"}]
      /\ job \in [Clients -> Jobs]
  BY OtherIsJob DEF Gimbals
<1>4. Leave(g, c) = [Idle(g, c) EXCEPT !.waiters = RemoveAt(@, place)]
  BY <1>1 DEF Leave
<1>5. Idle(g, c) = [g EXCEPT !.phase = phase, !.job = job]
  BY DEF Idle, Gimbals
<1> HIDE DEF place
<1>6. /\ rest \in Seq(Clients) /\ Len(rest) = Len(w) - 1 /\ Len(w) \in Nat
      /\ \A i \in 1..(Len(w) - 1) :
           rest[i] = IF i < place THEN w[i] ELSE w[i + 1]
  BY <1>1, <1>2, RemoveAtProperties
<1> HIDE DEF phase, job
<1>7. r = [g EXCEPT !.phase = phase, !.job = job, !.waiters = rest]
  BY <1>4, <1>5 DEF Gimbals
<1> HIDE DEF r, w, rest
<1>8. /\ r \in Gimbals /\ r.holder = g.holder /\ r.waiters = rest
      /\ r.phase = phase
  BY <1>3, <1>6, <1>7 DEF Gimbals
<1>9. /\ r.phase[c] = "idle"
      /\ \A d \in Clients \ {c} : r.phase[d] = g.phase[d]
  BY <1>1, <1>8 DEF phase
<1>10. \A i \in 1..Len(rest) : i \in 1..Len(w) /\ i + 1 \in 1..Len(w)
  BY <1>6
<1>11. \A k, l \in 1..Len(w) : w[k] = w[l] => k = l
  BY DEF IsSound, w
<1>12. \A i \in 1..Len(rest) : rest[i] # c
  <2> SUFFICES ASSUME NEW i \in 1..Len(rest), rest[i] = c PROVE FALSE
    OBVIOUS
  <2>1. rest[i] = IF i < place THEN w[i] ELSE w[i + 1]
    BY <1>6
  <2>2. CASE i < place
    BY <1>2, <1>10, <1>11, <2>1, <2>2
  <2>3. CASE ~(i < place)
    <3>1. i + 1 = place
      BY <1>2, <1>10, <1>11, <2>1, <2>3
    <3> QED
      BY <1>2, <2>3, <3>1
  <2> QED
    BY <2>2, <2>3
<1>13. \A k \in 1..Len(w) : w[k] # c => \E i \in 1..Len(rest) : rest[i] = w[k]
  <2> SUFFICES ASSUME NEW k \in 1..Len(w), w[k] # c
               PROVE  \E i \in 1..Len(rest) : rest[i] = w[k]
    OBVIOUS
  <2>1. k # place
    BY <1>2
  <2>2. CASE k < place
    <3>1. k \in 1..Len(rest) /\ rest[k] = w[k]
      BY <1>2, <1>6, <2>2
    <3> QED
      BY <3>1
  <2>3. CASE k > place
    <3>1. k - 1 \in 1..Len(rest) /\ ~(k - 1 < place) /\ (k - 1) + 1 = k
      BY <1>2, <1>6, <2>3
    <3>2. rest[k - 1] = w[k]
      BY <1>6, <3>1
    <3> QED
      BY <3>1, <3>2
  <2> QED
    BY <1>2, <2>1, <2>2, <2>3
<1>14. \A i \in 1..Len(rest) : \E k \in 1..Len(w) : rest[i] = w[k]
  <2> TAKE i \in 1..Len(rest)
  <2>1. rest[i] = w[i] \/ rest[i] = w[i + 1]
    BY <1>6
  <2> QED
    BY <1>10, <2>1
<1>15. \A i, j \in 1..Len(rest) : rest[i] = rest[j] => i = j
  <2> SUFFICES ASSUME NEW i \in 1..Len(rest), NEW j \in 1..Len(rest),
                      rest[i] = rest[j]
               PROVE  i = j
    OBVIOUS
  <2> DEFINE from(n) == IF n < place THEN n ELSE n + 1
  <2>1. \A n \in 1..Len(rest) : from(n) \in 1..Len(w) /\ rest[n] = w[from(n)]
    BY <1>6, <1>10
  <2>2. from(i) = from(j)
    <3> HIDE DEF from
    <3> QED
      BY <1>11, <2>1
  <2> QED
    BY <1>2, <1>6, <2>2
<1>16. \A d \in Clients :
         g.phase[d] = "waiting" <=> \E k \in 1..Len(w) : w[k] = d
  BY DEF IsSound, w
<1>17. \A d \in Clients :
         r.phase[d] = "waiting" <=> \E k \in 1..Len(rest) : rest[k] = d
  <2> TAKE d \in Clients
  <2>1. CASE d = c
    BY <1>9, <1>12, <2>1
  <2>2. CASE d # c
    <3>1. (\E k \in 1..Len(w) : w[k] = d) => \E k \in 1..Len(rest) : rest[k] = d
      BY <1>13, <2>2
    <3>2. (\E k \in 1..Len(rest) : rest[k] = d) => \E k \in 1..Len(w) : w[k] = d
      BY <1>14
    <3> QED
      BY <1>9, <1>16, <2>2, <3>1, <3>2
  <2> QED
    BY <2>1, <2>2
<1>18. \A d \in Clients : r.phase[d] \in {"writing", "reading"} <=> r.holder = d
  BY <1>1, <1>8, <1>9 DEF IsSound
<1>19. r.holder = "none" => rest = <<>>
  <2>1. g.holder = "none" => FALSE
    BY <1>2, <1>6 DEF IsSound, w
  <2> QED
    BY <1>8, <2>1
<1>20. IsSound(r)
  BY <1>8, <1>15, <1>17, <1>18, <1>19 DEF IsSound
<1> QED
  BY <1>8, <1>9, <1>20 DEF r

\* A client that is in a call and gives up.
LEMMA LeaveSound ==
  ASSUME NEW g \in Gimbals, IsSound(g), NEW c \in Clients, g.phase[c] # "idle"
  PROVE  /\ Leave(g, c) \in Gimbals /\ IsSound(Leave(g, c))
         /\ Leave(g, c).phase[c] = "idle"
         /\ \A d \in Clients \ {c} :
              Leave(g, c).phase[d] = "idle" <=> g.phase[d] = "idle"
<1>1. CASE g.holder = c
  <2>1. Leave(g, c) = Release(g)
    BY <1>1 DEF Leave
  <2> QED
    BY <1>1, <2>1, ReleaseSound
<1>2. CASE g.holder # c
  <2>1. g.phase[c] = "waiting"
    BY <1>2 DEF IsSound, Gimbals
  <2> QED
    BY <2>1, WaiterLeaves
<1> QED
  BY <1>1, <1>2

LEMMA ConfirmSound ==
  ASSUME NEW g \in Gimbals, IsSound(g), NEW c \in Clients,
         g.phase[c] = "reading"
  PROVE  /\ Confirm(g, c) \in Gimbals /\ IsSound(Confirm(g, c))
         /\ Confirm(g, c).phase[c] = "idle"
         /\ \A d \in Clients \ {c} :
              Confirm(g, c).phase[d] = "idle" <=> g.phase[d] = "idle"
<1> DEFINE known == IF g.job[c].kind = "move"
                    THEN [g EXCEPT !.position = g.job[c].target] ELSE g
<1>1. g.job[c].target \in Positions
  BY DEF Gimbals, Jobs
<1>2. /\ known \in Gimbals /\ known.holder = g.holder
      /\ known.waiters = g.waiters /\ known.phase = g.phase
  BY <1>1 DEF Gimbals
<1>3. g.holder = c
  BY DEF IsSound
<1>4. Confirm(g, c) = Release(known)
  BY DEF Confirm
<1> HIDE DEF known
<1>5. IsSound(known)
  BY <1>2 DEF IsSound
<1> QED
  BY <1>2, <1>3, <1>4, <1>5, ReleaseSound

-----------------------------------------------------------------------------
\* The steps of an action

Steps == {By(pan, tilt) : pan \in Int, tilt \in Int} \cup {To(aim) : aim \in Aims}
         \cup {Centring, Waving}

LEMMA MoveByIsJob ==
  ASSUME NEW position \in Positions, NEW delta \in [Axes -> Int]
  PROVE  MoveBy(position, delta) \in Jobs
<1> DEFINE aim == [a \in Axes |-> position[a] + delta[a]]
<1>1. aim \in [Axes -> Int]
  BY DEF Positions
<1> HIDE DEF aim
<1>2. MoveTo(position, aim, FALSE) \in Jobs
  BY <1>1, MoveToIsJob
<1> QED
  BY <1>2 DEF MoveBy, aim

LEMMA CenterIsJob ==
  ASSUME NEW position
  PROVE  Center(position) \in Jobs
<1>1. Neutral \in [Axes -> Int]
  BY NeutralIsPosition DEF Positions
<1> QED
  BY <1>1, MoveToIsJob DEF Center

LEMMA CommandIsJob ==
  ASSUME NEW position \in Positions, NEW step \in Steps
  PROVE  Command(position, step) \in Jobs
<1>1. ASSUME NEW pan \in Int, NEW tilt \in Int, step = By(pan, tilt)
      PROVE  Command(position, step) \in Jobs
  <2> DEFINE delta == [a \in Axes |-> IF a = "pan" THEN step.pan ELSE step.tilt]
  <2>1. step.do = "by" /\ step.pan = pan /\ step.tilt = tilt
    BY <1>1 DEF By
  <2>2. delta \in [Axes -> Int]
    BY <2>1
  <2>3. Command(position, step) = MoveBy(position, delta)
    BY <2>1 DEF Command
  <2> HIDE DEF delta
  <2> QED
    BY <2>2, <2>3, MoveByIsJob
<1>2. ASSUME NEW aim \in Aims, step = To(aim)
      PROVE  Command(position, step) \in Jobs
  <2>1. Command(position, step) = MoveTo(position, aim, FALSE)
    BY <1>2 DEF Command, To
  <2>2. aim \in [Axes -> Int]
    OBVIOUS
  <2> QED
    BY <2>1, <2>2, MoveToIsJob
<1>3. CASE step = Centring
  <2>1. Command(position, step) = Center(position)
    BY <1>3 DEF Command, Centring
  <2> QED
    BY <2>1, CenterIsJob
<1>4. CASE step = Waving
  <2>1. Command(position, step) = Other("wave")
    BY <1>4 DEF Command, Waving
  <2> QED
    BY <2>1, OtherIsJob
<1> QED
  BY <1>1, <1>2, <1>3, <1>4 DEF Steps

LEMMA StepsOfAreSteps ==
  ASSUME NEW name \in Names, NEW todo \in StepsOf(name)
  PROVE  todo \in Seq(Steps) /\ Len(todo) <= WaveSteps + 1
<1>1. CASE name = "look_at_user"
  <2>1. PICK aim \in Aims : todo = <<To(aim)>>
    BY <1>1 DEF StepsOf
  <2>2. To(aim) \in Steps
    BY DEF Steps
  <2> QED
    BY <2>1, <2>2
<1>2. CASE name = "idle"
  <2>1. todo = <<Centring>> /\ Centring \in Steps
    BY <1>2 DEF StepsOf, Steps
  <2> QED
    BY <2>1
<1>3. CASE name = "nod"
  <2>1. todo = <<By(0, Amplitude), By(0, -Amplitude)>>
    BY <1>3 DEF StepsOf
  <2>2. By(0, Amplitude) \in Steps /\ By(0, -Amplitude) \in Steps
    <3>1. 0 \in Int /\ Amplitude \in Int /\ -Amplitude \in Int
      OBVIOUS
    <3>2. \A pan, tilt \in Int : By(pan, tilt) \in Steps
      BY DEF Steps
    <3> QED
      BY <3>1, <3>2
  <2> QED
    BY <2>1, <2>2
<1>4. CASE name = "welcome_motion"
  <2>1. todo = [k \in 1..WaveSteps |-> Waving] /\ Waving \in Steps
    BY <1>4 DEF StepsOf, Steps
  <2>2. WaveSteps \in Nat /\ todo \in [1..WaveSteps -> Steps]
    BY <2>1
  <2>3. todo \in Seq(Steps) /\ Len(todo) = WaveSteps
    BY <2>2
  <2> QED
    BY <2>2, <2>3
<1> QED
  BY <1>1, <1>2, <1>3, <1>4 DEF Names

-----------------------------------------------------------------------------
\* The invariant

Beliefs == {"sure", "unsure", "centring"}

ActionTypes ==
  /\ action \in Names \cup {"none"}
  /\ steps \in Seq(Steps) /\ Len(steps) <= WaveSteps + 1
  /\ belief \in Beliefs

Servos == {s \in [Axes -> Int] : \A a \in Axes : s[a] \in Angles(a) \cup {Somewhere}}

Inv ==
  /\ gimbal \in Gimbals /\ IsSound(gimbal)
  /\ orphans \subseteq Jobs /\ servo \in Servos
  /\ ActionTypes
  /\ next \in Names \cup {"none"} /\ stop \in {"none", "due", "asked"}
  /\ tracking \in BOOLEAN /\ degraded \in BOOLEAN
  /\ gimbal.phase["action"] # "idle" => action # "none"
  /\ gimbal.phase["dispatcher"] # "idle" <=> stop = "asked"
  /\ next = "none" => stop = "none"

LEMMA ToldAreServos ==
  ASSUME servo \in Servos, NEW command \in Jobs, NEW s \in Told(command)
  PROVE  s \in Servos
<1>1. /\ servo \in [Axes -> Int]
      /\ \A a \in Axes : servo[a] \in Angles(a) \cup {Somewhere}
  BY DEF Servos
<1>2. CASE command.kind = "move"
  <2>1. s = [a \in Axes |-> IF a \in DOMAIN command.moves
                            THEN command.moves[a] ELSE servo[a]]
    BY <1>2 DEF Told
  <2>2. PICK S \in SUBSET Axes :
          /\ command.moves \in [S -> Nat]
          /\ \A a \in S : command.moves[a] \in Angles(a)
    BY DEF Jobs, Moves
  <2>3. ASSUME NEW a \in Axes PROVE s[a] \in Int /\ s[a] \in Angles(a) \cup {Somewhere}
    BY <1>1, <2>1, <2>2
  <2> QED
    BY <2>1, <2>3 DEF Servos
<1>3. CASE command.kind \in {"wave", "none"}
  BY <1>3 DEF Told
<1>4. CASE command.kind = "halt"
  <2>1. PICK caught \in SUBSET Axes :
          s = [a \in Axes |-> IF a \in caught THEN Somewhere ELSE servo[a]]
    BY <1>4 DEF Told
  <2>2. ASSUME NEW a \in Axes PROVE s[a] \in Int /\ s[a] \in Angles(a) \cup {Somewhere}
    BY <1>1, <2>1 DEF Somewhere
  <2> QED
    BY <2>1, <2>2 DEF Servos
<1> QED
  BY <1>2, <1>3, <1>4 DEF Jobs

LEMMA AskingIsBelief ==
  ASSUME NEW b \in Beliefs, NEW g, NEW c, NEW command
  PROVE  Asking(b, g, c, command) \in Beliefs
  BY DEF Asking, Beliefs

LEMMA GoOnSound ==
  ASSUME NEW g \in Gimbals, IsSound(g), g.phase["action"] = "idle",
         NEW b \in Beliefs, NEW name \in Names, NEW todo \in Seq(Steps),
         Len(todo) <= WaveSteps + 1, GoOn(g, b, name, todo)
  PROVE  /\ gimbal' \in Gimbals /\ IsSound(gimbal') /\ ActionTypes'
         /\ gimbal'.phase["action"] # "idle" => action' # "none"
         /\ gimbal'.phase["dispatcher"] = g.phase["dispatcher"]
<1> DEFINE Busy == {k \in 1..Len(todo) : ~IsIdle(Command(g.position, todo[k]))}
<1>0. "action" \in Clients /\ "dispatcher" \in Clients \ {"action"} /\ name # "none"
  BY DEF Clients, Names
<1>1. CASE /\ gimbal' = g /\ belief' = b
           /\ action' = "none" /\ steps' = <<>>
  <2>1. <<>> \in Seq(Steps) /\ Len(<<>>) <= WaveSteps + 1
    OBVIOUS
  <2> QED
    BY <1>1, <2>1 DEF ActionTypes
<1>2. ASSUME NEW first \in Busy,
             gimbal' = Ask(g, "action", Command(g.position, todo[first])),
             belief' = Asking(b, g, "action", Command(g.position, todo[first])),
             action' = name, steps' = SubSeq(todo, first + 1, Len(todo))
      PROVE  /\ gimbal' \in Gimbals /\ IsSound(gimbal') /\ ActionTypes'
             /\ gimbal'.phase["action"] # "idle" => action' # "none"
             /\ gimbal'.phase["dispatcher"] = g.phase["dispatcher"]
  <2>1. first \in 1..Len(todo) /\ todo[first] \in Steps /\ g.position \in Positions
    BY DEF Gimbals
  <2>2. Command(g.position, todo[first]) \in Jobs
    BY <2>1, CommandIsJob
  <2>3. /\ gimbal' \in Gimbals /\ IsSound(gimbal')
        /\ gimbal'.phase["dispatcher"] = g.phase["dispatcher"]
    BY <1>0, <1>2, <2>2, AskSound
  <2>4. steps' \in Seq(Steps) /\ Len(steps') <= WaveSteps + 1
    <3>1. \A i \in (first + 1)..Len(todo) : todo[i] \in Steps
      BY <2>1
    <3>2. /\ SubSeq(todo, first + 1, Len(todo)) \in Seq(Steps)
          /\ Len(SubSeq(todo, first + 1, Len(todo)))
               = IF first + 1 <= Len(todo) THEN Len(todo) - (first + 1) + 1 ELSE 0
      BY <2>1, <3>1, SubSeqProperties
    <3> QED
      BY <1>2, <2>1, <3>2
  <2> QED
    BY <1>0, <1>2, <2>3, <2>4, AskingIsBelief DEF ActionTypes
<1> QED
  BY <1>1, <1>2 DEF GoOn

LEMMA InitInv == Init => Inv
<1> SUFFICES ASSUME Init PROVE Inv
  OBVIOUS
<1>1. \A c \in Clients : gimbal.phase[c] = "idle"
  BY DEF Init, Parked
<1>2. servo \in Servos
  <2>1. \A a \in Axes : servo[a] \in Angles(a) \cup {Somewhere}
    BY DEF Init, Postures
  <2>2. \A a \in Axes : servo[a] \in Int
    BY <2>1 DEF Angles, Somewhere
  <2>3. \E S : servo \in [Axes -> S]
    BY DEF Init, Postures
  <2> QED
    BY <2>1, <2>2, <2>3 DEF Servos
<1>3. <<>> \in Seq(Steps) /\ Len(<<>>) <= WaveSteps + 1
  OBVIOUS
<1> QED
  BY <1>1, <1>2, <1>3, ParkedIsSound DEF Init, Inv, ActionTypes, Beliefs, Clients

LEMMA StartInv ==
  ASSUME Inv, NEW name \in Names, StartAction(name)
  PROVE  Inv'
<1>1. gimbal.phase["action"] = "idle"
  BY DEF Inv, StartAction
<1>2. PICK todo \in StepsOf(name) : GoOn(gimbal, belief, name, todo)
  BY DEF StartAction
<1>3. todo \in Seq(Steps) /\ Len(todo) <= WaveSteps + 1
  BY StepsOfAreSteps
<1>4. /\ gimbal' \in Gimbals /\ IsSound(gimbal') /\ ActionTypes'
      /\ gimbal'.phase["action"] # "idle" => action' # "none"
      /\ gimbal'.phase["dispatcher"] = gimbal.phase["dispatcher"]
  BY <1>1, <1>2, <1>3, GoOnSound DEF Inv, ActionTypes
<1> QED
  BY <1>4 DEF StartAction, Inv

LEMMA WaveInv ==
  ASSUME Inv, WaveOn
  PROVE  Inv'
<1>1. gimbal.phase["action"] = "idle" /\ action \in Names
  BY DEF Inv, WaveOn, Sleeping, ActionTypes
<1>2. /\ gimbal' \in Gimbals /\ IsSound(gimbal') /\ ActionTypes'
      /\ gimbal'.phase["action"] # "idle" => action' # "none"
      /\ gimbal'.phase["dispatcher"] = gimbal.phase["dispatcher"]
  BY <1>1, GoOnSound DEF Inv, ActionTypes, WaveOn
<1> QED
  BY <1>2 DEF WaveOn, dispatchVars, Inv

LEMMA CancelKeeps ==
  ASSUME Inv, CancelAction
  PROVE  /\ gimbal' \in Gimbals /\ IsSound(gimbal') /\ ActionTypes'
         /\ orphans' \subseteq Jobs /\ servo' \in Servos
         /\ gimbal'.phase["action"] = "idle"
         /\ gimbal'.phase["dispatcher"] # "idle" <=> stop = "asked"
         /\ tracking' \in BOOLEAN /\ degraded' \in BOOLEAN
<1>1. "action" \in Clients /\ "dispatcher" \in Clients \ {"action"}
  BY DEF Clients
<1>2. /\ gimbal' \in Gimbals /\ IsSound(gimbal')
      /\ gimbal'.phase["action"] = "idle"
      /\ gimbal'.phase["dispatcher"] # "idle" <=> stop = "asked"
  <2>1. CASE Sleeping
    BY <1>1, <2>1 DEF CancelAction, Inv, Sleeping
  <2>2. CASE ~Sleeping
    <3>1. gimbal' = Leave(gimbal, "action") /\ gimbal.phase["action"] # "idle"
      BY <2>2 DEF CancelAction, Sleeping
    <3> QED
      BY <1>1, <3>1, LeaveSound DEF Inv
  <2> QED
    BY <2>1, <2>2
<1>3. orphans' \subseteq Jobs
  <2>1. gimbal.job["action"] \in Jobs
    BY <1>1 DEF Inv, Gimbals
  <2> QED
    BY <2>1 DEF CancelAction, Inv
<1>4. ActionTypes'
  <2>1. <<>> \in Seq(Steps) /\ Len(<<>>) <= WaveSteps + 1
    OBVIOUS
  <2> QED
    BY <2>1 DEF CancelAction, Inv, ActionTypes, Beliefs
<1> QED
  BY <1>2, <1>3, <1>4 DEF CancelAction, Inv

LEMMA InterruptInv ==
  ASSUME Inv, (\E name \in Names : Interrupt(name)) \/ Abandon
  PROVE  Inv'
<1>1. CASE Abandon
  BY <1>1, CancelKeeps DEF Abandon, Inv
<1>2. ASSUME NEW name \in Names, Interrupt(name) PROVE Inv'
  <2>1. next' = name /\ stop' = "due" /\ stop = "none" /\ name # "none"
    BY <1>2 DEF Interrupt, Inv, Names
  <2> QED
    BY <1>2, <2>1, CancelKeeps DEF Interrupt, Inv
<1> QED
  BY <1>1, <1>2

LEMMA SendStopInv ==
  ASSUME Inv, SendStop
  PROVE  Inv'
<1>1. "dispatcher" \in Clients /\ "action" \in Clients \ {"dispatcher"}
  BY DEF Clients
<1>2. gimbal.phase["dispatcher"] = "idle" /\ Other("halt") \in Jobs
  BY OtherIsJob DEF SendStop, Inv
<1>3. /\ gimbal' \in Gimbals /\ IsSound(gimbal')
      /\ gimbal'.phase["dispatcher"] # "idle"
      /\ gimbal'.phase["action"] = gimbal.phase["action"]
  BY <1>1, <1>2, AskSound DEF SendStop, Inv
<1> QED
  BY <1>3 DEF SendStop, Inv, ActionTypes

LEMMA CameraInv ==
  ASSUME Inv, Track \/ CenterOnLoss
  PROVE  Inv'
<1>1. PICK command \in Jobs : CameraAsks(command)
  <2>1. CASE CenterOnLoss
    BY <2>1, CenterIsJob DEF CenterOnLoss
  <2>2. CASE Track
    <3>1. PICK pan \in -MaxPan..MaxPan, tilt \in -MaxTilt..MaxTilt :
            CameraAsks(Command(gimbal.position, By(pan, tilt)))
      BY <2>2 DEF Track
    <3>2. pan \in Int /\ tilt \in Int
      OBVIOUS
    <3>3. By(pan, tilt) \in Steps
      BY <3>2 DEF Steps
    <3>4. gimbal.position \in Positions
      BY DEF Inv, Gimbals
    <3> QED
      BY <3>1, <3>3, <3>4, CommandIsJob
  <2> QED
    BY <2>1, <2>2
<1>2. "camera" \in Clients /\ {"action", "dispatcher"} \subseteq Clients \ {"camera"}
  BY DEF Clients
<1>3. /\ gimbal' \in Gimbals /\ IsSound(gimbal')
      /\ gimbal'.phase["dispatcher"] = gimbal.phase["dispatcher"]
      /\ gimbal'.phase["action"] = gimbal.phase["action"]
  BY <1>1, <1>2, AskSound DEF CameraAsks, Inv
<1>4. ActionTypes'
  BY <1>1, AskingIsBelief DEF CameraAsks, Inv, ActionTypes
<1> QED
  BY <1>1, <1>3, <1>4 DEF CameraAsks, Inv, dispatchVars

LEMMA WrittenInv ==
  ASSUME Inv, NEW c \in Clients, Written(c)
  PROVE  Inv'
<1> DEFINE phase == [gimbal.phase EXCEPT ![c] = "reading"]
<1>1. /\ phase \in [Clients -> {"idle", "waiting", "writing", "reading"}]
      /\ phase[c] = "reading" /\ gimbal.phase[c] = "writing"
      /\ \A d \in Clients \ {c} : phase[d] = gimbal.phase[d]
  BY DEF Inv, Gimbals, Written
<1>2. gimbal' = [gimbal EXCEPT !.phase = phase]
  BY DEF Written, Inv, Gimbals
<1> HIDE DEF phase
<1>3. /\ gimbal' \in Gimbals /\ gimbal'.holder = gimbal.holder
      /\ gimbal'.waiters = gimbal.waiters /\ gimbal'.phase = phase
  BY <1>1, <1>2 DEF Inv, Gimbals
<1>4. \A d \in Clients :
        /\ phase[d] \in {"writing", "reading"} <=> gimbal.phase[d] \in {"writing", "reading"}
        /\ phase[d] = "waiting" <=> gimbal.phase[d] = "waiting"
        /\ phase[d] = "idle" <=> gimbal.phase[d] = "idle"
  BY <1>1
<1>5. IsSound(gimbal')
  BY <1>3, <1>4 DEF Inv, IsSound
<1>6. servo' \in Servos
  BY ToldAreServos DEF Written, Inv, Gimbals
<1>7. ActionTypes'
  BY DEF Written, Inv, ActionTypes, Beliefs
<1> QED
  BY <1>3, <1>4, <1>5, <1>6, <1>7 DEF Written, Inv, dispatchVars, Clients

LEMMA ReturnsInv ==
  ASSUME Inv, NEW c \in Clients, Returns(c)
  PROVE  Inv'
<1> DEFINE g == Confirm(gimbal, c)
<1>1. gimbal.phase[c] = "reading"
  BY DEF Returns
<1>2. /\ g \in Gimbals /\ IsSound(g) /\ g.phase[c] = "idle"
      /\ \A d \in Clients \ {c} : g.phase[d] = "idle" <=> gimbal.phase[d] = "idle"
  BY <1>1, ConfirmSound DEF Inv
<1> HIDE DEF g
<1>3. Confirmed(c) \in Beliefs
  BY DEF Confirmed, Inv, ActionTypes, Beliefs
<1>4. {"action", "dispatcher"} \subseteq Clients
  BY DEF Clients
<1>5. c = "action" => action \in Names
  BY <1>1 DEF Inv, ActionTypes
<1>6. CASE c = "action" /\ gimbal.job[c].kind = "move"
  <2>1. GoOn(g, Confirmed(c), action, steps) /\ UNCHANGED stop
    BY <1>6 DEF Returns, g
  <2>2. /\ gimbal' \in Gimbals /\ IsSound(gimbal') /\ ActionTypes'
        /\ gimbal'.phase["action"] # "idle" => action' # "none"
        /\ gimbal'.phase["dispatcher"] = g.phase["dispatcher"]
    BY <1>2, <1>3, <1>5, <1>6, <2>1, GoOnSound DEF Inv, ActionTypes
  <2> QED
    BY <1>2, <1>4, <1>6, <2>1, <2>2 DEF Returns, Inv
<1>7. CASE ~(c = "action" /\ gimbal.job[c].kind = "move")
  <2>1. /\ gimbal' = g /\ belief' = Confirmed(c) /\ UNCHANGED steps
        /\ action' = IF c = "action" /\ steps = <<>> THEN "none" ELSE action
        /\ stop' = IF c = "dispatcher" THEN "none" ELSE stop
    BY <1>7 DEF Returns, g
  <2>2. ActionTypes'
    BY <1>3, <2>1 DEF Inv, ActionTypes
  <2>3. /\ gimbal'.phase["action"] # "idle" => action' # "none"
        /\ gimbal'.phase["dispatcher"] # "idle" <=> stop' = "asked"
        /\ next' = "none" => stop' = "none"
    BY <1>2, <1>4, <2>1 DEF Inv, Returns
  <2> QED
    BY <1>2, <2>1, <2>2, <2>3 DEF Returns, Inv
<1> QED
  BY <1>6, <1>7

\* What every failure of the line has in common.
LEMMA LineKeeps ==
  ASSUME Inv, NEW c \in Clients, LineFails(c)
  PROVE  /\ gimbal' \in Gimbals /\ IsSound(gimbal')
         /\ gimbal'.phase[c] = "idle"
         /\ \A d \in Clients \ {c} :
              gimbal'.phase[d] = "idle" <=> gimbal.phase[d] = "idle"
         /\ servo' \in Servos /\ orphans' \subseteq Jobs /\ belief' \in Beliefs
<1>1. gimbal.phase[c] # "idle" /\ gimbal.job[c] \in Jobs
  BY DEF LineFails, Inv, Gimbals
<1>2. servo' \in Servos
  BY <1>1, ToldAreServos DEF LineFails, Inv
<1>3. belief' \in Beliefs
  BY DEF LineFails, Inv, ActionTypes, Beliefs
<1> QED
  BY <1>1, <1>2, <1>3, LeaveSound DEF LineFails, Inv

LEMMA FailureInv ==
  ASSUME Inv, TrackerFails \/ ActionFails \/ \E name \in Names : InterruptFailed(name)
  PROVE  Inv'
<1>1. <<>> \in Seq(Steps) /\ Len(<<>>) <= WaveSteps + 1
  OBVIOUS
<1>2. CASE TrackerFails
  BY <1>2, LineKeeps DEF TrackerFails, Inv, ActionTypes, dispatchVars, Clients
<1>3. CASE ActionFails
  BY <1>1, <1>3, LineKeeps DEF ActionFails, Inv, ActionTypes, Clients
<1>4. ASSUME NEW name \in Names, InterruptFailed(name) PROVE Inv'
  <2>1. stop = "none" /\ name # "none"
    BY <1>4 DEF InterruptFailed, Inv, Names
  <2> QED
    BY <1>1, <1>4, <2>1, LineKeeps DEF InterruptFailed, Inv, ActionTypes, Clients
<1> QED
  BY <1>2, <1>3, <1>4

LEMMA NextInv ==
  ASSUME Inv, [Next]_vars
  PROVE  Inv'
<1>1. CASE DropNext
  BY <1>1 DEF DropNext, Inv, ActionTypes
<1>2. CASE OrphanWritten
  <2>1. servo' \in Servos /\ orphans' \subseteq Jobs
    BY <1>2, ToldAreServos DEF OrphanWritten, Inv
  <2> QED
    BY <1>2, <2>1 DEF OrphanWritten, Inv, ActionTypes, Beliefs, dispatchVars
<1>3. CASE UNCHANGED vars
  BY <1>3 DEF vars, dispatchVars, Inv, ActionTypes
<1> QED
  BY <1>1, <1>2, <1>3, StartInv, WaveInv, InterruptInv, SendStopInv, CameraInv,
    WrittenInv, ReturnsInv, FailureInv DEF Next

LEMMA InvHolds == Spec => []Inv
<1>1. Init => Inv
  BY InitInv
<1>2. Inv /\ [Next]_vars => Inv'
  BY NextInv
<1> QED
  BY <1>1, <1>2, PTL DEF Spec

-----------------------------------------------------------------------------

\* What the gimbal believes, what is commanded and what the servos are told
\* stays within the limits, for any limits and whatever is asked for.
THEOREM TypeCorrect == Spec => []TypeOK
<1>1. Inv => TypeOK
  <2> SUFFICES ASSUME Inv PROVE TypeOK
    OBVIOUS
  <2>1. \A p \in Positions : IsPosition(p)
    BY DEF Positions, IsPosition
  <2>2. ASSUME NEW j \in Jobs PROVE IsPosition(j.target) /\ Commands(j)
    <3>1. PICK S \in SUBSET Axes :
            j.moves \in [S -> Nat] /\ \A a \in S : j.moves[a] \in Angles(a)
      BY DEF Jobs, Moves
    <3> QED
      BY <2>1, <3>1 DEF Jobs, Commands
  <2>3. /\ IsPosition(gimbal.position)
        /\ gimbal.holder \in Clients \cup {"none"}
        /\ \A k \in 1..Len(gimbal.waiters) : gimbal.waiters[k] \in Clients
        /\ gimbal.phase \in [Clients -> {"idle", "waiting", "writing", "reading"}]
        /\ \A c \in Clients : gimbal.job[c] \in Jobs
    BY <2>1 DEF Inv, Gimbals
  <2>4. \A a \in Axes : servo[a] \in Angles(a) \cup {Somewhere}
    BY DEF Inv, Servos
  <2> QED
    BY <2>2, <2>3, <2>4 DEF Inv, ActionTypes, Beliefs, TypeOK
<1> QED
  BY <1>1, InvHolds, PTL

\* The lock survives every cancellation and every failure of the line, for
\* any length of the actions.
THEOREM LockSound == Spec => []LockIsSound
<1>1. Inv => LockIsSound
  BY DEF Inv, LockIsSound
<1> QED
  BY <1>1, InvHolds, PTL

-----------------------------------------------------------------------------
(***************************************************************************)
(* Where the head is.  Unless the belief is unsure, at most one client     *)
(* moves the head and no late write is left: what that client sends agrees *)
(* with the position it started from, and once it is written the servos    *)
(* are where it aims.  A centring that nobody disturbed tells every servo  *)
(* its place, whatever was believed before.                                *)
(***************************************************************************)

\* The commands of move_to and of the others.
Aimed(j) ==
  IF j.kind = "move"
  THEN /\ \A a \in DOMAIN j.moves : j.moves[a] = Physical(a, j.target[a])
       /\ j.forced => DOMAIN j.moves = Axes
  ELSE ~j.forced

\* What a command of move_to leaves alone is where it is believed to be.
StartsAt(j, position) ==
  \A a \in Axes \ DOMAIN j.moves : j.target[a] = position[a]

Reached(s, p) == \A a \in Axes : s[a] = Physical(a, p[a])

Ahead(g, c) == Moving(g, c) /\ g.phase[c] = "reading"

Believed(g, s, late, b) ==
  b # "unsure" =>
    /\ late = {}
    /\ \A c, d \in Clients : Moving(g, c) /\ Moving(g, d) => c = d
    /\ \A c \in Clients : Ahead(g, c) => Reached(s, g.job[c].target)
    /\ b = "sure" =>
         /\ (\A c \in Clients : ~Ahead(g, c)) => Reached(s, g.position)
         /\ \A c \in Clients :
              Moving(g, c) /\ ~Ahead(g, c) => StartsAt(g.job[c], g.position)
    /\ b = "centring" => \E c \in Clients : Moving(g, c) /\ g.job[c].forced

\* Only the dispatcher stops the head.
JobsAimed(g) ==
  \A c \in Clients :
    Aimed(g.job[c]) /\ (c # "dispatcher" => g.job[c].kind # "halt")

\* The clients but c are where they were.
Others(g, h, c) ==
  \A d \in Clients \ {c} :
    /\ h.job[d] = g.job[d]
    /\ h.phase[d] = "idle" <=> g.phase[d] = "idle"
    /\ h.phase[d] = "reading" <=> g.phase[d] = "reading"

LEMMA MoveToIsAimed ==
  ASSUME NEW position \in Positions, NEW aim \in [Axes -> Int],
         NEW forced \in BOOLEAN
  PROVE  LET j == MoveTo(position, aim, forced)
         IN  Aimed(j) /\ j.kind = "move" /\ j.forced = forced
             /\ StartsAt(j, position)
<1> DEFINE target == [a \in Axes |-> Limit(a, aim[a])]
           moved == {a \in Axes : forced \/ target[a] # position[a]}
           moves == [a \in moved |-> Physical(a, target[a])]
           j == MoveTo(position, aim, forced)
<1>1. j = [kind |-> "move", moves |-> moves, target |-> target, forced |-> forced]
  BY DEF MoveTo, Move
<1>2. \A a \in Axes \ moved : target[a] = position[a]
  OBVIOUS
<1>3. forced => moved = Axes
  OBVIOUS
<1> HIDE DEF target, moved
<1>4. DOMAIN moves = moved /\ \A a \in moved : moves[a] = Physical(a, target[a])
  OBVIOUS
<1> HIDE DEF moves, j
<1> QED
  BY <1>1, <1>2, <1>3, <1>4 DEF Aimed, StartsAt, j

LEMMA OtherIsAimed ==
  ASSUME NEW kind \in {"wave", "halt", "none"}
  PROVE  Aimed(Other(kind)) /\ Other(kind).kind = kind
  BY DEF Aimed, Other

LEMMA AskJobs ==
  ASSUME NEW g \in Gimbals, IsSound(g), NEW c \in Clients, NEW command \in Jobs,
         g.phase[c] = "idle"
  PROVE  LET h == Ask(g, c, command)
         IN  /\ h.position = g.position /\ h.job[c] = command
             /\ h.phase[c] \in {"writing", "waiting"} /\ Others(g, h, c)
<1> DEFINE h == Ask(g, c, command)
<1>1. /\ h.position = g.position /\ h.job = [g.job EXCEPT ![c] = command]
      /\ h.phase[c] \in {"writing", "waiting"}
  BY DEF Ask, Gimbals
<1>2. \A d \in Clients \ {c} : h.phase[d] = g.phase[d]
  BY AskSound
<1> HIDE DEF h
<1>3. h.job[c] = command /\ \A d \in Clients \ {c} : h.job[d] = g.job[d]
  BY <1>1 DEF Gimbals
<1> QED
  BY <1>1, <1>2, <1>3 DEF h, Others

LEMMA ReleaseJobs ==
  ASSUME NEW g \in Gimbals, IsSound(g), NEW c \in Clients, g.holder = c
  PROVE  LET h == Release(g)
         IN  h.job[c] = Other("none") /\ h.phase[c] = "idle" /\ Others(g, h, c)
<1> DEFINE h == Release(g)
           free == [Idle(g, c) EXCEPT !.holder = "none"]
<1>1. /\ c # "none" /\ g.waiters \in Seq(Clients)
      /\ g.phase \in [Clients -> {"idle", "waiting", "writing", "reading"}]
      /\ g.job \in [Clients -> Jobs]
  BY DEF Clients, Gimbals
<1>2. Idle(g, c).job = [g.job EXCEPT ![c] = Other("none")]
  BY DEF Idle, Gimbals
<1>3. free.job = [g.job EXCEPT ![c] = Other("none")]
  BY <1>2 DEF Idle, Gimbals
<1>4. h.job = free.job
  <2> HIDE DEF free
  <2>1. h = IF g.waiters = <<>> THEN free
            ELSE [free EXCEPT !.holder = Head(g.waiters), !.waiters = Tail(@),
                              !.phase[Head(g.waiters)] = "writing"]
    BY DEF Release, free
  <2> QED
    BY <2>1 DEF free, Idle, Gimbals
<1> HIDE DEF h, free
<1>5. h.job[c] = Other("none") /\ \A d \in Clients \ {c} : h.job[d] = g.job[d]
  BY <1>1, <1>3, <1>4
<1>6. /\ h.phase[c] = "idle"
      /\ \A d \in Clients \ {c} : h.phase[d] = "idle" <=> g.phase[d] = "idle"
  BY ReleaseSound DEF h
<1>7. \A d \in Clients \ {c} : h.phase[d] = "reading" <=> g.phase[d] = "reading"
  <2>1. \A d \in Clients \ {c} : g.phase[d] # "reading"
    BY DEF IsSound
  <2>2. CASE g.waiters = <<>>
    <3>1. h.phase = [g.phase EXCEPT ![c] = "idle"]
      BY <1>1, <2>2, ReleaseFields DEF h
    <3> QED
      BY <1>1, <3>1
  <2>3. CASE g.waiters # <<>>
    <3>1. h.phase = [g.phase EXCEPT ![c] = "idle", ![Head(g.waiters)] = "writing"]
      BY <1>1, <2>3, ReleaseFields DEF h
    <3> QED
      BY <1>1, <2>1, <3>1
  <2> QED
    BY <2>2, <2>3
<1> QED
  BY <1>5, <1>6, <1>7 DEF Others, h

LEMMA LeaveJobs ==
  ASSUME NEW g \in Gimbals, IsSound(g), NEW c \in Clients, g.phase[c] # "idle"
  PROVE  LET h == Leave(g, c)
         IN  /\ h.job[c] = Other("none") /\ h.phase[c] = "idle"
             /\ Others(g, h, c) /\ h.position = g.position
<1>1. CASE g.holder = c
  <2>1. Leave(g, c) = Release(g)
    BY <1>1 DEF Leave
  <2> QED
    BY <1>1, <2>1, ReleaseJobs, ReleaseSound
<1>2. CASE g.holder # c
  <2> DEFINE h == Leave(g, c)
  <2>1. g.phase[c] = "waiting"
    BY <1>2 DEF IsSound, Gimbals
  <2>2. h.phase[c] = "idle" /\ \A d \in Clients \ {c} : h.phase[d] = g.phase[d]
    BY <2>1, WaiterLeaves
  <2>3. h.job = [g.job EXCEPT ![c] = Other("none")] /\ h.position = g.position
    BY <1>2 DEF Leave, Idle, Gimbals
  <2> HIDE DEF h
  <2>4. h.job[c] = Other("none") /\ \A d \in Clients \ {c} : h.job[d] = g.job[d]
    BY <2>3 DEF Gimbals
  <2> QED
    BY <2>2, <2>3, <2>4 DEF h, Others
<1> QED
  BY <1>1, <1>2

LEMMA ConfirmJobs ==
  ASSUME NEW g \in Gimbals, IsSound(g), NEW c \in Clients,
         g.phase[c] = "reading"
  PROVE  LET h == Confirm(g, c)
         IN  /\ h.job[c] = Other("none") /\ h.phase[c] = "idle"
             /\ Others(g, h, c)
             /\ h.position = IF g.job[c].kind = "move" THEN g.job[c].target
                             ELSE g.position
<1> DEFINE known == IF g.job[c].kind = "move"
                    THEN [g EXCEPT !.position = g.job[c].target] ELSE g
<1>1. g.job[c].target \in Positions
  BY DEF Gimbals, Jobs
<1>2. /\ known \in Gimbals /\ known.holder = g.holder /\ known.job = g.job
      /\ known.waiters = g.waiters /\ known.phase = g.phase
      /\ known.position = IF g.job[c].kind = "move" THEN g.job[c].target
                          ELSE g.position
  BY <1>1 DEF Gimbals
<1>3. g.holder = c
  BY DEF IsSound
<1>4. Confirm(g, c) = Release(known)
  BY DEF Confirm
<1> HIDE DEF known
<1>5. IsSound(known)
  BY <1>2 DEF IsSound
<1>6. /\ Release(known).job[c] = Other("none") /\ Release(known).phase[c] = "idle"
      /\ Others(known, Release(known), c)
      /\ Release(known).position = known.position
  BY <1>2, <1>3, <1>5, ReleaseJobs, ReleaseSound
<1> QED
  BY <1>2, <1>4, <1>6 DEF Others

\* A client that does not move the head comes, goes on or leaves.
LEMMA BystanderBelieved ==
  ASSUME NEW g, NEW h, NEW c \in Clients, NEW s, NEW late, NEW b,
         Believed(g, s, late, b), Others(g, h, c), h.position = g.position,
         ~Moving(g, c), ~Moving(h, c)
  PROVE  Believed(h, s, late, b)
<1>1. \A d \in Clients : /\ Moving(h, d) <=> Moving(g, d)
                         /\ Ahead(h, d) <=> Ahead(g, d)
                         /\ Moving(g, d) => h.job[d] = g.job[d]
  BY DEF Moving, Ahead, Others
<1> SUFFICES ASSUME b # "unsure" PROVE Believed(h, s, late, b)
  BY DEF Believed
<1>2. late = {} /\ \A d, e \in Clients : Moving(h, d) /\ Moving(h, e) => d = e
  BY <1>1 DEF Believed
<1>3. \A d \in Clients : Ahead(h, d) => Reached(s, h.job[d].target)
  BY <1>1 DEF Believed, Ahead
<1>4. b = "sure" =>
        /\ (\A d \in Clients : ~Ahead(h, d)) => Reached(s, h.position)
        /\ \A d \in Clients :
             Moving(h, d) /\ ~Ahead(h, d) => StartsAt(h.job[d], h.position)
  BY <1>1 DEF Believed
<1>5. b = "centring" => \E d \in Clients : Moving(h, d) /\ h.job[d].forced
  BY <1>1 DEF Believed
<1> QED
  BY <1>2, <1>3, <1>4, <1>5 DEF Believed

\* A move is asked for.
LEMMA AskBelieved ==
  ASSUME NEW g \in Gimbals, IsSound(g), NEW c \in Clients, NEW s, NEW b \in Beliefs,
         g.phase[c] = "idle", NEW command \in Jobs, command.kind # "halt",
         Aimed(command),
         command.kind = "move" => StartsAt(command, g.position),
         Believed(g, s, orphans, b)
  PROVE  Believed(Ask(g, c, command), s, orphans, Asking(b, g, c, command))
<1> DEFINE h == Ask(g, c, command)
<1>1. /\ h.position = g.position /\ h.job[c] = command
      /\ h.phase[c] \in {"writing", "waiting"} /\ Others(g, h, c)
  BY AskJobs
<1> HIDE DEF h
<1>2. ~Moving(g, c)
  BY DEF Moving
<1>3. CASE command.kind # "move"
  <2>1. ~Moving(h, c)
    BY <1>1, <1>3 DEF Moving
  <2>2. Believed(h, s, orphans, b)
    BY <1>1, <1>2, <2>1, BystanderBelieved
  <2>3. Asking(b, g, c, command) = b \/ Asking(b, g, c, command) = "unsure"
    BY <1>3 DEF Asking, Aimed
  <2> QED
    BY <2>2, <2>3 DEF Believed, h
<1>4. CASE command.kind = "move" /\ Asking(b, g, c, command) # "unsure"
  <2>1. /\ orphans = {} /\ \A d \in Clients \ {c} : ~Moving(g, d)
        /\ Asking(b, g, c, command) = IF command.forced THEN "centring" ELSE b
    BY <1>4 DEF Asking
  <2>2. /\ \A d \in Clients \ {c} : ~Moving(h, d)
        /\ \A d \in Clients : ~Ahead(h, d) /\ ~Ahead(g, d)
        /\ Moving(h, c)
    BY <1>1, <1>2, <1>4, <2>1 DEF Moving, Ahead, Others
  <2>3. ASSUME b # "unsure"
        PROVE  b = "sure" /\ Reached(s, g.position)
    BY <1>2, <2>1, <2>2, <2>3 DEF Believed, Beliefs
  <2>4. CASE command.forced
    BY <1>1, <2>1, <2>2, <2>4 DEF Believed, h
  <2>5. CASE ~command.forced
    BY <1>1, <1>4, <2>1, <2>2, <2>3, <2>5 DEF Believed, h
  <2> QED
    BY <2>4, <2>5
<1>5. CASE Asking(b, g, c, command) = "unsure"
  BY <1>5 DEF Believed
<1> QED
  BY <1>3, <1>4, <1>5

\* A call of move_to or of another command ends well.
LEMMA ConfirmBelieved ==
  ASSUME gimbal \in Gimbals, IsSound(gimbal), NEW c \in Clients,
         gimbal.phase[c] = "reading", JobsAimed(gimbal),
         Believed(gimbal, servo, orphans, belief)
  PROVE  Believed(Confirm(gimbal, c), servo, orphans, Confirmed(c))
<1> DEFINE h == Confirm(gimbal, c)
<1>1. /\ h.job[c] = Other("none") /\ h.phase[c] = "idle" /\ Others(gimbal, h, c)
      /\ h.position = IF gimbal.job[c].kind = "move" THEN gimbal.job[c].target
                      ELSE gimbal.position
  BY ConfirmJobs
<1> HIDE DEF h
<1>2. ~Moving(h, c)
  BY <1>1 DEF Moving
<1>3. CASE gimbal.job[c].kind # "move"
  <2>1. ~Moving(gimbal, c) /\ ~gimbal.job[c].forced
    BY <1>3 DEF Moving, JobsAimed, Aimed
  <2>2. Confirmed(c) = belief /\ h.position = gimbal.position
    BY <1>1, <1>3, <2>1 DEF Confirmed
  <2>3. Believed(h, servo, orphans, belief)
    BY <1>1, <1>2, <2>1, <2>2, BystanderBelieved
  <2> QED
    BY <2>2, <2>3 DEF h
<1>4. CASE gimbal.job[c].kind = "move" /\ Confirmed(c) # "unsure"
  <2>1. belief # "unsure" /\ Ahead(gimbal, c) /\ Moving(gimbal, c)
    BY <1>4 DEF Confirmed, Ahead, Moving
  <2>2. /\ orphans = {} /\ Reached(servo, h.position)
        /\ \A d \in Clients \ {c} : ~Moving(gimbal, d)
    BY <1>1, <1>4, <2>1 DEF Believed
  <2>3. \A d \in Clients : ~Moving(h, d) /\ ~Ahead(h, d)
    BY <1>1, <1>2, <2>2 DEF Others, Moving, Ahead
  <2>4. Confirmed(c) # "centring"
    <3>1. belief = "centring" => gimbal.job[c].forced
      BY <2>2 DEF Believed
    <3> QED
      BY <3>1 DEF Confirmed
  <2> QED
    BY <2>2, <2>3, <2>4 DEF Believed, h
<1>5. CASE Confirmed(c) = "unsure"
  BY <1>5 DEF Believed
<1> QED
  BY <1>3, <1>4, <1>5

LEMMA OthersAimed ==
  ASSUME NEW g, NEW h, NEW c \in Clients, JobsAimed(g), Others(g, h, c),
         Aimed(h.job[c]), c # "dispatcher" => h.job[c].kind # "halt"
  PROVE  JobsAimed(h)
  BY DEF JobsAimed, Others

\* A thread writes its command to the serial line.
LEMMA WrittenBelieved ==
  ASSUME gimbal \in Gimbals, IsSound(gimbal), NEW c \in Clients, Written(c),
         belief \in Beliefs, JobsAimed(gimbal),
         Believed(gimbal, servo, orphans, belief)
  PROVE  Believed(gimbal', servo', orphans', belief') /\ JobsAimed(gimbal')
<1>1. /\ gimbal'.job = gimbal.job /\ gimbal'.position = gimbal.position
      /\ gimbal.phase[c] = "writing" /\ gimbal'.phase[c] = "reading"
      /\ \A d \in Clients \ {c} : gimbal'.phase[d] = gimbal.phase[d]
      /\ servo' \in Told(gimbal.job[c]) /\ orphans' = orphans
  BY DEF Written, Gimbals
<1>2. Others(gimbal, gimbal', c)
  BY <1>1 DEF Others
<1>3. JobsAimed(gimbal')
  BY <1>1 DEF JobsAimed
<1>4. CASE gimbal.job[c].kind = "halt"
  <2>1. belief' = "unsure"
    BY <1>4 DEF Written
  <2> QED
    BY <1>3, <2>1 DEF Believed
<1>5. CASE gimbal.job[c].kind \in {"wave", "none"}
  <2>1. servo' = servo /\ belief' = belief
    BY <1>1, <1>5 DEF Told, Written
  <2>2. ~Moving(gimbal, c) /\ ~Moving(gimbal', c)
    BY <1>1, <1>5 DEF Moving
  <2>3. Believed(gimbal', servo, orphans, belief)
    BY <1>1, <1>2, <2>2, BystanderBelieved
  <2> QED
    BY <1>1, <1>3, <2>1, <2>3
<1>6. CASE gimbal.job[c].kind = "move" /\ belief # "unsure"
  <2> DEFINE j == gimbal.job[c]
  <2>1. belief' = belief /\ Moving(gimbal, c) /\ ~Ahead(gimbal, c)
    BY <1>1, <1>6 DEF Written, Moving, Ahead
  <2>2. orphans = {} /\ \A d \in Clients \ {c} : ~Moving(gimbal, d)
    BY <1>6, <2>1 DEF Believed
  <2>3. /\ \A d \in Clients \ {c} : ~Moving(gimbal', d)
        /\ Moving(gimbal', c) /\ Ahead(gimbal', c)
    BY <1>1, <1>6, <2>2 DEF Moving, Ahead
  <2>4. servo' = [a \in Axes |-> IF a \in DOMAIN j.moves THEN j.moves[a] ELSE servo[a]]
    BY <1>1, <1>6 DEF Told
  <2>5. \A a \in DOMAIN j.moves : j.moves[a] = Physical(a, j.target[a])
    BY <1>6 DEF JobsAimed, Aimed
  <2>6. \A a \in Axes \ DOMAIN j.moves : servo[a] = Physical(a, j.target[a])
    <3>1. CASE belief = "sure"
      <4>1. Reached(servo, gimbal.position) /\ StartsAt(j, gimbal.position)
        BY <2>1, <2>2, <3>1 DEF Believed, Ahead
      <4> QED
        BY <4>1 DEF Reached, StartsAt
    <3>2. CASE belief = "centring"
      <4>1. j.forced
        BY <2>2, <3>2 DEF Believed
      <4> QED
        BY <1>6, <4>1 DEF JobsAimed, Aimed
    <3> QED
      BY <1>6, <3>1, <3>2 DEF Beliefs
  <2>7. Reached(servo', j.target)
    BY <2>4, <2>5, <2>6 DEF Reached
  <2>8. \A d \in Clients : Ahead(gimbal', d) => Reached(servo', gimbal'.job[d].target)
    BY <1>1, <2>3, <2>7 DEF Ahead
  <2>9. belief = "centring" => \E d \in Clients : Moving(gimbal', d) /\ gimbal'.job[d].forced
    BY <1>1, <2>2, <2>3 DEF Believed
  <2> HIDE DEF j
  <2>10. Believed(gimbal', servo', orphans', belief')
    BY <1>1, <2>1, <2>2, <2>3, <2>8, <2>9 DEF Believed
  <2> QED
    BY <1>3, <2>10
<1>7. CASE gimbal.job[c].kind = "move" /\ belief = "unsure"
  BY <1>3, <1>7 DEF Written, Believed
<1> QED
  BY <1>4, <1>5, <1>6, <1>7 DEF Gimbals, Jobs

-----------------------------------------------------------------------------

\* A step of an action is one of move_to's commands, or the wave's.
LEMMA CommandIsAimed ==
  ASSUME NEW position \in Positions, NEW step \in Steps
  PROVE  /\ Aimed(Command(position, step))
         /\ Command(position, step).kind # "halt"
         /\ Command(position, step).kind = "move" =>
              StartsAt(Command(position, step), position)
<1>1. ASSUME NEW pan \in Int, NEW tilt \in Int, step = By(pan, tilt)
      PROVE  \E aim \in [Axes -> Int] :
               Command(position, step) = MoveTo(position, aim, FALSE)
  <2> DEFINE delta == [a \in Axes |-> IF a = "pan" THEN step.pan ELSE step.tilt]
             aim == [a \in Axes |-> position[a] + delta[a]]
  <2>1. step.do = "by" /\ step.pan = pan /\ step.tilt = tilt
    BY <1>1 DEF By
  <2>2. delta \in [Axes -> Int]
    BY <2>1
  <2>3. Command(position, step) = MoveBy(position, delta)
    BY <2>1 DEF Command
  <2> HIDE DEF delta
  <2>4. aim \in [Axes -> Int]
    BY <2>2 DEF Positions
  <2> QED
    BY <2>3, <2>4 DEF MoveBy
<1>2. ASSUME NEW aim \in Aims, step = To(aim)
      PROVE  /\ Command(position, step) = MoveTo(position, aim, FALSE)
             /\ aim \in [Axes -> Int]
  BY <1>2 DEF Command, To
<1>3. ASSUME step = Centring
      PROVE  /\ Command(position, step) = MoveTo(position, Neutral, TRUE)
             /\ Neutral \in [Axes -> Int]
  BY <1>3, NeutralIsPosition DEF Command, Centring, Center, Positions
<1>4. CASE step = Waving
  <2>1. Command(position, step) = Other("wave")
    BY <1>4 DEF Command, Waving
  <2> QED
    BY <2>1, OtherIsAimed
<1>5. ASSUME NEW aim \in [Axes -> Int], NEW forced \in BOOLEAN,
             Command(position, step) = MoveTo(position, aim, forced)
      PROVE  /\ Aimed(Command(position, step))
             /\ Command(position, step).kind # "halt"
             /\ StartsAt(Command(position, step), position)
  BY <1>5, MoveToIsAimed
<1>6. CASE \E pan \in Int, tilt \in Int : step = By(pan, tilt)
  BY <1>1, <1>5, <1>6
<1>7. CASE \E aim \in Aims : step = To(aim)
  BY <1>2, <1>5, <1>7
<1>8. CASE step = Centring
  BY <1>3, <1>5, <1>8
<1> QED
  BY <1>4, <1>6, <1>7, <1>8 DEF Steps

LEMMA GoOnBelieved ==
  ASSUME NEW g \in Gimbals, IsSound(g), g.phase["action"] = "idle",
         NEW b \in Beliefs, NEW name \in Names, NEW todo \in Seq(Steps),
         GoOn(g, b, name, todo), UNCHANGED <<servo, orphans>>,
         Believed(g, servo, orphans, b), JobsAimed(g)
  PROVE  Believed(gimbal', servo', orphans', belief') /\ JobsAimed(gimbal')
<1>1. "action" \in Clients /\ g.position \in Positions
  BY DEF Clients, Gimbals
<1>2. CASE gimbal' = g /\ belief' = b
  BY <1>2
<1>3. ASSUME NEW first \in 1..Len(todo),
             gimbal' = Ask(g, "action", Command(g.position, todo[first])),
             belief' = Asking(b, g, "action", Command(g.position, todo[first]))
      PROVE  Believed(gimbal', servo', orphans', belief') /\ JobsAimed(gimbal')
  <2>1. PICK command \in Jobs : command = Command(g.position, todo[first])
    BY <1>1, CommandIsJob
  <2>2. /\ Aimed(command) /\ command.kind # "halt"
        /\ command.kind = "move" => StartsAt(command, g.position)
    BY <1>1, <2>1, CommandIsAimed
  <2>3. Believed(gimbal', servo, orphans, belief')
    BY <1>1, <1>3, <2>1, <2>2, AskBelieved
  <2>4. gimbal'.job["action"] = command /\ Others(g, gimbal', "action")
    BY <1>1, <1>3, <2>1, AskJobs
  <2>5. JobsAimed(gimbal')
    BY <1>1, <2>2, <2>4, OthersAimed
  <2> QED
    BY <2>3, <2>5
<1> QED
  BY <1>2, <1>3 DEF GoOn

\* The current action, or a client of the line, gives up.
LEMMA LeaveBelieved ==
  ASSUME gimbal \in Gimbals, IsSound(gimbal), NEW c \in Clients,
         gimbal.phase[c] # "idle", gimbal' = Leave(gimbal, c),
         JobsAimed(gimbal), Believed(gimbal, servo, orphans, belief),
         belief' = IF Moving(gimbal, c) THEN "unsure" ELSE belief,
         ~Moving(gimbal, c) => UNCHANGED <<servo, orphans>>
  PROVE  Believed(gimbal', servo', orphans', belief') /\ JobsAimed(gimbal')
<1>1. /\ gimbal'.job[c] = Other("none") /\ gimbal'.phase[c] = "idle"
      /\ Others(gimbal, gimbal', c) /\ gimbal'.position = gimbal.position
  BY LeaveJobs
<1>2. JobsAimed(gimbal')
  <2>1. Aimed(gimbal'.job[c]) /\ gimbal'.job[c].kind # "halt"
    BY <1>1, OtherIsAimed
  <2> QED
    BY <1>1, <2>1, OthersAimed
<1>3. CASE Moving(gimbal, c)
  BY <1>2, <1>3 DEF Believed
<1>4. CASE ~Moving(gimbal, c)
  <2>1. ~Moving(gimbal', c)
    BY <1>1 DEF Moving
  <2>2. Believed(gimbal', servo, orphans, belief)
    BY <1>1, <1>4, <2>1, BystanderBelieved
  <2> QED
    BY <1>2, <1>4, <2>2
<1> QED
  BY <1>3, <1>4

BeliefInv == Believed(gimbal, servo, orphans, belief) /\ JobsAimed(gimbal)

LEMMA BeliefInit == Init => BeliefInv
<1> SUFFICES ASSUME Init PROVE BeliefInv
  OBVIOUS
<1>1. \A c \in Clients : gimbal.phase[c] = "idle" /\ gimbal.job[c] = Other("none")
  BY DEF Init, Parked
<1>2. JobsAimed(gimbal)
  BY <1>1, OtherIsAimed DEF JobsAimed
<1>3. belief = "unsure"
  BY DEF Init
<1> QED
  BY <1>2, <1>3 DEF BeliefInv, Believed

LEMMA BeliefNext ==
  ASSUME Inv, BeliefInv, [Next]_vars
  PROVE  BeliefInv'
<1> USE DEF BeliefInv
<1>1. /\ gimbal \in Gimbals /\ IsSound(gimbal) /\ belief \in Beliefs
      /\ {"camera", "action", "dispatcher"} \subseteq Clients
      /\ steps \in Seq(Steps)
  BY DEF Inv, ActionTypes, Clients
<1>2. ASSUME NEW name \in Names, StartAction(name) PROVE BeliefInv'
  <2>1. PICK todo \in StepsOf(name) : GoOn(gimbal, belief, name, todo)
    BY <1>2 DEF StartAction
  <2>2. todo \in Seq(Steps)
    BY StepsOfAreSteps
  <2>3. gimbal.phase["action"] = "idle" /\ UNCHANGED <<servo, orphans>>
    BY <1>2 DEF StartAction, Inv
  <2> QED
    BY <1>1, <2>1, <2>2, <2>3, GoOnBelieved
<1>3. CASE WaveOn
  <2>1. gimbal.phase["action"] = "idle" /\ action \in Names
    BY <1>3 DEF WaveOn, Sleeping, Inv, ActionTypes
  <2> QED
    BY <1>1, <1>3, <2>1, GoOnBelieved DEF WaveOn
<1>4. ASSUME CancelAction PROVE BeliefInv'
  <2>1. CASE Sleeping
    <3>1. ~Moving(gimbal, "action")
      BY <2>1 DEF Sleeping, Moving
    <3> QED
      BY <1>4, <2>1, <3>1 DEF CancelAction
  <2>2. CASE ~Sleeping
    <3>1. gimbal.phase["action"] # "idle" /\ gimbal' = Leave(gimbal, "action")
      BY <1>4, <2>2 DEF CancelAction, Sleeping
    <3>2. ~Moving(gimbal, "action") => UNCHANGED <<servo, orphans>>
      BY <1>4 DEF CancelAction
    <3> QED
      BY <1>1, <1>4, <3>1, <3>2, LeaveBelieved DEF CancelAction
  <2> QED
    BY <2>1, <2>2
<1>5. CASE SendStop
  <2>1. gimbal.phase["dispatcher"] = "idle" /\ Other("halt") \in Jobs
    BY <1>5, OtherIsJob DEF SendStop, Inv
  <2>2. /\ gimbal'.job["dispatcher"] = Other("halt")
        /\ Others(gimbal, gimbal', "dispatcher")
        /\ gimbal'.position = gimbal.position
    BY <1>1, <1>5, <2>1, AskJobs DEF SendStop
  <2>3. JobsAimed(gimbal')
    BY <1>1, <2>2, OtherIsAimed, OthersAimed
  <2>4. ~Moving(gimbal, "dispatcher") /\ ~Moving(gimbal', "dispatcher")
    BY <2>1, <2>2, OtherIsAimed DEF Moving
  <2>5. Believed(gimbal', servo, orphans, belief)
    BY <1>1, <2>2, <2>4, BystanderBelieved
  <2> QED
    BY <1>5, <2>3, <2>5 DEF SendStop
<1>6. ASSUME NEW command \in Jobs, CameraAsks(command), Aimed(command),
             command.kind # "halt",
             command.kind = "move" => StartsAt(command, gimbal.position)
      PROVE  BeliefInv'
  <2>1. Believed(gimbal', servo, orphans, belief')
    BY <1>1, <1>6, AskBelieved DEF CameraAsks
  <2>2. gimbal'.job["camera"] = command /\ Others(gimbal, gimbal', "camera")
    BY <1>1, <1>6, AskJobs DEF CameraAsks
  <2>3. JobsAimed(gimbal')
    BY <1>1, <1>6, <2>2, OthersAimed
  <2> QED
    BY <1>6, <2>1, <2>3 DEF CameraAsks
<1>7. CASE Track \/ CenterOnLoss
  <2>1. PICK step \in Steps : CameraAsks(Command(gimbal.position, step))
    <3>1. CASE CenterOnLoss
      <4>1. Centring \in Steps /\ Command(gimbal.position, Centring) = Center(gimbal.position)
        BY DEF Steps, Command, Centring
      <4> QED
        BY <3>1, <4>1 DEF CenterOnLoss
    <3>2. CASE Track
      <4>1. PICK pan \in -MaxPan..MaxPan, tilt \in -MaxTilt..MaxTilt :
              CameraAsks(Command(gimbal.position, By(pan, tilt)))
        BY <3>2 DEF Track
      <4>2. pan \in Int /\ tilt \in Int
        OBVIOUS
      <4>3. By(pan, tilt) \in Steps
        BY <4>2 DEF Steps
      <4> QED
        BY <4>1, <4>3
    <3> QED
      BY <1>7, <3>1, <3>2
  <2>2. gimbal.position \in Positions
    BY <1>1 DEF Gimbals
  <2>3. Command(gimbal.position, step) \in Jobs
    BY <2>2, CommandIsJob
  <2> QED
    BY <1>6, <2>1, <2>2, <2>3, CommandIsAimed
<1>8. ASSUME NEW c \in Clients, Written(c) PROVE BeliefInv'
  BY <1>1, <1>8, WrittenBelieved
<1>9. ASSUME NEW c \in Clients, Returns(c) PROVE BeliefInv'
  <2>1. gimbal.phase[c] = "reading" /\ UNCHANGED <<servo, orphans>>
    BY <1>9 DEF Returns
  <2>2. PICK g \in Gimbals : /\ g = Confirm(gimbal, c) /\ IsSound(g)
                             /\ g.phase[c] = "idle"
    BY <1>1, <2>1, ConfirmSound
  <2>3. Believed(g, servo, orphans, Confirmed(c))
    BY <1>1, <2>1, <2>2, ConfirmBelieved
  <2>4. Confirmed(c) \in Beliefs
    BY <1>1 DEF Confirmed, Beliefs
  <2>5. JobsAimed(g)
    <3>1. g.job[c] = Other("none") /\ Others(gimbal, g, c)
      BY <1>1, <2>1, <2>2, ConfirmJobs
    <3>2. Aimed(g.job[c]) /\ g.job[c].kind # "halt"
      BY <3>1, OtherIsAimed
    <3> QED
      BY <3>1, <3>2, OthersAimed
  <2>6. CASE c = "action" /\ gimbal.job[c].kind = "move"
    <3>1. GoOn(g, Confirmed(c), action, steps)
      BY <1>9, <2>2, <2>6 DEF Returns
    <3>2. action \in Names
      BY <2>1, <2>6 DEF Inv, ActionTypes
    <3> QED
      BY <1>1, <2>1, <2>2, <2>3, <2>4, <2>5, <2>6, <3>1, <3>2, GoOnBelieved
  <2>7. CASE ~(c = "action" /\ gimbal.job[c].kind = "move")
    BY <1>9, <2>1, <2>2, <2>3, <2>5, <2>7 DEF Returns
  <2> QED
    BY <2>6, <2>7
<1>10. ASSUME NEW c \in {"camera", "action"}, LineFails(c) PROVE BeliefInv'
  <2>1. /\ c \in Clients /\ c # "dispatcher"
        /\ gimbal.phase[c] \in {"writing", "reading"} /\ gimbal.job[c] \in Jobs
    BY <1>1, <1>10 DEF LineFails, Gimbals
  <2>2. ASSUME ~Moving(gimbal, c) PROVE UNCHANGED <<servo, orphans>>
    <3>1. gimbal.job[c].kind \in {"wave", "none"}
      BY <2>1, <2>2 DEF Moving, JobsAimed, Jobs
    <3> QED
      BY <1>10, <3>1 DEF LineFails, Told
  <2> QED
    BY <1>1, <1>10, <2>1, <2>2, LeaveBelieved DEF LineFails
<1>11. CASE TrackerFails \/ ActionFails \/ \E name \in Names : InterruptFailed(name)
  BY <1>10, <1>11 DEF TrackerFails, ActionFails, InterruptFailed
<1>12. CASE DropNext
  BY <1>12 DEF DropNext
<1>13. CASE OrphanWritten
  BY <1>13 DEF OrphanWritten, Believed
<1>14. CASE Abandon \/ \E name \in Names : Interrupt(name)
  BY <1>4, <1>14 DEF Abandon, Interrupt
<1>15. CASE UNCHANGED vars
  BY <1>15 DEF vars
<1> QED
  BY <1>2, <1>3, <1>5, <1>7, <1>8, <1>9, <1>11, <1>12, <1>13, <1>14, <1>15 DEF Next

\* Relative moves start from where the head is once a centring has reached it
\* that nobody disturbed, and until moves overlap, are given up, or the head
\* is stopped, for any limits, moves and actions and wherever the head stood
\* at the start.
THEOREM HeadIsWhereBelieved == Spec => []MovesStartWhereItIs
<1>1. Inv /\ BeliefInv => MovesStartWhereItIs
  <2> SUFFICES ASSUME Inv, BeliefInv, belief = "sure", NEW a \in Axes
               PROVE  servo[a] = Physical(a, Expected(a))
    BY DEF MovesStartWhereItIs
  <2> DEFINE Reading == {c \in Clients : gimbal.phase[c] = "reading" /\ Moving(gimbal, c)}
  <2>1. \A c \in Clients : c \in Reading <=> Ahead(gimbal, c)
    BY DEF Ahead
  <2>2. CASE Reading = {}
    <3>1. Reached(servo, gimbal.position)
      BY <2>1, <2>2 DEF BeliefInv, Believed
    <3> QED
      BY <2>2, <3>1 DEF Expected, Reached
  <2>3. CASE Reading # {}
    <3> DEFINE c == CHOOSE c \in Reading : TRUE
    <3>1. c \in Reading
      BY <2>3
    <3>2. Expected(a) = gimbal.job[c].target[a]
      BY <2>3 DEF Expected
    <3> HIDE DEF c
    <3>3. Reached(servo, gimbal.job[c].target)
      BY <2>1, <3>1 DEF BeliefInv, Believed
    <3> QED
      BY <3>2, <3>3 DEF Reached
  <2> QED
    BY <2>2, <2>3
<1>2. Init => BeliefInv
  BY BeliefInit
<1>3. Inv /\ BeliefInv /\ [Next]_vars => BeliefInv'
  BY BeliefNext
<1> QED
  BY <1>1, <1>2, <1>3, InvHolds, PTL DEF Spec
=============================================================================
