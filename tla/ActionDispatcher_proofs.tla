----------------------- MODULE ActionDispatcher_proofs -----------------------
(***************************************************************************)
(* Proofs about ActionDispatcher, for any number of intents and any queue  *)
(* size.  Liveness (EveryIntentSettles) stays with TLC.                    *)
(***************************************************************************)
EXTENDS ActionDispatcher, TLAPS

\* The intent that waits for the stop command is the only one in the state
\* "stopping": it is not in the queue any more, and not the current one.
StoppingIsMarked ==
  \A i \in Intents : outcome[i] = "stopping" <=> i = stopping

IInv == TypeOK /\ OneActionAtATime /\ DegradedIsQuiet /\ StoppingIsMarked

\* Taking the head off a queue without duplicates removes exactly that
\* intent from it.
LEMMA TakingTheHead ==
  ASSUME queue \in Seq(Intents), queue # <<>>, QueueDistinct
  PROVE  /\ Head(queue) \in Intents /\ Tail(queue) \in Seq(Intents)
         /\ Len(Tail(queue)) = Len(queue) - 1
         /\ Head(queue) = queue[1]
         /\ \A j, k \in DOMAIN Tail(queue) :
              Tail(queue)[j] = Tail(queue)[k] => j = k
         /\ \A i : (\E k \in DOMAIN Tail(queue) : Tail(queue)[k] = i) <=>
                   (\E k \in DOMAIN queue : queue[k] = i) /\ i # Head(queue)
<1>1. /\ Head(queue) \in Intents /\ Tail(queue) \in Seq(Intents)
      /\ Len(queue) \in Nat /\ Len(queue) >= 1
      /\ DOMAIN queue = 1..Len(queue)
      /\ Len(Tail(queue)) = Len(queue) - 1
      /\ DOMAIN Tail(queue) = 1..(Len(queue) - 1)
      /\ Head(queue) = queue[1]
      /\ \A k \in 1..(Len(queue) - 1) : Tail(queue)[k] = queue[k + 1]
  OBVIOUS
<1>2. \A j, k \in DOMAIN Tail(queue) : Tail(queue)[j] = Tail(queue)[k] => j = k
  <2> TAKE j, k \in DOMAIN Tail(queue)
  <2>1. j + 1 \in DOMAIN queue /\ k + 1 \in DOMAIN queue
    BY <1>1
  <2> QED
    BY <1>1, <2>1 DEF QueueDistinct
<1>3. ASSUME NEW i, NEW k \in DOMAIN Tail(queue), Tail(queue)[k] = i
      PROVE  (\E m \in DOMAIN queue : queue[m] = i) /\ i # Head(queue)
  <2>1. k + 1 \in DOMAIN queue /\ 1 \in DOMAIN queue /\ queue[k + 1] = i
        /\ k + 1 # 1
    BY <1>1, <1>3
  <2> QED
    BY <1>1, <2>1 DEF QueueDistinct
<1>4. ASSUME NEW i, NEW k \in DOMAIN queue, queue[k] = i, i # Head(queue)
      PROVE  \E m \in DOMAIN Tail(queue) : Tail(queue)[m] = i
  <2>1. k - 1 \in DOMAIN Tail(queue) /\ Tail(queue)[k - 1] = queue[k]
    BY <1>1, <1>4
  <2> QED
    BY <2>1, <1>4
<1> QED
  BY <1>1, <1>2, <1>3, <1>4

\* An intent that is not queued can be put behind a queue without
\* duplicates.
LEMMA PuttingAtTheEnd ==
  ASSUME queue \in Seq(Intents), QueueDistinct, NEW n \in Intents,
         \A k \in DOMAIN queue : queue[k] # n
  PROVE  /\ Append(queue, n) \in Seq(Intents)
         /\ Len(Append(queue, n)) = Len(queue) + 1
         /\ \A j, k \in DOMAIN Append(queue, n) :
              Append(queue, n)[j] = Append(queue, n)[k] => j = k
         /\ \A i : (\E k \in DOMAIN Append(queue, n) : Append(queue, n)[k] = i)
                   <=> (\E k \in DOMAIN queue : queue[k] = i) \/ i = n
<1> DEFINE q == Append(queue, n)
<1>1. /\ q \in Seq(Intents) /\ Len(queue) \in Nat
      /\ Len(q) = Len(queue) + 1
      /\ DOMAIN queue = 1..Len(queue) /\ DOMAIN q = 1..(Len(queue) + 1)
      /\ \A k \in 1..Len(queue) : q[k] = queue[k]
      /\ q[Len(queue) + 1] = n
  OBVIOUS
<1> HIDE DEF q
<1>2. ASSUME NEW j \in DOMAIN q, NEW k \in DOMAIN q, q[j] = q[k]
      PROVE  j = k
  BY <1>1, <1>2 DEF QueueDistinct
<1>3. ASSUME NEW i, NEW k \in DOMAIN q, q[k] = i
      PROVE  (\E m \in DOMAIN queue : queue[m] = i) \/ i = n
  <2>1. CASE k \in 1..Len(queue)
    BY <1>1, <1>3, <2>1
  <2>2. CASE k = Len(queue) + 1
    BY <1>1, <1>3, <2>2
  <2> QED
    BY <1>1, <2>1, <2>2
<1>4. ASSUME NEW i, (\E m \in DOMAIN queue : queue[m] = i) \/ i = n
      PROVE  \E k \in DOMAIN q : q[k] = i
  <2>1. CASE i = n
    BY <1>1, <2>1
  <2>2. ASSUME NEW m \in DOMAIN queue, queue[m] = i
        PROVE  \E k \in DOMAIN q : q[k] = i
    <3>1. m \in DOMAIN q /\ q[m] = i
      BY <1>1, <2>2
    <3> QED
      BY <3>1
  <2> QED
    BY <1>4, <2>1, <2>2
<1>5. /\ \A j, k \in DOMAIN q : q[j] = q[k] => j = k
      /\ \A i : (\E k \in DOMAIN q : q[k] = i)
                <=> (\E k \in DOMAIN queue : queue[k] = i) \/ i = n
  BY <1>2, <1>3, <1>4
<1> QED
  BY <1>1, <1>5 DEF q

LEMMA InitEstablishes == Init => IInv
<1> SUFFICES ASSUME Init PROVE IInv
  OBVIOUS
<1>1. queue = <<>> /\ <<>> \in Seq(Intents) /\ Len(<<>>) = 0
      /\ DOMAIN queue = {}
  BY DEF Init
<1>2. /\ outcome \in [Intents -> Outcomes] /\ name \in [Intents -> Names]
      /\ \A i \in Intents : outcome[i] = "new"
  BY DEF Init, Outcomes, Names
<1>3. QueueDistinct /\ QueueHoldsQueued
  BY <1>1, <1>2 DEF QueueDistinct, QueueHoldsQueued
<1>4. TypeOK
  <2>1. Len(queue) <= QueueSize
    BY <1>1, DispatcherAssumption
  <2>2. degraded \in BOOLEAN /\ alive \in BOOLEAN
    BY Zenon DEF Init
  <2>3. current \in Intents \union {NoIntent}
        /\ stopping \in Intents \union {NoIntent}
    BY DEF Init
  <2> QED
    BY <1>1, <1>2, <1>3, <2>1, <2>2, <2>3, Zenon DEF TypeOK
<1>5. StoppingIsMarked
  BY <1>2, DispatcherAssumption DEF Init, StoppingIsMarked
<1> QED
  BY <1>2, <1>4, <1>5 DEF Init, IInv, OneActionAtATime, DegradedIsQuiet

LEMMA StepPreserves == IInv /\ [Next]_vars => IInv'
<1> SUFFICES ASSUME IInv, [Next]_vars PROVE IInv'
  OBVIOUS
<1>1. /\ outcome \in [Intents -> Outcomes] /\ name \in [Intents -> Names]
      /\ queue \in Seq(Intents) /\ Len(queue) <= QueueSize
      /\ current \in Intents \union {NoIntent}
      /\ stopping \in Intents \union {NoIntent}
      /\ QueueDistinct /\ QueueHoldsQueued
      /\ Len(queue) \in Nat /\ QueueSize \in Nat /\ NoIntent \notin Intents
  BY DispatcherAssumption DEF IInv, TypeOK
<1>2. degraded \in BOOLEAN /\ alive \in BOOLEAN
  BY Zenon DEF IInv, TypeOK
<1>3. OneActionAtATime /\ DegradedIsQuiet /\ StoppingIsMarked
  BY DEF IInv
<1>4. ASSUME outcome' \in [Intents -> Outcomes],
             name' \in [Intents -> Names],
             queue' \in Seq(Intents), Len(queue') <= QueueSize,
             current' \in Intents \union {NoIntent},
             stopping' \in Intents \union {NoIntent},
             degraded' \in BOOLEAN, alive' \in BOOLEAN,
             QueueDistinct', QueueHoldsQueued',
             OneActionAtATime', DegradedIsQuiet', StoppingIsMarked'
      PROVE  IInv'
  BY <1>4, Zenon DEF IInv, TypeOK
<1>5. ASSUME NEW i \in Intents, NEW n \in Names, Submit(i, n)
      PROVE  IInv'
  <2>1. /\ outcome' = [outcome EXCEPT ![i] = "queued"]
        /\ queue' = Append(queue, i) /\ Len(queue) < QueueSize
        /\ name' = [name EXCEPT ![i] = n]
        /\ current' = current /\ stopping' = stopping
        /\ outcome[i] \in {"new"} \union Settled
    BY <1>5 DEF Submit
  <2>2. degraded' = degraded /\ alive' = alive
    BY <1>5 DEF Submit
  <2>3. outcome[i] \notin {"queued", "stopping", "running"}
    BY <2>1 DEF Settled
  <2>4. \A k \in DOMAIN queue : queue[k] # i
    BY <1>1, <2>3 DEF QueueHoldsQueued
  <2>5. /\ queue' \in Seq(Intents) /\ Len(queue') = Len(queue) + 1
        /\ QueueDistinct'
        /\ \A j : (\E k \in DOMAIN queue' : queue'[k] = j)
                  <=> (\E k \in DOMAIN queue : queue[k] = j) \/ j = i
    BY <1>1, <2>1, <2>4, PuttingAtTheEnd DEF QueueDistinct
  <2>6. QueueHoldsQueued'
    BY <1>1, <2>1, <2>5 DEF QueueHoldsQueued
  <2>7. OneActionAtATime' /\ StoppingIsMarked'
    BY <1>1, <1>3, <2>1, <2>3 DEF OneActionAtATime, StoppingIsMarked
  <2>8. DegradedIsQuiet'
    BY <1>1, <1>3, <2>1, <2>2 DEF DegradedIsQuiet
  <2>9. /\ outcome' \in [Intents -> Outcomes] /\ name' \in [Intents -> Names]
        /\ Len(queue') <= QueueSize
    BY <1>1, <2>1, <2>5 DEF Outcomes
  <2> QED
    BY <1>1, <1>2, <1>4, <2>1, <2>2, <2>5, <2>6, <2>7, <2>8, <2>9, Zenon
\* A queue that is left alone still holds exactly the queued intents, and so
\* does one whose head is taken and marked.
<1>6. ASSUME queue' = queue, outcome' \in [Intents -> Outcomes],
             \A i \in Intents : outcome'[i] = "queued" <=> outcome[i] = "queued"
      PROVE  /\ queue' \in Seq(Intents) /\ Len(queue') <= QueueSize
             /\ QueueDistinct' /\ QueueHoldsQueued'
  BY <1>1, <1>6 DEF QueueDistinct, QueueHoldsQueued
<1>7. ASSUME queue # <<>>, queue' = Tail(queue),
             \A i \in Intents : outcome'[i] = "queued" <=>
                                outcome[i] = "queued" /\ i # Head(queue)
      PROVE  /\ queue' \in Seq(Intents) /\ Len(queue') <= QueueSize
             /\ QueueDistinct' /\ QueueHoldsQueued'
  <2>1. /\ queue' \in Seq(Intents) /\ Len(queue') = Len(queue) - 1
        /\ QueueDistinct'
        /\ \A i : (\E k \in DOMAIN queue' : queue'[k] = i) <=>
                  (\E k \in DOMAIN queue : queue[k] = i) /\ i # Head(queue)
    BY <1>1, <1>7, TakingTheHead DEF QueueDistinct
  <2>2. Len(queue') <= QueueSize
    BY <1>1, <2>1
  <2>3. QueueHoldsQueued'
    BY <1>1, <1>7, <2>1 DEF QueueHoldsQueued
  <2> QED
    BY <2>1, <2>2, <2>3
<1>8. ASSUME queue # <<>>
      PROVE  Head(queue) \in Intents /\ outcome[Head(queue)] = "queued"
  <2>1. Head(queue) \in Intents /\ \E k \in DOMAIN queue : queue[k] = Head(queue)
    BY <1>1, <1>8
  <2> QED
    BY <1>1, <2>1 DEF QueueHoldsQueued
<1>9. CASE Reap
  <2>1. /\ current' = NoIntent /\ current # NoIntent /\ ~Running
        /\ outcome' = outcome /\ name' = name /\ queue' = queue
        /\ stopping' = stopping
    BY <1>9 DEF Reap
  <2>2. degraded' = degraded /\ alive' = alive
    BY <1>9 DEF Reap
  <2>3. \A i \in Intents : outcome[i] # "running"
    BY <1>3, <2>1 DEF Running, OneActionAtATime
  <2>4. OneActionAtATime' /\ StoppingIsMarked' /\ DegradedIsQuiet'
    BY <1>3, <2>1, <2>3 DEF OneActionAtATime, StoppingIsMarked, DegradedIsQuiet
  <2>5. QueueDistinct' /\ QueueHoldsQueued'
    BY <1>1, <1>6, <2>1
  <2> QED
    BY <1>1, <1>2, <1>4, <2>1, <2>2, <2>4, <2>5
<1>10. CASE TakeWhenIdle
  <2> DEFINE h == Head(queue)
  <2>1. /\ current = NoIntent /\ queue # <<>> /\ stopping = NoIntent
        /\ queue' = Tail(queue) /\ Start(h)
        /\ name' = name /\ stopping' = stopping
    BY <1>10 DEF TakeWhenIdle, Waiting
  <2>2. degraded' = degraded /\ alive' = alive
    BY <1>10 DEF TakeWhenIdle
  <2>3. h \in Intents /\ outcome[h] = "queued"
    BY <1>8, <2>1
  <2>4. \A i \in Intents : outcome[i] # "running" /\ outcome[i] # "stopping"
    BY <1>1, <1>3, <2>1 DEF OneActionAtATime, StoppingIsMarked
  <2> HIDE DEF h
  <2>5. /\ outcome' \in [Intents -> Outcomes]
        /\ current' \in Intents \union {NoIntent}
        /\ \A i \in Intents : outcome'[i] = "queued" <=>
                               outcome[i] = "queued" /\ i # h
    BY <1>1, <2>1, <2>3 DEF Start, Outcomes, Settled
  <2>6. OneActionAtATime' /\ StoppingIsMarked'
    BY <1>1, <2>1, <2>3, <2>4
    DEF Start, OneActionAtATime, StoppingIsMarked
  <2>7. DegradedIsQuiet'
    BY <1>1, <2>1, <2>2, <2>3, <2>4 DEF Start, DegradedIsQuiet
  <2>8. /\ queue' \in Seq(Intents) /\ Len(queue') <= QueueSize
        /\ QueueDistinct' /\ QueueHoldsQueued'
    BY <1>7, <2>1, <2>5 DEF h
  <2> QED
    BY <1>1, <1>2, <1>4, <2>1, <2>2, <2>5, <2>6, <2>7, <2>8
<1>11. ASSUME Preempt \/ DropLower
       PROVE  IInv'
  <2> DEFINE h == Head(queue)
  <2>1. /\ Running /\ queue # <<>> /\ stopping = NoIntent
        /\ queue' = Tail(queue) /\ name' = name /\ current' = current
        /\ \/ /\ outcome' = [outcome EXCEPT ![current] = "cancelled",
                                            ![h] = "stopping"]
              /\ stopping' = h
           \/ /\ outcome' = [outcome EXCEPT ![h] = "dropped",
                                            ![current] = "cancelled"]
              /\ stopping' = stopping
    BY <1>11 DEF Preempt, DropLower, Waiting
  <2>2. degraded' = degraded /\ alive' = alive
    BY <1>11 DEF Preempt, DropLower
  <2>3. /\ h \in Intents /\ outcome[h] = "queued"
        /\ current \in Intents /\ outcome[current] = "running"
        /\ h # current
    BY <1>1, <1>8, <2>1 DEF Running
  <2>4. \A i \in Intents : /\ outcome[i] # "stopping"
                           /\ outcome[i] = "running" => i = current
    BY <1>1, <1>3, <2>1 DEF OneActionAtATime, StoppingIsMarked
  <2> HIDE DEF h
  <2>5. /\ outcome' \in [Intents -> Outcomes]
        /\ stopping' \in Intents \union {NoIntent}
        /\ \A i \in Intents : outcome'[i] = "queued" <=>
                               outcome[i] = "queued" /\ i # h
    BY <1>1, <2>1, <2>3 DEF Outcomes, Settled
  <2>6. \A i \in Intents : outcome'[i] # "running"
    BY <1>1, <2>1, <2>3, <2>4
  <2>7. StoppingIsMarked'
    BY <1>1, <2>1, <2>3, <2>4 DEF StoppingIsMarked
  <2>8. /\ queue' \in Seq(Intents) /\ Len(queue') <= QueueSize
        /\ QueueDistinct' /\ QueueHoldsQueued'
    BY <1>7, <2>1, <2>5 DEF h
  <2>9. OneActionAtATime' /\ DegradedIsQuiet'
    BY <2>6 DEF OneActionAtATime, DegradedIsQuiet
  <2> QED
    BY <1>1, <1>2, <1>4, <2>1, <2>2, <2>5, <2>7, <2>8, <2>9
<1>12. CASE StopSent
  <2>1. /\ stopping # NoIntent /\ Start(stopping) /\ stopping' = NoIntent
        /\ name' = name /\ queue' = queue
    BY <1>12 DEF StopSent
  <2>2. degraded' = degraded /\ alive' = alive
    BY <1>12 DEF StopSent
  <2>3. /\ stopping \in Intents /\ outcome[stopping] = "stopping"
        /\ \A i \in Intents : /\ outcome[i] # "running"
                              /\ outcome[i] = "stopping" => i = stopping
    BY <1>1, <1>3, <2>1 DEF OneActionAtATime, StoppingIsMarked
  <2>4. /\ outcome' \in [Intents -> Outcomes]
        /\ current' \in Intents \union {NoIntent}
        /\ \A i \in Intents : outcome'[i] = "queued" <=> outcome[i] = "queued"
    BY <1>1, <2>1, <2>3 DEF Start, Outcomes, Settled
  <2>5. OneActionAtATime' /\ StoppingIsMarked'
    BY <1>1, <2>1, <2>3 DEF Start, OneActionAtATime, StoppingIsMarked
  <2>6. DegradedIsQuiet'
    BY <1>1, <2>1, <2>2, <2>3 DEF Start, DegradedIsQuiet
  <2>7. QueueDistinct' /\ QueueHoldsQueued'
    BY <1>6, <2>1, <2>4
  <2> QED
    BY <1>1, <1>2, <1>4, <2>1, <2>2, <2>4, <2>5, <2>6, <2>7
<1>13. CASE StopRaises
  <2>1. /\ outcome' = outcome /\ name' = name /\ queue' = queue
        /\ current' = current /\ stopping' = stopping
    BY <1>13 DEF StopRaises
  <2>2. degraded' = degraded /\ alive' \in BOOLEAN
    BY <1>13, Zenon DEF StopRaises
  <2>3. OneActionAtATime' /\ StoppingIsMarked' /\ DegradedIsQuiet'
    BY <1>3, <2>1, <2>2
    DEF OneActionAtATime, StoppingIsMarked, DegradedIsQuiet
  <2>4. QueueDistinct' /\ QueueHoldsQueued'
    BY <1>1, <1>6, <2>1
  <2> QED
    BY <1>1, <1>2, <1>4, <2>1, <2>2, <2>3, <2>4
<1>14. CASE ActionEnds
  <2>1. /\ Running /\ name' = name /\ queue' = queue
        /\ current' = current /\ stopping' = stopping
        /\ \E o \in {"finished", "failed"} :
             outcome' = [outcome EXCEPT ![current] = o]
    BY <1>14 DEF ActionEnds
  <2>2. degraded' \in BOOLEAN /\ alive' = alive
    BY <1>2, <1>14, Zenon DEF ActionEnds
  <2>3. /\ current \in Intents /\ outcome[current] = "running"
        /\ \A i \in Intents : outcome[i] = "running" => i = current
    BY <1>1, <1>3, <2>1 DEF Running, OneActionAtATime
  <2>4. /\ outcome' \in [Intents -> Outcomes]
        /\ \A i \in Intents : /\ outcome'[i] = "queued" <=> outcome[i] = "queued"
                              /\ outcome'[i] = "stopping" <=> outcome[i] = "stopping"
                              /\ outcome'[i] # "running"
    BY <1>1, <2>1, <2>3 DEF Outcomes, Settled
  <2>5. OneActionAtATime' /\ StoppingIsMarked' /\ DegradedIsQuiet'
    BY <1>3, <2>1, <2>4
    DEF OneActionAtATime, StoppingIsMarked, DegradedIsQuiet
  <2>6. QueueDistinct' /\ QueueHoldsQueued'
    BY <1>6, <2>1, <2>4
  <2> QED
    BY <1>1, <1>2, <1>4, <2>1, <2>2, <2>4, <2>5, <2>6
<1>15. CASE UNCHANGED vars
  <2>1. /\ outcome' = outcome /\ name' = name /\ queue' = queue
        /\ current' = current /\ stopping' = stopping
    BY <1>15 DEF vars
  <2>2. degraded' = degraded /\ alive' = alive
    BY <1>15 DEF vars
  <2>3. OneActionAtATime' /\ StoppingIsMarked' /\ DegradedIsQuiet'
    BY <1>3, <2>1, <2>2
    DEF OneActionAtATime, StoppingIsMarked, DegradedIsQuiet
  <2>4. QueueDistinct' /\ QueueHoldsQueued'
    BY <1>1, <1>6, <2>1
  <2> QED
    BY <1>1, <1>2, <1>4, <2>1, <2>2, <2>3, <2>4
<1> QED
  BY <1>5, <1>9, <1>10, <1>11, <1>12, <1>13, <1>14, <1>15 DEF Next, Dispatch

LEMMA Invariance == Spec => []IInv
<1>1. Init => IInv
  BY InitEstablishes
<1>2. IInv /\ [Next]_vars => IInv'
  BY StepPreserves
<1> QED
  BY <1>1, <1>2, PTL DEF Spec

\* The queue never exceeds its size and holds every queued intent exactly
\* once: none is lost between put and get, and none is executed twice.
THEOREM TypeCorrect == Spec => []TypeOK
<1>1. IInv => TypeOK
  BY DEF IInv
<1> QED
  BY <1>1, Invariance, PTL

\* Two actions never drive the servos at the same time, and none does while
\* the stop command of an interruption is on its way.
THEOREM OneAction == Spec => []OneActionAtATime
<1>1. IInv => OneActionAtATime
  BY DEF IInv
<1> QED
  BY <1>1, Invariance, PTL

\* Once a servo command has failed, no action runs any more.
THEOREM QuietWhenDegraded == Spec => []DegradedIsQuiet
<1>1. IInv => DegradedIsQuiet
  BY DEF IInv
<1> QED
  BY <1>1, Invariance, PTL

\* No intent is dropped in favour of a less important action: the dispatcher
\* drops only when it is degraded, or the running action ranks at least as
\* high.
THEOREM NoUnjustDrop == Spec => DropsAreOutranked
<1> DEFINE A == \A i \in Intents :
                  outcome[i] # "dropped" /\ outcome'[i] = "dropped" =>
                    \/ degraded
                    \/ Running /\ Priority(name[current]) >= Priority(name[i])
<1>1. ASSUME IInv, [Next]_vars
      PROVE  A
  <2> SUFFICES ASSUME NEW i \in Intents,
                      outcome[i] # "dropped", outcome'[i] = "dropped", ~degraded
               PROVE  Running /\ Priority(name[current]) >= Priority(name[i])
    BY Zenon
  <2>1. /\ outcome \in [Intents -> Outcomes] /\ name \in [Intents -> Names]
        /\ current \in Intents \union {NoIntent}
        /\ queue \in Seq(Intents)
    BY <1>1 DEF IInv, TypeOK
  <2>2. \A j \in Intents : Priority(name[j]) \in Nat
    BY <2>1 DEF Priority, Names
  <2>3. CASE DropLower
    <3>1. /\ Running /\ queue # <<>>
          /\ Priority(name[Head(queue)]) <= Priority(name[current])
          /\ outcome' = [outcome EXCEPT ![Head(queue)] = "dropped",
                                       ![current] = "cancelled"]
      BY <2>3 DEF DropLower
    <3>2. i = Head(queue) /\ current \in Intents
      BY <2>1, <3>1 DEF Running
    <3> QED
      BY <2>2, <3>1, <3>2
  <2>4. ASSUME NEW j \in Intents, NEW n \in Names, Submit(j, n)
        PROVE  FALSE
    BY <2>1, <2>4 DEF Submit
  <2>5. ASSUME Reap \/ StopRaises \/ UNCHANGED vars
        PROVE  FALSE
    BY <2>5 DEF Reap, StopRaises, vars
  <2>6. ASSUME TakeWhenIdle \/ StopSent
        PROVE  FALSE
    <3>1. outcome' = outcome \/ \E j : outcome' = [outcome EXCEPT ![j] = "running"]
      BY <2>6 DEF TakeWhenIdle, StopSent, Start
    <3> QED
      BY <2>1, <3>1
  <2>7. ASSUME Preempt
        PROVE  FALSE
    BY <2>1, <2>7 DEF Preempt
  <2>8. ASSUME ActionEnds
        PROVE  FALSE
    BY <2>1, <2>8 DEF ActionEnds
  <2> QED
    BY <1>1, <2>3, <2>4, <2>5, <2>6, <2>7, <2>8 DEF Next, Dispatch
<1>2. [Next]_vars /\ IInv => [A]_vars
  BY <1>1
<1> QED
  BY <1>2, Invariance, PTL DEF Spec, DropsAreOutranked
=============================================================================
