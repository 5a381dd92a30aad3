-------------------------- MODULE ActionDispatcher --------------------------
(***************************************************************************)
(* The action dispatcher (ai_robot_edge.actions): one task takes intents   *)
(* from a bounded queue and runs each in a child task, which a             *)
(* higher-priority intent interrupts.  Slots stand for the intents in      *)
(* flight; a settled slot may be submitted again.                          *)
(*                                                                         *)
(* outcome[i]  what has become of intent i                                 *)
(* name[i]     its ActionName                                              *)
(* queue       action_queue                                                *)
(* current     the intent of current_task, NoIntent when that is None      *)
(* stopping    the intent that waits for servo_controller.stop()           *)
(* degraded    _degraded                                                   *)
(* alive       run() has not been left by an exception                     *)
(***************************************************************************)
EXTENDS Naturals, Sequences

CONSTANTS Intents,     \* slots for intents in flight
          NoIntent,
          QueueSize,   \* action_queue's maxsize (32 in the code)
          ExecuteFails,\* BOOLEAN: a servo command of an action may raise
          StopFails    \* BOOLEAN: the stop command may raise

ASSUME DispatcherAssumption ==
  /\ NoIntent \notin Intents
  /\ QueueSize \in Nat \ {0}
  /\ ExecuteFails \in BOOLEAN /\ StopFails \in BOOLEAN

VARIABLES outcome, name, queue, current, stopping, degraded, alive

vars == <<outcome, name, queue, current, stopping, degraded, alive>>

Names == {"look_at_user", "nod", "idle", "welcome_motion"}

Settled == {"finished", "failed", "cancelled", "dropped"}

Outcomes == {"new", "queued", "stopping", "running"} \union Settled

Priority(n) ==
  CASE n \in {"idle", "look_at_user"} -> 3
    [] n = "welcome_motion" -> 2
    [] n = "nod" -> 1

Init ==
  /\ outcome = [i \in Intents |-> "new"]
  /\ name = [i \in Intents |-> "nod"]
  /\ queue = <<>>
  /\ current = NoIntent
  /\ stopping = NoIntent
  /\ degraded = FALSE
  /\ alive = TRUE

\* A producer (coordinator, absence timer, conversation client) puts an
\* intent; put() waits while the queue is full.
Submit(i, n) ==
  /\ alive
  /\ outcome[i] \in {"new"} \union Settled
  /\ Len(queue) < QueueSize
  /\ queue' = Append(queue, i)
  /\ outcome' = [outcome EXCEPT ![i] = "queued"]
  /\ name' = [name EXCEPT ![i] = n]
  /\ UNCHANGED <<current, stopping, degraded, alive>>

\* _start_intent and the creation of the child task.
Start(i) ==
  IF degraded
  THEN /\ outcome' = [outcome EXCEPT ![i] = "dropped"]
       /\ current' = NoIntent
  ELSE /\ outcome' = [outcome EXCEPT ![i] = "running"]
       /\ current' = i

Running == current # NoIntent /\ outcome[current] = "running"

\* The two places where the loop waits: for an intent, or for an intent and
\* the current task.
Waiting == alive /\ stopping = NoIntent

\* Mutant: only a task that ended normally is forgotten.
ReapFinished ==
  /\ Waiting /\ current # NoIntent /\ outcome[current] = "finished"
  /\ current' = NoIntent
  /\ UNCHANGED <<outcome, name, queue, stopping, degraded, alive>>

\* current_task is done: forget it.
Reap ==
  /\ Waiting /\ current # NoIntent /\ ~Running
  /\ current' = NoIntent
  /\ UNCHANGED <<outcome, name, queue, stopping, degraded, alive>>

TakeWhenIdle ==
  /\ Waiting /\ current = NoIntent /\ queue # <<>>
  /\ queue' = Tail(queue)
  /\ Start(Head(queue))
  /\ UNCHANGED <<name, stopping, degraded, alive>>

\* Mutant: the interrupted task is not cancelled.
PreemptWithoutCancel ==
  /\ Waiting /\ Running /\ queue # <<>>
  /\ Priority(name[Head(queue)]) > Priority(name[current])
  /\ queue' = Tail(queue)
  /\ outcome' = [outcome EXCEPT ![Head(queue)] = "stopping"]
  /\ stopping' = Head(queue)
  /\ UNCHANGED <<name, current, degraded, alive>>

\* A higher-priority intent: cancel the task and wait for it, then send stop.
Preempt ==
  /\ Waiting /\ Running /\ queue # <<>>
  /\ Priority(name[Head(queue)]) > Priority(name[current])
  /\ queue' = Tail(queue)
  /\ outcome' = [outcome EXCEPT ![current] = "cancelled",
                                ![Head(queue)] = "stopping"]
  /\ stopping' = Head(queue)
  /\ UNCHANGED <<name, current, degraded, alive>>

StopSent ==
  /\ alive /\ stopping # NoIntent
  /\ Start(stopping)
  /\ stopping' = NoIntent
  /\ UNCHANGED <<name, queue, degraded, alive>>

\* stop() is not inside the try of _execute_intent: an error leaves run(),
\* and asyncio.gather ends the application.
StopRaises ==
  /\ alive /\ stopping # NoIntent /\ StopFails
  /\ alive' = FALSE
  /\ UNCHANGED <<outcome, name, queue, current, stopping, degraded>>

\* An intent that does not outrank the running one is dropped.  The current
\* task is in "pending" and the loop's last lines cancel it too.
DropLower ==
  /\ Waiting /\ Running /\ queue # <<>>
  /\ Priority(name[Head(queue)]) <= Priority(name[current])
  /\ queue' = Tail(queue)
  /\ outcome' = [outcome EXCEPT ![Head(queue)] = "dropped",
                                ![current] = "cancelled"]
  /\ UNCHANGED <<name, current, stopping, degraded, alive>>

\* _execute_intent ends, normally or with a servo error.
ActionEnds ==
  /\ Running /\ alive
  /\ \/ /\ outcome' = [outcome EXCEPT ![current] = "finished"]
        /\ UNCHANGED degraded
     \/ /\ ExecuteFails
        /\ outcome' = [outcome EXCEPT ![current] = "failed"]
        /\ degraded' = TRUE
  /\ UNCHANGED <<name, queue, current, stopping, alive>>

Dispatch ==
  Reap \/ TakeWhenIdle \/ Preempt \/ StopSent \/ StopRaises \/ DropLower

Next ==
  \/ \E i \in Intents, n \in Names : Submit(i, n)
  \/ Dispatch
  \/ ActionEnds

\* The event loop runs a ready task eventually, and servo commands return.
Fairness == WF_vars(Dispatch) /\ WF_vars(ActionEnds)

Spec == Init /\ [][Next]_vars /\ Fairness

-----------------------------------------------------------------------------

QueueDistinct ==
  \A j, k \in DOMAIN queue : queue[j] = queue[k] => j = k

QueueHoldsQueued ==
  \A i \in Intents :
    outcome[i] = "queued" <=> \E k \in DOMAIN queue : queue[k] = i

\* Types, and the queue holds each queued intent exactly once.
TypeOK ==
  /\ outcome \in [Intents -> Outcomes]
  /\ name \in [Intents -> Names]
  /\ queue \in Seq(Intents) /\ Len(queue) <= QueueSize
  /\ current \in Intents \union {NoIntent}
  /\ stopping \in Intents \union {NoIntent}
  /\ degraded \in BOOLEAN /\ alive \in BOOLEAN
  /\ QueueDistinct /\ QueueHoldsQueued

\* At most one action drives the servos, and none while the stop command of
\* an interruption is on its way.
OneActionAtATime ==
  \A i \in Intents : outcome[i] = "running" =>
    i = current /\ stopping = NoIntent

\* After a servo failure no action runs any more, including the one that was
\* waiting to interrupt the failed one.
DegradedIsQuiet ==
  degraded => \A i \in Intents : outcome[i] # "running"

\* An intent is only dropped by a degraded dispatcher or while an action of
\* at least its priority is running.
DropsAreOutranked ==
  [][\A i \in Intents :
       outcome[i] # "dropped" /\ outcome'[i] = "dropped" =>
         \/ degraded
         \/ Running /\ Priority(name[current]) >= Priority(name[i])]_vars

\* Every submitted intent is executed, interrupted or dropped in the end,
\* whatever else is submitted, as long as the dispatcher itself survives.
EveryIntentSettles ==
  \A i \in Intents : outcome[i] = "queued" ~> outcome[i] \in Settled \/ ~alive
=============================================================================
