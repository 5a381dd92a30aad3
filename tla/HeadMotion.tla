----------------------------- MODULE HeadMotion -----------------------------
(***************************************************************************)
(* Who moves the head: the tracker of the camera worker                    *)
(* (ai_robot_edge.vision.worker), the actions and the dispatcher that      *)
(* interrupts them (ai_robot_edge.actions, action_groups), and the threads *)
(* that write to the serial line.                                          *)
(*                                                                         *)
(* gimbal    the PanTiltGimbal                                             *)
(* servo     for each axis the angle it was last told, Somewhere when it   *)
(*           was halted on its way                                         *)
(* orphans   commands whose task was cancelled while a thread wrote them   *)
(* action    the name of the running action, "none" when there is none     *)
(* steps     what it has still to do                                       *)
(* next      an interrupting action on its way to its start, or "none"     *)
(* stop      its stop command: "none", "due" or "asked"                    *)
(* tracking, degraded  CameraWorker.tracker is there; the dispatcher's     *)
(*           _degraded                                                     *)
(* belief    "sure" since a centring that nothing disturbed, while nothing *)
(*           did since; "centring" while one is under way; "unsure" before *)
(*           the first one and after a disturbance                         *)
(***************************************************************************)
EXTENDS Gimbal, FiniteSets

CONSTANTS
  MaxPan, MaxTilt,  \* the tracker's largest moves, in steps; 0 when disabled
  Aims,        \* positions that look_at_user may name
  Amplitude,   \* of a nod
  WaveSteps,   \* Len(WAVE_ANGLES)
  MaxOrphans   \* bound on the threads that still write for cancelled tasks

ASSUME HeadAssumption ==
  /\ {MaxPan, MaxTilt, MaxOrphans} \subseteq Nat
  /\ {Amplitude, WaveSteps} \subseteq Nat \ {0}
  /\ Aims \subseteq [Axes -> Nat]

VARIABLES gimbal, servo, orphans, action, steps, next, stop, tracking,
          degraded, belief

dispatchVars == <<next, stop, degraded>>
vars == <<gimbal, servo, orphans, action, steps, dispatchVars, tracking, belief>>

Names == {"look_at_user", "nod", "idle", "welcome_motion"}

Somewhere == -1

\* Where the last run of the program may have left the head.
Postures ==
  {s \in [Axes -> UNION {Angles(a) : a \in Axes} \cup {Somewhere}] :
     \A a \in Axes : s[a] \in Angles(a) \cup {Somewhere}}

\* The driver takes the head to be at its centre.  Neither its constructor
\* nor connect() nor the application sends it there.
Init ==
  /\ gimbal = Parked
  /\ servo \in Postures
  /\ orphans = {}
  /\ action = "none" /\ steps = <<>>
  /\ next = "none" /\ stop = "none"
  /\ tracking = TRUE /\ degraded = FALSE
  /\ belief = "unsure"

-----------------------------------------------------------------------------
\* What disturbs the belief: a move that is computed while another is under
\* way or a late write may still come, and a move that is given up.

Moving(g, c) == g.phase[c] # "idle" /\ g.job[c].kind = "move"

Asking(b, g, c, command) ==
  IF command.kind = "wave" THEN b
  ELSE IF orphans # {} \/ \E d \in Clients \ {c} : Moving(g, d) THEN "unsure"
  ELSE IF command.forced THEN "centring" ELSE b

Confirmed(c) ==
  IF belief = "centring" /\ gimbal.job[c].forced THEN "sure" ELSE belief

-----------------------------------------------------------------------------
\* The steps of an action: PanTiltGimbal.execute, and the wave.

By(pan, tilt) == [do |-> "by", pan |-> pan, tilt |-> tilt]
To(aim) == [do |-> "to", aim |-> aim]
Centring == [do |-> "center"]
Waving == [do |-> "wave"]

StepsOf(name) ==
  CASE name = "look_at_user" -> {<<To(aim)>> : aim \in Aims}
    [] name = "idle" -> {<<Centring>>}
    [] name = "nod" -> {<<By(0, Amplitude), By(0, -Amplitude)>>}
    [] name = "welcome_motion" -> {[k \in 1..WaveSteps |-> Waving]}

Command(position, step) ==
  CASE step.do = "by" ->
         MoveBy(position, [a \in Axes |-> IF a = "pan" THEN step.pan ELSE step.tilt])
    [] step.do = "to" -> MoveTo(position, step.aim, FALSE)
    [] step.do = "center" -> Center(position)
    [] step.do = "wave" -> Other("wave")

\* The action goes on in gimbal g: steps that move nothing return at once,
\* the next one takes the lock or waits for it.
GoOn(g, b, name, todo) ==
  LET Busy == {k \in 1..Len(todo) : ~IsIdle(Command(g.position, todo[k]))}
  IN  \/ /\ Busy = {}
         /\ gimbal' = g /\ belief' = b
         /\ action' = "none" /\ steps' = <<>>
      \/ \E first \in Busy :
           LET command == Command(g.position, todo[first])
           IN  /\ \A k \in Busy : first <= k
               /\ gimbal' = Ask(g, "action", command)
               /\ belief' = Asking(b, g, "action", command)
               /\ action' = name
               /\ steps' = SubSeq(todo, first + 1, Len(todo))

\* The task of an intent begins, after the stop if it interrupts another.
StartAction(name) ==
  /\ action = "none" /\ ~degraded
  /\ stop = "none" /\ next \in {"none", name}
  /\ \E todo \in StepsOf(name) : GoOn(gimbal, belief, name, todo)
  /\ next' = "none"
  /\ UNCHANGED <<servo, orphans, stop, tracking, degraded>>

\* Mutant: the dropped action remains the current one.
KeepNext ==
  /\ next # "none" /\ stop = "none" /\ degraded
  /\ UNCHANGED vars

\* An interrupting action is dropped when the interrupted one failed.
DropNext ==
  /\ next # "none" /\ stop = "none" /\ degraded
  /\ next' = "none"
  /\ UNCHANGED <<gimbal, servo, orphans, action, steps, stop, tracking,
                 degraded, belief>>

\* Between two turns of the wave the action sleeps without the lock.
Sleeping == action # "none" /\ gimbal.phase["action"] = "idle"

WaveOn ==
  /\ Sleeping
  /\ GoOn(gimbal, belief, action, steps)
  /\ UNCHANGED <<servo, orphans, dispatchVars, tracking>>

-----------------------------------------------------------------------------
\* The current action is cancelled.  The thread that writes for it goes on,
\* unless it had not begun.
CancelAction ==
  /\ action # "none"
  /\ action' = "none" /\ steps' = <<>>
  /\ gimbal' = IF Sleeping THEN gimbal ELSE Leave(gimbal, "action")
  /\ \/ /\ gimbal.phase["action"] = "writing" /\ Moving(gimbal, "action")
        /\ Cardinality(orphans) < MaxOrphans
        /\ orphans' = orphans \cup {gimbal.job["action"]}
     \/ UNCHANGED orphans
  /\ belief' = IF Moving(gimbal, "action") THEN "unsure" ELSE belief
  /\ UNCHANGED <<servo, tracking, degraded>>

Priority(name) ==
  CASE name \in {"idle", "look_at_user"} -> 3
    [] name = "welcome_motion" -> 2
    [] name = "nod" -> 1

\* A higher-priority intent interrupts: when the task has ended, stop is due.
Interrupt(name) ==
  /\ action # "none" /\ next = "none" /\ Priority(name) > Priority(action)
  /\ next' = name /\ stop' = "due"
  /\ CancelAction

\* run() cancels what is pending, the running action included, when it has
\* dropped another intent.
Abandon ==
  /\ next = "none"
  /\ CancelAction
  /\ UNCHANGED <<next, stop>>

SendStop ==
  /\ stop = "due"
  /\ stop' = "asked"
  /\ gimbal' = Ask(gimbal, "dispatcher", Other("halt"))
  /\ UNCHANGED <<servo, orphans, action, steps, next, tracking, degraded, belief>>

-----------------------------------------------------------------------------
\* The camera worker: the tracker's update moves the head, target_lost
\* centres it.  It waits for the serial line, and only then looks at the next
\* frame.

CameraAsks(command) ==
  /\ tracking /\ gimbal.phase["camera"] = "idle"
  /\ ~IsIdle(command)
  /\ gimbal' = Ask(gimbal, "camera", command)
  /\ belief' = Asking(belief, gimbal, "camera", command)
  /\ UNCHANGED <<servo, orphans, action, steps, dispatchVars, tracking>>

Track ==
  \E pan \in -MaxPan..MaxPan, tilt \in -MaxTilt..MaxTilt :
     CameraAsks(Command(gimbal.position, By(pan, tilt)))

CenterOnLoss == CameraAsks(Center(gimbal.position))

-----------------------------------------------------------------------------
\* The threads

\* Servos that got a command, and servos that were halted.
Told(command) ==
  CASE command.kind = "move" ->
         {[a \in Axes |-> IF a \in DOMAIN command.moves
                          THEN command.moves[a] ELSE servo[a]]}
    [] command.kind \in {"wave", "none"} -> {servo}
    [] command.kind = "halt" ->
         {[a \in Axes |-> IF a \in caught THEN Somewhere ELSE servo[a]] :
            caught \in SUBSET Axes}

Written(c) ==
  /\ gimbal.phase[c] = "writing"
  /\ servo' \in Told(gimbal.job[c])
  /\ gimbal' = [gimbal EXCEPT !.phase[c] = "reading"]
  /\ belief' = IF gimbal.job[c].kind = "halt" THEN "unsure" ELSE belief
  /\ UNCHANGED <<orphans, action, steps, dispatchVars, tracking>>

\* _send returns, and its caller goes on up to its next await.
Returns(c) ==
  /\ gimbal.phase[c] = "reading"
  /\ LET g == Confirm(gimbal, c)
     IN  IF c = "action" /\ gimbal.job[c].kind = "move"
         THEN GoOn(g, Confirmed(c), action, steps)
         ELSE /\ gimbal' = g /\ belief' = Confirmed(c)
              /\ action' = IF c = "action" /\ steps = <<>> THEN "none" ELSE action
              /\ UNCHANGED steps
  /\ stop' = IF c = "dispatcher" THEN "none" ELSE stop
  /\ UNCHANGED <<servo, orphans, next, tracking, degraded>>

\* The serial line fails, before or after the servos got the command.
LineFails(c) ==
  /\ gimbal.phase[c] \in {"writing", "reading"}
  /\ servo' \in {servo} \cup Told(gimbal.job[c])
  /\ gimbal' = Leave(gimbal, c)
  /\ belief' = IF Moving(gimbal, c) THEN "unsure" ELSE belief
  /\ UNCHANGED orphans

\* The camera worker gives up tracking.
TrackerFails ==
  /\ LineFails("camera")
  /\ tracking' = FALSE
  /\ UNCHANGED <<action, steps, dispatchVars>>

\* The dispatcher gives up all actions.  (A stop that fails ends the
\* application.)
ActionFails ==
  /\ LineFails("action")
  /\ action' = "none" /\ steps' = <<>> /\ degraded' = TRUE
  /\ UNCHANGED <<next, stop, tracking>>

\* The action fails in the turn of the event loop in which the interrupting
\* intent arrives: there is nothing left to cancel, and stop is sent.
InterruptFailed(name) ==
  /\ action # "none" /\ next = "none" /\ Priority(name) > Priority(action)
  /\ LineFails("action")
  /\ action' = "none" /\ steps' = <<>> /\ degraded' = TRUE
  /\ next' = name /\ stop' = "due"
  /\ UNCHANGED tracking

\* The write of a cancelled task ends, outside the lock.
OrphanWritten ==
  /\ \E command \in orphans :
        servo' \in Told(command) /\ orphans' = orphans \ {command}
  /\ belief' = "unsure"
  /\ UNCHANGED <<gimbal, action, steps, dispatchVars, tracking>>

Next ==
  \/ \E name \in Names : StartAction(name) \/ Interrupt(name)
  \/ DropNext \/ WaveOn \/ Abandon \/ SendStop
  \/ Track \/ CenterOnLoss
  \/ \E c \in Clients : Written(c) \/ Returns(c)
  \/ TrackerFails \/ ActionFails
  \/ \E name \in Names : InterruptFailed(name)
  \/ OrphanWritten

\* The threads of the serial line return, sleep() returns, and a dispatcher
\* that has cancelled a task goes on.
Fairness ==
  /\ WF_vars(\E c \in Clients : Written(c) \/ Returns(c))
  /\ WF_vars(WaveOn)
  /\ WF_vars(SendStop)
  /\ WF_vars(DropNext \/ \E name \in Names : next = name /\ StartAction(name))

Spec == Init /\ [][Next]_vars /\ Fairness

-----------------------------------------------------------------------------
Commands(command) ==
  \A a \in DOMAIN command.moves : command.moves[a] \in Angles(a)

\* Types; what is believed, commanded and told stays within the limits.
TypeOK ==
  /\ IsPosition(gimbal.position)
  /\ gimbal.holder \in Clients \cup {"none"}
  /\ \A k \in 1..Len(gimbal.waiters) : gimbal.waiters[k] \in Clients
  /\ gimbal.phase \in [Clients -> {"idle", "waiting", "writing", "reading"}]
  /\ \A c \in Clients : IsPosition(gimbal.job[c].target) /\ Commands(gimbal.job[c])
  /\ \A command \in orphans : Commands(command)
  /\ \A a \in Axes : servo[a] \in Angles(a) \cup {Somewhere}
  /\ action \in Names \cup {"none"} /\ Len(steps) <= WaveSteps + 1
  /\ next \in Names \cup {"none"} /\ stop \in {"none", "due", "asked"}
  /\ tracking \in BOOLEAN /\ degraded \in BOOLEAN
  /\ belief \in {"sure", "unsure", "centring"}

\* The lock of the serial line survives cancellations and failures: one
\* client is between its write and its answer, those that wait are waiting
\* still, and nobody holds the lock for a task that is gone.
LockIsSound ==
  /\ IsSound(gimbal)
  /\ gimbal.phase["action"] # "idle" => action # "none"
  /\ gimbal.phase["dispatcher"] # "idle" <=> stop = "asked"

\* From a centring that nobody disturbed on, relative moves start from where
\* the head is: the servos were told what the gimbal believes.  That ends
\* only when two moves overlap (the later one was computed from a position
\* that the earlier one has not stored yet), when one is cancelled or fails,
\* when a late write comes, or when the head is stopped; and it does not hold
\* before, because the head need not stand at its centre when the program
\* starts.  (A command on its way is ahead of the belief.)
Expected(a) ==
  LET Ahead == {c \in Clients : gimbal.phase[c] = "reading" /\ Moving(gimbal, c)}
  IN  IF Ahead = {} THEN gimbal.position[a]
      ELSE gimbal.job[CHOOSE c \in Ahead : TRUE].target[a]

MovesStartWhereItIs ==
  belief = "sure" => \A a \in Axes : servo[a] = Physical(a, Expected(a))

\* Everyone who waits for the serial line is served: the camera worker sees
\* its next frame, an action comes to its end, and one that interrupts another
\* is started or dropped.
EveryoneIsServed ==
  /\ gimbal.phase["camera"] # "idle" ~> gimbal.phase["camera"] = "idle"
  /\ action # "none" ~> action = "none"
  /\ next # "none" ~> next = "none"
=============================================================================
