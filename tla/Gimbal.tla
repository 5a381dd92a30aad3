------------------------------- MODULE Gimbal -------------------------------
(***************************************************************************)
(* The two-axis head (ai_robot_edge.devices.gimbal): where PanTiltGimbal   *)
(* believes the head to be, and the lock under which its clients send      *)
(* commands over one serial line.  A gimbal is a record                    *)
(*   position  what move_to() last wrote to _position                      *)
(*   holder    the client that holds the lock, or "none"                   *)
(*   waiters   the clients that wait for it, in order                      *)
(*   phase     where each client is in its call                            *)
(*   job       the command each client sends                               *)
(* and the operators are the calls up to their next await.                 *)
(***************************************************************************)
EXTENDS Integers, Sequences, SequencesExt

CONSTANTS
  Axes,                \* {"pan", "tilt"}
  Low, High, Neutral,  \* the limits of an axis and its centre, in steps
  Inverted             \* the axes whose servo is mounted the other way

ASSUME GimbalAssumption ==
  /\ {Low, High, Neutral} \subseteq [Axes -> Nat]
  /\ \A a \in Axes : Low[a] < High[a] /\ Neutral[a] \in Low[a]..High[a]
  /\ Inverted \subseteq Axes

\* The camera worker's tracker, the running action, and the dispatcher that
\* sends stop.
Clients == {"camera", "action", "dispatcher"}

Angles(a) == Low[a]..High[a]

IsPosition(p) == DOMAIN p = Axes /\ \A a \in Axes : p[a] \in Angles(a)

\* _limit_axis and _physical_angle
Limit(a, angle) ==
  IF angle < Low[a] THEN Low[a] ELSE IF angle > High[a] THEN High[a] ELSE angle

Physical(a, angle) ==
  IF a \in Inverted THEN High[a] - (angle - Low[a]) ELSE angle

-----------------------------------------------------------------------------
\* A command: what it tells the servos, and what becomes of _position.
Move(moves, target, forced) ==
  [kind |-> "move", moves |-> moves, target |-> target, forced |-> forced]

\* Commands that leave _position alone; the wave turns another servo.
Other(kind) ==
  [kind |-> kind, moves |-> <<>>, target |-> Neutral, forced |-> FALSE]

\* move_to, up to the lock: what is to be moved follows from the position
\* believed at this time.
MoveTo(position, aim, forced) ==
  LET target == [a \in Axes |-> Limit(a, aim[a])]
      moved == {a \in Axes : forced \/ target[a] # position[a]}
  IN  Move([a \in moved |-> Physical(a, target[a])], target, forced)

MoveBy(position, delta) ==
  MoveTo(position, [a \in Axes |-> position[a] + delta[a]], FALSE)

\* Mutant: only the axes that seem to be off their centre are sent there.
CenterUnforced(position) ==
  [MoveTo(position, Neutral, FALSE) EXCEPT !.forced = TRUE]

Center(position) == MoveTo(position, Neutral, TRUE)

\* move_to returns at once when no axis has to move.
IsIdle(command) == command.kind = "move" /\ DOMAIN command.moves = {}

-----------------------------------------------------------------------------
\* asyncio.Lock hands itself over in the order of the calls to acquire().
Ask(g, c, command) ==
  IF g.holder = "none"
  THEN [g EXCEPT !.holder = c, !.phase[c] = "writing", !.job[c] = command]
  ELSE [g EXCEPT !.waiters = Append(@, c), !.phase[c] = "waiting",
                 !.job[c] = command]

Idle(g, c) == [g EXCEPT !.phase[c] = "idle", !.job[c] = Other("none")]

Release(g) ==
  LET free == [Idle(g, g.holder) EXCEPT !.holder = "none"]
  IN  IF g.waiters = <<>> THEN free
      ELSE [free EXCEPT !.holder = Head(g.waiters), !.waiters = Tail(@),
                        !.phase[Head(g.waiters)] = "writing"]

\* _send has returned: the position is what the command aimed at, and the
\* lock is given back.
Confirm(g, c) ==
  LET known == IF g.job[c].kind = "move"
               THEN [g EXCEPT !.position = g.job[c].target] ELSE g
  IN  Release(known)

\* Mutant: a cancelled client keeps its place in the queue.
LeaveWaiting(g, c) ==
  IF g.holder = c THEN Release(g) ELSE Idle(g, c)

\* The client gives up: cancelled, or by an exception of the serial line.
Leave(g, c) ==
  IF g.holder = c THEN Release(g)
  ELSE LET place == CHOOSE k \in 1..Len(g.waiters) : g.waiters[k] = c
       IN  [Idle(g, c) EXCEPT !.waiters = RemoveAt(@, place)]

\* One client is between its write and its answer, and those that wait are
\* in the queue, once.
IsSound(g) ==
  /\ \A c \in Clients :
       g.phase[c] \in {"writing", "reading"} <=> g.holder = c
  /\ \A c \in Clients :
       g.phase[c] = "waiting" <=> \E k \in 1..Len(g.waiters) : g.waiters[k] = c
  /\ \A k, l \in 1..Len(g.waiters) : g.waiters[k] = g.waiters[l] => k = l
  /\ g.holder = "none" => g.waiters = <<>>

Parked ==
  [position |-> Neutral, holder |-> "none", waiters |-> <<>>,
   phase |-> [c \in Clients |-> "idle"],
   job |-> [c \in Clients |-> Other("none")]]
=============================================================================
