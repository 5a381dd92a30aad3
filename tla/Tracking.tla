------------------------------ MODULE Tracking ------------------------------
(***************************************************************************)
(* PanTiltTracker (ai_robot_edge.vision.tracking) as operators on its      *)
(* state, for one axis: which face it follows, and how far it turns the    *)
(* head.  Angles and errors are counted in steps, and quotients are cut to *)
(* whole steps; times are counted in ticks of the control loop, and a time *)
(* stamp is the number of ticks since, up to MaxAge.                       *)
(*                                                                         *)
(* A face is a record: its distance from the middle of the image, its size *)
(* and, for the properties only, whose it is.                              *)
(***************************************************************************)
EXTENDS Integers, FiniteSets

CONSTANTS
  Half,            \* half the width of the image, in steps
  Response,        \* _shape_error: the error's power law
  Kp, Ki, Kd,      \* gains, per Half
  DeadZone, IntegralZone, MaxOutput, MaxIntegral,
  DecayTicks,      \* the integral is gone after that many ticks (0.25 s)
  Alpha,           \* derivative_filter_alpha, in tenths
  MaxChange,       \* max_delta_change_degrees
  MinDelta, MinInterval,   \* min_effective_pan_delta, min_update_interval_ms
  Lead, StaleAfter,        \* prediction_lead_seconds, stale_detection_timeout_ms
  Stickiness, LockTimeout, \* target_stickiness in hundredths
  CenterOnLoss, LossTimeout,  \* center_on_target_lost, target_lost_timeout_seconds
  MaxAge           \* bound on the ages

ASSUME TrackingAssumption ==
  /\ {Half, MaxOutput, DecayTicks, MaxAge} \subseteq Nat \ {0}
  /\ {Kp, Ki, Kd, DeadZone, IntegralZone, MaxIntegral, MaxChange, MinDelta,
      MinInterval, Lead, StaleAfter, Stickiness, LockTimeout, LossTimeout}
       \subseteq Nat
  /\ Alpha \in 0..10 /\ CenterOnLoss \in BOOLEAN
  /\ Response \in [-Half..Half -> -Half..Half]
  /\ \A t \in {MinInterval, StaleAfter, LockTimeout, LossTimeout} : t < MaxAge

Abs(n) == IF n < 0 THEN -n ELSE n
Clamp(n, most) == IF n > most THEN most ELSE IF n < -most THEN -most ELSE n
Cut(n, d) == IF n < 0 THEN -((-n) \div d) ELSE n \div d
The(set) == CHOOSE e \in set : TRUE
AtLeast1(ticks) == IF ticks = 0 THEN 1 ELSE ticks
Older(age, ticks) == IF age + ticks > MaxAge THEN MaxAge ELSE age + ticks

-----------------------------------------------------------------------------
\* Which face

\* _target_closeness, as a fraction: 4 (1 - distance / (2.5 span)), at least 0.
Span(f, g) == IF f.size > g.size THEN f.size ELSE g.size
Closeness(f, g) ==
  LET part == 20 * Span(f, g) - 8 * Abs(f.x - g.x)
  IN  [num |-> IF part < 0 THEN 0 ELSE part, den |-> 5 * Span(f, g)]

\* select_locked_target's threshold, 0.75
IsClose(f, g) == 4 * Closeness(f, g).num >= 3 * Closeness(f, g).den

\* The faces among which max() takes the first in the detector's order.
Best(faces, num, den) ==
  {f \in faces : \A g \in faces : num[f] * den[g] >= num[g] * den[f]}

\* select_nearest_target: no distances, so that the largest face is nearest.
Nearest(faces) ==
  LET area == [f \in faces |-> f.size * f.size]
      one == [f \in faces |-> 1]
  IN  Best(faces, area, one)

\* select_tracking_target
Baseline(faces, last) ==
  LET score == [f \in faces |->
                  f.size * f.size * (100 * Closeness(last, f).den
                                     + Stickiness * Closeness(last, f).num)]
      den == [f \in faces |-> 100 * Closeness(last, f).den]
  IN  IF Stickiness = 0 THEN Nearest(faces) ELSE Best(faces, score, den)

\* Mutant: any face that is close enough will do.
LockedAny(faces, last) == {f \in faces : IsClose(last, f)}

\* select_locked_target
Locked(faces, last) ==
  LET num == [f \in faces |-> Closeness(last, f).num]
      den == [f \in faces |-> Closeness(last, f).den]
  IN  {f \in Best(faces, num, den) : IsClose(last, f)}

\* Mutant: the lock does not wait for a face that is not there.
SelectWithoutWaiting(t, faces) ==
  IF t.last = {} THEN Nearest(faces)
  ELSE LET last == The(t.last)
       IN  IF Locked(faces, last) # {} THEN Locked(faces, last)
           ELSE Baseline(faces, last)

\* Mutant: the lock has no end.
SelectHeldForever(t, faces) ==
  IF t.last = {} THEN Nearest(faces) ELSE Locked(faces, The(t.last))

\* _select_target: the faces it may choose, none while the lock is held for a
\* face that is not there.
Select(t, faces) ==
  IF t.last = {} THEN Nearest(faces)
  ELSE LET last == The(t.last)
       IN  IF Locked(faces, last) # {} THEN Locked(faces, last)
           ELSE IF LockTimeout > 0 /\ t.seen < LockTimeout THEN {}
           ELSE Baseline(faces, last)

-----------------------------------------------------------------------------
\* How far: _PIDAxis

FreshPid == [integral |-> 0, prev |-> {}, slope |-> 0]

\* Mutant: the integral is neither limited nor held back.
ComputeWindup(pid, error, ticks) ==
  LET grown == pid.integral + error * ticks
  IN  [pid |-> [integral |-> grown, prev |-> {error}, slope |-> 0],
       output |-> Clamp(Cut(Kp * error + Ki * grown, Half), MaxOutput)]

\* compute().  The integral decays in the dead zone and far from the middle;
\* it stays as it is where it would only push the output over its limit.
Compute(pid, error, ticks) ==
  LET e == IF Abs(error) <= DeadZone THEN 0 ELSE error
      raw == IF pid.prev = {} THEN 0
             ELSE Cut(e - The(pid.prev), ticks)
      slope == Cut(Alpha * raw + (10 - Alpha) * pid.slope, 10)
      near == IntegralZone = 0 \/ Abs(e) <= IntegralZone
      left == IF ticks >= DecayTicks THEN 0 ELSE DecayTicks - ticks
      grown == Clamp(IF e = 0 \/ ~near THEN Cut(pid.integral * left, DecayTicks)
                     ELSE pid.integral + e * ticks, MaxIntegral)
      Sum(i) == Cut(Kp * e + Ki * i + Kd * slope, Half)
      output == Clamp(Sum(grown), MaxOutput)
      saturated == near /\ output # Sum(grown) /\ e * output > 0
      kept == IF saturated THEN pid.integral ELSE grown
  IN  [pid |-> [integral |-> kept, prev |-> {e}, slope |-> slope],
       output |-> Clamp(Sum(kept), MaxOutput)]

\* _limit_delta_change with _adaptive_delta_change_limit
Slewed(wanted, previous, error) ==
  LET most == Cut(MaxChange * (2 * Half + 3 * Abs(error)), 2 * Half)
  IN  IF MaxChange = 0 THEN wanted
      ELSE IF wanted > previous + most THEN previous + most
      ELSE IF wanted < previous - most THEN previous - most ELSE wanted

\* _predict_errors
Predicted(t, x, age) ==
  IF t.raw = {} THEN x
  ELSE LET velocity == x - The(t.raw)
       IN  Clamp(x + Cut(velocity * (Lead + age), AtLeast1(t.seen)), Half)

-----------------------------------------------------------------------------
\* The tracker's state; {} stands for None.
\*   last, raw    _last_target, _last_raw_error_x
\*   seen         ticks since these two were set, together with their stamps
\*   delta        _last_pan_delta
\*   moved, lost  ticks since _last_update_ms, _target_lost_at_ms
\*   home         _centered_after_loss
FreshTracker ==
  [pid |-> FreshPid, last |-> {}, raw |-> {}, seen |-> 0,
   delta |-> 0, moved |-> {}, lost |-> {}, home |-> FALSE]

Aged(t, ticks) ==
  [t EXCEPT !.seen = IF t.last = {} THEN 0 ELSE Older(@, ticks),
            !.moved = {Older(a, ticks) : a \in @},
            !.lost = {Older(a, ticks) : a \in @}]

\* _reset_motion_state
ResetMotion(t) ==
  [t EXCEPT !.pid = FreshPid, !.last = {}, !.raw = {}, !.seen = 0, !.delta = 0]

\* Mutant: the age of the detection does not matter.
FollowStale(t, face, age) ==
  LET error == Predicted(t, face.x, age)
      control == Compute(t.pid, Response[error],
                         IF t.moved = {} THEN 1 ELSE AtLeast1(The(t.moved)))
      delta == Slewed(control.output, t.delta, error)
      moves == /\ Abs(delta) > MinDelta
               /\ \A a \in t.moved : a >= MinInterval
  IN  [turn |-> IF moves THEN delta ELSE 0,
       tracker |-> [t EXCEPT !.pid = control.pid, !.last = {face},
                             !.raw = {face.x}, !.seen = 0,
                             !.delta = IF moves THEN delta ELSE 0,
                             !.moved = IF moves THEN {0} ELSE @,
                             !.lost = {}, !.home = FALSE]]

\* update() for the chosen face: the tracker, and by how much the head turns.
\* A detection that is too old asks for no turn, but the turn only fades.
Follow(t, face, age) ==
  LET error == Predicted(t, face.x, age)
      ticks == IF t.moved = {} THEN 1 ELSE AtLeast1(The(t.moved))
      control == Compute(t.pid, Response[error], ticks)
      wanted == IF StaleAfter > 0 /\ age > StaleAfter THEN 0 ELSE control.output
      delta == Slewed(wanted, t.delta, error)
      moves == /\ Abs(delta) > MinDelta
               /\ \A a \in t.moved : a >= MinInterval
  IN  [turn |-> IF moves THEN delta ELSE 0,
       tracker |-> [t EXCEPT !.pid = control.pid, !.last = {face},
                             !.raw = {face.x}, !.seen = 0,
                             !.delta = IF moves THEN delta ELSE 0,
                             !.moved = IF moves THEN {0} ELSE @,
                             !.lost = {}, !.home = FALSE]]

\* Mutant: the loss begins anew with every image without a face.
LoseAgain(t) ==
  IF t.lost = {} \/ The(t.lost) < LossTimeout
  THEN [home |-> FALSE, tracker |-> [ResetMotion(t) EXCEPT !.lost = {0}]]
  ELSE [home |-> TRUE, tracker |-> [ResetMotion(t) EXCEPT !.home = TRUE]]

\* target_lost(): the tracker, and whether the head is centred.
Lose(t) ==
  IF t.lost = {}
  THEN [home |-> FALSE, tracker |-> [ResetMotion(t) EXCEPT !.lost = {0}]]
  ELSE IF ~CenterOnLoss \/ t.home \/ The(t.lost) < LossTimeout
  THEN [home |-> FALSE, tracker |-> t]
  ELSE [home |-> TRUE, tracker |-> [ResetMotion(t) EXCEPT !.home = TRUE]]
=============================================================================
