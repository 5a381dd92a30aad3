---------------------------- MODULE FaceTracking ----------------------------
(***************************************************************************)
(* The loop in which the head follows a face: the camera turns with the    *)
(* head, so that what the detector sees depends on what the tracker did.   *)
(* Two programs run it.  CameraWorker (ai_robot_edge.vision.worker) looks  *)
(* at every frame once, when it comes.  scripts/run_face_gimbal_tracking   *)
(* runs the control faster than the detector, on the last detection or,    *)
(* for a while, on the last one that had a face.                           *)
(*                                                                         *)
(* program   "worker" or "script"                                          *)
(* where     the direction of each person, who stand still                 *)
(* frame     the parity of the step's number, so that every step shows     *)
(* pan       the direction of the head                                     *)
(* tracker   the PanTiltTracker                                            *)
(* fresh, held  DetectionState: the last detection, the last with a face   *)
(* workedOn  what the last control step worked on                          *)
(* late      turns of the head since the detection in use became too old   *)
(***************************************************************************)
EXTENDS Tracking

CONSTANTS
  Persons,
  Size,            \* of each person's face
  Directions,      \* where persons may stand
  Right, Home,     \* the head turns from 0 to Right; its centre
  MaxGap,          \* the worker's frames are up to that many ticks apart
  Hold             \* target_hold_ms

ASSUME FaceTrackingAssumption ==
  /\ Size \in [Persons -> Nat \ {0}]
  /\ Directions \subseteq Int
  /\ Right \in Nat /\ Home \in 0..Right
  /\ MaxGap \in Nat \ {0} /\ Hold \in 0..(MaxAge - 1)

VARIABLES program, where, frame, pan, tracker, fresh, held, workedOn, late

trackingVars == <<program, where, frame, pan, tracker, fresh, held, workedOn, late>>

NoDetection == [faces |-> {}, age |-> 0]

TrackingInit ==
  /\ program \in {"worker", "script"}
  /\ where \in [Persons -> Directions]
  /\ frame = 0 /\ pan = Home
  /\ tracker = FreshTracker
  /\ fresh = NoDetection /\ held = NoDetection /\ workedOn = NoDetection
  /\ late = 0

Face(p) == [x |-> where[p] - pan, size |-> Size[p], who |-> p]

InView == {p \in Persons : Abs(where[p] - pan) <= Half}

Who(faces) == {f.who : f \in faces}

\* The gimbal's limits.
Turned(angle) == IF angle < 0 THEN 0 ELSE IF angle > Right THEN Right ELSE angle

\* One control step, ticks after the one before, on what was detected.
Control(ticks, detection) ==
  LET t == Aged(tracker, ticks)
      faces == detection.faces
  IN  /\ frame' = 1 - frame
      /\ workedOn' = detection
      /\ IF faces = {}
         THEN /\ tracker' = Lose(t).tracker
              /\ pan' = IF Lose(t).home THEN Home ELSE pan
              /\ late' = 0
         ELSE IF Select(t, faces) = {} THEN tracker' = t /\ UNCHANGED <<pan, late>>
         ELSE \E face \in Select(t, faces) :
                LET next == Follow(t, face, detection.age)
                IN  /\ tracker' = next.tracker
                    /\ pan' = Turned(pan + next.turn)
                    /\ late' = IF detection.age <= StaleAfter THEN 0
                               ELSE IF next.turn = 0 THEN late ELSE late + 1

\* The detector finds some of the faces in the image.
Detected(persons) == [faces |-> {Face(p) : p \in persons}, age |-> 0]

WorkerFrame ==
  /\ program = "worker"
  /\ \E ticks \in 1..MaxGap, persons \in SUBSET InView :
        Control(ticks, Detected(persons))
  /\ UNCHANGED <<program, where, fresh, held>>

Later(detection) == [detection EXCEPT !.age = Older(@, 1)]

\* snapshot_with_hold
Snapshot(last, nonempty) ==
  IF last.faces # {} THEN last
  ELSE IF nonempty.faces # {} /\ Hold > 0 /\ nonempty.age <= Hold THEN nonempty
  ELSE NoDetection

\* A turn of the script's loop, with or without a new detection.
ScriptTurn ==
  /\ program = "script"
  /\ \/ fresh' = Later(fresh) /\ held' = Later(held)
     \/ \E persons \in SUBSET InView :
           /\ fresh' = Detected(persons)
           /\ held' = IF persons = {} THEN Later(held) ELSE fresh'
  /\ Control(1, Snapshot(fresh', held'))
  /\ UNCHANGED <<program, where>>

TrackingNext == WorkerFrame \/ ScriptTurn

\* Frames keep coming: there is always a next step, and it is taken.
TrackingSpec ==
  TrackingInit /\ [][TrackingNext]_trackingVars /\ WF_frame(frame' = 1 - frame)

-----------------------------------------------------------------------------
Ages == 0..MaxAge

Faces == [x : -(2 * Half + Right)..(2 * Half + Right),
          size : {Size[p] : p \in Persons}, who : Persons]

\* Types; one turn, and the memory of the PID, keep their limits.
TrackingTypeOK ==
  /\ pan \in 0..Right
  /\ tracker.delta \in -MaxOutput..MaxOutput
  /\ tracker.pid.integral \in -MaxIntegral..MaxIntegral
  /\ tracker.pid.prev \subseteq -Half..Half
  /\ tracker.last \subseteq Faces /\ Cardinality(tracker.last) <= 1
  /\ tracker.seen \in Ages /\ tracker.moved \subseteq Ages
  /\ tracker.lost \subseteq Ages
  /\ \A d \in {fresh, held, workedOn} : d.faces \subseteq Faces /\ d.age \in Ages
  /\ frame \in 0..1

Followed == Who(tracker.last)

\* A turn moves a face by no more than twice its size: the lock's threshold.
MovesLittle(p) == 32 * MaxOutput <= 65 * Size[p]

\* The others stand further apart from p than a turn of the head can blur.
StandsApart(p) ==
  \A q \in Persons \ {p} :
     LET larger == IF Size[p] > Size[q] THEN Size[p] ELSE Size[q]
     IN  (Abs(where[p] - where[q]) - MaxOutput) * Size[p] > MaxOutput * larger

Apart(p) == MovesLittle(p) /\ StandsApart(p)

\* While the camera worker follows somebody whose face it sees, it does not
\* take another's face for it, although the image has moved with the head.
KeepsPerson ==
  [][\A p \in Persons :
        program = "worker" /\ Followed = {p} /\ p \in Who(workedOn'.faces) /\ Apart(p)
          => Followed' = {p}]_trackingVars

\* The head turns from one face to another that is not where the first was
\* only when the first has been missing for the time of the lock, or nobody
\* was there.
SwitchesAfterLock ==
  [][\A f \in tracker.last, g \in tracker'.last :
        f.who # g.who /\ tracker.seen + MaxGap < LockTimeout => IsClose(f, g)]_trackingVars

\* A detection that is too old stops the head: not at once, because a turn
\* changes by so much at a time, but it fades and never grows again.
Fading == (MaxOutput - 1) \div MaxChange

StaleHeadStops == StaleAfter > 0 /\ MaxChange > 0 => late <= Fading

\* Nobody comes back: the head is at its centre for good.
LostHeadComesHome ==
  CenterOnLoss /\ <>[](workedOn.faces = {}) => <>[](pan = Home)

\* The head looks at the person who stands there, as far as it turns, and
\* stays: within the error that asks for no turn.
Rests(p) ==
  \/ Kp * Abs(where[p] - pan) <= Half * (MinDelta + 1)
  \/ Abs(where[p] - pan) <= DeadZone
  \/ pan = 0 /\ where[p] < 0
  \/ pan = Right /\ where[p] > Right

LooksAtPerson ==
  \A p \in Persons :
     <>[](Who(workedOn.faces) = {p} /\ workedOn.age <= 1) => <>[]Rests(p)
=============================================================================
