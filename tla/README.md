# AI robot: specification and verification

TLA+ models of the robot's edge process (`src/src/ai_robot_edge`), and of a
voice turn and remote commands on its server (`src/src/ai_robot_server`); TLC
configurations that check them on small instances; TLAPS proofs of what must
hold for every value of the constants.  Paths below are relative to the
repository.

## 1. The system

The edge is one asyncio process.  `EdgeApp.run` (`app.py`) creates five bounded
queues, two events (`playback_active`, `playback_idle`) and one task per
worker.  All of them run on one event loop: what a worker does between two
awaits is atomic, and everything else interleaves.  The server answers each
utterance over a websocket that the edge opens for that one exchange.

| Component | State | Operations | Talks to |
|---|---|---|---|
| Session controller `session.py` | state, reason, session id, turn index, welcome flag | ten operations, each atomic | called by all workers; publishes snapshots to the admin page |
| Interaction coordinator `interaction/coordinator.py` | presence and absence counters, time of the last welcome, absence timer | one vision event; confirmation of an absence after a delay | vision queue in; action queue, conversation queue, local welcome out |
| Local welcome `app.py` | none of its own | queue a chunk, wait for its playback, arm listening | runs inline in the coordinator or the wake-word handler |
| Audio worker `audio/worker.py` | listening window or presence listening, VAD | one microphone frame; arm, disarm | utterance queue out |
| Playback worker `playback.py` | interrupt flag, current burst | take, coalesce, play, interrupt | tts queue in; the two playback events out |
| Conversation worker and client `server/client.py` | the event being served | one exchange with the server, wait for the playback, interruptions | utterance and conversation queue in; tts and action queue out |
| Action dispatcher `actions.py` | current action, degraded flag | start, preempt, drop, execute | action queue in; servos out |
| Gimbal, wave `devices/gimbal.py`, `action_groups.py` | position, lock | absolute, relative and centring moves, stop, wave | called by actions and tracker |
| Tracker, camera worker `vision/` | locked target, losses, degraded flag | one frame | gimbal; vision queue out |
| VAD `audio/vad.py` | pre-roll, segment, silence and speech counters | one frame, reset | called by the audio worker |
| Management client `server/management.py`, `admin/commands.py` | backoff delay | reconnect, status, commands | server |
| Admin pages `admin/` | runtime snapshot, parameters | read, save | session, workers |
| Server session `ai_robot_server/app.py` | audio buffer, context, TTS queue of a turn | session start, audio, welcome event | orchestrator, registry, history |
| Registry, remote commands `registry.py`, `remote.py` | devices, connection counts, command queues | connect, disconnect, enqueue, deliver | server session, admin |
| History `history.py` | bounded sessions of bounded turns | record, read, evict | server session |
| Orchestrator, connectors | none | ASR, answer, TTS with fallbacks | external services |

### What is hard

* Five workers wait for each other through two events and five bounded queues.
  `playback_idle` is set before a chunk reaches the player, so a wait can end
  before the speech it waits for has begun.
* Listening is given up by the audio worker while the robot speaks, and armed
  by three others; whoever forgets leaves the robot deaf.
* The absence timer, the wake word, a running greeting and a running turn all
  change the session, in any order.
* Two tasks are cancelled on purpose: the running action and the absence timer.
* Failures: the server fails before or after its first audio, servo commands
  raise, the speaker raises.
* The server answers with two tasks, one that streams the text and one that
  speaks it; the edge hangs up on the last audio while both may still send.
* A thread writes to the serial line of the head; its task can be cancelled
  while the thread goes on.
* Each link may break at any moment; the management client reconnects, and the
  old connection's tasks on the server live until they notice.
* The console rewrites the configuration in place while the service may start.

`PROJECT.json` lists the hazards at their lines, and the properties that watch
each.

### What makes each component correct

* Session: one greeting per session; turn indices that count; sessions end by
  an absence only; the admin page shows the controller.
* Voice workers: a speaking robot is awaited, and hears a person who stays,
  unless an exchange fails after its first audio; it disengages when everybody
  left; no event is lost; turns alternate; one welcome and one IDLE action at a
  time.
* Playback: what is played counts as speech; answers in one format are heard in
  order; an answer that counts as played was played; every chunk is heard or
  dropped.
* Listening: an utterance is bounded, unbroken and new, and ends in silence
  that was analysed.
* Dispatcher: one action at a time; quiet after a failure; drops justified;
  every intent settled.
* Head: one command on the serial line at a time, through cancellation and
  failure; everybody who waits is served; once it was centred, relative moves
  start from where the head is until something disturbs them; positions stay
  inside their limits.
* Tracker: it keeps to a person, switches only after the lock, stops on stale
  detections, looks at who stands there and goes home when nobody does.
* Server session: every word is heard once and in order; success means that
  all of it was heard; the edge is never left waiting; a turn that succeeded is
  remembered.
* Remote commands: run once and in order, lost only with the connection that
  carried them, answered otherwise; a device is online while it is connected.
* Settings: the service never runs on a torn file; a save keeps what its page
  shows unchanged and what it does not show.

## 2. Modules

| Module | Models |
|---|---|
| `SessionOps` | the session controller's operations as functions on a record; no variables |
| `SessionController` | the controller as an object called in any order, with history variables |
| `SessionController_proofs` | its theorems |
| `EdgeState` | the shared variables of the voice workers, the configuration switches, the initial state |
| `LocalWelcomeFlow`, `AudioWorker`, `PlaybackWorker`, `ConversationWorker`, `InteractionCoordinator` | the actions of one worker each, over `EdgeState` |
| `EdgeVoice` | their composition, the environment, the fairness and the properties |
| `EdgeVoice_proofs` | theorems about the composition |
| `ActionDispatcher` | the action dispatcher on its own |
| `ActionDispatcher_proofs` | its theorems |
| `AnswerDelivery` | what an exchange with the server promises the edge |
| `VoiceTurn` | one exchange: the server's session with its two tasks, the link, the edge's receive loop |
| `VoiceTurn_proofs` | its theorems, and that it implements `AnswerDelivery` |
| `SpeechQueue` | the playback worker and its queue, chunk by chunk, with the client and the local greeting |
| `SpeechQueue_proofs` | its theorems |
| `Vad` | both segmenters as functions of their state; no variables |
| `Listening` | the microphone's queue, the audio worker's loop and the segmenter |
| `Gimbal` | the head: its lock and commands as functions of a record; no variables |
| `HeadMotion` | who moves the head: tracker, actions, the interrupting dispatcher, the writing threads |
| `HeadMotion_proofs` | its theorems |
| `Tracking` | the tracker's choice of a face, PID and loss as functions of its state; no variables |
| `FaceTracking` | the closed loop of camera, detector, tracker and head, in the worker and in the script |
| `Perception_proofs` | theorems about `Listening` and `FaceTracking` |
| `DeviceRegistry` | the server's side of remote commands: registry, command queue, connections |
| `ManagementClient` | the edge's side: reconnects, status, allowlist, running commands |
| `RemoteCommands` | their composition, with links that break; the properties |
| `Configuration` | a configuration as its file has it and as the program reads it; no variables |
| `EdgeSettings` | file, console, page and service |
| `Management_proofs` | theorems about `RemoteCommands` and `EdgeSettings` |
| `MC*` | instances for TLC, with one `.cfg` per configuration |

`SessionOps` is used twice: `SessionController` shows what holds whatever the
callers do, and `EdgeVoice` composes the same operations with the callers, so
that what depends on their order can be stated there.  `Vad`, `Gimbal`,
`Tracking` and `Configuration` are the pure part of a component in the same
way.  `EdgeVoice` and `SpeechQueue` share the playback worker: the first counts
chunks and has the sessions around them, the second knows each chunk.

### How state and actions correspond to the code

An action is a piece of a coroutine from one await that can suspend to the
next.  `asyncio.Lock` in the session controller never suspends while held, so
its operations are atomic.  A `put` on a bounded queue is two steps when the
queue is full (wait, then put), one otherwise.

* `conv.at` is the await at which the conversation worker stands: `events`
  (waiting for an utterance or a welcome), `exchange` (with the server),
  `start` (`_await_playback_start`), `playback` (`playback_idle.wait()`),
  `stop` (inside `interrupt`), `barge_in` (the exchange of the interrupting
  utterance).
* `player` is `get`, `coalesce` or `play`; `greeting[g]` is `no`, `put`,
  `start` or `playback` for the two possible callers of the local welcome.
* `speaking` is `playback_active`; `playback_idle` is always its complement,
  because both are assigned together between two awaits.
* `mic` is `_presence_listening` and `_listening_deadline` in one variable.
* `echo` says that the microphone's frame queue holds frames captured while
  the robot spoke, behind a blocked audio worker.

Time is not measured.  A deadline is an action that may happen once its timer
runs; the one place where durations matter is the wait of at most 1 s for a
playback to start.  A chunk in the queue or in the coalescing window (0.12 s)
starts within that second, so the timeout is enabled only when nothing is on
its way to the speaker (`NothingToPlay`).

`VoiceTurn` is the inside of what `ConversationWorker` calls an exchange.

* `main` is the await at which the server session stands: `audio` and `welcome`
  (the request has arrived), `stream` (in `async for delta`), `drain` (awaiting
  the TTS task), `record` (the final marker is sent); `tts.at` is the same for
  `_run_tts_queue`: `get`, `synth`, `audio` (between the two sends).
* Text is a count of words.  A delta adds a word or only blanks, and whether it
  ends a segment (punctuation, length) is a choice; a segment is the interval
  of its words, so that lost, repeated or swapped text shows in `heard`.
* `wire` carries what the edge acts on: announcements, audio and errors.
  `asr.final`, `llm.partial` and `llm.final`, which it only logs, matter as
  sends that may raise.  A send on a link the edge has closed is swallowed or
  raises, which depends on the server library's version and on timing.
* `AnswerDelivery` says what `ConversationWorker` relies on: a growing
  beginning of the answer, and success only with all of it.  `VoiceTurn`
  implements it with `said <- produced`, `heard <- Len(heard)`,
  `verdict <- edge`.

The action queue is not part of `EdgeVoice` (the dispatcher drains it), nor is
the backlog of the vision queue, which only delays what the camera reports.
Session ids and turn indices are collapsed there: they are the subject of
`SessionController`.

`SpeechQueue`: a chunk is a triple of its turn, its number and its format; turn
0 is the greeting, which is always WAV.  The server announces a media type with
each chunk, and what it is the TTS service decides: the shipped server asks for
WAV, a fallback that is configured may answer in PCM, and the silent final
marker is WAV.  So each chunk has a format of its own, and two chunks are merged
or put back by their formats.  Sample rate and number of channels do not differ
between the chunks of the server: it announces those of the session, which the
edge sent with its audio (`ai_robot_server/app.py:1077`).  The state `hand` is
the moment between the timed `get` and its caller: `asyncio.wait_for` of Python 3.10, which
`scripts/install_edge.sh` installs, runs the `get` as a task of its own, so that
a producer may fill the queue before an incompatible chunk is put back.

`Listening`: a frame is its capture number, a sound what the analysis makes of
it.  Frames have one duration, so that milliseconds are counted in frames; the
Silero model gets windows of a fixed number of samples, which a frame may or may
not fill.

`HeadMotion`: an action is the list of the commands it has still to give.  A
client of the gimbal is `waiting` for the lock, `writing` (a thread is at the
serial line), or `reading` the answer.  A cancelled task leaves its thread
behind (`orphans`), which writes when it likes.  The driver takes the head to be
at its centre when it is made, but neither the constructor nor `connect()`
(`gimbal.py:115-142`) nor the application sends it there: the servos start in
any posture, and `belief` is `unsure` until the first centring that nobody
disturbs.

`FaceTracking`: one axis, in steps of an angle; quotients are cut to whole
steps, times are ticks of the control loop.  Both programs that run the tracker
are there: `CameraWorker`, which sees each frame once, and
`scripts/run_face_gimbal_tracking.py`, which runs faster than its detector.

`RemoteCommands`: a connection has its handler and its sender task on the
server, a link, and the frames under way in both directions; voice connections
come and go beside the management connection, because the registry counts both.
`RequestCommand` is the admin API; a `put` on the full queue waits.

`EdgeSettings`: the file is one of its settings' values, empty (truncated), or
lacks settings that came with an update.  Five settings stand for all: two
thresholds that are checked against each other, a switch that is on by default,
a name that is chosen from a list, and a text.  `Shown` is what `renderField`
and the controls of the page make of a value: a missing number is blank, and
the save fails with it; a missing switch is off, a missing text empty; a text
ends at its first quotation mark; a list that does not have the value shows its
first entry.  A whole-number setting that holds a fraction, which makes the save
fail like a blank, is left out.

## 3. Runs

| Run | Shows |
|---|---|
| `session` | the session controller under every order of calls |
| `dispatcher` | the dispatcher with failing actions and a failing stop command |
| `voice_local` | the shipped configuration (`config/edge.example.yaml`): local welcome, presence listening, suppressed microphone; plus the wake word |
| `voice_remote` | greetings through the server, a listening window, wake word |
| `voice_barge_in` | speech interrupts with local welcome |
| `voice_turn` | one exchange with failing services, a broken answer stream and a link lost at any moment |
| `speech` | every chunk of two answers, in one format or in mixed ones, and a greeting through a queue of two |
| `listening` | from the microphone to the utterance, both segmenters, a choice in the run |
| `head` | tracker, actions and interruptions on one serial line that may fail |
| `tracking` | camera worker and test script following two persons |
| `commands` | remote commands over connections that break and overlap |
| `settings` | console, page, service and power failures around one file |

All of them pass.  What a theorem shows for every value of the constants is
checked by a run as well where the instance adds something; the type
invariants and several other properties that are proved (section 4) were
checked by TLC on the way to the proof and are in no run.

### What the passing runs establish

`voice_local` checks safety and progress together, with a server that fails
before or after its first audio.  `AbandonedOnlyByFailure`: what is played has
somebody who waits for it and takes the session out of `speaking`; the one step
that ends this is the failure of an exchange that has sent audio.  Under
fairness, `DisengagesWhenLeft`, `EventsComplete` and `HeardWhilePresent`: a
person who stays is heard again and again, or the robot is `Stranded`, deaf with
the session in `speaking` and nobody to end it, until everybody has left.  The
first property shows that only such a failure leads there.
`voice_remote` shows that without local welcome the robot takes strict turns
(`ListensBetweenTurns`), and that this is what makes the careless
`done.pop()` of the conversation worker harmless (`NoEventLost`).
In `voice_local` a greeting may arm listening while a turn is being served, so
these two are stated for the remote configuration only.

`voice_turn` checks `AnswerDelivered` (the refinement), `HeardInOrder`,
`QuietAfterTurn` and, under fairness, `TurnEnds` and `SuccessIsRemembered`.
The edge closes the connection as soon as it has the final audio, before the
server records the turn and sends `llm.final`.  The turn is in the history all
the same, because it is recorded before that send; but when the send raises,
the monitor shows an error for a turn that succeeded.  `QuietAfterTurn` says
that a session that is over has no TTS task at work and that the monitor shows a
result, except for the utterance that came without audio: it is refused, and
the monitor goes on showing that audio is received.

`speech` checks that a chunk of the server is heard behind a later one only if
it was put back because it met a burst of another format (`AnswersInOrder`): an
answer in one format is in order, whatever the greeting does; an answer in mixed
formats need not be.  An answer
that counts as played was played (`AnswerWasPlayed`), but for the turns that
began with an interruption, and whatever is put is played or dropped, unless
the worker has died (`EverythingSettles`).

`listening` checks that an utterance has no gap but those of the microphone's
full queue (`UtteranceIsUnbroken`), that nothing in it was handled before
listening was armed or belongs to an earlier segment (`UtteranceIsNew`; frames
that were captured before and still wait in the queue do get in), and that the
silence that ends it was analysed (`SilenceWasHeard`).  The last one has a condition, `GapsAreShort`: a window may
be longer than a frame, a frame that fills none counts as silent, and frames
between the two thresholds do not reset the count, so that in a long stretch of
them the gaps alone can end an utterance.  The condition says that the longest
utterance has too few gaps for that; the default settings meet it (334 frames
of 480 samples, windows of 512, 27 frames of silence), and so does the run.
`TypeOK` has the bounds on segments and pre-roll, which is why it is in this
run.

`head` checks that the lock survives every cancellation and failure
(`LockIsSound`), that all who wait for it are served (`EveryoneIsServed`), and
that from an undisturbed centring on a relative move starts where the servos are
(`MovesStartWhereItIs`), until two moves overlap, one is cancelled, a late
thread writes, the head is stopped or the line fails: in these cases, and before
the first centring, it need not.

`tracking` checks whom the head follows: the worker keeps to a person whose face
it finds, if a turn of the head moves that face by less than about twice its
size and the others stand further apart than a turn can blur (`KeepsPerson`);
the target jumps to a face elsewhere only after the lock has run out or when
nobody was there (`SwitchesAfterLock`); the head stops on detections that are
too old (`StaleHeadStops`), comes to look at a person who stays where they are
(`LooksAtPerson`), and goes home when nobody is left (`LostHeadComesHome`).

`commands` checks that a command runs at most once and in order
(`RunInOrder`), that one is lost only together with the connection that was
carrying it (`LostOnlyWithItsLink`), that the others are answered once the links
stay up (`CommandsAnswered`), and the online flag (`OnlineMeansConnected`).

`settings` checks that the service never starts on an empty file
(`NeverRunsTorn`), and that a save of the page leaves alone what nobody has
changed there (`SaveKeepsTheRest`): the service would run with the same value as
before, and what the page does not show stays in the file.  Four values are the
exception, because the page cannot show them: a switch or a text that the file
does not have, the engine under its other name `silero`, and a text with a
quotation mark.  A field that shows what the file has when it is saved is meant;
what others have written since the page was loaded the save overwrites.

### Disagreements seen while modelling

These are counterexamples TLC gave, or conditions a property had to exclude.
They have no run of their own.

Between the code and what the repository says of it:

* A dropped lower-priority intent cancels the running action
  (`actions.py:95-98`), while the log line at `actions.py:91` says that the
  new one is dropped.
* A servo error in the stop command ends the application (`actions.py:79`);
  `TODO.md:92` asks for a degraded mode.
* A server failure after the first audio leaves the robot deaf until everybody
  has left (`client.py:282-288`): the loop goes back to its queues without a
  wait, and nobody takes the session out of `speaking`.  `TODO.md:91` lists the
  recovery as done.  `voice_local` shows that there is no other way to lose a
  playback.
* An utterance without audio is refused with an error frame
  (`ai_robot_server/app.py:1099-1107`), but the monitor goes on showing it as
  being received, later as stuck, until a later utterance of the device.
* Chunks of one answer in different formats can be heard out of order: one that
  does not fit the burst is put back at the end of the queue, behind chunks that
  came later (`playback.py:99-101`).  The formats differ when a fallback of the
  TTS service answers for a part of the text, or with PCM speech before the
  silent WAV marker.
* The driver believes that the head is at its centre when the service starts
  (`gimbal.py:115-142`), and the first relative move starts from there; after a
  restart with a turned head this is wrong, until something centres it.
* An interruption that hits between two bursts leaves `playback_active` set and
  the conversation worker waiting for ever (`playback.py:56-58`).
* Frames captured during a greeting started by the wake word reach the VAD
  (`worker.py:94`), although `TODO.md:70` has it that the robot does not hear itself.
* Presence listening without local welcome never ends (`coordinator.py:171`).
* With speech interrupts and a listening window the microphone is not armed
  during an answer (`worker.py:113`), so that the barge-in of `TODO.md:76` does
  not happen there.
* When the server cannot produce speech, `docs/server_api_contract.md:265` asks
  for `llm.final` and an error that is not retryable; the code sends one
  retryable error (`app.py:1191`) and no `llm.final`.

Behaviour worth knowing:

* After an interruption the loop waits for `playback_idle` at once and not for a
  start (`client.py:353`): the answer to the interruption may count as played
  before it begins.
* Under Python 3.10 a chunk that is put back can meet a queue a producer has
  filled meanwhile; `put_nowait` raises and the application ends
  (`playback.py:100`).
* A nod is a sequence of relative moves (`gimbal.py:226`).  Overlapping a move
  of the tracker, cut short or near a limit, it leaves the head displaced.  A
  cancelled action leaves a thread that may write after the stop command.
* The wave turns a servo of its own and holds the lock only for each write.
* One image without any face gives up the target (`tracking.py:292-294`); the
  lock of `tracking.py:342` bridges images in which another face is there.
* The console writes the file before it validates it (`admin/app.py:203`): a
  combination that does not load locks the console out, and the service does
  not come up again until the file is mended by hand.  `write_text` truncates
  first, so that a power failure may leave an empty file, on which the service
  fails for want of a name.
* With other settings than the default ones, frames that fill no window of the
  Silero model can end an utterance although silence was never analysed after
  the last voiced frame (`vad.py:292`; `GapsAreShort` excludes it).
* A face that is small against a turn of the head is not recognised as the one
  that was locked (`tracking.py:81`), and a lock that is already over goes to
  another face (`MovesLittle` excludes it).
* The page saves every field it shows, edited or not, and so overwrites what
  others have changed since it was loaded.  A switch the file does not have is
  shown off and saved off although its default is on (`admin/app.py:536`), a
  missing text is saved empty, a text with a quotation mark is cut at it, and
  the engine `silero` becomes `energy`; a blank number makes the save fail.
* Remote operations are decided by the running configuration, those of the
  console by the file.

### Bounds

| Bound | Value | Why it is enough |
|---|---|---|
| `MaxSessions`, `MaxTurns`, `MaxGreetings` | 2 or 3 | a session and its successor; one more than the property allows |
| `Intents`, `QueueSize` (dispatcher) | 3, 2 | one runs, one interrupts, one waits |
| `UtteranceQueueSize` | 1 (8 in the code) | full after one utterance, so the wait for room happens |
| `TtsQueueSize` | 2 (32) | one chunk plays, one is merged, one waits, a producer blocks |
| `ConversationQueueSize` | 2 (8) | the theorem `WelcomesApart` shows that even one slot suffices |
| `StableFrames` | 2 (1 where the counters do not matter) | a candidate frame and a stable one |
| `idleActions` | 2 | saturates one above the property |
| `MaxWords` | 4 | up to four segments: one spoken, one on the wire, two queued; a fallback behind a partial answer |
| `MaxTurn`, `MaxChunks`, `QueueSize`, `Formats` (speech) | 2, 2, 2, {wav, pcm} | an answer in the speaker with the next one in the queue; a chunk put back behind another with a producer waiting; two formats differ or do not |
| `MaxFrames`, `BufferSize` | 10, 2 | a segment of the greatest length, a shorter one after a cooldown; the microphone's queue full |
| `PreRoll`, `Silence`, `MinSpeech`, `Cooldown`, `MaxUtterance` | 2, 3, 2, 1, 8 frames | each limit is met with the others not met; gaps that add up in one utterance |
| `CaptureSamples`, `CaptureRate`, `VadRate`, `WindowSamples` | 7, 5, 2, 4 | a frame is three samples at the model's rate, a window four: every fourth frame fills none |
| angles, `MaxPan`, `MaxTilt`, `Amplitude` of `head` | 2 and 3, 1, 0, 1 | moves that meet a limit and moves that do not; an inverted servo |
| `WaveSteps`, `MaxOrphans` | 2, 1 | one move between two writes; a late write among those of others |
| persons and directions of `tracking` | 2 of different size, 3 | the nearest is not the one that is followed; `Right` = 9 turns reach all of them |
| `LossTimeout`, `LockTimeout`, `Hold`, `MaxAge` | 3, 5, 2, 6 ticks | both time limits run out, at different times; ages saturate above them |
| `MaxRequests`, `MaxConnections`, `QueueSize`, `MaxFaults` | 2, 3, 1, 1 | one command queued, its producer waiting; an old, a new and a voice connection at once |
| `MaxDelay` | 3 | the backoff reaches its maximum |
| `Levels` of `settings` | two | thresholds in order, equal and crossed; one of the four pairs is valid |
| `Requested` | one setting in each request | several requests add up to any combination |

`CHECK_DEADLOCK FALSE` where the system may stop: an exchange has ended, the
camera's frames or the turns of the bound are used up, the application has
ended, or a file that does not load keeps the service down.

### Fairness

The event loop runs each ready worker, so its enabled steps are weakly fair.
The camera and the microphone deliver frames and timers fire.  `speaker.play`
and `speaker.stop` return (the speaker driver blocks a thread for the length
of the sound).  The server ends every exchange: the edge sets a connect timeout
and a websocket ping interval (`client.py:91-94`), which turns a dead
connection into an error; a server that stays connected and says nothing is
not covered, the client has no receive timeout.  The waits for
`playback_active` and `playback_idle` are strongly fair: `Event.set` wakes
every waiter, even if the event is cleared again before the waiter runs.
In `VoiceTurn` each of the two tasks and the receive loop is weakly fair: the
HTTP clients have timeouts (`connectors.py:50` and the others), so a service
answers or fails, and `MaxWords` makes the answer finite.
Nothing is assumed of the person or of what is heard.

`SpeechQueue`: the worker runs and the speaker comes to an end.
`HeadMotion`: the threads at the serial line write and return (the port has a
timeout), the wave goes on, and the dispatcher starts or drops what it took.
`FaceTracking`: images keep coming; where persons stand and whether a face is
found is free.  `RemoteCommands`: handlers, senders, the waiting producer and
the client's task run, status included; faults are not fair, and there are
`MaxFaults` of them.  `Listening` and `EdgeSettings` have safety properties only.

## 4. Proofs

| Module | Theorems of properties | Further theorems |
|---|---|---|
| `SessionController_proofs` | `WelcomeOncePerSession`, `TurnIndexCountsContexts`, `PublishedCurrent`, `SessionEndsByAbsence` | `TypeOK`, `WelcomingHasSession` |
| `ActionDispatcher_proofs` | `OneActionAtATime` | `TypeOK`, `DegradedIsQuiet`, `DropsAreOutranked` |
| `EdgeVoice_proofs` | `PlayingIsSpeaking`, `ListensBetweenTurns`, `NoEventLost`, `AbandonedOnlyByFailure` | `TypeOK`, `OneIdleActionPerAbsence`, `OneWelcomePending` |
| `VoiceTurn_proofs` | `HeardInOrder`, `QuietAfterTurn`, `AnswerDelivered` | `TypeOK` |
| `SpeechQueue_proofs` | `AnswersInOrder`, `AnswerWasPlayed` | `TypeOK`, `OneBurstPerInterruption`, `OneFormatInOrder` |
| `HeadMotion_proofs` | `LockIsSound`, `MovesStartWhereItIs` | `TypeOK` |
| `Management_proofs` | `OnlineMeansConnected`, `RunInOrder`, `LostOnlyWithItsLink`, `NeverRunsTorn`, `SaveKeepsTheRest` | `TypeOK` and `SettingsTypeOK`, `NoOrphanSender`, `BrokenIsLeftAlone` |
| `Perception_proofs` | `TypeOK`, `UtteranceIsUnbroken`, `UtteranceIsNew`, `SilenceWasHeard`, `TrackingTypeOK`, `StaleHeadStops`, `SwitchesAfterLock`, `KeepsPerson` | |

Every safety property that a run checks is a theorem.

The only assumptions are those that the modules state with their constants:
bounds are natural numbers, switches are Booleans, limits are ordered, and null
values are none of the values they stand beside.

`SessionController_proofs`, for any number of sessions, turns and greetings:
`StepCases` reduces the nine operations to four cases (a move
inside the session, an accepted absence, a welcome, a turn); a lemma for each
says what it does to the record.  `WelcomeOncePerSession` and
`TurnIndexCountsContexts` are not inductive: an id that will be generated must
not have been counted yet, and a session whose flag is clear must not have been
greeted.  `CountingInv` adds both facts.

`ActionDispatcher_proofs`, for any number of intents and any queue size: the
inductive invariant adds that
the intent in `stopping` is exactly the one marked so: without it the intent
that is started after the stop command could still be in the queue.  Two lemmas
say what taking the head and appending do to a queue without duplicates.

`EdgeVoice_proofs`, for every configuration and every queue size:

* `TypeOK`, `PlayingIsSpeaking` and `OneIdleActionPerAbsence`, without further
  assumptions.
* `ListensBetweenTurns`, and without local welcome also `NoEventLost` and
  `OneWelcomePending`.  `TurnInv` says that at most one thing is under way (a
  queued event or the one being served), that the session is then in
  `welcoming`, `thinking` or `speaking`, and that the microphone is armed in
  none of these but `speaking`; so neither the coordinator nor the wake word
  nor the audio worker begins anything else.  A consequence, visible in the
  proof: without local welcome the conversation worker never interrupts a
  playback, whatever `speech_interrupt_enabled` says.
* `AbandonedOnlyByFailure` (theorem `PlaybackIsAwaited`), assuming that speech
  interrupts are off and that listening follows a welcome, as configured.
  Nothing is assumed of the server: the failure of an exchange that has sent
  audio is named in the property.  `AwaitInv` says that audio on its way to a
  silent robot has a waiter that has not yet seen it start, and `AwaitStep` that
  every other step keeps it so.  Both assumptions are needed: with either of
  them dropped TLC finds a counterexample.

`VoiceTurn_proofs`, for answers of any length.  The words are in one line, and
the invariant says so: what the edge has heard is followed by the segments on
the wire, the segment being spoken, the queue and the buffer, each beginning
where the last one ends.  A segment can only leave the line at its front, or be
lost with everything behind it when the TTS task or the link fails; so
`HeardInOrder` follows.  The refinement is shown step by step: an action of the
two server tasks is a step of `AnswerDelivery` or a stutter, and the edge
succeeds only on the final marker, of which the invariant says that nothing of
the answer is behind it.

`SpeechQueue_proofs`, for any number of turns and chunks and any queue size.
Chunks of answers stand in one line (heard, burst, hand, queue, not yet put), and
what the server sends joins it at the end.  A chunk leaves its place only when
it is put back; it is remembered in `returned`, and the invariant says that of
two chunks the one sent first is ahead unless it has been put back.  `MisfitInv`
adds why: what was put back had met a burst of another format.  So
`AnswersInOrder` follows, and with a single format nothing of an answer is ever
put back behind another chunk of it (`OneFormatInOrder`).  For
`OneBurstPerInterruption`, `DebtInv` counts the flag as an interruption that
has not yet dropped its burst.  For `AnswerWasPlayed`, `WaitInv` says that the
client loses sight of no chunk of its turn, and that all of them are heard or
dropped once it finds the robot silent in a turn that did not begin with an
interruption.  `WorkerKeeps` is the lemma behind it: no step of the worker
takes a chunk out of the line, or back from what was heard.

`HeadMotion_proofs`, for any number of axes, angles and late writes.
`IsSound` (module `Gimbal`) is inductive once it is split by client: who holds
the lock writes or reads, who waits is in the queue once, and nobody else is.
One lemma for each function of `Gimbal` (`AskSound`, `ReleaseSound`,
`LeaveSound`, `ConfirmSound`) says that it preserves this; the actions of `HeadMotion` only compose them.

For `MovesStartWhereItIs`, `BeliefInv` relates the servos to the position the
driver stores, which lags behind a move until its reply is read: once a centring
was undisturbed, and until a move is cut short, two overlap, the head is stopped
or the line fails, at most one
client is moving the head, the servos are where the driver believes, or at the
target of the move whose reply is awaited, and a move that is not yet written
leaves the other axes where the driver believes they are.

`Management_proofs`, module `RemoteCommands`, for any number of requests, connections
and faults.  `OnlineMeansConnected` needs that the registry's count is the
number of connections with an open handler, that an unused connection has no
handler and no sender, and that a handler ends its sender in the step in which
it ends.  `RunInOrder` needs a line, as in `VoiceTurn_proofs`: what was run is
followed by the command the client runs, the frames on its connection, the
sender's hand, the queue and the waiting producers.  `OrderInv` has three parts: order
in the queue and behind it (`QueueOrder`), order in the line from what was
run to the sender's hand (`LineOrder`), which only speaks of the connection the
client is served by, and that a request in
none of these places was answered, was rejected or went down with the
connection that carried it (`NoLoss`), from which `LostOnlyWithItsLink`
follows.

`Management_proofs`, module `EdgeSettings`, for any values of the settings and any
requests, needs the type invariant and the fact that loading an empty file
fails.  `SaveKeepsTheRest` is shown for each kind of field on its own: a value
goes through `Shown`, is put over the file and parsed again.

`Perception_proofs`, module `Listening`, for any capacity of the microphone's queue,
any limits of the segmenters and any sample rates.  The properties speak of the
last utterance; `ListeningInv` says the same of what may become one.  The
frames of the pre-roll, of the segment and of the microphone's queue are
chains, in which each frame joins the next but for what was lost, and pre-roll
and segment reach up to the frame handled next (`Segment`): without the last
part a frame that is appended could leave a gap.  A lost frame keeps the chains
because the lost frames are part of what joins two neighbours.  `Counts` bounds
the segment by the counters: before a segment the counters are 0, and a Silero
segment holds as many frames as its duration says.  For `SilenceWasHeard`,
`FewGaps` counts: as long as no silence was analysed after a voiced frame,
silence * window + duration * frame <= duration * window + the samples that
wait, so that `GapsAreShort` keeps the silence below its limit.  One lemma for
each segmenter (`EnergyStep`, `SileroStep`) says what it makes of a frame; the
actions only need these.

`Perception_proofs`, module `FaceTracking`, for any number of persons, any gains and
any response.  `ComputeTyped`, `SlewedTyped`, `PredictedTyped` and
`FollowTyped` bound what the operators of `Tracking` return.  `StaleHeadStops`
is not inductive: `LateInv` relates the number of late turns to the turn that
is left of the output limit, which each of them shortens by `MaxChange` at
least.  For `KeepsPerson`, `Drift` says that the face the worker remembers is
no further from its place in the image than one turn, whatever happened since
then; `ClosestWins` is the comparison of the two faces, and it needs the
condition `MovesLittle`, without which TLC finds a head that goes to another
person.

Model-checked only, because the provers cannot reason about fairness:
`DisengagesWhenLeft`, `HeardWhilePresent`,
`EventsComplete`, `EveryIntentSettles`, `TurnEnds`, `SuccessIsRemembered`,
`EverythingSettles`, `CommandsAnswered`, `EveryoneIsServed`,
`LostHeadComesHome` and `LooksAtPerson`.

## 5. Plan

Done, in this order: session controller, voice workers and dispatcher;
`VoiceTurn`; `SpeechQueue`; the head and the wave; listening; remote commands;
the tracker; the settings; and the theorems of section 4.

Left:

1. The format of the speech as a choice in `VoiceTurn`, segment by segment, so
   that a fallback of the TTS service and the final marker carry it to
   `SpeechQueue`.
2. The conversation history, whose eviction matters once voice sessions of
   several devices share it.
3. The voice workers and `SpeechQueue` in one composition, so that the chunks
   carry their session.

## 6. Not modelled

* Image processing, the ONNX models and the content of the resampler: numeric
  code.  What they find is a choice of the environment.
* Wake word detector: simulated in this repository.
* Conversation history: a bounded mapping behind a lock with three sequential
  operations; `VoiceTurn` has when a turn is recorded.
* Connectors: HTTP clients.  That a service answers or fails is a choice.
* The choice of a template answer (`answer_policy.py`), the HTTP endpoint
  `voice_chat`, and the content of status frames and results.
* Monitoring, status and log pages and the probes: they format and only read.
* Device drivers beyond the microphone's queue of frames: I/O.
* Start and shutdown of the tasks, deployment, and the other scripts.
