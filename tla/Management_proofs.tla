--------------------------- MODULE Management_proofs ---------------------------
(***************************************************************************)
(* Theorems about the two ways in which a robot is managed: its            *)
(* configuration file (EdgeSettings, for any levels, range and requests),  *)
(* and the commands the server relays (RemoteCommands, for any number of   *)
(* requests, connections and faults and any capacity of the queue).  The   *)
(* two share no state; what each proves is about its own specification.    *)
(***************************************************************************)
EXTENDS EdgeSettings, RemoteCommands, FiniteSetTheorems, TLAPS

-----------------------------------------------------------------------------
\* The configuration file.

\* Every file parses to a configuration with all its settings.
LEMMA ParseIsConfig ==
  ASSUME NEW f \in Files
  PROVE  Parse(f) \in Configs
<1>1. /\ f.onset \in Levels \cup {Missing}
      /\ f.offset \in Levels \cup {Missing}
      /\ f.engine \in Engines \cup {Missing}
      /\ f.welcome \in Texts \cup {Missing}
      /\ f.ops \in BOOLEAN \cup {Missing}
  BY DEF Files
<1>2. /\ Default("onset") = Onset /\ Default("offset") = Offset
      /\ Default("ops") = TRUE /\ Default("engine") = "energy"
      /\ Default("welcome") = "plain"
  BY DEF Default
<1>3. Parse(f) = [k \in Settings |->
                    IF f[k] = Missing THEN Default(k) ELSE f[k]]
  BY DEF Parse
<1>4. /\ Parse(f)["onset"] \in Levels /\ Parse(f)["offset"] \in Levels
      /\ Parse(f)["ops"] \in BOOLEAN
  BY <1>1, <1>2, <1>3, LevelsAssumption DEF Settings
<1>5. Parse(f)["engine"] \in Engines /\ Parse(f)["welcome"] \in Texts
  BY <1>1, <1>2, <1>3 DEF Settings, Engines, Texts
<1> QED
  BY <1>3, <1>4, <1>5 DEF Configs, Settings

\* An empty file does not load: it has no name.
LEMMA EmptyDoesNotLoad == ~Loads(Empty)
  BY DEF Loads, Valid, Empty, Settings

LEMMA EmptyIsFile == Empty \in Files
  BY DEF Empty, Files, Settings

LEMMA ShownIsForm ==
  ASSUME NEW f \in Files
  PROVE  Shown(f) \in Forms
  BY LevelsAssumption DEF Files, Shown, Forms, Options, Texts

LEMMA PatchIsFile ==
  ASSUME NEW f \in Files, NEW p \in Patches
  PROVE  [k \in DOMAIN f |->
            IF k \in Settings /\ p[k] # Missing THEN p[k] ELSE f[k]] \in Files
<1> DEFINE r == [k \in DOMAIN f |->
                   IF k \in Settings /\ p[k] # Missing THEN p[k] ELSE f[k]]
<1>1. DOMAIN f = {"onset", "offset", "ops", "engine", "welcome", "device"}
  BY DEF Files
<1>2. /\ f.onset \in Levels \cup {Missing} /\ p.onset \in Levels \cup {Missing}
      /\ f.offset \in Levels \cup {Missing} /\ p.offset \in Levels \cup {Missing}
      /\ f.ops \in BOOLEAN \cup {Missing} /\ p.ops \in BOOLEAN \cup {Missing}
      /\ f.engine \in Engines \cup {Missing} /\ p.engine \in Engines \cup {Missing}
      /\ f.welcome \in Texts \cup {Missing} /\ p.welcome \in Texts \cup {Missing}
      /\ f.device \in {TRUE, Missing}
  BY DEF Files, Patches
<1>3. \A k \in {"onset", "offset", "ops", "engine", "welcome"} :
        k \in DOMAIN f /\ r[k] \in {p[k], f[k]}
  BY <1>1 DEF Settings
<1>4. r["device"] = f.device /\ DOMAIN r = DOMAIN f
  BY <1>1 DEF Settings
<1> HIDE DEF r
<1>5. /\ r["onset"] \in Levels \cup {Missing} /\ r["offset"] \in Levels \cup {Missing}
      /\ r["ops"] \in BOOLEAN \cup {Missing}
  BY <1>2, <1>3
<1>6. r["engine"] \in Engines \cup {Missing} /\ r["welcome"] \in Texts \cup {Missing}
  BY <1>2, <1>3
<1>7. r = [k \in {"onset", "offset", "ops", "engine", "welcome", "device"} |-> r[k]]
  BY <1>1, <1>4 DEF r
<1>8. r \in Files
  BY <1>2, <1>4, <1>5, <1>6, <1>7 DEF Files
<1> QED
  BY <1>8 DEF r

-----------------------------------------------------------------------------

\* The variables have their types: what runs is a complete configuration,
\* whatever the file lacks.
THEOREM SettingsTypeCorrect == SettingsSpec => []SettingsTypeOK
<1>1. SettingsInit => SettingsTypeOK
  BY ParseIsConfig DEF SettingsInit, SettingsTypeOK
<1>2. SettingsTypeOK /\ [SettingsNext]_settingsVars => SettingsTypeOK'
  <2> SUFFICES ASSUME SettingsTypeOK, [SettingsNext]_settingsVars PROVE SettingsTypeOK'
    OBVIOUS
  <2>1. CASE LoadParameters
    BY <2>1, ShownIsForm DEF LoadParameters, SettingsTypeOK
  <2>2. CASE EditField
    <3>1. form \in Forms
      BY <2>2 DEF EditField, SettingsTypeOK
    <3>2. form' \in Forms
      BY <2>2, <3>1 DEF EditField, Forms, Settings, Values, Entries
    <3> QED
      BY <2>2, <3>2 DEF EditField, SettingsTypeOK
  <2>3. ASSUME NEW p \in Patches, Update(p) PROVE SettingsTypeOK'
    <3>1. pending' \in Files
      BY <2>3, PatchIsFile DEF Update, SettingsTypeOK
    <3> QED
      BY <2>3, <3>1, EmptyIsFile DEF Update, SettingsTypeOK
  <2>4. CASE SaveParameters
    <3>1. form \in Patches
      BY <2>4 DEF SaveParameters, SettingsTypeOK, Forms, Patches, Options, Engines
    <3> QED
      BY <2>3, <2>4, <3>1 DEF SaveParameters
  <2>5. CASE UpdateConfig
    BY <2>3, <2>5, RequestedAssumption DEF UpdateConfig
  <2>6. CASE WriteFinished
    BY <2>6 DEF WriteFinished, SettingsTypeOK
  <2>7. CASE PowerFails
    BY <2>7 DEF PowerFails, SettingsTypeOK
  <2>8. CASE RestartByConsole \/ RestartByServer \/ ServiceFails
    BY <2>8 DEF RestartByConsole, RestartByServer, ServiceFails, SettingsTypeOK
  <2>9. CASE ServiceStarts
    BY <2>9, ParseIsConfig DEF ServiceStarts, SettingsTypeOK
  <2>10. CASE UNCHANGED settingsVars
    BY <2>10 DEF settingsVars, SettingsTypeOK
  <2> QED
    BY <2>1, <2>2, <2>4, <2>5, <2>6, <2>7, <2>8, <2>9, <2>10 DEF SettingsNext
<1> QED
  BY <1>1, <1>2, PTL DEF SettingsSpec

\* No start of the service ever uses a file that is empty, because it is
\* being written or was left so.
THEOREM NeverRunsTornFile == SettingsSpec => NeverRunsTorn
<1>1. SettingsNext => (edge = "down" /\ edge' = "up" => file # Empty)
  <2> SUFFICES ASSUME SettingsNext, edge = "down", edge' = "up" PROVE file # Empty
    OBVIOUS
  <2>1. ServiceStarts
    BY DEF SettingsNext, LoadParameters, EditField, SaveParameters, UpdateConfig,
      Update, WriteFinished, PowerFails, RestartByConsole, RestartByServer,
      ServiceFails
  <2> QED
    BY <2>1, EmptyDoesNotLoad DEF ServiceStarts
<1> QED
  BY <1>1, PTL DEF SettingsSpec, NeverRunsTorn

\* The console never touches a file that does not load.
THEOREM BrokenStays == SettingsSpec => BrokenIsLeftAlone
<1>1. SettingsNext => (pending = Missing /\ ~Loads(file) => UNCHANGED <<file, pending>>)
  BY DEF SettingsNext, LoadParameters, EditField, SaveParameters, UpdateConfig,
    Answers, WriteFinished, PowerFails, RestartByConsole, RestartByServer,
    ServiceFails, ServiceStarts
<1> QED
  BY <1>1, PTL DEF SettingsSpec, BrokenIsLeftAlone

\* Saving the page leaves alone what it does not show, and a field that
\* nobody has edited leaves the service with the value it would have had,
\* except for the named values that the controls of the page cannot show.
THEOREM SaveKeeps == SettingsSpec => SaveKeepsTheRest
<1> DEFINE Kept ==
      SaveParameters =>
        /\ pending'.device = file.device
        /\ \A k \in Settings :
             form[k] = Shown(file)[k] =>
               \/ Parse(pending')[k] = Parse(file)[k]
               \/ Unshowable(k, file[k])
<1>1. SettingsTypeOK => Kept
  <2> SUFFICES ASSUME SettingsTypeOK, SaveParameters PROVE Kept
    OBVIOUS
  <2>1. \A k \in DOMAIN file :
          pending'[k] = IF k \in Settings /\ form[k] # Missing
                        THEN form[k] ELSE file[k]
    BY DEF SaveParameters, Update
  <2>2. DOMAIN file = {"onset", "offset", "ops", "engine", "welcome", "device"}
    BY DEF SettingsTypeOK, Files
  <2>3. pending'.device = file.device
    BY <2>1, <2>2 DEF Settings
  <2>4. ASSUME NEW k \in Settings, form[k] = Shown(file)[k], ~Unshowable(k, file[k])
        PROVE  Parse(pending')[k] = Parse(file)[k]
    <3>0. pending'[k] = IF form[k] # Missing THEN form[k] ELSE file[k]
      BY <2>1, <2>2, <2>4 DEF Settings
    <3>1. CASE k \in {"onset", "offset"}
      <4>1. Shown(file).onset = file.onset /\ Shown(file).offset = file.offset
        BY DEF Shown
      <4>2. form[k] = file[k]
        BY <2>4, <3>1, <4>1
      <4> QED
        BY <3>0, <4>2 DEF Parse
    <3>2. CASE k = "ops"
      <4>1. file.ops \in BOOLEAN
        BY <2>4, <3>2 DEF Unshowable, SettingsTypeOK, Files
      <4>2. form[k] = file[k]
        BY <2>4, <3>2, <4>1 DEF Shown
      <4> QED
        BY <3>0, <4>2 DEF Parse
    <3>3. CASE k = "engine"
      <4>1. CASE file.engine = Missing
        <5>1. form[k] = "energy" /\ form[k] # Missing
          BY <2>4, <3>3, <4>1, LevelsAssumption DEF Shown, Options, Engines
        <5>2. pending'[k] = "energy" /\ "energy" # Missing
          BY <3>0, <5>1
        <5> QED
          BY <3>3, <4>1, <5>2 DEF Parse, Default
      <4>2. CASE file.engine # Missing
        <5>1. file.engine \in Options
          BY <2>4, <3>3, <4>2 DEF Unshowable, SettingsTypeOK, Files, Engines, Options
        <5>2. form[k] = file[k]
          BY <2>4, <3>3, <5>1 DEF Shown
        <5> QED
          BY <3>0, <5>2 DEF Parse
      <4> QED
        BY <4>1, <4>2
    <3>4. CASE k = "welcome"
      <4>1. file.welcome \notin {Missing, "quoted"}
        BY <2>4, <3>4 DEF Unshowable
      <4>2. form[k] = file[k]
        BY <2>4, <3>4, <4>1 DEF Shown
      <4> QED
        BY <3>0, <4>2 DEF Parse
    <3> QED
      BY <2>4, <3>1, <3>2, <3>3, <3>4 DEF Settings
  <2> QED
    BY <2>3, <2>4
<1> QED
  BY <1>1, SettingsTypeCorrect, PTL DEF SaveKeepsTheRest

-----------------------------------------------------------------------------
\* Remote commands.

\* TypeOK without the bound on count, which follows from what it counts,
\* and with what the client and the senders hold while they hold something.
QueueTypes ==
  /\ online \in BOOLEAN /\ count \in Nat
  /\ queue \in Seq(Requests) /\ Len(queue) <= QueueSize
  /\ blocked \in Seq(Requests)
  /\ asked \in Seq(Asked) /\ Len(asked) <= MaxRequests
  /\ accepted \in Seq(Requests)
  /\ carrier \in [Requests -> 0..MaxConnections]
  /\ answered \subseteq Requests

ConnTypes ==
  /\ conn \in [Connections -> ConnectionType]
  /\ \A c \in Connections : conn[c].sender = "send" => conn[c].held \in Requests

ClientTypes ==
  /\ client \in {"connect", "serve", "run", "sleep"}
  /\ at \in 0..MaxConnections /\ job \in 0..MaxRequests
  /\ delay \in InitialDelay..MaxDelay
  /\ ran \in Seq(Requests) /\ rejected \subseteq Requests
  /\ client \in {"serve", "run"} => at \in Connections
  /\ client = "run" => job \in Requests

Types == QueueTypes /\ ConnTypes /\ ClientTypes /\ faults \in 0..MaxFaults

\* Only an opened connection has a handler.
UnusedIsClosed ==
  \A c \in Connections : conn[c].kind = "unused" => conn[c].handler = "none"

Inv == Types /\ UnusedIsClosed /\ OnlineMeansConnected /\ NoOrphanSender

USE RegistryAssumption, ClientAssumption, FaultsAssumption

-----------------------------------------------------------------------------
LEMMA RequestsAreNumbers ==
  /\ Requests \subseteq 0..MaxRequests
  /\ Connections \subseteq 0..MaxConnections
  BY DEF Requests, Connections

LEMMA AppendKeeps ==
  ASSUME NEW S, NEW s \in Seq(S), NEW e \in S
  PROVE  Append(s, e) \in Seq(S) /\ Len(Append(s, e)) = Len(s) + 1
  OBVIOUS

LEMMA TailKeeps ==
  ASSUME NEW S, NEW s \in Seq(S), s # <<>>
  PROVE  /\ Head(s) \in S /\ Tail(s) \in Seq(S)
         /\ Len(Tail(s)) = Len(s) - 1 /\ Len(s) \in Nat
  OBVIOUS

LEMMA InitTypes == Init => Types
<1> SUFFICES ASSUME Init PROVE Types
  OBVIOUS
<1>1. NoConnection \in ConnectionType
  BY DEF NoConnection, ConnectionType
<1>2. conn = [c \in Connections |-> NoConnection]
  BY DEF Init, RegistryInit
<1>3. conn \in [Connections -> ConnectionType]
  BY <1>1, <1>2
<1>4. \A c \in Connections : conn[c].sender # "send"
  BY <1>2 DEF NoConnection
<1>5. carrier \in [Requests -> 0..MaxConnections]
  BY DEF Init, RegistryInit
<1>6. /\ queue \in Seq(Requests) /\ Len(queue) <= QueueSize
      /\ blocked \in Seq(Requests) /\ accepted \in Seq(Requests)
      /\ asked \in Seq(Asked) /\ Len(asked) <= MaxRequests
      /\ ran \in Seq(Requests)
  BY DEF Init, RegistryInit, ClientInit
<1>7. /\ online = FALSE /\ count = 0 /\ answered = {}
      /\ client = "connect" /\ at = 0 /\ job = 0 /\ delay = InitialDelay
      /\ rejected = {} /\ faults = 0
  BY DEF Init, RegistryInit, ClientInit
<1>8. online \in BOOLEAN /\ answered \subseteq Requests /\ rejected \subseteq Requests
  BY <1>7
<1>9. client = "connect" /\ count \in Nat
  BY <1>7
<1>10. /\ at \in 0..MaxConnections /\ job \in 0..MaxRequests
       /\ delay \in InitialDelay..MaxDelay /\ faults \in 0..MaxFaults
  BY <1>7
<1> QED
  BY <1>3, <1>4, <1>5, <1>6, <1>8, <1>9, <1>10
  DEF Types, QueueTypes, ConnTypes, ClientTypes

LEMMA StutterKeepsTypes ==
  ASSUME Types, UNCHANGED allVars
  PROVE  Types'
  BY DEF Types, QueueTypes, ConnTypes, ClientTypes, allVars, vars,
    registryVars, requestVars, clientVars

LEMMA RequestTypes ==
  ASSUME QueueTypes, NEW command \in Asked, RequestCommand(command)
  PROVE  QueueTypes'
<1> DEFINE r == Len(asked) + 1
<1>1. r \in Requests /\ r <= MaxRequests
  BY DEF RequestCommand, Requests
<1>2. asked' \in Seq(Asked) /\ Len(asked') <= MaxRequests
  BY <1>1 DEF RequestCommand, QueueTypes
<1>3. /\ queue' \in Seq(Requests) /\ Len(queue') <= QueueSize
      /\ blocked' \in Seq(Requests) /\ accepted' \in Seq(Requests)
  <2>1. /\ queue \in Seq(Requests) /\ blocked \in Seq(Requests)
        /\ accepted \in Seq(Requests) /\ Len(queue) <= QueueSize
    BY DEF QueueTypes
  <2>2. CASE Enqueue(r)
    <3>1. CASE Len(queue) < QueueSize
      <4>1. /\ queue' = Append(queue, r) /\ accepted' = Append(accepted, r)
            /\ blocked' = blocked
        BY <2>2, <3>1 DEF Enqueue
      <4>2. Len(queue') = Len(queue) + 1 /\ Len(queue) \in Nat
        BY <1>1, <2>1, <4>1, AppendKeeps
      <4> QED
        BY <1>1, <2>1, <3>1, <4>1, <4>2, AppendKeeps
    <3>2. CASE ~(Len(queue) < QueueSize)
      BY <1>1, <2>1, <2>2, <3>2, AppendKeeps DEF Enqueue
    <3> QED
      BY <3>1, <3>2
  <2>3. CASE UNCHANGED <<queue, blocked, accepted>>
    BY <2>1, <2>3
  <2> QED
    BY <2>2, <2>3 DEF RequestCommand
<1> QED
  BY <1>2, <1>3 DEF RequestCommand, QueueTypes

LEMMA PutTypes ==
  ASSUME QueueTypes, PutGoesOn
  PROVE  QueueTypes'
<1>1. Head(blocked) \in Requests /\ Tail(blocked) \in Seq(Requests)
  BY DEF PutGoesOn, QueueTypes
<1>2. /\ queue' \in Seq(Requests) /\ Len(queue') <= QueueSize
      /\ blocked' \in Seq(Requests) /\ accepted' \in Seq(Requests)
  BY <1>1 DEF PutGoesOn, QueueTypes
<1> QED
  BY <1>2 DEF PutGoesOn, QueueTypes

LEMMA ConnTypesFields ==
  ASSUME ConnTypes, NEW c \in Connections
  PROVE  /\ conn[c] \in ConnectionType
         /\ conn[c].toEdge \in Seq(Requests)
         /\ conn[c].toServer \in Seq(Frames)
  BY DEF ConnTypes, ConnectionType

LEMMA ConnUpdate ==
  ASSUME ConnTypes, NEW c \in Connections, NEW r \in ConnectionType,
         r.sender = "send" => r.held \in Requests,
         conn' = [conn EXCEPT ![c] = r]
  PROVE  ConnTypes'
  BY DEF ConnTypes

LEMMA AcceptTypes ==
  ASSUME ConnTypes, NEW c \in Connections,
         NEW kind \in {"management", "voice"}, Accept(c, kind)
  PROVE  ConnTypes'
<1> DEFINE r == [NoConnection EXCEPT !.kind = kind, !.handler = "open",
                                     !.link = "up"]
<1>1. NoConnection \in ConnectionType /\ NoConnection.sender = "none"
  BY DEF NoConnection, ConnectionType
<1>2. r \in ConnectionType /\ r.sender = "none"
  BY <1>1 DEF ConnectionType
<1>3. conn' = [conn EXCEPT ![c] = r]
  BY DEF Accept
<1> HIDE DEF r
<1> QED
  BY <1>2, <1>3, ConnUpdate

LEMMA ReceiveTypes ==
  ASSUME ConnTypes, NEW c \in Connections,
         ReceiveStatus(c) \/ ReceiveReport(c) \/ HandlerEnds(c)
  PROVE  ConnTypes'
<1>1. /\ conn[c] \in ConnectionType /\ conn[c].toServer \in Seq(Frames)
  BY ConnTypesFields
<1>2. CASE ReceiveStatus(c)
  <2>1. Tail(conn[c].toServer) \in Seq(Frames)
    BY <1>1, <1>2, TailKeeps DEF ReceiveStatus, Readable
  <2> QED
    BY <1>1, <1>2, <2>1 DEF ReceiveStatus, ConnTypes, ConnectionType
<1>3. CASE ReceiveReport(c)
  <2>1. Tail(conn[c].toServer) \in Seq(Frames)
    BY <1>1, <1>3, TailKeeps DEF ReceiveReport, Readable
  <2> QED
    BY <1>1, <1>3, <2>1 DEF ReceiveReport, ConnTypes, ConnectionType
<1>4. CASE HandlerEnds(c)
  <2> DEFINE r == [conn[c] EXCEPT !.handler = "ended", !.sender = "ended",
                                  !.held = 0, !.toServer = <<>>]
  <2>1. r.sender = "ended"
    BY <1>1 DEF ConnectionType
  <2>3. 0 \in 0..MaxRequests /\ <<>> \in Seq(Frames)
    OBVIOUS
  <2>4. r \in ConnectionType
    BY <1>1, <2>3 DEF ConnectionType
  <2>2. conn' = [conn EXCEPT ![c] = r]
    BY <1>4 DEF HandlerEnds, ConnTypes
  <2> HIDE DEF r
  <2> QED
    BY <2>1, <2>2, <2>4, ConnUpdate
<1> QED
  BY <1>2, <1>3, <1>4

LEMMA SenderTypes ==
  ASSUME QueueTypes, ConnTypes, NEW c \in Connections,
         TakeCommand(c) \/ SendCommand(c)
  PROVE  QueueTypes' /\ ConnTypes'
<1>1. /\ conn[c] \in ConnectionType /\ conn[c].toEdge \in Seq(Requests)
  BY ConnTypesFields
<1>2. CASE TakeCommand(c)
  <2>1. /\ Head(queue) \in Requests /\ Tail(queue) \in Seq(Requests)
        /\ Len(Tail(queue)) <= QueueSize
    BY <1>2, TailKeeps DEF TakeCommand, QueueTypes
  <2>2. QueueTypes'
    BY <1>2, <2>1, RequestsAreNumbers DEF TakeCommand, QueueTypes
  <2> DEFINE r == [conn[c] EXCEPT !.sender = "send", !.held = Head(queue)]
  <2>3. Head(queue) \in 0..MaxRequests
    BY <2>1, RequestsAreNumbers
  <2>4. r \in ConnectionType /\ r.held \in Requests
    BY <1>1, <2>1, <2>3 DEF ConnectionType
  <2>5. conn' = [conn EXCEPT ![c] = r]
    BY <1>2 DEF TakeCommand, ConnTypes
  <2> HIDE DEF r
  <2>6. ConnTypes'
    BY <2>4, <2>5, ConnUpdate
  <2> QED
    BY <2>2, <2>6
<1>3. CASE SendCommand(c)
  <2>1. QueueTypes'
    BY <1>3 DEF SendCommand, QueueTypes, registryVars, requestVars
  <2>2. 0 \in 0..MaxRequests
    OBVIOUS
  <2>3. CASE conn[c].link = "up" /\
             conn' = [conn EXCEPT ![c].sender = "get", ![c].held = 0,
                                  ![c].toEdge = Append(@, conn[c].held)]
    <3> DEFINE r == [conn[c] EXCEPT !.sender = "get", !.held = 0,
                                    !.toEdge = Append(@, conn[c].held)]
    <3>1. Append(conn[c].toEdge, conn[c].held) \in Seq(Requests)
      BY <1>1, <1>3, AppendKeeps DEF SendCommand, ConnTypes
    <3>2. r \in ConnectionType /\ r.sender = "get"
      BY <1>1, <2>2, <3>1 DEF ConnectionType
    <3>3. conn' = [conn EXCEPT ![c] = r]
      BY <2>3 DEF ConnTypes
    <3> HIDE DEF r
    <3> QED
      BY <2>1, <3>2, <3>3, ConnUpdate
  <2>4. ASSUME NEW next \in {"get", "ended"},
               conn' = [conn EXCEPT ![c].sender = next, ![c].held = 0]
        PROVE  ConnTypes'
    <3> DEFINE r == [conn[c] EXCEPT !.sender = next, !.held = 0]
    <3>1. r \in ConnectionType /\ r.sender # "send"
      BY <1>1, <2>2 DEF ConnectionType
    <3>2. conn' = [conn EXCEPT ![c] = r]
      BY <2>4 DEF ConnTypes
    <3> HIDE DEF r
    <3> QED
      BY <3>1, <3>2, ConnUpdate
  <2> QED
    BY <1>3, <2>1, <2>3, <2>4 DEF SendCommand
<1> QED
  BY <1>2, <1>3

\* Connections change their link and what is under way to the edge by
\* themselves, or because the client hangs up or reports.
LEMMA LinkTypes ==
  ASSUME ConnTypes, NEW c \in Connections, NEW frames \in Seq(Requests),
         NEW link \in {"up", "down"},
         conn' = [conn EXCEPT ![c].link = link, ![c].toEdge = frames]
  PROVE  ConnTypes'
<1> DEFINE r == [conn[c] EXCEPT !.link = link, !.toEdge = frames]
<1>1. conn[c] \in ConnectionType
  BY ConnTypesFields
<1>2. /\ r \in ConnectionType /\ r.sender = conn[c].sender
      /\ r.held = conn[c].held
  BY <1>1 DEF ConnectionType
<1>3. conn' = [conn EXCEPT ![c] = r]
  BY DEF ConnTypes
<1>4. r.sender = "send" => r.held \in Requests
  BY <1>2 DEF ConnTypes
<1> HIDE DEF r
<1> QED
  BY <1>2, <1>3, <1>4, ConnUpdate

LEMMA HangupTypes ==
  ASSUME ConnTypes, NEW c \in Connections, Hangup(c)
  PROVE  ConnTypes'
<1>1. <<>> \in Seq(Requests)
  OBVIOUS
<1> QED
  BY <1>1, LinkTypes DEF Hangup

LEMMA FrameSentTypes ==
  ASSUME ConnTypes, NEW c \in Connections, NEW frame \in Frames,
         NEW rest \in Seq(Requests),
         conn' = [conn EXCEPT ![c].toEdge = rest,
                              ![c].toServer = Append(@, frame)]
  PROVE  ConnTypes'
<1> DEFINE r == [conn[c] EXCEPT !.toEdge = rest, !.toServer = Append(@, frame)]
<1>1. conn[c] \in ConnectionType /\ conn[c].toServer \in Seq(Frames)
  BY ConnTypesFields
<1>2. Append(conn[c].toServer, frame) \in Seq(Frames)
  BY <1>1, AppendKeeps
<1>3. /\ r \in ConnectionType /\ r.sender = conn[c].sender
      /\ r.held = conn[c].held
  BY <1>1, <1>2 DEF ConnectionType
<1>4. conn' = [conn EXCEPT ![c] = r]
  BY DEF ConnTypes
<1>5. r.sender = "send" => r.held \in Requests
  BY <1>3 DEF ConnTypes
<1> HIDE DEF r
<1> QED
  BY <1>3, <1>4, <1>5, ConnUpdate

LEMMA ReportTypes ==
  ASSUME ConnTypes, NEW c \in Connections, NEW frame \in Frames,
         conn' = [conn EXCEPT ![c].toServer = Append(@, frame)]
  PROVE  ConnTypes'
<1> DEFINE r == [conn[c] EXCEPT !.toServer = Append(@, frame)]
<1>1. conn[c] \in ConnectionType /\ conn[c].toServer \in Seq(Frames)
  BY ConnTypesFields
<1>2. Append(conn[c].toServer, frame) \in Seq(Frames)
  BY <1>1, AppendKeeps
<1>3. /\ r \in ConnectionType /\ r.sender = conn[c].sender
      /\ r.held = conn[c].held
  BY <1>1, <1>2 DEF ConnectionType
<1>4. conn' = [conn EXCEPT ![c] = r]
  BY DEF ConnTypes
<1>5. r.sender = "send" => r.held \in Requests
  BY <1>3 DEF ConnTypes
<1> HIDE DEF r
<1> QED
  BY <1>3, <1>4, <1>5, ConnUpdate

-----------------------------------------------------------------------------
\* The client

LEMMA SendResultTypes ==
  ASSUME ConnTypes, ClientTypes, client = "run", SendResult,
         ran' \in Seq(Requests), rejected' \subseteq Requests
  PROVE  ConnTypes' /\ ClientTypes'
<1>1. at \in Connections /\ job \in Requests
  BY DEF ClientTypes
<1>2. ConnTypes'
  <2>1. Result(job) \in Frames
    BY <1>1 DEF Result, Frames
  <2> QED
    BY <1>1, <2>1, ReportTypes, HangupTypes DEF SendResult
<1>3. ClientTypes'
  BY <1>1 DEF SendResult, Sleep, ClientTypes
<1> QED
  BY <1>2, <1>3

LEMMA CommandTypes ==
  ASSUME ConnTypes, ClientTypes, Reject \/ RunCommand \/ RunRaises \/ Restarted
  PROVE  ConnTypes' /\ ClientTypes'
<1>1. client = "run" /\ at \in Connections /\ job \in Requests
  BY DEF Reject, RunCommand, RunRaises, Restarted, ClientTypes
<1>2. ran \in Seq(Requests) /\ Append(ran, job) \in Seq(Requests)
  BY <1>1, AppendKeeps DEF ClientTypes
<1>3. CASE Reject
  BY <1>1, <1>3, SendResultTypes DEF Reject, ClientTypes
<1>4. CASE RunCommand
  <2>1. ran' \in Seq(Requests) /\ rejected' \subseteq Requests
    BY <1>2, <1>4 DEF RunCommand, ClientTypes
  <2> QED
    BY <1>1, <1>4, <2>1, SendResultTypes DEF RunCommand
<1>5. CASE RunRaises
  <2>1. ClientTypes'
    BY <1>1, <1>2, <1>5 DEF RunRaises, Sleep, ClientTypes
  <2> QED
    BY <1>1, <1>5, <2>1, HangupTypes DEF RunRaises
<1>6. CASE Restarted
  <2>1. ClientTypes'
    BY <1>1, <1>2, <1>6 DEF Restarted, ClientTypes
  <2> QED
    BY <1>1, <1>6, <2>1, HangupTypes DEF Restarted
<1> QED
  BY <1>3, <1>4, <1>5, <1>6

LEMMA ReadRequestTypes ==
  ASSUME ConnTypes, ClientTypes, ReadRequest
  PROVE  ConnTypes' /\ ClientTypes'
<1>1. client = "serve" /\ at \in Connections
  BY DEF ReadRequest, ClientTypes
<1>2. /\ Head(conn[at].toEdge) \in Requests
      /\ Tail(conn[at].toEdge) \in Seq(Requests)
  BY <1>1, ConnTypesFields, TailKeeps DEF ReadRequest
<1>3. CASE Hangup(at) /\ Sleep
  BY <1>1, <1>3, HangupTypes DEF ReadRequest, Sleep, ClientTypes
<1>4. CASE /\ conn' = [conn EXCEPT
                ![at].toEdge = Tail(@),
                ![at].toServer = Append(@, Progress(Head(conn[at].toEdge)))]
           /\ client' = "run" /\ job' = Head(conn[at].toEdge)
           /\ UNCHANGED <<at, delay>>
  <2>1. Progress(Head(conn[at].toEdge)) \in Frames
    BY <1>2 DEF Progress, Frames
  <2>2. ConnTypes'
    BY <1>1, <1>2, <1>4, <2>1, FrameSentTypes
  <2>3. ClientTypes'
    BY <1>1, <1>2, <1>4, RequestsAreNumbers DEF ReadRequest, ClientTypes
  <2> QED
    BY <2>2, <2>3
<1> QED
  BY <1>3, <1>4 DEF ReadRequest

LEMMA WaitTypes ==
  ASSUME ClientTypes, Wake \/ ConnectionClosed \/ ConnectFails
  PROVE  ClientTypes'
<1>1. delay' \in InitialDelay..MaxDelay
  <2>1. delay \in InitialDelay..MaxDelay
    BY DEF ClientTypes
  <2> QED
    BY <2>1 DEF Wake, ConnectionClosed, ConnectFails, Sleep
<1> QED
  BY <1>1 DEF Wake, ConnectionClosed, ConnectFails, Sleep, ClientTypes

LEMMA ConnectedTypes ==
  ASSUME ConnTypes, ClientTypes, Connected
  PROVE  ConnTypes' /\ ClientTypes'
<1>1. PICK c \in Connections : Accept(c, "management") /\ at' = c
  BY DEF Connected
<1>2. ConnTypes'
  BY <1>1, AcceptTypes
<1>3. ClientTypes'
  BY <1>1, RequestsAreNumbers DEF Connected, ClientTypes
<1> QED
  BY <1>2, <1>3

-----------------------------------------------------------------------------
\* All steps

LEMMA AcceptCounts ==
  ASSUME QueueTypes, NEW c \in Connections, NEW kind, Accept(c, kind)
  PROVE  QueueTypes'
  BY DEF Accept, QueueTypes, requestVars

LEMMA HandlerCounts ==
  ASSUME QueueTypes, ConnTypes, count # 0, NEW c \in Connections,
         ReceiveStatus(c) \/ ReceiveReport(c) \/ HandlerEnds(c)
  PROVE  QueueTypes'
<1>1. CASE ReceiveStatus(c)
  BY <1>1 DEF ReceiveStatus, QueueTypes, requestVars
<1>2. CASE ReceiveReport(c)
  <2>1. Frame(c) \in Frames
    BY <1>2, ConnTypesFields, TailKeeps DEF ReceiveReport, Readable, Frame
  <2>2. Frame(c).kind = "result" => Frame(c).request \in Requests
    BY <2>1 DEF Frames
  <2> QED
    BY <1>2, <2>2 DEF ReceiveReport, QueueTypes, registryVars
<1>3. CASE HandlerEnds(c)
  BY <1>3 DEF HandlerEnds, QueueTypes, requestVars
<1> QED
  BY <1>1, <1>2, <1>3

\* The connections that have a handler are counted.
LEMMA OpenIsFinite == IsFiniteSet(Open) /\ Open \subseteq Connections
<1>1. IsFiniteSet(Connections)
  BY FS_Interval DEF Connections
<1> QED
  BY <1>1, FS_Subset DEF Open

LEMMA SameHandlers ==
  ASSUME UnusedIsClosed, OnlineMeansConnected, NoOrphanSender,
         \A c \in Connections : /\ conn'[c].handler = conn[c].handler
                                /\ conn'[c].kind = conn[c].kind,
         \A c \in Connections : conn'[c].sender \in {"get", "send"} =>
           conn[c].sender \in {"get", "send"} \/ conn[c].handler = "open",
         UNCHANGED count, online' = online \/ (online' = TRUE /\ Open # {})
  PROVE  UnusedIsClosed' /\ OnlineMeansConnected' /\ NoOrphanSender'
<1>1. Open' = Open
  BY DEF Open
<1>2. OnlineMeansConnected'
  BY <1>1 DEF OnlineMeansConnected
<1>3. NoOrphanSender'
  BY <1>1 DEF NoOrphanSender, Open
<1>4. UnusedIsClosed'
  BY DEF UnusedIsClosed
<1> QED
  BY <1>2, <1>3, <1>4

LEMMA AcceptOpens ==
  ASSUME QueueTypes, ConnTypes, UnusedIsClosed, OnlineMeansConnected,
         NoOrphanSender, NEW c \in Connections,
         NEW kind \in {"management", "voice"}, Accept(c, kind)
  PROVE  UnusedIsClosed' /\ OnlineMeansConnected' /\ NoOrphanSender'
<1> DEFINE r == [NoConnection EXCEPT !.kind = kind, !.handler = "open",
                                     !.link = "up"]
<1>1. r.handler = "open" /\ r.sender = "none" /\ r.kind = kind
  BY DEF NoConnection
<1>2. conn' = [conn EXCEPT ![c] = r] /\ count' = count + 1 /\ online' = TRUE
  BY DEF Accept
<1> HIDE DEF r
<1>3. Open' = Open \cup {c}
  BY <1>1, <1>2 DEF Open, ConnTypes
<1>4. c \notin Open
  BY DEF Open, Accept, Unused, UnusedIsClosed
<1>5. Cardinality(Open') = Cardinality(Open) + 1
  BY <1>3, <1>4, OpenIsFinite, FS_AddElement
<1>6. OnlineMeansConnected'
  BY <1>2, <1>3, <1>5 DEF OnlineMeansConnected
<1>7. NoOrphanSender'
  BY <1>1, <1>2, <1>3 DEF NoOrphanSender, ConnTypes
<1>8. UnusedIsClosed'
  BY <1>1, <1>2 DEF UnusedIsClosed, ConnTypes
<1> QED
  BY <1>6, <1>7, <1>8

LEMMA HandlerCloses ==
  ASSUME QueueTypes, ConnTypes, UnusedIsClosed, OnlineMeansConnected,
         NoOrphanSender, NEW c \in Connections, HandlerEnds(c)
  PROVE  UnusedIsClosed' /\ OnlineMeansConnected' /\ NoOrphanSender'
<1>1. /\ c \in Open
      /\ \A d \in Connections \ {c} : conn'[d] = conn[d]
      /\ conn'[c].handler = "ended" /\ conn'[c].sender = "ended"
      /\ conn'[c].kind = conn[c].kind
  BY DEF HandlerEnds, ConnTypes, ConnectionType, Open
<1>2. Open' = Open \ {c}
  BY <1>1 DEF Open
<1>3. Cardinality(Open') = Cardinality(Open) - 1
  BY <1>1, <1>2, OpenIsFinite, FS_RemoveElement
<1>4. count' = Cardinality(Open') /\ IsFiniteSet(Open')
  BY <1>2, <1>3, OpenIsFinite, FS_Subset DEF HandlerEnds, OnlineMeansConnected
<1>5. count' > 0 <=> Open' # {}
  BY <1>4, FS_EmptySet, FS_CardinalityType
<1>6. OnlineMeansConnected'
  BY <1>4, <1>5 DEF HandlerEnds, OnlineMeansConnected
<1>7. NoOrphanSender'
  BY <1>1, <1>2 DEF NoOrphanSender
<1>8. UnusedIsClosed'
  BY <1>1 DEF UnusedIsClosed, Open
<1> QED
  BY <1>6, <1>7, <1>8

LEMMA InitInv == Init => Inv
<1> SUFFICES ASSUME Init PROVE Inv
  OBVIOUS
<1>1. \A c \in Connections : conn[c].handler = "none" /\ conn[c].sender = "none"
  BY DEF Init, RegistryInit, NoConnection
<1>2. Open = {}
  BY <1>1 DEF Open
<1>3. OnlineMeansConnected
  BY <1>2, FS_EmptySet DEF Init, RegistryInit, OnlineMeansConnected
<1> QED
  BY <1>1, <1>3, InitTypes DEF Inv, NoOrphanSender, UnusedIsClosed

LEMMA RegistryInv ==
  ASSUME Inv, RegistryStep, UNCHANGED faults
  PROVE  Inv'
<1> USE DEF Inv, Types
<1>1. CASE \E command \in Asked : RequestCommand(command)
  <2>1. QueueTypes'
    BY <1>1, RequestTypes
  <2>2. UNCHANGED <<conn, online, count, clientVars>>
    BY <1>1 DEF RequestCommand
  <2> QED
    BY <2>1, <2>2, SameHandlers DEF ConnTypes, ClientTypes, clientVars
<1>2. CASE PutGoesOn
  <2>1. QueueTypes'
    BY <1>2, PutTypes
  <2>2. UNCHANGED <<conn, online, count, clientVars>>
    BY <1>2 DEF PutGoesOn
  <2> QED
    BY <2>1, <2>2, SameHandlers DEF ConnTypes, ClientTypes, clientVars
<1>3. ASSUME NEW c \in Connections,
             ReceiveStatus(c) \/ ReceiveReport(c) \/ HandlerEnds(c)
      PROVE  Inv'
  <2>1. c \in Open
    BY <1>3 DEF ReceiveStatus, ReceiveReport, HandlerEnds, Readable, Open
  <2>2. count # 0
    BY <2>1, OpenIsFinite, FS_EmptySet DEF OnlineMeansConnected
  <2>3. QueueTypes' /\ ConnTypes'
    BY <1>3, <2>2, HandlerCounts, ReceiveTypes
  <2>4. UNCHANGED clientVars
    BY <1>3 DEF ReceiveStatus, ReceiveReport, HandlerEnds
  <2>5. ClientTypes'
    BY <2>4 DEF ClientTypes, clientVars
  <2>6. CASE ReceiveStatus(c) \/ ReceiveReport(c)
    <3>1. /\ UNCHANGED count
          /\ online' = online \/ (online' = TRUE /\ Open # {})
      BY <2>1, <2>6 DEF ReceiveStatus, ReceiveReport, registryVars
    <3>2. \A d \in Connections : /\ conn'[d].handler = conn[d].handler
                                 /\ conn'[d].kind = conn[d].kind
      <4> SUFFICES ASSUME NEW d \in Connections
                   PROVE  /\ conn'[d].handler = conn[d].handler
                          /\ conn'[d].kind = conn[d].kind
        OBVIOUS
      <4>1. conn[d] \in ConnectionType
        BY ConnTypesFields
      <4>2. CASE ReceiveStatus(c)
        BY <4>1, <4>2 DEF ReceiveStatus, ConnTypes, ConnectionType
      <4>3. CASE ReceiveReport(c)
        BY <4>1, <4>3 DEF ReceiveReport, ConnTypes, ConnectionType
      <4> QED
        BY <2>6, <4>2, <4>3
    <3>3. \A d \in Connections : conn'[d].sender \in {"get", "send"} =>
            conn[d].sender \in {"get", "send"} \/ conn[d].handler = "open"
      BY <2>1, <2>6 DEF ReceiveStatus, ReceiveReport, ConnTypes,
        ConnectionType, Open
    <3> QED
      BY <2>3, <2>5, <3>1, <3>2, <3>3, SameHandlers
  <2>7. CASE HandlerEnds(c)
    BY <2>3, <2>5, <2>7, HandlerCloses
  <2> QED
    BY <1>3, <2>6, <2>7
<1>4. ASSUME NEW c \in Connections, TakeCommand(c) \/ SendCommand(c)
      PROVE  Inv'
  <2>1. QueueTypes' /\ ConnTypes'
    BY <1>4, SenderTypes
  <2>2. ClientTypes' /\ UNCHANGED <<count, online>>
    BY <1>4 DEF TakeCommand, SendCommand, ClientTypes, clientVars, registryVars
  <2>3. \A d \in Connections : /\ conn'[d].handler = conn[d].handler
                               /\ conn'[d].kind = conn[d].kind
    <3> SUFFICES ASSUME NEW d \in Connections
                 PROVE  /\ conn'[d].handler = conn[d].handler
                        /\ conn'[d].kind = conn[d].kind
      OBVIOUS
    <3>1. conn[d] \in ConnectionType
      BY ConnTypesFields
    <3>2. CASE TakeCommand(c)
      BY <3>1, <3>2 DEF TakeCommand, ConnTypes, ConnectionType
    <3>3. CASE SendCommand(c)
      <4>1. CASE d = c
        BY <3>1, <3>3, <4>1 DEF SendCommand, ConnTypes, ConnectionType
      <4>2. CASE d # c
        <5>1. conn'[d] = conn[d]
          BY <3>3, <4>2 DEF SendCommand, ConnTypes
        <5> QED
          BY <5>1
      <4> QED
        BY <4>1, <4>2
    <3> QED
      BY <1>4, <3>2, <3>3
  <2>4. \A d \in Connections : conn'[d].sender \in {"get", "send"} =>
          conn[d].sender \in {"get", "send"}
    BY <1>4 DEF TakeCommand, SendCommand, ConnTypes, ConnectionType
  <2> QED
    BY <2>1, <2>2, <2>3, <2>4, SameHandlers
<1> QED
  BY <1>1, <1>2, <1>3, <1>4 DEF RegistryStep

\* A step that leaves the registry alone and every connection its handler
\* and its sender.
LEMMA QuietInv ==
  ASSUME Inv, UNCHANGED <<registryVars, requestVars>>,
         ConnTypes', ClientTypes', faults' \in 0..MaxFaults,
         \A c \in Connections : /\ conn'[c].handler = conn[c].handler
                                /\ conn'[c].kind = conn[c].kind
                                /\ conn'[c].sender = conn[c].sender
  PROVE  Inv'
<1>1. QueueTypes'
  BY DEF Inv, Types, QueueTypes, registryVars, requestVars
<1>2. UNCHANGED <<count, online>>
  BY DEF registryVars
<1>3. UnusedIsClosed' /\ OnlineMeansConnected' /\ NoOrphanSender'
  BY <1>2, SameHandlers DEF Inv
<1> QED
  BY <1>1, <1>3 DEF Inv, Types

\* conn changes at one connection, in its link and what is under way.
SameEnds(c) ==
  /\ conn' \in [Connections -> ConnectionType]
  /\ \A d \in Connections \ {c} : conn'[d] = conn[d]
  /\ conn'[c].handler = conn[c].handler
  /\ conn'[c].kind = conn[c].kind
  /\ conn'[c].sender = conn[c].sender

LEMMA SameEndsQuiet ==
  ASSUME NEW c \in Connections, SameEnds(c)
  PROVE  \A d \in Connections : /\ conn'[d].handler = conn[d].handler
                                /\ conn'[d].kind = conn[d].kind
                                /\ conn'[d].sender = conn[d].sender
  BY DEF SameEnds

LEMMA HangupEnds ==
  ASSUME ConnTypes, NEW c \in Connections, Hangup(c)
  PROVE  SameEnds(c)
<1>1. conn[c] \in ConnectionType
  BY ConnTypesFields
<1>2. ConnTypes'
  BY HangupTypes
<1> QED
  BY <1>1, <1>2 DEF Hangup, SameEnds, ConnTypes, ConnectionType

LEMMA ReportEnds ==
  ASSUME ConnTypes, NEW c \in Connections, NEW frame \in Frames,
         conn' = [conn EXCEPT ![c].toServer = Append(@, frame)]
  PROVE  SameEnds(c)
<1>1. conn[c] \in ConnectionType
  BY ConnTypesFields
<1>2. ConnTypes'
  BY ReportTypes
<1> QED
  BY <1>1, <1>2 DEF SameEnds, ConnTypes, ConnectionType

LEMMA ClientTaskInv ==
  ASSUME Inv, ClientTask \/ SendStatus, UNCHANGED faults
  PROVE  Inv'
<1>1. ConnTypes /\ ClientTypes /\ faults \in 0..MaxFaults
  BY DEF Inv, Types
<1>2. CASE Wake \/ ConnectionClosed
  <2>1. ClientTypes' /\ UNCHANGED <<conn, registryVars, requestVars>>
    BY <1>1, <1>2, WaitTypes DEF Wake, ConnectionClosed
  <2> QED
    BY <1>1, <2>1, QuietInv DEF ConnTypes
<1>3. CASE SendStatus
  <2>1. at \in Connections
    BY <1>1, <1>3 DEF SendStatus, ClientTypes
  <2>2. Status \in Frames
    BY DEF Status, Frames
  <2>3. ConnTypes' /\ SameEnds(at)
    BY <1>1, <1>3, <2>1, <2>2, ReportTypes, ReportEnds DEF SendStatus
  <2>4. ClientTypes' /\ UNCHANGED <<registryVars, requestVars>>
    BY <1>1, <1>3 DEF SendStatus, ClientTypes, clientVars
  <2> QED
    BY <1>1, <2>1, <2>3, <2>4, SameEndsQuiet, QuietInv
<1>4. CASE ReadRequest
  <2>1. at \in Connections /\ conn[at] \in ConnectionType
    BY <1>1, <1>4, ConnTypesFields DEF ReadRequest, ClientTypes
  <2>2. ConnTypes' /\ ClientTypes'
    BY <1>1, <1>4, ReadRequestTypes
  <2>3. SameEnds(at)
    <3>1. CASE Hangup(at)
      BY <1>1, <2>1, <3>1, HangupEnds
    <3>2. CASE conn' = [conn EXCEPT
                 ![at].toEdge = Tail(@),
                 ![at].toServer = Append(@, Progress(Head(conn[at].toEdge)))]
      BY <1>1, <2>1, <2>2, <3>2 DEF SameEnds, ConnTypes, ConnectionType
    <3> QED
      BY <1>4, <3>1, <3>2 DEF ReadRequest
  <2>4. UNCHANGED <<registryVars, requestVars>>
    BY <1>4 DEF ReadRequest
  <2> QED
    BY <1>1, <2>1, <2>2, <2>3, <2>4, SameEndsQuiet, QuietInv
<1>5. CASE Reject \/ RunCommand \/ RunRaises \/ Restarted
  <2>1. at \in Connections /\ job \in Requests
    BY <1>1, <1>5 DEF Reject, RunCommand, RunRaises, Restarted, ClientTypes
  <2>2. ConnTypes' /\ ClientTypes'
    BY <1>1, <1>5, CommandTypes
  <2>3. SameEnds(at) /\ UNCHANGED <<registryVars, requestVars>>
    <3>1. Hangup(at) \/ conn' = [conn EXCEPT ![at].toServer = Append(@, Result(job))]
      BY <1>5 DEF Reject, RunCommand, RunRaises, Restarted, SendResult
    <3>2. SameEnds(at)
      <4>1. CASE Hangup(at)
        BY <1>1, <2>1, <4>1, HangupEnds
      <4>2. CASE conn' = [conn EXCEPT ![at].toServer = Append(@, Result(job))]
        <5>1. Result(job) \in Frames
          BY <2>1 DEF Result, Frames
        <5> QED
          BY <1>1, <2>1, <4>2, <5>1, ReportEnds
      <4> QED
        BY <3>1, <4>1, <4>2
    <3> QED
      BY <1>5, <3>2 DEF Reject, RunCommand, RunRaises, Restarted
  <2> QED
    BY <1>1, <2>1, <2>2, <2>3, SameEndsQuiet, QuietInv
<1> QED
  BY <1>2, <1>3, <1>4, <1>5 DEF ClientTask

LEMMA AcceptInv ==
  ASSUME Inv, NEW c \in Connections, NEW kind \in {"management", "voice"},
         Accept(c, kind), ClientTypes', UNCHANGED faults
  PROVE  Inv'
<1>1. QueueTypes' /\ ConnTypes'
  BY AcceptCounts, AcceptTypes DEF Inv, Types
<1>2. UnusedIsClosed' /\ OnlineMeansConnected' /\ NoOrphanSender'
  BY AcceptOpens DEF Inv, Types
<1> QED
  BY <1>1, <1>2 DEF Inv, Types

LEMMA LinkInv ==
  ASSUME Inv, NEW c \in Connections, VoiceCloses(c) \/ LinkBreaks(c)
  PROVE  Inv'
<1>1. ConnTypes /\ conn[c] \in ConnectionType /\ conn[c].toEdge \in Seq(Requests)
  BY ConnTypesFields DEF Inv, Types
<1>2. faults' \in 0..MaxFaults
  BY DEF Inv, Types, VoiceCloses, LinkBreaks
<1>3. ClientTypes' /\ UNCHANGED <<registryVars, requestVars>>
  BY DEF Inv, Types, VoiceCloses, LinkBreaks, ClientTypes, clientVars
<1>4. CASE VoiceCloses(c)
  <2> DEFINE r == [conn[c] EXCEPT !.link = "down"]
  <2>1. /\ r \in ConnectionType /\ r.sender = conn[c].sender
        /\ r.held = conn[c].held /\ r.kind = conn[c].kind
        /\ r.handler = conn[c].handler
    BY <1>1 DEF ConnectionType
  <2>2. conn' = [conn EXCEPT ![c] = r]
    BY <1>1, <1>4 DEF VoiceCloses, ConnTypes
  <2>3. r.sender = "send" => r.held \in Requests
    BY <1>1, <2>1 DEF ConnTypes
  <2> HIDE DEF r
  <2>4. ConnTypes'
    BY <1>1, <2>1, <2>2, <2>3, ConnUpdate
  <2>5. SameEnds(c)
    BY <1>1, <2>1, <2>2, <2>4 DEF SameEnds, ConnTypes
  <2> QED
    BY <1>2, <1>3, <2>4, <2>5, SameEndsQuiet, QuietInv
<1>5. CASE LinkBreaks(c)
  <2>1. PICK received \in {conn[c].toEdge, <<>>} :
          conn' = [conn EXCEPT ![c].link = "down", ![c].toEdge = received]
    BY <1>5 DEF LinkBreaks
  <2>2. received \in Seq(Requests)
    <3>1. <<>> \in Seq(Requests)
      OBVIOUS
    <3> QED
      BY <1>1, <3>1, Zenon
  <2>3. ConnTypes'
    BY <1>1, <2>1, <2>2, LinkTypes
  <2>4. SameEnds(c)
    BY <1>1, <2>1, <2>3 DEF SameEnds, ConnTypes, ConnectionType
  <2> QED
    BY <1>2, <1>3, <2>3, <2>4, SameEndsQuiet, QuietInv
<1> QED
  BY <1>4, <1>5

LEMMA NextInv ==
  ASSUME Inv, [Next]_allVars
  PROVE  Inv'
<1>1. CASE RegistryStep /\ UNCHANGED faults
  BY <1>1, RegistryInv
<1>2. CASE (ClientTask \/ SendStatus) /\ UNCHANGED faults
  BY <1>2, ClientTaskInv
<1>3. CASE Connected /\ UNCHANGED faults
  <2>1. PICK c \in Connections : Accept(c, "management")
    BY <1>3 DEF Connected
  <2>2. ClientTypes'
    BY <1>3, ConnectedTypes DEF Inv, Types
  <2> QED
    BY <1>3, <2>1, <2>2, AcceptInv
<1>4. CASE NoConnect
  <2>1. ClientTypes' /\ faults' \in 0..MaxFaults
    BY <1>4, WaitTypes DEF NoConnect, Inv, Types
  <2>2. UNCHANGED <<conn, registryVars, requestVars>>
    BY <1>4 DEF NoConnect, ConnectFails
  <2>3. ConnTypes'
    BY <2>2 DEF Inv, Types, ConnTypes
  <2> QED
    BY <2>1, <2>2, <2>3, QuietInv
<1>5. ASSUME NEW c \in Connections, VoiceOpens(c)
      PROVE  Inv'
  <2>1. ClientTypes'
    BY <1>5 DEF VoiceOpens, Inv, Types, ClientTypes, clientVars
  <2> QED
    BY <1>5, <2>1, AcceptInv DEF VoiceOpens
<1>6. ASSUME NEW c \in Connections, VoiceCloses(c) \/ LinkBreaks(c)
      PROVE  Inv'
  BY <1>6, LinkInv
<1>7. CASE UNCHANGED allVars
  <2>1. ConnTypes' /\ ClientTypes' /\ faults' \in 0..MaxFaults
    BY <1>7 DEF Inv, Types, ConnTypes, ClientTypes, allVars, vars, clientVars
  <2>2. UNCHANGED <<conn, registryVars, requestVars>>
    BY <1>7 DEF allVars, vars
  <2> QED
    BY <2>1, <2>2, QuietInv
<1> QED
  BY <1>1, <1>2, <1>3, <1>4, <1>5, <1>6, <1>7 DEF Next

LEMMA InvHolds == Spec => []Inv
<1>1. Init => Inv
  BY InitInv
<1>2. Inv /\ [Next]_allVars => Inv'
  BY NextInv
<1> QED
  BY <1>1, <1>2, PTL DEF Spec

-----------------------------------------------------------------------------

\* The registry, the connections and the client keep their types and the
\* queue its bound, for any number of requests, connections and faults.
THEOREM TypeCorrect == Spec => []TypeOK
<1>1. Inv => TypeOK
  <2> SUFFICES ASSUME Inv PROVE TypeOK
    OBVIOUS
  <2>1. Cardinality(Connections) = MaxConnections /\ IsFiniteSet(Connections)
    BY FS_Interval DEF Connections
  <2>2. Cardinality(Open) <= MaxConnections /\ Cardinality(Open) \in Nat
    BY <2>1, OpenIsFinite, FS_Subset, FS_CardinalityType
  <2>3. count \in 0..MaxConnections
    BY <2>2 DEF Inv, OnlineMeansConnected
  <2> QED
    BY <2>3 DEF Inv, Types, QueueTypes, ConnTypes, ClientTypes, TypeOK
<1> QED
  BY <1>1, InvHolds, PTL

\* A device is shown online exactly while a handler serves one of its
\* connections, however many come and go.
THEOREM OnlineIsConnected == Spec => []OnlineMeansConnected
<1>1. Inv => OnlineMeansConnected
  BY DEF Inv
<1> QED
  BY <1>1, InvHolds, PTL

\* No task takes commands for a connection that has ended.
THEOREM SendersAreServed == Spec => []NoOrphanSender
<1>1. Inv => NoOrphanSender
  BY DEF Inv
<1> QED
  BY <1>1, InvHolds, PTL

-----------------------------------------------------------------------------
(***************************************************************************)
(* Order and loss.  Only what travels to the connection the client serves  *)
(* can still be run, so one line of requests is enough: those that ran,    *)
(* the one that runs, those under way to the client, the one its sender    *)
(* holds.  The line only holds requests that left the queue, in the order  *)
(* in which they were accepted; all steps shorten it or move a request     *)
(* along, except a sender's that takes the head of the queue.              *)
(***************************************************************************)

Gone == Len(accepted) - Len(queue)

\* Accepted, and out of the queue.
Taken(r) == \E k \in 1..Gone : accepted[k] = r

Has(seq, x) == \E i \in 1..Len(seq) : seq[i] = x
InOrder(seq, x, y) ==
  \E i, j \in 1..Len(seq) : i < j /\ seq[i] = x /\ seq[j] = y

Before(r, s) == InOrder(accepted, r, s)

Distinct(seq) == \A i, j \in 1..Len(seq) : seq[i] = seq[j] => i = j

\* The queue is what was accepted and is left.
QueueIsRest ==
  /\ Len(queue) <= Len(accepted)
  /\ \A i \in 1..Len(queue) : queue[i] = accepted[Gone + i]

\* A request enters the queue once, by itself or after it had to wait.
EachOnce ==
  /\ Distinct(accepted) /\ Distinct(blocked)
  /\ \A i \in 1..Len(accepted) : accepted[i] <= Len(asked)
  /\ \A i \in 1..Len(blocked) : blocked[i] <= Len(asked)
  /\ \A i \in 1..Len(accepted), j \in 1..Len(blocked) : accepted[i] # blocked[j]

Serving == client \in {"serve", "run"}
Ran(r) == Has(ran, r)
Running(r) == client = "run" /\ job = r
Coming(r) == Serving /\ Has(conn[at].toEdge, r)
Sending(r) == Serving /\ conn[at].sender = "send" /\ conn[at].held = r

InLine(r) == Ran(r) \/ Running(r) \/ Coming(r) \/ Sending(r)

Precedes(r, s) ==
  \/ InOrder(ran, r, s)
  \/ Ran(r) /\ (Running(s) \/ Coming(s) \/ Sending(s))
  \/ Running(r) /\ (Coming(s) \/ Sending(s))
  \/ Serving /\ InOrder(conn[at].toEdge, r, s)
  \/ Coming(r) /\ Sending(s)

LineIsTaken == \A r \in Requests : InLine(r) => Taken(r)
LineInOrder == \A r, s \in Requests : Precedes(r, s) => Before(r, s)

\* No hand holds two requests at once.
HandsAreFree ==
  /\ \A c \in Connections : conn[c].sender # "send" => conn[c].held = 0
  /\ client # "run" => job = 0

\* A connection that carried a request is not opened again.
CarriersAreUsed ==
  \A r \in Requests : carrier[r] # 0 => conn[carrier[r]].kind # "unused"

Accounted(r) ==
  /\ carrier[r] # 0
  /\ Carried(r, carrier[r]) \/ Handled(r) \/ conn[carrier[r]].link = "down"

TakenIsAccounted == \A r \in Requests : Taken(r) => Accounted(r)

QueueOrder == QueueIsRest /\ EachOnce
LineOrder == LineIsTaken /\ LineInOrder
NoLoss == HandsAreFree /\ CarriersAreUsed /\ TakenIsAccounted

OrderInv == QueueOrder /\ LineOrder /\ NoLoss

\* Requests are only added to the accepted ones, and none returns to the queue.
Grows ==
  /\ Len(accepted) <= Len(accepted)'
  /\ \A i \in 1..Len(accepted) : accepted'[i] = accepted[i]
  /\ Gone <= Gone'

LEMMA AppendAt ==
  ASSUME NEW S, NEW s \in Seq(S), NEW e \in S
  PROVE  /\ Append(s, e) \in Seq(S)
         /\ Len(Append(s, e)) = Len(s) + 1 /\ Len(s) \in Nat
         /\ \A i \in 1..Len(s) : Append(s, e)[i] = s[i]
         /\ Append(s, e)[Len(s) + 1] = e
  OBVIOUS

LEMMA TailAt ==
  ASSUME NEW S, NEW s \in Seq(S), s # <<>>
  PROVE  /\ Tail(s) \in Seq(S) /\ Len(s) \in Nat /\ Len(s) > 0
         /\ Len(Tail(s)) = Len(s) - 1
         /\ \A i \in 1..Len(Tail(s)) : Tail(s)[i] = s[i + 1]
         /\ Head(s) = s[1] /\ Head(s) \in S
  OBVIOUS

LEMMA AppendDistinct ==
  ASSUME NEW S, NEW s \in Seq(S), NEW e \in S, Distinct(s),
         \A i \in 1..Len(s) : s[i] # e
  PROVE  Distinct(Append(s, e))
<1>1. \A i \in 1..Len(Append(s, e)) : i \in 1..Len(s) \/ i = Len(s) + 1
  BY AppendAt
<1> QED
  BY <1>1, AppendAt DEF Distinct

LEMMA GrowsKeeps ==
  ASSUME QueueTypes, QueueTypes', Grows, NEW r, NEW s
  PROVE  (Taken(r) => Taken(r)') /\ (Before(r, s) => Before(r, s)')
<1>1. /\ Len(accepted) \in Nat /\ Len(queue) \in Nat
      /\ Len(accepted)' \in Nat /\ Len(queue)' \in Nat
  BY DEF QueueTypes
<1>2. ASSUME Taken(r) PROVE Taken(r)'
  <2>1. PICK k \in 1..Gone : accepted[k] = r
    BY <1>2 DEF Taken
  <2>2. k \in 1..Len(accepted) /\ k \in 1..Gone'
    BY <1>1, <2>1 DEF Gone, Grows
  <2> QED
    BY <2>1, <2>2 DEF Taken, Grows
<1>3. ASSUME Before(r, s) PROVE Before(r, s)'
  <2>1. PICK i \in 1..Len(accepted), j \in 1..Len(accepted) :
          i < j /\ accepted[i] = r /\ accepted[j] = s
    BY <1>3 DEF Before, InOrder
  <2>2. /\ i \in 1..Len(accepted') /\ j \in 1..Len(accepted')
        /\ accepted'[i] = r /\ accepted'[j] = s
    BY <1>1, <2>1 DEF Grows
  <2> QED
    BY <2>1, <2>2 DEF Before, InOrder
<1> QED
  BY <1>2, <1>3

\* A request enters the queue at its end.
LEMMA EnterOrder ==
  ASSUME QueueTypes, QueueIsRest, NEW r \in Requests,
         queue' = Append(queue, r), accepted' = Append(accepted, r)
  PROVE  QueueIsRest' /\ Grows /\ Gone' = Gone
<1>1. queue \in Seq(Requests) /\ accepted \in Seq(Requests)
  BY DEF QueueTypes
<1>2. /\ Len(queue') = Len(queue) + 1 /\ Len(queue) \in Nat
      /\ \A i \in 1..Len(queue) : queue'[i] = queue[i]
      /\ queue'[Len(queue) + 1] = r
  BY <1>1, AppendAt
<1>3. /\ Len(accepted') = Len(accepted) + 1 /\ Len(accepted) \in Nat
      /\ \A i \in 1..Len(accepted) : accepted'[i] = accepted[i]
      /\ accepted'[Len(accepted) + 1] = r
  BY <1>1, AppendAt
<1>4. Gone' = Gone
  BY <1>2, <1>3 DEF Gone
<1>5. Grows
  BY <1>3, <1>4 DEF Grows, Gone
<1>6. ASSUME NEW i \in 1..Len(queue')
      PROVE  queue'[i] = accepted'[Gone' + i]
  <2>1. CASE i \in 1..Len(queue)
    <3>1. Gone + i \in 1..Len(accepted)
      BY <1>2, <1>3, <2>1 DEF Gone, QueueIsRest
    <3> QED
      BY <1>2, <1>3, <1>4, <2>1, <3>1 DEF QueueIsRest
  <2>2. CASE i = Len(queue) + 1
    <3>1. Gone' + i = Len(accepted) + 1
      BY <1>2, <1>3, <1>4, <2>2 DEF Gone
    <3> QED
      BY <1>2, <1>3, <2>2, <3>1
  <2>3. i \in 1..(Len(queue) + 1)
    BY <1>2
  <2>4. i \in 1..Len(queue) \/ i = Len(queue) + 1
    BY <1>2, <2>3
  <2> QED
    BY <2>1, <2>2, <2>4
<1>7. Len(queue') <= Len(accepted')
  BY <1>2, <1>3 DEF QueueIsRest
<1>8. QueueIsRest'
  BY <1>6, <1>7, Zenon DEF QueueIsRest
<1> QED
  BY <1>4, <1>5, <1>8

LEMMA RequestOrder ==
  ASSUME QueueTypes, QueueOrder, NEW command \in Asked, RequestCommand(command)
  PROVE  QueueOrder' /\ Grows /\ Gone' = Gone
<1> DEFINE r == Len(asked) + 1
<1>1. /\ queue \in Seq(Requests) /\ accepted \in Seq(Requests)
      /\ blocked \in Seq(Requests) /\ asked \in Seq(Asked)
  BY DEF QueueTypes
<1>2. /\ Len(asked') = r /\ Len(asked) \in Nat /\ r \in Requests
  BY <1>1, AppendAt DEF RequestCommand
<1>3. /\ \A i \in 1..Len(accepted) : accepted[i] <= Len(asked) /\ accepted[i] \in Nat
      /\ \A i \in 1..Len(blocked) : blocked[i] <= Len(asked) /\ blocked[i] \in Nat
  BY <1>1 DEF QueueOrder, EachOnce, Requests
<1>4. /\ \A i \in 1..Len(accepted) : accepted[i] # r /\ accepted[i] <= r
      /\ \A i \in 1..Len(blocked) : blocked[i] # r /\ blocked[i] <= r
  BY <1>2, <1>3
<1>5. CASE queue' = Append(queue, r) /\ accepted' = Append(accepted, r)
           /\ blocked' = blocked
  <2>1. QueueIsRest' /\ Grows /\ Gone' = Gone
    BY <1>2, <1>5, EnterOrder DEF QueueOrder
  <2>2. Distinct(accepted')
    BY <1>1, <1>2, <1>4, <1>5, AppendDistinct DEF QueueOrder, EachOnce
  <2>3. \A i \in 1..Len(accepted') :
          \/ i \in 1..Len(accepted) /\ accepted'[i] = accepted[i]
          \/ accepted'[i] = r
    BY <1>1, <1>2, <1>5, AppendAt
  <2>4. EachOnce'
    BY <1>2, <1>4, <1>5, <2>2, <2>3 DEF QueueOrder, EachOnce
  <2> QED
    BY <2>1, <2>4 DEF QueueOrder
<1>6. CASE blocked' = Append(blocked, r) /\ UNCHANGED <<queue, accepted>>
  <2>1. Distinct(blocked')
    BY <1>1, <1>2, <1>4, <1>6, AppendDistinct DEF QueueOrder, EachOnce
  <2>2. \A i \in 1..Len(blocked') :
          \/ i \in 1..Len(blocked) /\ blocked'[i] = blocked[i]
          \/ blocked'[i] = r
    BY <1>1, <1>2, <1>6, AppendAt
  <2>3. EachOnce'
    BY <1>2, <1>4, <1>6, <2>1, <2>2 DEF QueueOrder, EachOnce
  <2>4. QueueIsRest' /\ Grows /\ Gone' = Gone
    BY <1>1, <1>6 DEF QueueOrder, QueueIsRest, Grows, Gone
  <2> QED
    BY <2>3, <2>4 DEF QueueOrder
<1>7. CASE UNCHANGED <<queue, blocked, accepted>>
  <2>1. EachOnce'
    BY <1>2, <1>4, <1>7 DEF QueueOrder, EachOnce
  <2>2. QueueIsRest' /\ Grows /\ Gone' = Gone
    BY <1>1, <1>7 DEF QueueOrder, QueueIsRest, Grows, Gone
  <2> QED
    BY <2>1, <2>2 DEF QueueOrder
<1> QED
  BY <1>5, <1>6, <1>7 DEF RequestCommand, Enqueue

LEMMA PutOrder ==
  ASSUME QueueTypes, QueueOrder, PutGoesOn
  PROVE  QueueOrder' /\ Grows /\ Gone' = Gone
<1> DEFINE r == Head(blocked)
<1>1. /\ queue \in Seq(Requests) /\ accepted \in Seq(Requests)
      /\ blocked \in Seq(Requests) /\ blocked # <<>>
  BY DEF QueueTypes, PutGoesOn
<1>2. /\ Tail(blocked) \in Seq(Requests) /\ Len(blocked) \in Nat
      /\ Len(blocked) > 0 /\ Len(Tail(blocked)) = Len(blocked) - 1
      /\ \A i \in 1..Len(Tail(blocked)) : Tail(blocked)[i] = blocked[i + 1]
      /\ r = blocked[1] /\ r \in Requests
  BY <1>1, TailAt
<1>3. /\ queue' = Append(queue, r) /\ accepted' = Append(accepted, r)
      /\ blocked' = Tail(blocked) /\ asked' = asked
  BY DEF PutGoesOn
<1>4. QueueIsRest' /\ Grows /\ Gone' = Gone
  BY <1>2, <1>3, EnterOrder DEF QueueOrder
<1>5. 1 \in 1..Len(blocked) /\ \A i \in 1..Len(accepted) : accepted[i] # r
  BY <1>2 DEF QueueOrder, EachOnce
<1>6. Distinct(accepted')
  BY <1>1, <1>2, <1>3, <1>5, AppendDistinct DEF QueueOrder, EachOnce
<1>7. \A i \in 1..Len(accepted') :
        \/ i \in 1..Len(accepted) /\ accepted'[i] = accepted[i]
        \/ accepted'[i] = r
  BY <1>1, <1>2, <1>3, AppendAt
<1>8. \A i \in 1..Len(blocked') :
        /\ i \in Nat /\ i + 1 \in 1..Len(blocked) /\ i + 1 # 1
        /\ blocked'[i] = blocked[i + 1]
  BY <1>2, <1>3
<1>9. Distinct(blocked')
  <2> SUFFICES ASSUME NEW i \in 1..Len(blocked'), NEW j \in 1..Len(blocked'),
                      blocked'[i] = blocked'[j]
               PROVE  i = j
    BY DEF Distinct
  <2>1. blocked[i + 1] = blocked[j + 1]
    BY <1>8
  <2>2. i + 1 = j + 1
    BY <1>8, <2>1 DEF QueueOrder, EachOnce, Distinct
  <2> QED
    BY <2>2
<1>10. \A i \in 1..Len(blocked') : blocked'[i] # r
  BY <1>2, <1>5, <1>8 DEF QueueOrder, EachOnce, Distinct
<1>11. EachOnce'
  BY <1>3, <1>5, <1>6, <1>7, <1>8, <1>9, <1>10, <1>2 DEF QueueOrder, EachOnce
<1> QED
  BY <1>4, <1>11 DEF QueueOrder

LEMMA TakeOrder ==
  ASSUME QueueTypes, QueueOrder, NEW c \in Connections, TakeCommand(c)
  PROVE  /\ QueueOrder' /\ Grows
         /\ Gone' = Gone + 1 /\ Gone + 1 \in 1..Len(accepted) /\ Gone \in Nat
         /\ accepted' = accepted /\ accepted[Gone + 1] = Head(queue)
<1>1. /\ queue \in Seq(Requests) /\ accepted \in Seq(Requests) /\ queue # <<>>
      /\ queue' = Tail(queue) /\ UNCHANGED <<accepted, blocked, asked>>
  BY DEF QueueTypes, TakeCommand
<1>2. /\ Len(queue) \in Nat /\ Len(queue) > 0
      /\ Len(queue') = Len(queue) - 1
      /\ \A i \in 1..Len(queue') : queue'[i] = queue[i + 1]
      /\ Head(queue) = queue[1]
  BY <1>1, TailAt
<1>3. Len(accepted) \in Nat /\ Len(queue) <= Len(accepted)
  BY <1>1 DEF QueueOrder, QueueIsRest
<1>4. Gone' = Gone + 1 /\ Gone + 1 \in 1..Len(accepted) /\ Gone \in Nat
  BY <1>1, <1>2, <1>3 DEF Gone
<1>5. Grows
  BY <1>1, <1>3, <1>4 DEF Grows
<1>6. accepted[Gone + 1] = Head(queue)
  BY <1>2 DEF QueueOrder, QueueIsRest
<1>7. ASSUME NEW i \in 1..Len(queue')
      PROVE  queue'[i] = accepted'[Gone' + i]
  <2>1. i + 1 \in 1..Len(queue) /\ queue'[i] = queue[i + 1]
    BY <1>2
  <2>2. queue[i + 1] = accepted[Gone + (i + 1)]
    BY <2>1 DEF QueueOrder, QueueIsRest
  <2>3. Gone + (i + 1) = Gone' + i
    BY <1>4
  <2> QED
    BY <1>1, <2>1, <2>2, <2>3
<1>8. QueueIsRest'
  BY <1>1, <1>2, <1>3, <1>7 DEF QueueIsRest
<1>9. EachOnce'
  BY <1>1 DEF QueueOrder, EachOnce
<1> QED
  BY <1>1, <1>4, <1>5, <1>6, <1>8, <1>9 DEF QueueOrder

-----------------------------------------------------------------------------
\* A step on which the line only shrinks, or moves along.
Shrinks ==
  /\ \A r \in Requests : InLine(r)' => InLine(r)
  /\ \A r, s \in Requests : Precedes(r, s)' => Precedes(r, s)

\* A step that keeps track of what a connection carries.
Follows ==
  /\ \A c \in Connections :
       conn[c].kind # "unused" =>
         /\ conn'[c].kind # "unused"
         /\ conn[c].link = "down" => conn'[c].link = "down"
         /\ \A r \in Requests :
              Carried(r, c) =>
                Carried(r, c)' \/ Handled(r)' \/ conn'[c].link = "down"
  /\ \A r \in Requests : Handled(r) => Handled(r)'

LEMMA LineKept ==
  ASSUME QueueTypes, QueueTypes', Grows, LineOrder, Shrinks
  PROVE  LineOrder'
<1>1. \A r \in Requests : InLine(r)' => Taken(r)'
  BY GrowsKeeps DEF LineOrder, LineIsTaken, Shrinks
<1>2. \A r, s \in Requests : Precedes(r, s)' => Before(r, s)'
  BY GrowsKeeps DEF LineOrder, LineInOrder, Shrinks
<1> QED
  BY <1>1, <1>2 DEF LineOrder, LineIsTaken, LineInOrder

LEMMA LossKept ==
  ASSUME Inv, NoLoss, Grows, Gone' = Gone, Follows, carrier' = carrier,
         HandsAreFree'
  PROVE  NoLoss'
<1>1. carrier \in [Requests -> 0..MaxConnections]
  BY DEF Inv, Types, QueueTypes
<1>2. \A r \in Requests : carrier[r] # 0 => carrier[r] \in Connections
  BY <1>1 DEF Connections
<1>3. CarriersAreUsed'
  BY <1>2 DEF NoLoss, CarriersAreUsed, Follows
<1>4. \A r \in Requests : Taken(r)' => Taken(r)
  <2>1. /\ queue \in Seq(Requests) /\ accepted \in Seq(Requests)
        /\ Len(queue) \in Nat /\ Len(accepted) \in Nat
    BY DEF Inv, Types, QueueTypes
  <2>2. \A k \in 1..Gone : k \in 1..Len(accepted) /\ accepted'[k] = accepted[k]
    BY <2>1 DEF Grows, Gone
  <2> QED
    BY <2>2 DEF Taken
<1>5. ASSUME NEW r \in Requests, Accounted(r)
      PROVE  Accounted(r)'
  <2>1. /\ carrier[r] \in Connections /\ carrier'[r] = carrier[r] /\ carrier[r] # 0
        /\ conn[carrier[r]].kind # "unused"
    BY <1>2, <1>5 DEF Accounted, NoLoss, CarriersAreUsed
  <2>2. CASE conn[carrier[r]].link = "down"
    BY <2>1, <2>2 DEF Accounted, Follows
  <2>3. CASE Handled(r)
    BY <2>1, <2>3 DEF Accounted, Follows
  <2>4. CASE Carried(r, carrier[r])
    <3> DEFINE c == carrier[r]
    <3>1. Carried(r, c)' \/ Handled(r)' \/ conn'[c].link = "down"
      BY <2>1, <2>4 DEF Follows
    <3>2. Carried(r, c)' => Carried(r, carrier[r])'
      BY <2>1 DEF Carried
    <3> QED
      BY <2>1, <3>1, <3>2 DEF Accounted
  <2> QED
    BY <1>5, <2>2, <2>3, <2>4 DEF Accounted
<1> QED
  BY <1>3, <1>4, <1>5 DEF NoLoss, TakenIsAccounted

LEMMA SameQueueOrder ==
  ASSUME QueueTypes, QueueOrder, UNCHANGED <<registryVars, requestVars>>
  PROVE  QueueOrder' /\ Grows /\ Gone' = Gone /\ carrier' = carrier
<1>1. UNCHANGED <<queue, blocked, asked, accepted, carrier>>
  BY DEF registryVars, requestVars
<1>2. Len(accepted) \in Nat /\ Len(queue) \in Nat
  BY DEF QueueTypes
<1> QED
  BY <1>1, <1>2 DEF QueueOrder, QueueIsRest, EachOnce, Grows, Gone

LEMMA StepOrder ==
  ASSUME Inv, QueueTypes', OrderInv, QueueOrder', Grows, Gone' = Gone,
         Shrinks, Follows, carrier' = carrier, HandsAreFree'
  PROVE  OrderInv'
BY LineKept, LossKept DEF OrderInv, Inv, Types

-----------------------------------------------------------------------------
\* The connections without the client: one of them changes, and brings
\* nothing into the line.
Quiet(c) ==
  /\ \A d \in Connections \ {c} : conn'[d] = conn[d]
  /\ conn'[c].kind = conn[c].kind
  /\ conn'[c].link \in {conn[c].link, "down"}
  /\ conn'[c].toEdge \in {conn[c].toEdge, <<>>}
  /\ conn'[c].sender = "send" =>
       conn[c].sender = "send" /\ conn'[c].held = conn[c].held
  /\ conn'[c].sender # "send" => conn'[c].held = 0
  /\ \/ conn'[c].link = "down"
     \/ conn'[c].toEdge = conn[c].toEdge /\ conn'[c].held = conn[c].held

LEMMA SameLine ==
  ASSUME UNCHANGED <<client, at, job, ran>>,
         Serving =>
           /\ conn'[at].toEdge \in {conn[at].toEdge, <<>>}
           /\ conn'[at].sender = "send" =>
                conn[at].sender = "send" /\ conn'[at].held = conn[at].held
  PROVE  Shrinks
<1>2. Serving =>
        /\ conn'[at].toEdge = conn[at].toEdge \/ Len(conn'[at].toEdge) = 0
        /\ conn'[at].sender = "send" =>
             conn[at].sender = "send" /\ conn'[at].held = conn[at].held
  OBVIOUS
<1>3. \A x : Serving /\ Has(conn'[at].toEdge, x) => Has(conn[at].toEdge, x)
  BY <1>2 DEF Has
<1>4. \A x, y : Serving /\ InOrder(conn'[at].toEdge, x, y)
                => InOrder(conn[at].toEdge, x, y)
  BY <1>2 DEF InOrder
<1>5. \A r : /\ Ran(r)' <=> Ran(r)
             /\ Running(r)' <=> Running(r)
             /\ Coming(r)' => Coming(r)
             /\ Sending(r)' => Sending(r)
  BY <1>2, <1>3 DEF Ran, Running, Coming, Sending, Serving, Has
<1>6. \A r : InLine(r)' => InLine(r)
  BY <1>5 DEF InLine
<1>7. \A r, s : InOrder(ran, r, s)' => InOrder(ran, r, s)
  BY DEF InOrder
<1>8. \A r, s : InOrder(conn[at].toEdge, r, s)' => InOrder(conn'[at].toEdge, r, s)
  BY DEF InOrder
<1>9. \A r, s : Serving' /\ InOrder(conn[at].toEdge, r, s)'
                => Serving /\ InOrder(conn[at].toEdge, r, s)
  BY <1>4, <1>8 DEF Serving
<1>10. \A r, s : Precedes(r, s)' => Precedes(r, s)
  BY <1>5, <1>7, <1>9, Zenon DEF Precedes
<1> QED
  BY <1>6, <1>10 DEF Shrinks

LEMMA QuietLine ==
  ASSUME ClientTypes, NEW c \in Connections, Quiet(c),
         UNCHANGED <<client, at, job, ran>>
  PROVE  Shrinks
<1>1. Serving => at \in Connections
  BY DEF Serving, ClientTypes
<1> QED
  BY <1>1, SameLine DEF Quiet

LEMMA QuietHands ==
  ASSUME HandsAreFree, NEW c \in Connections, Quiet(c),
         client' # "run" => job' = 0
  PROVE  HandsAreFree'
  BY DEF HandsAreFree, Quiet

LEMMA ReceiveQuiet ==
  ASSUME ConnTypes, HandsAreFree, NEW c \in Connections,
         ReceiveStatus(c) \/ ReceiveReport(c) \/ HandlerEnds(c)
  PROVE  Quiet(c)
<1>1. conn[c] \in ConnectionType /\ (conn[c].sender # "send" => conn[c].held = 0)
  BY ConnTypesFields DEF HandsAreFree
<1>2. CASE ReceiveStatus(c)
  BY <1>1, <1>2 DEF ReceiveStatus, ConnTypes, ConnectionType, Quiet
<1>3. CASE ReceiveReport(c)
  BY <1>1, <1>3 DEF ReceiveReport, ConnTypes, ConnectionType, Quiet
<1>4. CASE HandlerEnds(c)
  BY <1>1, <1>4 DEF HandlerEnds, ConnTypes, ConnectionType, Quiet
<1> QED
  BY <1>2, <1>3, <1>4

LEMMA LinkQuiet ==
  ASSUME ConnTypes, HandsAreFree, NEW c \in Connections,
         VoiceCloses(c) \/ LinkBreaks(c) \/ Hangup(c)
  PROVE  Quiet(c) /\ conn'[c].link = "down"
<1>1. conn[c] \in ConnectionType /\ (conn[c].sender # "send" => conn[c].held = 0)
  BY ConnTypesFields DEF HandsAreFree
<1>2. CASE VoiceCloses(c)
  BY <1>1, <1>2 DEF VoiceCloses, ConnTypes, ConnectionType, Quiet
<1>3. CASE LinkBreaks(c)
  BY <1>1, <1>3 DEF LinkBreaks, ConnTypes, ConnectionType, Quiet
<1>4. CASE Hangup(c)
  BY <1>1, <1>4 DEF Hangup, ConnTypes, ConnectionType, Quiet
<1> QED
  BY <1>2, <1>3, <1>4

LEMMA ReportQuiet ==
  ASSUME ConnTypes, HandsAreFree, NEW c \in Connections, NEW frame,
         conn' = [conn EXCEPT ![c].toServer = Append(@, frame)]
  PROVE  Quiet(c)
<1>1. conn[c] \in ConnectionType /\ (conn[c].sender # "send" => conn[c].held = 0)
  BY ConnTypesFields DEF HandsAreFree
<1> QED
  BY <1>1 DEF ConnTypes, ConnectionType, Quiet

-----------------------------------------------------------------------------
\* Requests move along the line.

LEMMA AppendOrder ==
  ASSUME NEW S, NEW s \in Seq(S), NEW e \in S
  PROVE  /\ \A x : Has(Append(s, e), x) => Has(s, x) \/ x = e
         /\ \A x, y : InOrder(Append(s, e), x, y)
                      => InOrder(s, x, y) \/ (Has(s, x) /\ y = e)
         /\ \A x : Has(s, x) => Has(Append(s, e), x)
         /\ Has(Append(s, e), e)
<1> DEFINE t == Append(s, e)
<1>1. /\ Len(s) \in Nat /\ Len(t) = Len(s) + 1
      /\ \A i \in 1..Len(s) : t[i] = s[i]
      /\ t[Len(s) + 1] = e
  BY AppendAt
<1> HIDE DEF t
<1>2. \A i \in 1..Len(t) : i \in 1..Len(s) \/ i = Len(s) + 1
  BY <1>1
<1>3. \A x : Has(t, x) => Has(s, x) \/ x = e
  BY <1>1, <1>2 DEF Has
<1>4. ASSUME NEW x, NEW y, InOrder(t, x, y)
      PROVE  InOrder(s, x, y) \/ (Has(s, x) /\ y = e)
  <2>1. PICK i \in 1..Len(t), j \in 1..Len(t) : i < j /\ t[i] = x /\ t[j] = y
    BY <1>4 DEF InOrder
  <2>2. i \in 1..Len(s)
    BY <1>1, <2>1
  <2>3. CASE j \in 1..Len(s)
    BY <1>1, <2>1, <2>2, <2>3 DEF InOrder
  <2>4. CASE j = Len(s) + 1
    BY <1>1, <2>1, <2>2, <2>4 DEF Has
  <2> QED
    BY <1>2, <2>3, <2>4
<1>5. \A x : Has(s, x) => Has(t, x)
  BY <1>1 DEF Has
<1>6. Has(t, e)
  BY <1>1 DEF Has
<1> QED
  BY <1>3, <1>4, <1>5, <1>6 DEF t

LEMMA TailOrder ==
  ASSUME NEW S, NEW s \in Seq(S), s # <<>>
  PROVE  /\ \A x : Has(Tail(s), x) => Has(s, x)
         /\ \A x, y : InOrder(Tail(s), x, y) => InOrder(s, x, y)
         /\ \A x : Has(Tail(s), x) => InOrder(s, Head(s), x)
         /\ \A x : Has(s, x) => x = Head(s) \/ Has(Tail(s), x)
         /\ Has(s, Head(s))
<1> DEFINE t == Tail(s)
           h == Head(s)
<1>1. /\ Len(s) \in Nat /\ Len(s) > 0 /\ Len(t) = Len(s) - 1
      /\ \A i \in 1..Len(t) : t[i] = s[i + 1]
      /\ h = s[1]
  BY TailAt
<1> HIDE DEF t, h
<1>2. \A i \in 1..Len(t) : i + 1 \in 1..Len(s) /\ 1 < i + 1 /\ t[i] = s[i + 1]
  BY <1>1
<1>3. \A x : Has(t, x) => Has(s, x)
  BY <1>2 DEF Has
<1>4. ASSUME NEW x, NEW y, InOrder(t, x, y)
      PROVE  InOrder(s, x, y)
  <2>1. PICK i \in 1..Len(t), j \in 1..Len(t) : i < j /\ t[i] = x /\ t[j] = y
    BY <1>4 DEF InOrder
  <2>2. i + 1 < j + 1 /\ s[i + 1] = x /\ s[j + 1] = y
    BY <1>2, <2>1
  <2> QED
    BY <1>2, <2>2 DEF InOrder
<1>5. 1 \in 1..Len(s)
  BY <1>1
<1>6. \A x : Has(t, x) => InOrder(s, h, x)
  BY <1>1, <1>2, <1>5 DEF Has, InOrder
<1>7. \A x : Has(s, x) => x = h \/ Has(t, x)
  <2> SUFFICES ASSUME NEW i \in 1..Len(s), i # 1
               PROVE  Has(t, s[i])
    BY <1>1 DEF Has
  <2>1. i - 1 \in 1..Len(t)
    BY <1>1
  <2>2. t[i - 1] = s[i]
    BY <1>2, <2>1
  <2> QED
    BY <2>1, <2>2 DEF Has
<1>8. Has(s, h)
  BY <1>1, <1>5 DEF Has
<1> QED
  BY <1>3, <1>4, <1>6, <1>7, <1>8 DEF t, h

\* What the client's side of a step does to the requests that ran: the one
\* that runs may join them.
RanOn == ran' = ran \/ (client = "run" /\ ran' = Append(ran, job))

LEMMA RanOrder ==
  ASSUME ClientTypes, RanOn
  PROVE  /\ \A r : Ran(r)' => Ran(r) \/ Running(r)
         /\ \A r, s : InOrder(ran', r, s)
                      => InOrder(ran, r, s) \/ (Ran(r) /\ Running(s))
         /\ \A r : Ran(r) => Ran(r)'
<1>1. CASE ran' = ran
  BY <1>1 DEF Ran
<1>2. CASE client = "run" /\ ran' = Append(ran, job)
  <2>1. ran \in Seq(Requests) /\ job \in Requests
    BY <1>2 DEF ClientTypes
  <2>2. /\ \A x : Has(ran', x) => Has(ran, x) \/ x = job
        /\ \A x, y : InOrder(ran', x, y)
                     => InOrder(ran, x, y) \/ (Has(ran, x) /\ y = job)
        /\ \A x : Has(ran, x) => Has(ran', x)
    BY <1>2, <2>1, AppendOrder
  <2>3. \A r : Ran(r)' <=> Has(ran', r)
    BY DEF Ran
  <2> QED
    BY <1>2, <2>2, <2>3 DEF Ran, Running
<1> QED
  BY <1>1, <1>2 DEF RanOn

\* The client stops serving.
LEMMA StopLine ==
  ASSUME ClientTypes, RanOn, client' \in {"sleep", "connect"}
  PROVE  Shrinks
<1>1. \A r : ~Running(r)' /\ ~Coming(r)' /\ ~Sending(r)'
  BY DEF Running, Coming, Sending, Serving
<1>2. \A r : InLine(r)' => InLine(r)
  BY <1>1, RanOrder DEF InLine
<1>3. \A r, s : Precedes(r, s)' => InOrder(ran', r, s)
  BY <1>1 DEF Precedes, Coming, Serving, InOrder
<1>4. \A r, s : Precedes(r, s)' => Precedes(r, s)
  BY <1>3, RanOrder DEF Precedes
<1> QED
  BY <1>2, <1>4 DEF Shrinks

\* The client goes on serving the same connection: what is said of the
\* parts of the line is said of the line.
LEMMA ServeLine ==
  ASSUME ClientTypes, RanOn, Serving, Serving', at' = at,
         \A r : Running(r)' => Coming(r) \/ (Running(r) /\ ran' = ran),
         \A r : Coming(r)' => Coming(r) \/ Sending(r),
         \A r : Sending(r)' => Sending(r),
         \A r, s : Running(r)' /\ Coming(s)' => Precedes(r, s),
         \A r, s : Coming(r)' /\ Sending(s)' => Precedes(r, s),
         \A r, s : InOrder(conn'[at].toEdge, r, s) => Precedes(r, s),
         \A r : Ran(r)' /\ ran' # ran => \A s : ~Running(s)'
  PROVE  Shrinks
<1>1. /\ \A r : Ran(r)' => Ran(r) \/ Running(r)
      /\ \A r, s : InOrder(ran', r, s) => InOrder(ran, r, s) \/ (Ran(r) /\ Running(s))
  BY RanOrder
<1>2. \A r : Ran(r)' /\ ran' = ran => Ran(r)
  BY DEF Ran
<1>3. \A r : InLine(r)' => InLine(r)
  BY <1>1 DEF InLine
<1>4. \A r, s : InOrder(ran, r, s)' => InOrder(ran', r, s)
  BY DEF InOrder
<1>5. \A r, s : InOrder(conn[at].toEdge, r, s)' => InOrder(conn'[at].toEdge, r, s)
  BY DEF InOrder
<1>6. \A r, s : Ran(r)' /\ Running(s)' => Precedes(r, s)
  BY <1>2 DEF Precedes
<1>7. \A r, s : Ran(r)' /\ (Coming(s)' \/ Sending(s)') => Precedes(r, s)
  BY <1>1 DEF Precedes
<1>8. \A r, s : Running(r)' /\ Sending(s)' => Precedes(r, s)
  BY DEF Precedes
<1>9. ASSUME NEW r, NEW s, Precedes(r, s)'
      PROVE  Precedes(r, s)
  <2>1. CASE InOrder(ran, r, s)'
    BY <1>1, <1>4, <2>1 DEF Precedes
  <2>2. CASE Serving' /\ InOrder(conn[at].toEdge, r, s)'
    BY <1>5, <2>2
  <2> QED
    BY <1>6, <1>7, <1>8, <1>9, <2>1, <2>2, Zenon DEF Precedes
<1> QED
  BY <1>3, <1>9 DEF Shrinks

LEMMA HandledOn ==
  ASSUME ClientTypes, RanOn, rejected \subseteq rejected', NEW r
  PROVE  Handled(r) => Handled(r)'
<1>1. Ran(r) => Ran(r)'
  BY RanOrder
<1>2. (\E i \in 1..Len(ran) : ran[i] = r) <=> Ran(r)
  BY DEF Ran, Has
<1>3. (\E i \in 1..Len(ran') : ran'[i] = r) <=> Ran(r)'
  BY DEF Ran, Has
<1> QED
  BY <1>1, <1>2, <1>3 DEF Handled

\* A request that a connection held or had under way is still there, or the
\* connection is gone; one that ran was handled, or the connection is gone.
LEMMA HandsOn ==
  ASSUME ClientTypes, RanOn, rejected \subseteq rejected',
         \A d \in Connections :
           conn[d].kind # "unused" =>
             /\ conn'[d].kind # "unused"
             /\ conn[d].link = "down" => conn'[d].link = "down"
             /\ \A r \in Requests :
                  conn[d].held = r \/ Has(conn[d].toEdge, r) =>
                    \/ conn'[d].held = r \/ Has(conn'[d].toEdge, r)
                    \/ d = at' /\ job' = r
                    \/ conn'[d].link = "down",
         \A r \in Requests :
           job = r => \/ at' = at /\ job' = r
                      \/ Handled(r)' \/ conn'[at].link = "down"
  PROVE  Follows
<1>1. \A r \in Requests : Handled(r) => Handled(r)'
  BY HandledOn
<1>2. \A d, r : Carried(r, d)
        <=> conn[d].held = r \/ Has(conn[d].toEdge, r) \/ (at = d /\ job = r)
  BY DEF Carried, Has
<1>3. \A d, r : Carried(r, d)'
        <=> conn'[d].held = r \/ Has(conn'[d].toEdge, r) \/ (at' = d /\ job' = r)
  BY DEF Carried, Has
<1>4. ASSUME NEW d \in Connections, conn[d].kind # "unused"
      PROVE  /\ conn'[d].kind # "unused"
             /\ conn[d].link = "down" => conn'[d].link = "down"
             /\ \A r \in Requests :
                  Carried(r, d) =>
                    Carried(r, d)' \/ Handled(r)' \/ conn'[d].link = "down"
  BY <1>2, <1>3, <1>4
<1> QED
  BY <1>1, <1>4 DEF Follows

LEMMA QuietFollows ==
  ASSUME ClientTypes, RanOn, rejected \subseteq rejected', at' = at,
         NEW c \in Connections, Quiet(c),
         \A r \in Requests :
           job = r => job' = r \/ Handled(r)' \/ (c = at /\ conn'[c].link = "down")
  PROVE  Follows
<1>1. ASSUME NEW d \in Connections, conn[d].kind # "unused"
      PROVE  /\ conn'[d].kind # "unused"
             /\ conn[d].link = "down" => conn'[d].link = "down"
             /\ \A r \in Requests :
                  conn[d].held = r \/ Has(conn[d].toEdge, r) =>
                    \/ conn'[d].held = r \/ Has(conn'[d].toEdge, r)
                    \/ conn'[d].link = "down"
  <2>1. CASE d = c
    BY <1>1, <2>1 DEF Quiet
  <2>2. CASE d # c
    BY <1>1, <2>2 DEF Quiet
  <2> QED
    BY <2>1, <2>2
<1> QED
  BY <1>1, HandsOn

LEMMA SameFollows ==
  ASSUME ClientTypes, HandsAreFree, client # "run", conn' = conn,
         UNCHANGED <<ran, rejected>>
  PROVE  Follows
<1>1. \A r \in Requests : job # r
  BY DEF HandsAreFree, Requests
<1> QED
  BY <1>1, HandsOn DEF RanOn

-----------------------------------------------------------------------------
\* The steps of the registry.

\* A step that leaves the connections and the client alone.
LEMMA RequestsInv ==
  ASSUME Inv, Inv', OrderInv, QueueOrder', Grows, Gone' = Gone,
         UNCHANGED <<conn, clientVars, carrier>>
  PROVE  OrderInv'
<1>1. UNCHANGED <<client, at, job, ran, rejected>>
  BY DEF clientVars
<1>2. Shrinks
  BY <1>1, SameLine
<1>3. Follows
  BY <1>1, HandsOn DEF RanOn, Inv, Types
<1>4. HandsAreFree'
  BY <1>1 DEF OrderInv, NoLoss, HandsAreFree
<1> QED
  BY <1>2, <1>3, <1>4, StepOrder DEF Inv, Types

\* A step of one connection on its own.
LEMMA QuietStep ==
  ASSUME Inv, Inv', OrderInv, NEW c \in Connections, Quiet(c),
         QueueOrder', Grows, Gone' = Gone, carrier' = carrier,
         UNCHANGED clientVars
  PROVE  OrderInv'
<1>1. UNCHANGED <<client, at, job, ran, rejected>>
  BY DEF clientVars
<1>2. Shrinks
  BY <1>1, QuietLine DEF Inv, Types
<1>3. Follows
  BY <1>1, QuietFollows DEF RanOn, Inv, Types
<1>4. HandsAreFree'
  BY <1>1, QuietHands DEF OrderInv, NoLoss, HandsAreFree
<1> QED
  BY <1>2, <1>3, <1>4, StepOrder DEF Inv, Types

LEMMA ReceiveStep ==
  ASSUME Inv, Inv', OrderInv, NEW c \in Connections,
         ReceiveStatus(c) \/ ReceiveReport(c) \/ HandlerEnds(c)
  PROVE  OrderInv'
<1>1. Quiet(c)
  BY ReceiveQuiet DEF Inv, Types, OrderInv, NoLoss
<1>2. UNCHANGED <<queue, blocked, asked, accepted, carrier, clientVars>>
  BY DEF ReceiveStatus, ReceiveReport, HandlerEnds, registryVars, requestVars
<1>3. Len(accepted) \in Nat /\ Len(queue) \in Nat
  BY DEF Inv, Types, QueueTypes
<1>4. QueueOrder' /\ Grows /\ Gone' = Gone
  BY <1>2, <1>3 DEF OrderInv, QueueOrder, QueueIsRest, EachOnce, Grows, Gone
<1> QED
  BY <1>1, <1>2, <1>4, QuietStep

LEMMA SendStep ==
  ASSUME Inv, Inv', OrderInv, NEW c \in Connections, SendCommand(c)
  PROVE  OrderInv'
<1>1. /\ conn[c] \in ConnectionType /\ conn[c].toEdge \in Seq(Requests)
      /\ conn[c].held \in Requests /\ conn[c].sender = "send"
      /\ ConnTypes /\ ClientTypes
  BY ConnTypesFields DEF SendCommand, Inv, Types, ConnTypes
<1>2. QueueOrder' /\ Grows /\ Gone' = Gone /\ carrier' = carrier
  BY SameQueueOrder DEF SendCommand, Inv, Types, OrderInv
<1>3. UNCHANGED clientVars /\ UNCHANGED <<client, at, job, ran, rejected>>
  BY DEF SendCommand, clientVars
<1>4. CASE conn[c].link = "down"
  <2>1. Quiet(c)
    BY <1>1, <1>4 DEF SendCommand, ConnTypes, ConnectionType, Quiet
  <2> QED
    BY <1>2, <1>3, <2>1, QuietStep
<1>5. CASE conn[c].link = "up"
  <2>1. /\ \A d \in Connections \ {c} : conn'[d] = conn[d]
        /\ conn'[c].kind = conn[c].kind /\ conn'[c].link = "up"
        /\ conn'[c].sender = "get" /\ conn'[c].held = 0
        /\ conn'[c].toEdge = Append(conn[c].toEdge, conn[c].held)
    BY <1>1, <1>5 DEF SendCommand, ConnTypes, ConnectionType
  <2>2. /\ \A x : Has(conn'[c].toEdge, x) => Has(conn[c].toEdge, x) \/ x = conn[c].held
        /\ \A x, y : InOrder(conn'[c].toEdge, x, y)
             => InOrder(conn[c].toEdge, x, y) \/ (Has(conn[c].toEdge, x) /\ y = conn[c].held)
        /\ \A x : Has(conn[c].toEdge, x) => Has(conn'[c].toEdge, x)
        /\ Has(conn'[c].toEdge, conn[c].held)
    BY <1>1, <2>1, AppendOrder
  <2>3. Shrinks
    <3>1. CASE Serving /\ c = at
      <4>1. /\ \A r : Running(r)' <=> Running(r)
            /\ \A r : Coming(r)' => Coming(r) \/ Sending(r)
            /\ \A r : ~Sending(r)'
        <5>1. \A r : Running(r)' <=> Running(r)
          BY <1>3 DEF Running
        <5>2. \A r : ~Sending(r)'
          BY <1>3, <2>1, <3>1 DEF Sending
        <5>3. \A r : Coming(r)' => Has(conn'[c].toEdge, r)
          BY <1>3, <3>1 DEF Coming, Has
        <5>4. \A r : Coming(r)' => Coming(r) \/ Sending(r)
          BY <1>1, <2>2, <3>1, <5>3 DEF Coming, Sending
        <5> QED
          BY <5>1, <5>2, <5>4
      <4>2. \A r, s : InOrder(conn'[at].toEdge, r, s) => Precedes(r, s)
        BY <1>1, <2>2, <3>1 DEF Precedes, Coming, Sending
      <4>3. \A r, s : Running(r)' /\ Coming(s)' => Precedes(r, s)
        BY <4>1 DEF Precedes
      <4>4. Serving' /\ at' = at /\ RanOn /\ ran' = ran
        BY <1>3, <3>1 DEF Serving, RanOn
      <4> QED
        BY <1>1, <3>1, <4>1, <4>2, <4>3, <4>4, ServeLine
    <3>2. CASE ~(Serving /\ c = at)
      <4>1. Serving => at \in Connections \ {c}
        BY <1>1, <3>2 DEF Serving, ClientTypes
      <4> QED
        BY <1>3, <2>1, <4>1, SameLine
    <3> QED
      BY <3>1, <3>2
  <2>4. Follows
    <3>1. ASSUME NEW d \in Connections, conn[d].kind # "unused"
          PROVE  /\ conn'[d].kind # "unused"
                 /\ conn[d].link = "down" => conn'[d].link = "down"
                 /\ \A r \in Requests :
                      conn[d].held = r \/ Has(conn[d].toEdge, r) =>
                        conn'[d].held = r \/ Has(conn'[d].toEdge, r)
      <4>1. CASE d = c
        BY <1>5, <2>1, <2>2, <3>1, <4>1
      <4>2. CASE d # c
        BY <2>1, <3>1, <4>2
      <4> QED
        BY <4>1, <4>2
    <3> QED
      BY <1>1, <1>3, <3>1, HandsOn DEF RanOn
  <2>5. HandsAreFree'
    BY <1>3, <2>1 DEF OrderInv, NoLoss, HandsAreFree
  <2> QED
    BY <1>2, <2>3, <2>4, <2>5, StepOrder DEF Inv, Types
<1> QED
  BY <1>4, <1>5 DEF SendCommand

\* The head of the queue comes to the end of the line.
LEMMA TakeLine ==
  ASSUME QueueTypes, QueueTypes', QueueOrder, ClientTypes, LineOrder,
         NEW c \in Connections, TakeCommand(c), ConnTypes,
         NEW h, h = Head(queue)
  PROVE  LineOrder'
<1>1. /\ Grows /\ Gone' = Gone + 1 /\ Gone + 1 \in 1..Len(accepted)
      /\ Gone \in Nat /\ accepted' = accepted /\ accepted[Gone + 1] = h
  BY TakeOrder
<1>2. UNCHANGED <<client, at, job, ran, rejected>>
  BY DEF TakeCommand, clientVars
<1>3. /\ \A d \in Connections : conn'[d].toEdge = conn[d].toEdge
      /\ \A d \in Connections \ {c} : conn'[d] = conn[d]
      /\ conn[c].sender = "get" /\ conn'[c].held = h
  BY DEF TakeCommand, ConnTypes, ConnectionType
<1>4. Serving => at \in Connections
  BY DEF Serving, ClientTypes
<1>5. \A r : /\ Ran(r)' <=> Ran(r)
             /\ Running(r)' <=> Running(r)
             /\ Coming(r)' <=> Coming(r)
             /\ Sending(r)' => Sending(r) \/ r = h
  BY <1>2, <1>3, <1>4 DEF Ran, Running, Coming, Sending, Serving, Has
<1>6. \A r : InLine(r)' => InLine(r) \/ r = h
  BY <1>5 DEF InLine
<1>7. \A r, s : InOrder(ran, r, s)' => InOrder(ran, r, s)
  BY <1>2 DEF InOrder
<1>8. \A r, s : Serving' /\ InOrder(conn[at].toEdge, r, s)'
                => Serving /\ InOrder(conn[at].toEdge, r, s)
  BY <1>2, <1>3, <1>4 DEF InOrder, Serving
<1>9. \A r, s : Precedes(r, s)' => Precedes(r, s) \/ (InLine(r) /\ s = h)
  BY <1>5, <1>7, <1>8 DEF Precedes, InLine
<1>10. Taken(h)'
  BY <1>1 DEF Taken
<1>11. \A r \in Requests : InLine(r)' => Taken(r)'
  BY <1>1, <1>6, <1>10, GrowsKeeps DEF LineOrder, LineIsTaken
<1>12. \A r : Taken(r) => Before(r, h)'
  <2> SUFFICES ASSUME NEW r, NEW k \in 1..Gone, accepted[k] = r
               PROVE  Before(r, h)'
    BY DEF Taken
  <2>1. k < Gone + 1 /\ k \in 1..Len(accepted)
    BY <1>1
  <2>2. Before(r, h)
    BY <1>1, <2>1 DEF Before, InOrder
  <2> QED
    BY <1>1, <2>2, GrowsKeeps
<1>13. \A r, s \in Requests : Precedes(r, s)' => Before(r, s)'
  BY <1>1, <1>9, <1>12, GrowsKeeps DEF LineOrder, LineInOrder, LineIsTaken
<1> QED
  BY <1>11, <1>13 DEF LineOrder, LineIsTaken, LineInOrder

LEMMA TakeLoss ==
  ASSUME Inv, OrderInv, NEW c \in Connections, TakeCommand(c),
         NEW h, h = Head(queue)
  PROVE  NoLoss'
<1>1. /\ Grows /\ Gone' = Gone + 1 /\ Gone + 1 \in 1..Len(accepted)
      /\ Gone \in Nat /\ accepted' = accepted /\ accepted[Gone + 1] = h
  BY TakeOrder DEF OrderInv, Inv, Types
<1>2. UNCHANGED <<client, at, job, ran, rejected>>
  BY DEF TakeCommand, clientVars
<1>3. /\ \A d \in Connections : /\ conn'[d].toEdge = conn[d].toEdge
                                /\ conn'[d].kind = conn[d].kind
                                /\ conn'[d].link = conn[d].link
      /\ \A d \in Connections \ {c} : conn'[d] = conn[d]
      /\ conn[c].sender = "get" /\ conn'[c].sender = "send" /\ conn'[c].held = h
  BY DEF TakeCommand, Inv, Types, ConnTypes, ConnectionType
<1>4. conn[c].kind # "unused"
  BY <1>3 DEF Inv, NoOrphanSender, UnusedIsClosed, Open
<1>5. /\ carrier \in [Requests -> 0..MaxConnections]
      /\ carrier' = [carrier EXCEPT ![h] = c]
      /\ h \in Requests /\ accepted \in Seq(Requests)
  <2>1. carrier \in [Requests -> 0..MaxConnections] /\ accepted \in Seq(Requests)
    BY DEF Inv, Types, QueueTypes
  <2>2. carrier' = [carrier EXCEPT ![h] = c]
    BY DEF TakeCommand
  <2>3. h \in Requests
    BY <1>1, <2>1
  <2> QED
    BY <2>1, <2>2, <2>3
<1>6. \A r \in Requests \ {h} : carrier'[r] = carrier[r]
  BY <1>5
<1>7. carrier'[h] = c /\ c # 0
  BY <1>5 DEF Connections
<1>8. \A r \in Requests : carrier[r] # 0 => carrier[r] \in Connections
  BY <1>5 DEF Connections
<1>9. CarriersAreUsed'
  BY <1>3, <1>4, <1>6, <1>7, <1>8 DEF OrderInv, NoLoss, CarriersAreUsed
<1>10. HandsAreFree'
  BY <1>2, <1>3 DEF OrderInv, NoLoss, HandsAreFree
<1>11. Accounted(h)'
  BY <1>3, <1>7 DEF Accounted, Carried
<1>12. \A r : Taken(r)' => Taken(r) \/ r = h
  <2> SUFFICES ASSUME NEW k \in 1..(Gone + 1), k # Gone + 1
               PROVE  Taken(accepted[k])
    BY <1>1 DEF Taken
  <2>1. k \in 1..Gone
    BY <1>1
  <2> QED
    BY <2>1 DEF Taken
<1>13. ASSUME NEW r \in Requests, r # h, Accounted(r)
       PROVE  Accounted(r)'
  <2>1. carrier'[r] = carrier[r] /\ carrier[r] \in Connections
    BY <1>6, <1>8, <1>13 DEF Accounted
  <2>2. conn[c].held # r
    BY <1>3 DEF OrderInv, NoLoss, HandsAreFree, Requests
  <2>3. Handled(r) => Handled(r)'
    BY <1>2 DEF Handled
  <2>4. PICK d \in Connections : d = carrier[r]
    BY <2>1
  <2>5. Carried(r, d) => Carried(r, d)'
    BY <1>2, <1>3, <2>2 DEF Carried
  <2>6. Carried(r, d)' <=> Carried(r, carrier[r])'
    BY <2>1, <2>4 DEF Carried
  <2>7. Carried(r, carrier[r]) => Carried(r, carrier[r])'
    BY <2>4, <2>5, <2>6
  <2> QED
    BY <1>3, <1>13, <2>1, <2>3, <2>7 DEF Accounted
<1>14. \A r \in Requests : Taken(r)' => Accounted(r)'
  BY <1>11, <1>12, <1>13 DEF OrderInv, NoLoss, TakenIsAccounted
<1> QED
  BY <1>9, <1>10, <1>14 DEF NoLoss, TakenIsAccounted

LEMMA TakeStep ==
  ASSUME Inv, Inv', OrderInv, NEW c \in Connections, TakeCommand(c)
  PROVE  OrderInv'
<1>1. QueueOrder'
  BY TakeOrder DEF Inv, Types, OrderInv
<1>2. LineOrder'
  BY TakeLine DEF Inv, Types, OrderInv, ConnTypes
<1>3. NoLoss'
  BY TakeLoss
<1> QED
  BY <1>1, <1>2, <1>3 DEF OrderInv

\* A connection is opened: it was not in use, and is empty.
LEMMA OpenedFacts ==
  ASSUME ConnTypes, NEW c \in Connections, NEW kind \in {"management", "voice"},
         Accept(c, kind)
  PROVE  /\ conn[c].kind = "unused" /\ conn'[c].kind = kind
         /\ conn'[c].toEdge = <<>> /\ conn'[c].sender = "none"
         /\ conn'[c].held = 0
         /\ \A d \in Connections \ {c} : conn'[d] = conn[d]
         /\ UNCHANGED <<queue, blocked, asked, accepted, carrier>>
  BY DEF Accept, Unused, NoConnection, ConnTypes, requestVars

LEMMA OpenedStep ==
  ASSUME Inv, Inv', OrderInv, NEW c \in Connections,
         NEW kind \in {"management", "voice"}, Accept(c, kind),
         UNCHANGED <<ran, rejected, job>>,
         \/ at' = at /\ client' = client
         \/ at' = c /\ client = "connect" /\ client' = "serve"
  PROVE  OrderInv'
<1>1. /\ conn[c].kind = "unused" /\ conn'[c].kind # "unused"
      /\ conn'[c].toEdge = <<>> /\ conn'[c].sender = "none" /\ conn'[c].held = 0
      /\ \A d \in Connections \ {c} : conn'[d] = conn[d]
      /\ UNCHANGED <<queue, blocked, asked, accepted, carrier>>
  BY OpenedFacts DEF Inv, Types
<1>2. Len(accepted) \in Nat /\ Len(queue) \in Nat
  BY DEF Inv, Types, QueueTypes
<1>3. QueueOrder' /\ Grows /\ Gone' = Gone
  BY <1>1, <1>2 DEF OrderInv, QueueOrder, QueueIsRest, EachOnce, Grows, Gone
<1>4. Shrinks
  <2>1. CASE at' = at /\ client' = client
    <3>1. Serving => at \in Connections
      BY DEF Serving, Inv, Types, ClientTypes
    <3> QED
      BY <1>1, <2>1, <3>1, SameLine
  <2>2. CASE at' = c /\ client = "connect" /\ client' = "serve"
    <3>1. \A r : ~Running(r)' /\ ~Coming(r)' /\ ~Sending(r)'
      BY <1>1, <2>2 DEF Running, Coming, Sending, Has
    <3>2. \A r : Ran(r)' <=> Ran(r)
      BY DEF Ran
    <3>3. \A r, s : InOrder(ran, r, s)' => InOrder(ran, r, s)
      BY DEF InOrder
    <3>4. \A r, s : ~InOrder(conn[at].toEdge, r, s)'
      BY <1>1, <2>2 DEF InOrder
    <3>5. \A r : InLine(r)' => InLine(r)
      BY <3>1, <3>2 DEF InLine
    <3>6. \A r, s : Precedes(r, s)' => Precedes(r, s)
      BY <3>1, <3>2, <3>3, <3>4 DEF Precedes
    <3> QED
      BY <3>5, <3>6 DEF Shrinks
  <2> QED
    BY <2>1, <2>2
<1>5. Follows
  <2>1. \A d \in Connections : conn[d].kind # "unused" => conn'[d] = conn[d]
    BY <1>1
  <2>2. client = "connect" => \A r \in Requests : job # r
    BY DEF OrderInv, NoLoss, HandsAreFree, Requests
  <2> QED
    BY <2>1, <2>2, HandsOn DEF RanOn, Inv, Types
<1>6. HandsAreFree'
  BY <1>1 DEF OrderInv, NoLoss, HandsAreFree
<1> QED
  BY <1>1, <1>3, <1>4, <1>5, <1>6, StepOrder DEF Inv, Types

-----------------------------------------------------------------------------
\* The steps of the client.

LEMMA ClientQueue ==
  ASSUME Inv, OrderInv, UNCHANGED <<registryVars, requestVars>>
  PROVE  QueueOrder' /\ Grows /\ Gone' = Gone /\ carrier' = carrier
BY SameQueueOrder DEF Inv, Types, OrderInv

\* The client gives up its connection, or waits for the next.
LEMMA LeaveStep ==
  ASSUME Inv, Inv', OrderInv, client' \in {"sleep", "connect"}, at' = at,
         UNCHANGED <<registryVars, requestVars>>,
         \/ UNCHANGED <<conn, ran, rejected, job>> /\ client # "run"
         \/ /\ UNCHANGED <<conn, ran, rejected>> /\ client # "run"
            /\ job' = 0
         \/ /\ at \in Connections /\ Hangup(at) /\ RanOn
            /\ rejected \subseteq rejected' /\ job' = 0
  PROVE  OrderInv'
<1>1. ClientTypes /\ ConnTypes /\ HandsAreFree
  BY DEF Inv, Types, OrderInv, NoLoss
<1>2. RanOn
  BY DEF RanOn
<1>3. Shrinks
  BY <1>1, <1>2, StopLine
<1>4. Follows /\ HandsAreFree'
  <2>1. CASE UNCHANGED <<conn, ran, rejected>> /\ client # "run"
    BY <1>1, <2>1, SameFollows DEF HandsAreFree
  <2>2. CASE /\ at \in Connections /\ Hangup(at) /\ RanOn
             /\ rejected \subseteq rejected' /\ job' = 0
    BY <1>1, <2>2, LinkQuiet, QuietFollows, QuietHands
  <2> QED
    BY <2>1, <2>2
<1>5. QueueTypes'
  BY DEF Inv, Types
<1> QED
  BY <1>3, <1>4, <1>5, ClientQueue, StepOrder

\* The client reports the end of a command and reads on.
LEMMA ResultStep ==
  ASSUME Inv, Inv', OrderInv, client = "run", client' = "serve", job' = 0,
         at' = at, NEW frame, UNCHANGED <<registryVars, requestVars>>,
         conn' = [conn EXCEPT ![at].toServer = Append(@, frame)],
         RanOn, rejected \subseteq rejected', NEW done, done = job, Handled(done)'
  PROVE  OrderInv'
<1>1. ClientTypes /\ ConnTypes /\ HandsAreFree /\ at \in Connections
  BY DEF Inv, Types, OrderInv, NoLoss, ClientTypes
<1>2. Quiet(at)
  BY <1>1, ReportQuiet
<1>3. conn'[at].toEdge = conn[at].toEdge
  BY <1>1 DEF ConnTypes, ConnectionType
<1>4. /\ conn'[at].sender = "send" =>
           conn[at].sender = "send" /\ conn'[at].held = conn[at].held
  BY <1>2 DEF Quiet
<1>5. /\ \A r : ~Running(r)'
      /\ \A r : Coming(r)' => Coming(r)
      /\ \A r : Sending(r)' => Sending(r)
  BY <1>3, <1>4 DEF Running, Coming, Sending, Serving, Has
<1>6. /\ \A r, s : Coming(r)' /\ Sending(s)' => Precedes(r, s)
      /\ \A r, s : InOrder(conn'[at].toEdge, r, s) => Precedes(r, s)
  BY <1>3, <1>5 DEF Precedes, Serving
<1>7. Shrinks
  BY <1>1, <1>5, <1>6, ServeLine DEF Serving
<1>8. Follows
  BY <1>1, <1>2, QuietFollows
<1>9. HandsAreFree'
  BY <1>1, <1>2, QuietHands
<1> QED
  BY <1>7, <1>8, <1>9, ClientQueue, StepOrder DEF Inv, Types

\* The client takes up a command.
LEMMA ReadStep ==
  ASSUME Inv, Inv', OrderInv, client = "serve", client' = "run", at' = at,
         conn[at].toEdge # <<>>, job' = Head(conn[at].toEdge), NEW frame,
         conn' = [conn EXCEPT ![at].toEdge = Tail(@),
                              ![at].toServer = Append(@, frame)],
         UNCHANGED <<registryVars, requestVars, ran, rejected>>
  PROVE  OrderInv'
<1>1. ClientTypes /\ ConnTypes /\ HandsAreFree /\ at \in Connections
  BY DEF Inv, Types, OrderInv, NoLoss, ClientTypes
<1>2. /\ conn[at] \in ConnectionType /\ conn[at].toEdge \in Seq(Requests)
  BY <1>1, ConnTypesFields
<1>3. /\ \A d \in Connections \ {at} : conn'[d] = conn[d]
      /\ conn'[at].kind = conn[at].kind /\ conn'[at].link = conn[at].link
      /\ conn'[at].sender = conn[at].sender /\ conn'[at].held = conn[at].held
      /\ conn'[at].toEdge = Tail(conn[at].toEdge)
  BY <1>1, <1>2 DEF ConnTypes, ConnectionType
<1>4. /\ \A x : Has(conn'[at].toEdge, x) => Has(conn[at].toEdge, x)
      /\ \A x, y : InOrder(conn'[at].toEdge, x, y) => InOrder(conn[at].toEdge, x, y)
      /\ \A x : Has(conn'[at].toEdge, x) => InOrder(conn[at].toEdge, job', x)
      /\ \A x : Has(conn[at].toEdge, x) => x = job' \/ Has(conn'[at].toEdge, x)
      /\ Has(conn[at].toEdge, job')
  <2>1. PICK inbox \in Seq(Requests), rest \in Seq(Requests), j \in Requests :
          /\ inbox = conn[at].toEdge /\ inbox # <<>>
          /\ rest = Tail(inbox) /\ j = Head(inbox)
          /\ rest = conn'[at].toEdge /\ j = job'
    BY <1>2, <1>3, TailAt
  <2>2. /\ \A x : Has(rest, x) => Has(inbox, x)
        /\ \A x, y : InOrder(rest, x, y) => InOrder(inbox, x, y)
        /\ \A x : Has(rest, x) => InOrder(inbox, j, x)
        /\ \A x : Has(inbox, x) => x = j \/ Has(rest, x)
        /\ Has(inbox, j)
    BY <2>1, TailOrder
  <2> QED
    BY <2>1, <2>2
<1>5. /\ \A r : Running(r)' => r = job' /\ Coming(r)
      /\ \A r : Coming(r)' => Coming(r) /\ Has(conn'[at].toEdge, r)
      /\ \A r : Sending(r)' => Sending(r)
  BY <1>3, <1>4 DEF Running, Coming, Sending, Serving, Has
<1>6. /\ \A r, s : Running(r)' /\ Coming(s)' => Precedes(r, s)
      /\ \A r, s : Coming(r)' /\ Sending(s)' => Precedes(r, s)
      /\ \A r, s : InOrder(conn'[at].toEdge, r, s) => Precedes(r, s)
  BY <1>4, <1>5 DEF Precedes, Serving
<1>7. Shrinks
  BY <1>1, <1>5, <1>6, ServeLine DEF Serving, RanOn
<1>8. Follows
  <2>1. \A r \in Requests : job # r
    BY <1>1 DEF HandsAreFree, Requests
  <2>2. ASSUME NEW d \in Connections, conn[d].kind # "unused"
        PROVE  /\ conn'[d].kind # "unused"
               /\ conn[d].link = "down" => conn'[d].link = "down"
               /\ \A r \in Requests :
                    conn[d].held = r \/ Has(conn[d].toEdge, r) =>
                      \/ conn'[d].held = r \/ Has(conn'[d].toEdge, r)
                      \/ d = at' /\ job' = r
    BY <1>3, <1>4, <2>2
  <2> QED
    BY <1>1, <2>1, <2>2, HandsOn DEF RanOn
<1>9. HandsAreFree'
  BY <1>1, <1>3 DEF HandsAreFree
<1> QED
  BY <1>7, <1>8, <1>9, ClientQueue, StepOrder DEF Inv, Types

LEMMA ClientOrder ==
  ASSUME Inv, Inv', OrderInv, ClientTask
  PROVE  OrderInv'
<1>1. ClientTypes /\ (client \in {"serve", "run"} => at \in Connections)
  BY DEF Inv, Types, ClientTypes
<1>2. CASE Wake
  BY <1>2, LeaveStep DEF Wake
<1>3. CASE ConnectionClosed
  BY <1>3, LeaveStep DEF ConnectionClosed, Sleep
<1>4. CASE ReadRequest
  <2>1. CASE Hangup(at) /\ Sleep
    BY <1>1, <1>4, <2>1, LeaveStep DEF ReadRequest, Sleep, RanOn
  <2>2. CASE /\ conn' = [conn EXCEPT
                  ![at].toEdge = Tail(@),
                  ![at].toServer = Append(@, Progress(Head(conn[at].toEdge)))]
             /\ client' = "run" /\ job' = Head(conn[at].toEdge)
             /\ UNCHANGED <<at, delay>>
    BY <1>4, <2>2, ReadStep DEF ReadRequest
  <2> QED
    BY <1>4, <2>1, <2>2 DEF ReadRequest
<1>5. CASE Reject \/ RunCommand
  <2>1. PICK r \in Requests : r = job
    BY <1>1, <1>5 DEF Reject, RunCommand, ClientTypes
  <2>2. RanOn /\ rejected \subseteq rejected' /\ client = "run"
    BY <1>5 DEF Reject, RunCommand, RanOn
  <2>3. Handled(r)'
    <3>1. CASE Reject
      BY <2>1, <3>1 DEF Reject, Handled
    <3>2. CASE RunCommand
      <4>1. ran \in Seq(Requests) /\ ran' = Append(ran, r)
        BY <1>1, <2>1, <3>2 DEF RunCommand, ClientTypes
      <4> QED
        BY <2>1, <4>1, AppendOrder DEF Handled, Has
    <3> QED
      BY <1>5, <3>1, <3>2
  <2>4. CASE Hangup(at) /\ Sleep
    BY <1>1, <1>5, <2>2, <2>4, LeaveStep DEF Reject, RunCommand, Sleep
  <2>5. CASE /\ conn' = [conn EXCEPT ![at].toServer = Append(@, Result(job))]
             /\ client' = "serve" /\ job' = 0 /\ UNCHANGED <<at, delay>>
    BY <1>5, <2>1, <2>2, <2>3, <2>5, ResultStep DEF Reject, RunCommand
  <2> QED
    BY <1>5, <2>4, <2>5 DEF Reject, RunCommand, SendResult
<1>6. CASE RunRaises
  BY <1>1, <1>6, LeaveStep DEF RunRaises, Sleep, RanOn
<1>7. CASE Restarted
  BY <1>1, <1>7, LeaveStep DEF Restarted, RanOn
<1> QED
  BY <1>2, <1>3, <1>4, <1>5, <1>6, <1>7 DEF ClientTask

LEMMA OrderInit == Init => OrderInv
<1> SUFFICES ASSUME Init PROVE OrderInv
  OBVIOUS
<1>1. /\ queue = <<>> /\ blocked = <<>> /\ asked = <<>> /\ accepted = <<>>
      /\ carrier = [r \in Requests |-> 0]
      /\ conn = [c \in Connections |-> NoConnection]
      /\ client = "connect" /\ at = 0 /\ job = 0 /\ ran = <<>>
  BY DEF Init, RegistryInit, ClientInit
<1>2. QueueOrder
  BY <1>1 DEF QueueOrder, QueueIsRest, EachOnce, Distinct
<1>3. \A r : ~Ran(r) /\ ~Running(r) /\ ~Coming(r) /\ ~Sending(r)
  BY <1>1 DEF Ran, Running, Coming, Sending, Serving, Has
<1>4. LineOrder
  BY <1>1, <1>3 DEF LineOrder, LineIsTaken, LineInOrder, InLine, Precedes,
    InOrder, Serving
<1>5. Gone = 0
  BY <1>1 DEF Gone
<1>6. NoLoss
  BY <1>1, <1>5 DEF NoLoss, HandsAreFree, CarriersAreUsed, TakenIsAccounted,
    Taken, NoConnection
<1> QED
  BY <1>2, <1>4, <1>6 DEF OrderInv

LEMMA OrderNext ==
  ASSUME Inv, Inv', OrderInv, [Next]_allVars
  PROVE  OrderInv'
<1>1. ASSUME NEW command \in Asked, RequestCommand(command)
      PROVE  OrderInv'
  <2>1. QueueOrder' /\ Grows /\ Gone' = Gone
    BY <1>1, RequestOrder DEF Inv, Types, OrderInv
  <2> QED
    BY <1>1, <2>1, RequestsInv DEF RequestCommand
<1>2. CASE PutGoesOn
  <2>1. QueueOrder' /\ Grows /\ Gone' = Gone
    BY <1>2, PutOrder DEF Inv, Types, OrderInv
  <2> QED
    BY <1>2, <2>1, RequestsInv DEF PutGoesOn
<1>3. CASE \E c \in Connections :
             ReceiveStatus(c) \/ ReceiveReport(c) \/ HandlerEnds(c)
  BY <1>3, ReceiveStep
<1>4. CASE \E c \in Connections : TakeCommand(c) \/ SendCommand(c)
  BY <1>4, TakeStep, SendStep
<1>5. CASE ClientTask
  BY <1>5, ClientOrder
<1>6. CASE SendStatus
  <2>1. at \in Connections /\ HandsAreFree /\ ConnTypes
    BY <1>6 DEF SendStatus, Inv, Types, ClientTypes, OrderInv, NoLoss
  <2>2. Quiet(at)
    BY <1>6, <2>1, ReportQuiet DEF SendStatus
  <2>3. QueueOrder' /\ Grows /\ Gone' = Gone /\ carrier' = carrier
    BY <1>6, ClientQueue DEF SendStatus
  <2> QED
    BY <1>6, <2>1, <2>2, <2>3, QuietStep DEF SendStatus
<1>7. CASE Connected
  <2>1. PICK c \in Connections : Accept(c, "management") /\ at' = c
    BY <1>7 DEF Connected
  <2> QED
    BY <1>7, <2>1, OpenedStep DEF Connected
<1>8. CASE NoConnect
  BY <1>8, LeaveStep DEF NoConnect, ConnectFails, Sleep
<1>9. CASE \E c \in Connections : VoiceOpens(c)
  BY <1>9, OpenedStep DEF VoiceOpens, clientVars
<1>10. ASSUME NEW c \in Connections, VoiceCloses(c) \/ LinkBreaks(c)
       PROVE  OrderInv'
  <2>1. Quiet(c)
    BY <1>10, LinkQuiet DEF Inv, Types, OrderInv, NoLoss
  <2>2. UNCHANGED <<registryVars, requestVars, clientVars>>
    BY <1>10 DEF VoiceCloses, LinkBreaks
  <2>3. QueueOrder' /\ Grows /\ Gone' = Gone /\ carrier' = carrier
    BY <2>2, ClientQueue
  <2> QED
    BY <2>1, <2>2, <2>3, QuietStep
<1>11. CASE UNCHANGED allVars
  <2>1. UNCHANGED <<registryVars, requestVars, clientVars, conn>>
    BY <1>11 DEF allVars, vars
  <2>2. QueueOrder' /\ Grows /\ Gone' = Gone /\ carrier' = carrier
    BY <2>1, ClientQueue
  <2> QED
    BY <2>1, <2>2, RequestsInv
<1> QED
  BY <1>1, <1>2, <1>3, <1>4, <1>5, <1>6, <1>7, <1>8, <1>9, <1>10, <1>11
  DEF Next, RegistryStep

LEMMA OrderHolds == Spec => []OrderInv
<1>1. Init => OrderInv
  BY OrderInit
<1>2. Inv /\ Inv' /\ OrderInv /\ [Next]_allVars => OrderInv'
  BY OrderNext
<1> QED
  BY <1>1, <1>2, InvHolds, PTL DEF Spec

-----------------------------------------------------------------------------

\* Over all reconnects, restarts and broken links the edge runs commands in
\* the order in which the server's queue accepted them, each at most once.
THEOREM CommandsRunInOrder == Spec => []RunInOrder
<1>1. Inv /\ OrderInv => RunInOrder
  <2> SUFFICES ASSUME Inv, OrderInv,
                      NEW i \in 1..Len(ran), NEW j \in 1..Len(ran), i < j
               PROVE  Position(ran[i]) < Position(ran[j])
    BY DEF RunInOrder
  <2>1. ran \in Seq(Requests) /\ ran[i] \in Requests /\ ran[j] \in Requests
    BY DEF Inv, Types, ClientTypes
  <2>2. Before(ran[i], ran[j])
    BY <2>1 DEF OrderInv, LineOrder, LineInOrder, Precedes, InOrder
  <2>3. PICK k \in 1..Len(accepted), l \in 1..Len(accepted) :
          k < l /\ accepted[k] = ran[i] /\ accepted[l] = ran[j]
    BY <2>2 DEF Before, InOrder
  <2>4. \A x \in 1..Len(accepted), y \in 1..Len(accepted) :
          accepted[x] = accepted[y] => x = y
    BY DEF OrderInv, QueueOrder, EachOnce, Distinct
  <2>5. Position(ran[i]) = k /\ Position(ran[j]) = l
    BY <2>3, <2>4 DEF Position
  <2> QED
    BY <2>3, <2>5
<1> QED
  BY <1>1, InvHolds, OrderHolds, PTL

\* A command that was accepted waits in the queue, travels, or was handled
\* by the edge, unless the connection that carried it is gone.
THEOREM LossNeedsALink == Spec => []LostOnlyWithItsLink
<1>1. Inv /\ OrderInv => LostOnlyWithItsLink
  <2> SUFFICES ASSUME Inv, OrderInv, NEW k \in 1..Len(accepted),
                      ~\E i \in 1..Len(queue) : queue[i] = accepted[k]
               PROVE  Accounted(accepted[k])
    BY DEF LostOnlyWithItsLink, Accounted
  <2>1. /\ accepted[k] \in Requests
        /\ Len(accepted) \in Nat /\ Len(queue) \in Nat
    BY DEF Inv, Types, QueueTypes
  <2>2. k \in 1..Gone
    <3>1. CASE k > Gone
      <4>1. k - Gone \in 1..Len(queue) /\ Gone + (k - Gone) = k
        BY <2>1, <3>1 DEF Gone
      <4> QED
        BY <4>1 DEF OrderInv, QueueOrder, QueueIsRest
    <3> QED
      BY <2>1, <3>1 DEF Gone
  <2>3. Taken(accepted[k])
    BY <2>2 DEF Taken
  <2> QED
    BY <2>1, <2>3 DEF OrderInv, NoLoss, TakenIsAccounted
<1> QED
  BY <1>1, InvHolds, OrderHolds, PTL
=============================================================================
