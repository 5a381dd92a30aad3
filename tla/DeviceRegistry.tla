---------------------------- MODULE DeviceRegistry ----------------------------
(***************************************************************************)
(* The server's side of remote commands for one device: the registry, the  *)
(* command service and the handler of the device's websocket connections   *)
(* (ai_robot_server.registry, .remote, .app.edge_session), with the state  *)
(* that the edge's management client shares.                               *)
(*                                                                         *)
(* online, count  the device's record in the registry                      *)
(* queue          its queue of commands                                    *)
(* blocked        requests that wait in put() on the full queue            *)
(* conn           the connections of the device: its kind (the management  *)
(*                client's or one turn's voice connection), its handler on *)
(*                the server, the task _send_commands with the command it  *)
(*                holds, the link, and the frames under way                *)
(* asked          the command asked for by each request                    *)
(* accepted       requests in the order in which they entered the queue    *)
(* carrier        the connection that took each request from the queue     *)
(* answered       requests whose result was logged                         *)
(*                                                                         *)
(* client, at, job, delay, ran, rejected belong to the management client.  *)
(***************************************************************************)
EXTENDS Naturals, Sequences, FiniteSets

CONSTANTS
  MaxRequests,    \* bound on the requests made
  MaxConnections, \* bound on the connections opened
  QueueSize,      \* maxsize of the command queue
  Asked           \* commands that are asked for

ASSUME RegistryAssumption ==
  /\ MaxRequests \in Nat /\ MaxConnections \in Nat
  /\ QueueSize \in Nat \ {0}

VARIABLES online, count, queue, blocked, conn, asked, accepted, carrier,
          answered, client, at, job, delay, ran, rejected

requestVars == <<asked, accepted, carrier, answered>>
registryVars == <<online, count, queue, blocked>>
clientVars == <<client, at, job, delay, ran, rejected>>
vars == <<registryVars, conn, requestVars, clientVars>>

Requests == 1..MaxRequests
Connections == 1..MaxConnections

\* COMMAND_SPECS, and the same names in SERVER_ALLOWED_COMMANDS.
Mutating == {"restart_edge_service", "pull_update", "run_install"}
Probes == {"test_camera", "test_microphone", "test_speaker",
           "test_server_connection"}
Known == {"logs"} \cup Mutating \cup Probes

Status == [kind |-> "status", request |-> 0]
Progress(r) == [kind |-> "progress", request |-> r]
Result(r) == [kind |-> "result", request |-> r]

NoConnection ==
  [kind |-> "unused", handler |-> "none", sender |-> "none", held |-> 0,
   link |-> "down", toEdge |-> <<>>, toServer |-> <<>>]

Unused(c) == conn[c].kind = "unused" /\ \A d \in 1..(c - 1) : conn[d].kind # "unused"

Open == {c \in Connections : conn[c].handler = "open"}

RegistryInit ==
  /\ online = FALSE /\ count = 0 /\ queue = <<>> /\ blocked = <<>>
  /\ conn = [c \in Connections |-> NoConnection]
  /\ asked = <<>> /\ accepted = <<>>
  /\ carrier = [r \in Requests |-> 0] /\ answered = {}

-----------------------------------------------------------------------------
\* POST /api/v1/devices/{device_id}/commands

\* enqueue_command of a device that is online; put() waits while the queue
\* is full.
Enqueue(r) ==
  IF Len(queue) < QueueSize
  THEN /\ queue' = Append(queue, r) /\ accepted' = Append(accepted, r)
       /\ UNCHANGED blocked
  ELSE /\ blocked' = Append(blocked, r)
       /\ UNCHANGED <<queue, accepted>>

\* A command that is not allowed, or for a device that is offline, is not
\* queued.
RequestCommand(command) ==
  LET r == Len(asked) + 1
  IN
  /\ r \in Requests
  /\ asked' = Append(asked, command)
  /\ IF command \in Known /\ online
     THEN Enqueue(r)
     ELSE UNCHANGED <<queue, blocked, accepted>>
  /\ UNCHANGED <<online, count, conn, carrier, answered, clientVars>>

\* A waiting put() goes on when there is room.
PutGoesOn ==
  /\ blocked # <<>> /\ Len(queue) < QueueSize
  /\ queue' = Append(queue, Head(blocked))
  /\ accepted' = Append(accepted, Head(blocked))
  /\ blocked' = Tail(blocked)
  /\ UNCHANGED <<online, count, conn, asked, carrier, answered, clientVars>>

-----------------------------------------------------------------------------
\* edge_session

\* Accept a connection and mark_online.
Accept(c, kind) ==
  /\ Unused(c)
  /\ conn' = [conn EXCEPT ![c] = [NoConnection EXCEPT !.kind = kind,
                !.handler = "open", !.link = "up"]]
  /\ count' = count + 1 /\ online' = TRUE
  /\ UNCHANGED <<queue, blocked, requestVars>>

Frame(c) == Head(conn[c].toServer)

Readable(c) == conn[c].handler = "open" /\ conn[c].toServer # <<>>

\* Mutant: one sender for the device, not one for each connection.
StatusStartsOneSender(c) ==
  /\ Readable(c) /\ Frame(c).kind = "status"
  /\ online' = TRUE
  /\ conn' = [conn EXCEPT ![c].toServer = Tail(@),
       ![c].sender = IF \A d \in Connections : conn[d].sender = "none"
                     THEN "get" ELSE @]
  /\ UNCHANGED <<count, queue, blocked, requestVars, clientVars>>

\* device.status: update_status, and the first one starts the sender.
ReceiveStatus(c) ==
  /\ Readable(c) /\ Frame(c).kind = "status"
  /\ online' = TRUE
  /\ conn' = [conn EXCEPT ![c].toServer = Tail(@),
                          ![c].sender = IF @ = "none" THEN "get" ELSE @]
  /\ UNCHANGED <<count, queue, blocked, requestVars, clientVars>>

\* command.progress and command.result are logged.
ReceiveReport(c) ==
  /\ Readable(c) /\ Frame(c).kind \in {"progress", "result"}
  /\ answered' = IF Frame(c).kind = "result"
                 THEN answered \cup {Frame(c).request} ELSE answered
  /\ conn' = [conn EXCEPT ![c].toServer = Tail(@)]
  /\ UNCHANGED <<registryVars, asked, accepted, carrier, clientVars>>

\* Mutant: mark_offline whatever connections are left.
HandlerMarksOffline(c) ==
  /\ conn[c].handler = "open" /\ conn[c].link = "down"
  /\ conn' = [conn EXCEPT ![c].handler = "ended", ![c].sender = "ended",
                          ![c].held = 0, ![c].toServer = <<>>]
  /\ count' = count - 1 /\ online' = FALSE
  /\ UNCHANGED <<queue, blocked, requestVars, clientVars>>

\* Mutant: mark_offline forgets the queued commands.
HandlerClearsQueue(c) ==
  /\ conn[c].handler = "open" /\ conn[c].link = "down"
  /\ conn' = [conn EXCEPT ![c].handler = "ended", ![c].sender = "ended",
                          ![c].held = 0, ![c].toServer = <<>>]
  /\ count' = count - 1 /\ online' = (count' > 0) /\ queue' = <<>>
  /\ UNCHANGED <<blocked, requestVars, clientVars>>

\* The handler learns that the connection is gone, whatever had arrived on
\* it: its sender is cancelled with the command it holds, and mark_offline.
HandlerEnds(c) ==
  /\ conn[c].handler = "open" /\ conn[c].link = "down"
  /\ conn' = [conn EXCEPT ![c].handler = "ended", ![c].sender = "ended",
                          ![c].held = 0, ![c].toServer = <<>>]
  /\ count' = count - 1 /\ online' = (count' > 0)
  /\ UNCHANGED <<queue, blocked, requestVars, clientVars>>

-----------------------------------------------------------------------------
\* _send_commands

\* Mutant: the command stays in the queue until it has been sent.
TakeKeepsCommand(c) ==
  /\ conn[c].sender = "get" /\ queue # <<>>
  /\ conn' = [conn EXCEPT ![c].sender = "send", ![c].held = Head(queue)]
  /\ carrier' = [carrier EXCEPT ![Head(queue)] = c]
  /\ UNCHANGED <<registryVars, asked, accepted, answered, clientVars>>

TakeCommand(c) ==
  /\ conn[c].sender = "get" /\ queue # <<>>
  /\ queue' = Tail(queue)
  /\ conn' = [conn EXCEPT ![c].sender = "send", ![c].held = Head(queue)]
  /\ carrier' = [carrier EXCEPT ![Head(queue)] = c]
  /\ UNCHANGED <<online, count, blocked, asked, accepted, answered, clientVars>>

\* On a link that is gone the send is swallowed, or raises and ends the
\* task; the command is lost either way.
SendCommand(c) ==
  /\ conn[c].sender = "send"
  /\ \/ /\ conn[c].link = "up"
        /\ conn' = [conn EXCEPT ![c].sender = "get", ![c].held = 0,
                                ![c].toEdge = Append(@, conn[c].held)]
     \/ /\ conn[c].link = "down"
        /\ \E next \in {"get", "ended"} :
             conn' = [conn EXCEPT ![c].sender = next, ![c].held = 0]
  /\ UNCHANGED <<registryVars, requestVars, clientVars>>

RegistryStep ==
  \/ \E command \in Asked : RequestCommand(command)
  \/ PutGoesOn
  \/ \E c \in Connections :
       \/ ReceiveStatus(c) \/ ReceiveReport(c) \/ HandlerEnds(c)
       \/ TakeCommand(c) \/ SendCommand(c)
=============================================================================
