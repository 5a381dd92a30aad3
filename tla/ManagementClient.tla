--------------------------- MODULE ManagementClient ---------------------------
(***************************************************************************)
(* The management client of the edge (ai_robot_edge.server.management) and *)
(* the commands it runs (ai_robot_edge.admin.commands).                    *)
(*                                                                         *)
(* client    connecting, serving the connection "at", running the command  *)
(*           of request "job", or sleeping before the next attempt         *)
(* delay     the next sleep                                                *)
(* ran       requests whose command was started, in order                  *)
(* rejected  requests whose command was refused by the edge                *)
(***************************************************************************)
EXTENDS DeviceRegistry

CONSTANTS
  Enabled,        \* admin.allowed_commands
  RemoteOps,      \* admin.allow_remote_ops
  InitialDelay, MaxDelay  \* server.reconnect

ASSUME ClientAssumption ==
  /\ RemoteOps \in BOOLEAN
  /\ InitialDelay \in Nat /\ MaxDelay \in Nat /\ InitialDelay <= MaxDelay

ClientInit ==
  /\ client = "connect" /\ at = 0 /\ job = 0 /\ delay = InitialDelay
  /\ ran = <<>> /\ rejected = {}

\* The connection is closed from this side as well.
Hangup(c) == conn' = [conn EXCEPT ![c].link = "down", ![c].toEdge = <<>>]

\* run() after an error: sleep, and double the delay.
Sleep ==
  /\ client' = "sleep" /\ job' = 0
  /\ UNCHANGED <<at, delay>>

Connected ==
  /\ client = "connect"
  /\ \E c \in Connections :
       Accept(c, "management") /\ at' = c
  /\ client' = "serve"
  /\ UNCHANGED <<job, delay, ran, rejected>>

\* The connection is refused or not opened in time.
ConnectFails ==
  /\ client = "connect"
  /\ Sleep
  /\ UNCHANGED <<conn, registryVars, requestVars, ran, rejected>>

Wake ==
  /\ client = "sleep"
  /\ client' = "connect"
  /\ delay' = IF 2 * delay < MaxDelay THEN 2 * delay ELSE MaxDelay
  /\ UNCHANGED <<conn, registryVars, requestVars, at, job, ran, rejected>>

\* _send_status_loop, also while a command runs.  (One status is under way
\* at a time.)
SendStatus ==
  /\ client \in {"serve", "run"} /\ conn[at].link = "up"
  /\ \A i \in 1..Len(conn[at].toServer) : conn[at].toServer[i] # Status
  /\ conn' = [conn EXCEPT ![at].toServer = Append(@, Status)]
  /\ UNCHANGED <<registryVars, requestVars, clientVars>>

\* _handle_text: a command.request is reported as started.  A request that
\* was received before the link broke is still read; the report raises.
ReadRequest ==
  /\ client = "serve" /\ conn[at].toEdge # <<>>
  /\ \/ /\ conn[at].link = "up"
        /\ conn' = [conn EXCEPT
             ![at].toEdge = Tail(@),
             ![at].toServer = Append(@, Progress(Head(conn[at].toEdge)))]
        /\ client' = "run" /\ job' = Head(conn[at].toEdge)
        /\ UNCHANGED <<at, delay>>
     \/ conn[at].link = "down" /\ Hangup(at) /\ Sleep
  /\ UNCHANGED <<registryVars, requestVars, ran, rejected>>

\* validate_command
Permitted(command) ==
  /\ command \in Known /\ command \in Enabled
  /\ command \in Mutating => RemoteOps

\* command.result, which raises when the link broke meanwhile.
SendResult ==
  \/ /\ conn[at].link = "up"
     /\ conn' = [conn EXCEPT ![at].toServer = Append(@, Result(job))]
     /\ client' = "serve" /\ job' = 0
     /\ UNCHANGED <<at, delay>>
  \/ conn[at].link = "down" /\ Hangup(at) /\ Sleep

Reject ==
  /\ client = "run" /\ ~Permitted(asked[job])
  /\ rejected' = rejected \cup {job}
  /\ SendResult
  /\ UNCHANGED <<registryVars, requestVars, ran>>

\* The command ends, or is killed at its timeout.
RunCommand ==
  /\ client = "run" /\ Permitted(asked[job])
  /\ ran' = Append(ran, job)
  /\ SendResult
  /\ UNCHANGED <<registryVars, requestVars, rejected>>

\* The program is missing: OSError is taken for a failure of the websocket.
\* (So is the timeout on Python 3.10, where asyncio's is another exception.)
RunRaises ==
  /\ client = "run" /\ Permitted(asked[job])
  /\ asked[job] # "test_server_connection"
  /\ ran' = Append(ran, job)
  /\ Hangup(at) /\ Sleep
  /\ UNCHANGED <<registryVars, requestVars, rejected>>

\* restart_edge_service ends the process this client lives in.
Restarted ==
  /\ client = "run" /\ Permitted(asked[job])
  /\ asked[job] = "restart_edge_service"
  /\ ran' = Append(ran, job)
  /\ Hangup(at)
  /\ client' = "connect" /\ job' = 0 /\ delay' = InitialDelay
  /\ UNCHANGED <<registryVars, requestVars, at, rejected>>

\* The loop over the messages ends: by a close in good order, after which
\* the delay starts anew and the client connects at once, or by an error.
ConnectionClosed ==
  /\ client = "serve" /\ conn[at].link = "down" /\ conn[at].toEdge = <<>>
  /\ \/ client' = "connect" /\ delay' = InitialDelay /\ UNCHANGED <<at, job>>
     \/ Sleep
  /\ UNCHANGED <<conn, registryVars, requestVars, ran, rejected>>

\* The client's task; the status loop is a task of its own.
ClientTask ==
  \/ Wake \/ ReadRequest \/ Reject \/ RunCommand \/ RunRaises \/ Restarted
  \/ ConnectionClosed
=============================================================================
