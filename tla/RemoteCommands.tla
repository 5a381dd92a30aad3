---------------------------- MODULE RemoteCommands ----------------------------
(***************************************************************************)
(* Remote commands from the server's API to the edge and back: the device  *)
(* registry, the management client, the voice connections that come and go *)
(* beside it, and links that break.                                        *)
(***************************************************************************)
EXTENDS ManagementClient

CONSTANT MaxFaults  \* bound on failed connections and broken links

ASSUME FaultsAssumption == MaxFaults \in Nat

VARIABLE faults

allVars == <<vars, faults>>

Init ==
  /\ RegistryInit /\ ClientInit
  /\ faults = 0

\* A turn opens a voice connection, and closes it when it is over.
VoiceOpens(c) ==
  /\ Accept(c, "voice")
  /\ UNCHANGED <<clientVars, faults>>

VoiceCloses(c) ==
  /\ conn[c].kind = "voice" /\ conn[c].link = "up"
  /\ conn' = [conn EXCEPT ![c].link = "down"]
  /\ UNCHANGED <<registryVars, requestVars, clientVars, faults>>

\* The link of the management client breaks; neither side knows yet, and
\* what was under way to the edge may or may not have arrived.
LinkBreaks(c) ==
  /\ faults < MaxFaults
  /\ conn[c].kind = "management" /\ conn[c].link = "up"
  /\ faults' = faults + 1
  /\ \E received \in {conn[c].toEdge, <<>>} :
       conn' = [conn EXCEPT ![c].link = "down", ![c].toEdge = received]
  /\ UNCHANGED <<registryVars, requestVars, clientVars>>

NoConnect ==
  /\ faults < MaxFaults
  /\ faults' = faults + 1
  /\ ConnectFails

Next ==
  \/ RegistryStep /\ UNCHANGED faults
  \/ (ClientTask \/ SendStatus \/ Connected) /\ UNCHANGED faults
  \/ \E c \in Connections : VoiceOpens(c) \/ VoiceCloses(c) \/ LinkBreaks(c)
  \/ NoConnect

\* The event loops of both sides run their ready tasks, a broken link is
\* noticed, and the client's sleeps and attempts to connect end.  Requests,
\* turns and faults need not happen.
Receive(c) == ReceiveStatus(c) \/ ReceiveReport(c) \/ HandlerEnds(c)

Fairness ==
  /\ \A c \in Connections :
       /\ WF_allVars(Receive(c) /\ UNCHANGED faults)
       /\ WF_allVars((TakeCommand(c) \/ SendCommand(c)) /\ UNCHANGED faults)
  /\ WF_allVars(PutGoesOn /\ UNCHANGED faults)
  /\ WF_allVars((ClientTask \/ Connected) /\ UNCHANGED faults)
  /\ WF_allVars(SendStatus /\ UNCHANGED faults)

Spec == Init /\ [][Next]_allVars /\ Fairness

-----------------------------------------------------------------------------
Frames == [kind : {"status"}, request : {0}]
          \cup [kind : {"progress", "result"}, request : Requests]

ConnectionType ==
  [kind : {"unused", "management", "voice"},
   handler : {"none", "open", "ended"},
   sender : {"none", "get", "send", "ended"},
   held : 0..MaxRequests, link : {"up", "down"},
   toEdge : Seq(Requests), toServer : Seq(Frames)]

\* Types; the queue and the delay keep their bounds.
TypeOK ==
  /\ online \in BOOLEAN /\ count \in 0..MaxConnections
  /\ queue \in Seq(Requests) /\ Len(queue) <= QueueSize
  /\ blocked \in Seq(Requests)
  /\ conn \in [Connections -> ConnectionType]
  /\ asked \in Seq(Asked) /\ Len(asked) <= MaxRequests
  /\ accepted \in Seq(Requests)
  /\ carrier \in [Requests -> 0..MaxConnections]
  /\ answered \subseteq Requests
  /\ client \in {"connect", "serve", "run", "sleep"}
  /\ at \in 0..MaxConnections /\ job \in 0..MaxRequests
  /\ delay \in InitialDelay..MaxDelay
  /\ ran \in Seq(Requests) /\ rejected \subseteq Requests
  /\ faults \in 0..MaxFaults

\* The registry shows a device as online exactly while one of its
\* connections has a handler, although several connections of both kinds
\* come and go in any order and each status frame sets the flag.
OnlineMeansConnected ==
  /\ count = Cardinality(Open)
  /\ online <=> Open # {}

\* A task that takes commands belongs to a connection that is being
\* handled: a connection that ended does not steal commands of the next.
NoOrphanSender ==
  \A c \in Connections : conn[c].sender \in {"get", "send"} => c \in Open

Position(r) == CHOOSE k \in 1..Len(accepted) : accepted[k] = r

\* Over all reconnects the edge runs the commands in the order in which they
\* were accepted, and none of them twice.
RunInOrder ==
  \A i, j \in 1..Len(ran) : i < j => Position(ran[i]) < Position(ran[j])

Carried(r, c) ==
  \/ conn[c].held = r
  \/ \E i \in 1..Len(conn[c].toEdge) : conn[c].toEdge[i] = r
  \/ at = c /\ job = r

Handled(r) == (\E i \in 1..Len(ran) : ran[i] = r) \/ r \in rejected

\* A command that was accepted waits in the queue, is on its way or was
\* handled by the edge; it is lost only with the connection that carried it.
LostOnlyWithItsLink ==
  \A k \in 1..Len(accepted) :
    LET r == accepted[k]
    IN  \/ \E i \in 1..Len(queue) : queue[i] = r
        \/ /\ carrier[r] # 0
           /\ \/ Carried(r, carrier[r]) \/ Handled(r)
              \/ conn[carrier[r]].link = "down"

\* A put() that waits for room goes on, and an accepted command is answered:
\* unless the connection that carries it fails, or no attempt to connect is
\* left within the bound.
CommandsAnswered ==
  \A r \in Requests :
    (\/ \E k \in 1..Len(accepted) : accepted[k] = r
     \/ \E k \in 1..Len(blocked) : blocked[k] = r)
      ~> \/ r \in answered
         \/ carrier[r] # 0 /\ conn[carrier[r]].link = "down"
         \/ client = "connect" /\ \A c \in Connections : conn[c].kind # "unused"
=============================================================================
