-------------------- MODULE TunnelProxyRemoteConnection --------------------
(***************************************************************************)
(* The client side of the client library: TunnelProxyRemoteConnection with *)
(* its connections, and what it makes of the data the proxy sends: the     *)
(* responses to Hello and RegisterClient, and from then on the data of the *)
(* tunnel.                                                                 *)
(*                                                                         *)
(* A message is one response or one piece of tunnel data.  A read takes    *)
(* any number of messages at once.  Tunnel data is "json" when it is a     *)
(* JSON document with its newline, as nymea sends, and "raw" when it       *)
(* neither begins nor ends with a brace.  Responses split between two      *)
(* reads are the matter of JsonPackets.                                    *)
(***************************************************************************)
EXTENDS ConnectionOwner, Naturals, SequencesExt

CONSTANTS
  FailsAtOnce,      \* may a connection attempt fail within connectServer?
  StartsRunning,    \* may the application connect again without disconnecting?
  CoalesceReads,    \* may a response be read together with what follows it?
  MaxData           \* bound: pieces of tunnel data per connection

States == {"connecting", "hostLookup", "connected", "initializing", "register",
           "remoteConnected", "disconnecting", "disconnected"}

Responses == {"HelloResponse", "RegisterResponse", "refused"}
Data      == {"json", "raw"}
Requests  == {"none", "Hello", "RegisterClient"}

ASSUME StartsRunningAssumption == StartsRunning \subseteq BOOLEAN
ASSUME MaxDataAssumption == MaxData \in Nat

VARIABLES
  client,     \* the TunnelProxyRemoteConnection and its connections
  wire,       \* messages of the proxy that are not yet read
  answered,   \* the last request the proxy has answered
  sentData,   \* the tunnel data the proxy has sent on this connection
  dataReady   \* the tunnel data handed to the application (signal dataReady)

vars == <<client, wire, answered, sentData, dataReady>>

Buffers == Seq(Responses \cup Data)

ClientRecords == [
  transport : Transports,
  startsRunning : BOOLEAN,
  m_state : States,
  connection : Connections \cup {NoConnection},
  request : Requests,
  buffer : Buffers,
  doomed : SUBSET Connections,
  socket : [Connections -> SocketStates],
  connected : [Connections -> BOOLEAN]]

TypeOK ==
  /\ client \in ClientRecords
  /\ wire \in Buffers
  /\ answered \in Requests
  /\ sentData \in Seq(Data)
  /\ dataReady \in Buffers

Init ==
  /\ \E transport \in Transports, startsRunning \in StartsRunning :
     client = [
       transport |-> transport,
       startsRunning |-> startsRunning,
       m_state |-> "disconnected",
       connection |-> NoConnection,
       request |-> "none",
       buffer |-> <<>>,
       doomed |-> {},
       socket |-> NoSockets,
       connected |-> NotConnected]
  /\ wire = <<>>
  /\ answered = "none"
  /\ sentData = <<>>
  /\ dataReady = <<>>

-----------------------------------------------------------------------------
(* The slots.                                                              *)

SetState(s, state) == [s EXCEPT !.m_state = state]

CleanUp(s) ==
  SetState([Discarded(s) EXCEPT !.request = "none", !.buffer = <<>>], "disconnected")

OnConnectionChanged(s, connected) ==
  IF connected THEN [SetState(s, "initializing") EXCEPT !.request = "Hello"]
  ELSE CleanUp(s)

OnConnectionStateChanged_UnconnectedIgnored(s, state) ==
  IF state = "unconnected" THEN s
  ELSE SetState(s, IF state = "closing" THEN "disconnecting" ELSE state)

OnConnectionStateChanged(s, state) ==
  SetState(s, CASE state = "unconnected" -> "disconnected"
                [] state = "closing"     -> "disconnecting"
                [] OTHER                 -> state)

Connection == INSTANCE ProxyConnection

Reports(s, c, state) == Connection!OnStateChanged(s, c, state)

Disconnects(s) ==
  IF s.connection = NoConnection THEN {s}
  ELSE Connection!DisconnectServer(s, s.connection)

OnHelloFinished_Connected(s) ==
  [SetState(s, "remoteConnected") EXCEPT !.request = "RegisterClient"]

OnHelloFinished(s) == [SetState(s, "register") EXCEPT !.request = "RegisterClient"]

OnClientRegistrationFinished(s, success) ==
  IF success THEN {SetState([s EXCEPT !.request = "none"], "remoteConnected")}
  ELSE Disconnects([s EXCEPT !.request = "none"])

-----------------------------------------------------------------------------
(* The application.                                                        *)

Attempts(s) ==
  LET clean == CleanUp(s) IN
  UNION {LET tried == Connection!ConnectServer([clean EXCEPT !.connection = c], c)
         IN {tried} \cup (IF FailsAtOnce THEN {Reports(tried, c, "unconnected")} ELSE {}) :
         c \in Unused(clean)}

\* connectServer, with a new stream and a new session at the proxy.
Connect ==
  /\ client.startsRunning \/ client.m_state = "disconnected"
  /\ client' \in Attempts(client)
  /\ wire' = <<>>
  /\ answered' = "none"
  /\ sentData' = <<>>
  /\ dataReady' = <<>>

Disconnect ==
  /\ client' \in Disconnects(client)
  /\ wire' = <<>>
  /\ UNCHANGED <<answered, sentData, dataReady>>

-----------------------------------------------------------------------------
(* The event loop.                                                         *)

Ready(c) == client.doomed = {} /\ c = client.connection

SocketStep == UNCHANGED <<wire, answered, sentData, dataReady>>

DeferredDelete(c) ==
  /\ c \in client.doomed
  /\ client' \in Connection!Deleted(client, c)
  /\ SocketStep

HostFound(c) ==
  /\ Ready(c)
  /\ client.socket[c] = "hostLookup"
  /\ client' = Reports(client, c, "connecting")
  /\ SocketStep

SocketConnects(c) ==
  /\ Ready(c)
  /\ client.socket[c] = "connecting"
  /\ client' = Reports(client, c, "connected")
  /\ SocketStep

Encrypted(c) ==
  /\ Ready(c)
  /\ client.transport = "ssl" /\ client.socket[c] = "connected" /\ ~client.connected[c]
  /\ client' = Connection!OnEncrypted(client, c)
  /\ SocketStep

SocketGivesUp(c) ==
  /\ Ready(c)
  /\ client.socket[c] \in {"hostLookup", "connecting", "closing"}
  /\ client' = Reports(client, c, "unconnected")
  /\ SocketStep

\* The proxy closes the connection, behind all it has sent, or the network breaks it.
ConnectionLost(c) ==
  /\ Ready(c)
  /\ client.socket[c] = "connected"
  /\ client' = Connection!Closed(client, c)
  /\ wire' = <<>>
  /\ UNCHANGED <<answered, sentData, dataReady>>

\* The proxy answers the pending request; a refused client is disconnected by itself.
ProxyResponds ==
  /\ client.request # "none"
  /\ client.request # answered
  /\ answered' = client.request
  /\ \/ client.request = "Hello" /\ wire' = Append(wire, "HelloResponse")
     \/ client.request = "RegisterClient" /\ wire' = Append(wire, "RegisterResponse")
     \/ wire' = Append(wire, "refused")
  /\ UNCHANGED <<client, sentData, dataReady>>

\* Data from the server, once the client is registered.
ProxyForwards(d) ==
  /\ answered = "RegisterClient"
  /\ wire # <<>> => Last(wire) # "refused"
  /\ client.m_state \in {"register", "remoteConnected"}
  /\ Len(sentData) < MaxData
  /\ wire' = Append(wire, d)
  /\ sentData' = Append(sentData, d)
  /\ UNCHANGED <<client, answered, dataReady>>

\* JsonRpcClient::processData: the buffer is cut between a JSON message and one that
\* begins with a brace, so that raw data sticks to the message before it.
Starts(buffer) ==
  {k \in DOMAIN buffer : k = 1 \/ (buffer[k] # "raw" /\ buffer[k - 1] # "raw")}

\* The packet that begins at k.
Packet(buffer, k) ==
  SubSeq(buffer, k, Min({i \in k..Len(buffer) : i = Len(buffer) \/ i + 1 \in Starts(buffer)}))

\* One packet: the response to the pending request, or nothing the client knows.
ProcessPacket(s, packet) ==
  CASE s.request = "Hello" /\ packet = <<"HelloResponse">> -> {OnHelloFinished(s)}
    [] s.request = "RegisterClient" /\ packet = <<"RegisterResponse">> ->
         OnClientRegistrationFinished(s, TRUE)
    [] s.request # "none" /\ packet = <<"refused">> -> OnClientRegistrationFinished(s, FALSE)
    [] OTHER -> {s}

\* The buffer is used up when it ends with a brace; packets before that are handled anyway.
\* after[k]: what the packets that begin up to k may have led to.
ProcessJson(s, data) ==
  LET buffer  == s.buffer \o data
      handled == IF Last(buffer) # "raw" THEN Starts(buffer)
                 ELSE Starts(buffer) \ {Max(Starts(buffer))}
      rest    == IF Last(buffer) # "raw" THEN <<>> ELSE Packet(buffer, Max(Starts(buffer)))
      after[k \in 0..Len(buffer)] ==
        CASE k = 0 -> {[s EXCEPT !.buffer = rest]}
          [] k \in handled ->
               UNION {ProcessPacket(t, Packet(buffer, k)) : t \in after[k - 1]}
          [] OTHER -> after[k - 1]
  IN after[Len(buffer)]

OnConnectionDataAvailable_NoReturn(n) ==
  /\ Ready(client.connection)
  /\ client.connected[client.connection]
  /\ CoalesceReads \/ n = 1 \/ wire[1] \in Data
  /\ wire' = SubSeq(wire, n + 1, Len(wire))
  /\ IF client.m_state = "remoteConnected" THEN UNCHANGED client
     ELSE client' \in ProcessJson(client, SubSeq(wire, 1, n))
  /\ dataReady' = IF client'.m_state = "remoteConnected" THEN dataReady \o SubSeq(wire, 1, n)
                  ELSE dataReady
  /\ UNCHANGED <<answered, sentData>>

\* A read of n messages: onConnectionDataAvailable.
OnConnectionDataAvailable(n) ==
  /\ Ready(client.connection)
  /\ client.connected[client.connection]
  /\ CoalesceReads \/ n = 1 \/ wire[1] \in Data
  /\ wire' = SubSeq(wire, n + 1, Len(wire))
  /\ IF client.m_state = "remoteConnected"
     THEN dataReady' = dataReady \o SubSeq(wire, 1, n) /\ UNCHANGED client
     ELSE client' \in ProcessJson(client, SubSeq(wire, 1, n)) /\ UNCHANGED dataReady
  /\ UNCHANGED <<answered, sentData>>

-----------------------------------------------------------------------------

Next ==
  \/ Connect
  \/ Disconnect
  \/ \E c \in Connections : \/ DeferredDelete(c)
                            \/ HostFound(c)
                            \/ SocketConnects(c)
                            \/ Encrypted(c)
                            \/ SocketGivesUp(c)
                            \/ ConnectionLost(c)
  \/ ProxyResponds
  \/ \E d \in Data : ProxyForwards(d)
  \/ \E n \in DOMAIN wire : OnConnectionDataAvailable(n)

\* The event loop runs; a connection attempt ends, one way or the other; the proxy
\* answers, and what it sends is read.
Fairness ==
  /\ \A c \in Connections :
       /\ WF_vars(DeferredDelete(c))
       /\ WF_vars(HostFound(c) \/ SocketConnects(c) \/ Encrypted(c) \/ SocketGivesUp(c))
  /\ WF_vars(ProxyResponds)
  /\ WF_vars(\E n \in DOMAIN wire : OnConnectionDataAvailable(n))

Spec     == Init /\ [][Next]_vars
FairSpec == Spec /\ Fairness

-----------------------------------------------------------------------------

\* A remote connection that the application sees as connected is registered with the
\* proxy, over a connection that is up: sendData never writes tunnel data into a session
\* in which the proxy still expects requests.
RemoteConnectedIsRegistered ==
  client.m_state = "remoteConnected"
    => /\ answered = "RegisterClient"
       /\ client.connection # NoConnection
       /\ client.connected[client.connection]

\* "any further data will come from the connected server": while the tunnel is up the
\* application gets all the data of the server and nothing else, in its order.
TunnelDataComplete ==
  client.m_state = "remoteConnected" => dataReady \o wire = sentData

\* Every attempt over TCP comes to an end, if the application waits for the end of the one
\* before it: the tunnel is established, or the application is told that the connection is
\* gone.
AttemptSettles ==
  client.transport # "webSocket" /\ ~client.startsRunning
  /\ client.m_state \notin {"remoteConnected", "disconnected"}
    ~> client.m_state \in {"remoteConnected", "disconnected"}
=============================================================================
