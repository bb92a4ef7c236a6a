------------------------- MODULE TunnelProxyServer -------------------------
(***************************************************************************)
(* The connection core of nymea-remoteproxy: the TunnelProxyServer with    *)
(* the TunnelProxyClient, TunnelProxyServerConnection and                  *)
(* TunnelProxyClientConnection objects it owns, driven by the JSON-RPC     *)
(* requests and the socket and timer events of every connection.           *)
(*                                                                         *)
(* The program is one Qt event loop: a slot runs to completion.  Two       *)
(* things still interleave.                                                *)
(*   - One readyRead delivers several JSON packets (or SLIP frames); they  *)
(*     are handled in one loop even after one of them closed or lost the   *)
(*     connection.  "batch" is the connection whose data is in that loop.  *)
(*   - Closing a socket emits disconnected() at once when nothing is left  *)
(*     to send, and later otherwise.  Closing therefore only marks the     *)
(*     connection, and Disconnected is an action of its own that may also  *)
(*     come between two packets of a batch.                                *)
(*                                                                         *)
(* Abstractions.  A connection id stands for the QUuid the transport draws *)
(* for a new socket and for the objects made for it; it is used again only *)
(* after all of them are gone.  Names, peer addresses, counters and reply  *)
(* texts are left out.  Tunnelled payload leaves this state alone and is   *)
(* not an action here.  Timers fire at any time they are armed.            *)
(***************************************************************************)
EXTENDS Integers, FiniteSets

CONSTANTS
  ClientIds,        \* the connection ids
  Uuids,            \* the uuids a connection can register with
  NullUuid,         \* the null QUuid of a connection that has not registered
  NoClient,         \* the null pointer
  MaxAddress,       \* 0xFFFF: the largest quint16, which is never assigned
  ConnectionLimit,  \* m_connectionLimit, 100 in the code
  MaxVanished       \* bound: how many peers may be cut off at a time

ASSUME ClientIdsAssumption == IsFiniteSet(ClientIds) /\ NoClient \notin ClientIds
ASSUME UuidAssumption == NullUuid \notin Uuids
ASSUME AddressAssumption ==
  /\ MaxAddress \in Nat
  /\ ConnectionLimit \in Nat
  /\ ConnectionLimit <= MaxAddress

\* As many connections as the search for a free address can step over.
EnoughAddresses == Cardinality(ClientIds) <= ConnectionLimit

VARIABLES
  m_proxyClients,    \* the connections known to transport, proxy and JSON-RPC server
  closing,           \* those whose socket was closed and not yet reported
  vanished,          \* those whose peer is gone without closing the socket
  batch,             \* the connection whose received packets are being handled
  type,              \* TunnelProxyClient::m_type
  uuid,              \* TransportClient::m_uuid
  killRequested,     \* TransportClient::m_killConnectionRequested
  slipEnabled,       \* TransportClient::m_slipEnabled
  m_tunnelProxyServerConnections,   \* server uuid -> its connection
  m_tunnelProxyClientConnections,   \* client uuid -> its connection
  m_currentAddressCounter,          \* per server connection
  m_clientConnectionsAddresses,     \* per server connection: address -> client
  m_clientConnections,              \* per server connection: its clients
  serverConnection,  \* per client connection: the server it is tunnelled to
  socketAddress,     \* per client connection: its address on that server
  announced          \* per server connection: address -> client, as told to the peer

connectionVars == <<m_proxyClients, closing, vanished, batch>>
clientVars     == <<type, uuid, killRequested, slipEnabled>>
registryVars   == <<m_tunnelProxyServerConnections, m_tunnelProxyClientConnections>>
addressVars    == <<m_currentAddressCounter, m_clientConnectionsAddresses,
                    m_clientConnections, serverConnection, socketAddress, announced>>
vars == <<connectionVars, clientVars, registryVars, addressVars>>

Addresses  == 0..MaxAddress
ClientOrNo == ClientIds \cup {NoClient}
NoTable    == [a \in Addresses |-> NoClient]

TypeOK ==
  /\ m_proxyClients \subseteq ClientIds
  /\ closing \subseteq m_proxyClients
  /\ vanished \subseteq m_proxyClients
  /\ batch \in ClientOrNo
  /\ type \in [ClientIds -> {"none", "server", "client"}]
  /\ uuid \in [ClientIds -> Uuids \cup {NullUuid}]
  /\ killRequested \in [ClientIds -> BOOLEAN]
  /\ slipEnabled \in [ClientIds -> BOOLEAN]
  /\ m_tunnelProxyServerConnections \in [Uuids -> ClientOrNo]
  /\ m_tunnelProxyClientConnections \in [Uuids -> ClientOrNo]
  /\ m_currentAddressCounter \in [ClientIds -> Addresses]
  /\ m_clientConnectionsAddresses \in [ClientIds -> [Addresses -> ClientOrNo]]
  /\ m_clientConnections \in [ClientIds -> SUBSET ClientIds]
  /\ serverConnection \in [ClientIds -> ClientOrNo]
  /\ socketAddress \in [ClientIds -> Addresses]
  /\ announced \in [ClientIds -> [Addresses -> ClientOrNo]]

Init ==
  /\ m_proxyClients = {}
  /\ closing = {}
  /\ vanished = {}
  /\ batch = NoClient
  /\ type = [c \in ClientIds |-> "none"]
  /\ uuid = [c \in ClientIds |-> NullUuid]
  /\ killRequested = [c \in ClientIds |-> FALSE]
  /\ slipEnabled = [c \in ClientIds |-> FALSE]
  /\ m_tunnelProxyServerConnections = [u \in Uuids |-> NoClient]
  /\ m_tunnelProxyClientConnections = [u \in Uuids |-> NoClient]
  /\ m_currentAddressCounter = [c \in ClientIds |-> 0]
  /\ m_clientConnectionsAddresses = [c \in ClientIds |-> NoTable]
  /\ m_clientConnections = [c \in ClientIds |-> {}]
  /\ serverConnection = [c \in ClientIds |-> NoClient]
  /\ socketAddress = [c \in ClientIds |-> MaxAddress]
  /\ announced = [c \in ClientIds |-> NoTable]

-----------------------------------------------------------------------------
(* Sockets.                                                                *)

\* A socket was accepted: onSocketConnected of the transport, then onClientConnected.
\* The new objects are in their initial state, which Disconnected leaves behind.
OnClientConnected(c) ==
  /\ batch = NoClient
  /\ c \notin m_proxyClients
  /\ m_proxyClients' = m_proxyClients \cup {c}
  /\ UNCHANGED <<closing, vanished, batch, clientVars, registryVars, addressVars>>

\* The peer host is cut off: nothing more arrives and nothing is reported.
PeerVanishes(c) ==
  /\ batch = NoClient
  /\ c \in m_proxyClients \ vanished
  /\ Cardinality(vanished) < MaxVanished
  /\ vanished' = vanished \cup {c}
  /\ UNCHANGED <<m_proxyClients, closing, batch, clientVars, registryVars, addressVars>>

TimerArmed_UntilActivated(c) == type[c] = "none"
TimerArmed_OnceActivated(c) == type[c] = "server"

\* m_inactiveTimer: single shot from construction until activateClient, which stops
\* it for a client and restarts it, to be rearmed by received data, for a server.
TimerArmed(c) == type[c] # "client"

\* The timer expires and kills the connection.
InactiveTimeout(c) ==
  /\ batch = NoClient
  /\ c \in m_proxyClients \ closing
  /\ TimerArmed(c)
  /\ closing' = closing \cup {c}
  /\ UNCHANGED <<m_proxyClients, vanished, batch, clientVars, registryVars, addressVars>>

\* The sockets a slot of the batch may have written to: its own, that of the server of a
\* client, those of the clients of a server.  A failing write reports them disconnected
\* before the slot returns.
WrittenInBatch(c) ==
  batch # NoClient /\ (c \in {batch, serverConnection[batch]} \/ c \in m_clientConnections[batch])

Detached_ClientOnly(c) == IF serverConnection[c] # NoClient THEN {c} ELSE {}

\* The clients that onClientDisconnected(c) detaches from a server connection,
\* each with unregisterClientConnection: all those of a server, or c itself.
Detached(c) == IF type[c] = "server" THEN m_clientConnections[c]
               ELSE IF serverConnection[c] # NoClient THEN {c} ELSE {}

ClosedWith_Nothing(c) == {}

\* The sockets onClientDisconnected(c) closes: those of a server's clients.
ClosedWith(c) == IF type[c] = "server" THEN m_clientConnections[c] ELSE {}

AnnounceDisconnected_AfterUnregister(c) ==
  [s \in ClientIds |->
    IF s = c THEN NoTable
    ELSE IF type[c] = "client" /\ s = serverConnection[c] /\ s \notin closing
      THEN [announced[s] EXCEPT ![MaxAddress] = NoClient]
      ELSE announced[s]]

\* sendNotification("ClientDisconnected"): written unless the server's socket is closed.
\* The address is the one read before unregisterClientConnection resets it.
AnnounceDisconnected(c) ==
  [s \in ClientIds |->
    IF s = c THEN NoTable
    ELSE IF type[c] = "client" /\ s = serverConnection[c] /\ s \notin closing
      THEN [announced[s] EXCEPT ![socketAddress[c]] = NoClient]
      ELSE announced[s]]

\* onClientDisconnected: a server takes its clients' tunnels with it and closes their
\* sockets, a client leaves its server's tables; every object of c is deleted.
Disconnected(c) ==
  LET detached == Detached(c)
      server(d) == serverConnection[d]
  IN
  /\ c \in m_proxyClients
  /\ batch = NoClient \/ c \in closing \/ WrittenInBatch(c)
  /\ m_proxyClients' = m_proxyClients \ {c}
  /\ vanished' = vanished \ {c}
  /\ closing' = (closing \cup ClosedWith(c)) \ {c}
  /\ type' = [type EXCEPT ![c] = "none"]
  /\ uuid' = [uuid EXCEPT ![c] = NullUuid]
  /\ killRequested' = [killRequested EXCEPT ![c] = FALSE]
  /\ slipEnabled' = [slipEnabled EXCEPT ![c] = FALSE]
  /\ m_tunnelProxyServerConnections' =
       [u \in Uuids |-> IF type[c] = "server" /\ u = uuid[c] THEN NoClient
                        ELSE m_tunnelProxyServerConnections[u]]
  /\ m_tunnelProxyClientConnections' =
       [u \in Uuids |-> IF type[c] = "client" /\ u = uuid[c] THEN NoClient
                        ELSE m_tunnelProxyClientConnections[u]]
  /\ m_currentAddressCounter' = [m_currentAddressCounter EXCEPT ![c] = 0]
  /\ m_clientConnectionsAddresses' =
       [s \in ClientIds |-> IF s = c THEN NoTable ELSE
         [a \in Addresses |->
           IF \E d \in detached : server(d) = s /\ socketAddress[d] = a
           THEN NoClient ELSE m_clientConnectionsAddresses[s][a]]]
  /\ m_clientConnections' =
       [s \in ClientIds |-> IF s = c THEN {} ELSE m_clientConnections[s] \ detached]
  /\ serverConnection' =
       [d \in ClientIds |-> IF d \in detached \cup {c} THEN NoClient ELSE serverConnection[d]]
  /\ socketAddress' =
       [d \in ClientIds |-> IF d \in detached \cup {c} THEN MaxAddress ELSE socketAddress[d]]
  /\ announced' = AnnounceDisconnected(c)
  /\ UNCHANGED batch

-----------------------------------------------------------------------------
(* Packets.                                                                *)

\* A packet of c reaches the JSON-RPC server: the first of newly received data,
\* or the next one of the batch.  Data of a registered client is tunnelled instead.
Processing(c) ==
  /\ c \in m_proxyClients
  /\ \/ batch = c
     \/ batch = NoClient /\ c \notin closing \cup vanished /\ type[c] # "client"
  /\ batch' = c
  /\ UNCHANGED <<m_proxyClients, vanished>>

\* All packets of the received data are handled.
EndOfData ==
  /\ batch # NoClient
  /\ batch' = NoClient
  /\ UNCHANGED <<m_proxyClients, closing, vanished, clientVars, registryVars, addressVars>>

\* The received data overflows the packet buffer: no packet of it is handled.
BufferViolation(c) ==
  /\ batch = NoClient
  /\ c \in m_proxyClients \ (closing \cup vanished)
  /\ type[c] # "client" /\ ~slipEnabled[c]
  /\ closing' = closing \cup {c}
  /\ UNCHANGED <<m_proxyClients, vanished, batch, clientVars, registryVars, addressVars>>

\* Not JSON, no id, no such namespace or method, or invalid params.
MalformedPacket(c) ==
  /\ Processing(c)
  /\ closing' = closing \cup {c}
  /\ UNCHANGED <<clientVars, registryVars, addressVars>>

\* The response to a request of c is sent; then the connection is closed if any request
\* so far asked for it (kill: this one does), or else SLIP is switched on (slip: this
\* request asks for it).  "others" are the sockets the request itself closed.
Respond(c, kill, slip, others) ==
  /\ killRequested' = [killRequested EXCEPT ![c] = killRequested[c] \/ kill]
  /\ IF killRequested[c] \/ kill
     THEN closing' = closing \cup others \cup {c} /\ UNCHANGED slipEnabled
     ELSE /\ closing' = closing \cup others
          /\ slipEnabled' = [slipEnabled EXCEPT ![c] = slipEnabled[c] \/ slip]

\* A request that changes nothing else: Hello, Introspect, Ping, or a registration
\* with a null uuid (InvalidUuid).
PlainRequest(c) ==
  /\ Processing(c)
  /\ Respond(c, FALSE, FALSE, {})
  /\ UNCHANGED <<type, uuid, registryVars, addressVars>>

UuidInUse(u) ==
  \/ m_tunnelProxyServerConnections[u] # NoClient
  \/ m_tunnelProxyClientConnections[u] # NoClient

CanRegisterServer_NoCrossCheck(c, u) ==
  type[c] = "none" /\ m_tunnelProxyServerConnections[u] = NoClient
CanRegisterServer_NoTypeCheck(c, u) == ~UuidInUse(u)

\* The three checks of registerServer.
CanRegisterServer(c, u) == type[c] = "none" /\ ~UuidInUse(u)

\* Registered: the inactivity timer changes its mode with the type, and SLIP is
\* switched on behind the response.
RegisterServer(c, u) ==
  /\ Processing(c)
  /\ CanRegisterServer(c, u)
  /\ type' = [type EXCEPT ![c] = "server"]
  /\ uuid' = [uuid EXCEPT ![c] = u]
  /\ m_tunnelProxyServerConnections' = [m_tunnelProxyServerConnections EXCEPT ![u] = c]
  /\ Respond(c, FALSE, TRUE, {})
  /\ UNCHANGED <<m_tunnelProxyClientConnections, addressVars>>

\* AlreadyRegistered, or a uuid in use on either side.
RefuseServer(c, u) ==
  /\ Processing(c)
  /\ ~CanRegisterServer(c, u)
  /\ Respond(c, TRUE, FALSE, {})
  /\ UNCHANGED <<type, uuid, registryVars, addressVars>>

\* quint16 arithmetic on addresses.
Wrap(n) == IF n > MaxAddress THEN n - (MaxAddress + 1) ELSE n

AddressTaken_IgnoresReserved(s, a) ==
  m_clientConnectionsAddresses[s][a] # NoClient \/ a = 0

\* An address getFreeAddress steps over: in use, or one of the two reserved ones.
AddressTaken(s, a) ==
  m_clientConnectionsAddresses[s][a] # NoClient \/ a = 0 \/ a = MaxAddress

IsFreeAddress_NoSearch(s, a) == a = Wrap(m_currentAddressCounter[s] + 1)

\* getFreeAddress: count on from the last assigned address, over the taken ones, for
\* at most ConnectionLimit steps; then the address is used as it is.
IsFreeAddress(s, a) ==
  LET candidate(i) == Wrap(Wrap(m_currentAddressCounter[s] + 1) + i)
  IN \E i \in 0..ConnectionLimit :
       /\ a = candidate(i)
       /\ \A j \in 0..(i - 1) : AddressTaken(s, candidate(j))
       /\ i = ConnectionLimit \/ ~AddressTaken(s, a)

CanRegisterClient_NoTypeCheck(c, u, v) ==
  ~UuidInUse(u) /\ m_tunnelProxyServerConnections[v] # NoClient

\* The four checks of registerClient: v is the uuid of the server it wants.
CanRegisterClient(c, u, v) ==
  type[c] = "none" /\ ~UuidInUse(u) /\ m_tunnelProxyServerConnections[v] # NoClient

\* registerClientConnection of the server connection: the address is assigned and
\* both tables and the client's back references are set.
RegisterClientConnection(s, c, a) ==
  /\ m_currentAddressCounter' =
       [m_currentAddressCounter EXCEPT ![s] = Wrap(m_currentAddressCounter[s] + 1)]
  /\ m_clientConnectionsAddresses' =
       [m_clientConnectionsAddresses EXCEPT ![s] = [m_clientConnectionsAddresses[s] EXCEPT ![a] = c]]
  /\ m_clientConnections' = [m_clientConnections EXCEPT ![s] = m_clientConnections[s] \cup {c}]
  /\ serverConnection' = [serverConnection EXCEPT ![c] = s]
  /\ socketAddress' = [socketAddress EXCEPT ![c] = a]

\* sendNotification("ClientConnected"): written unless the server's socket is closed.
AnnounceConnected(s, c, a) ==
  announced' = IF s \in closing THEN announced
               ELSE [announced EXCEPT ![s] = [announced[s] EXCEPT ![a] = c]]

\* Registered: tunnelled to the server, which is told before the client is answered.
RegisterClient(c, u, v) ==
  LET s == m_tunnelProxyServerConnections[v] IN
  /\ Processing(c)
  /\ CanRegisterClient(c, u, v)
  /\ type' = [type EXCEPT ![c] = "client"]
  /\ uuid' = [uuid EXCEPT ![c] = u]
  /\ m_tunnelProxyClientConnections' = [m_tunnelProxyClientConnections EXCEPT ![u] = c]
  /\ \E a \in Addresses :
       /\ IsFreeAddress(s, a)
       /\ RegisterClientConnection(s, c, a)
       /\ AnnounceConnected(s, c, a)
  /\ Respond(c, FALSE, FALSE, {})
  /\ UNCHANGED m_tunnelProxyServerConnections

\* AlreadyRegistered, a uuid in use on either side, or ServerNotFound.
RefuseClient(c, u, v) ==
  /\ Processing(c)
  /\ ~CanRegisterClient(c, u, v)
  /\ Respond(c, TRUE, FALSE, {})
  /\ UNCHANGED <<type, uuid, registryVars, addressVars>>

DisconnectTargets_NoNullCheck(c, a) ==
  IF type[c] = "server" THEN {m_clientConnectionsAddresses[c][a]} ELSE {}

\* getClientConnection: the client of server c at address a, if there is one.
DisconnectTargets(c, a) ==
  IF type[c] = "server" THEN {m_clientConnectionsAddresses[c][a]} \ {NoClient} ELSE {}

\* disconnectClient: a server closes the socket of its client at address a; any other
\* connection is itself closed after the response.
DisconnectClient(c, a) ==
  /\ Processing(c)
  /\ Respond(c, type[c] # "server", FALSE, DisconnectTargets(c, a))
  /\ UNCHANGED <<type, uuid, registryVars, addressVars>>

-----------------------------------------------------------------------------

SocketEvent(c) ==
  \/ OnClientConnected(c)
  \/ PeerVanishes(c)
  \/ InactiveTimeout(c)
  \/ Disconnected(c)
  \/ BufferViolation(c)

Request(c) ==
  \/ MalformedPacket(c)
  \/ PlainRequest(c)
  \/ \E u \in Uuids : RegisterServer(c, u) \/ RefuseServer(c, u)
  \/ \E u, v \in Uuids : RegisterClient(c, u, v) \/ RefuseClient(c, u, v)
  \/ \E a \in Addresses : DisconnectClient(c, a)

Next ==
  \/ EndOfData
  \/ \E c \in ClientIds : SocketEvent(c) \/ Request(c)

Spec == Init /\ [][Next]_vars

\* The event loop runs: a readyRead slot ends, a closed socket is reported, and the
\* inactivity timer of a connection that never registers, or of a server that has
\* fallen silent, expires in some turn of the loop.  Nothing is assumed of peers.
Fairness ==
  /\ WF_vars(EndOfData)
  /\ \A c \in ClientIds : WF_vars(c \in closing /\ Disconnected(c))
  /\ \A c \in ClientIds : SF_vars(type[c] = "none" /\ InactiveTimeout(c))
  /\ \A c \in ClientIds : SF_vars(c \in vanished /\ InactiveTimeout(c))

FairSpec == Spec /\ Fairness

-----------------------------------------------------------------------------
(* Safety.                                                                 *)

\* A uuid belongs to one connection at most, in one role, and the two lookup tables
\* agree with what every connection says of itself (registerServer, registerClient,
\* onClientDisconnected): no stale entry survives, no registered connection is lost.
UuidOwnership ==
  /\ \A u \in Uuids, c \in ClientIds :
       /\ m_tunnelProxyServerConnections[u] = c <=> type[c] = "server" /\ uuid[c] = u
       /\ m_tunnelProxyClientConnections[u] = c <=> type[c] = "client" /\ uuid[c] = u
  /\ \A u \in Uuids : m_tunnelProxyServerConnections[u] = NoClient
                    \/ m_tunnelProxyClientConnections[u] = NoClient
  /\ \A c \in ClientIds : /\ type[c] # "none" => c \in m_proxyClients
                          /\ uuid[c] = NullUuid <=> type[c] = "none"

\* The address table of a server, its list of clients and the clients' own back
\* references describe the same tunnels, so data is routed the same way in both
\* directions (getClientConnection against socketAddress and serverConnection), and
\* the JSON-RPC address 0 and the unassigned address 0xFFFF are never given out.
TunnelTablesAgree ==
  /\ \A s \in ClientIds, a \in Addresses, c \in ClientIds :
       m_clientConnectionsAddresses[s][a] = c
         <=> serverConnection[c] = s /\ socketAddress[c] = a
  /\ \A s, c \in ClientIds : c \in m_clientConnections[s] <=> serverConnection[c] = s
  /\ \A c \in ClientIds : serverConnection[c] # NoClient =>
       /\ type[c] = "client" /\ type[serverConnection[c]] = "server"
       /\ socketAddress[c] \notin {0, MaxAddress}

\* The assertion of onClientDataAvailable: a client whose socket still delivers data
\* has a server connection, so clients lose it only when their socket is closed.
DataHasServer ==
  \A c \in ClientIds :
    type[c] = "client" /\ c \notin closing => serverConnection[c] # NoClient

\* What a server was told by ClientConnected and ClientDisconnected is what the proxy
\* routes by, address for address, and it can read it: SLIP is on for every registered
\* server whose socket is open, so the frames it is sent are what it expects.  Who is
\* no server has been told of no tunnel.
ServerViewMatches ==
  \A s \in ClientIds :
    /\ type[s] = "server" /\ s \notin closing =>
         announced[s] = m_clientConnectionsAddresses[s] /\ slipEnabled[s]
    /\ type[s] # "server" => announced[s] = NoTable

-----------------------------------------------------------------------------
(* The statistics the monitor shows.                                       *)

\* Servers without clients are listed on request only.
TunnelConnections(printAll) ==
  {[server |-> s, clientConnections |-> m_clientConnections[s]] :
     s \in {m_tunnelProxyServerConnections[u] : u \in Uuids} \ {NoClient}}
  \ (IF printAll THEN {} ELSE [server : ClientIds, clientConnections : {{}}])

\* currentStatistics, without the traffic.
currentStatistics(printAll) ==
  [totalClientCount |-> Cardinality(m_proxyClients),
   serverConnectionsCount |->
     Cardinality({u \in Uuids : m_tunnelProxyServerConnections[u] # NoClient}),
   clientConnectionsCount |->
     Cardinality({u \in Uuids : m_tunnelProxyClientConnections[u] # NoClient}),
   tunnelConnections |-> TunnelConnections(printAll)]

\* Whenever currentStatistics is called, all it dereferences is alive, and its numbers
\* agree: each client it counts is listed under a server, or its socket is being
\* closed because its server is gone; servers it leaves out have no clients.
StatisticsAgree ==
  LET all    == currentStatistics(TRUE)
      listed == UNION {t.clientConnections : t \in all.tunnelConnections}
      orphans == {c \in closing : type[c] = "client" /\ serverConnection[c] = NoClient}
  IN /\ listed \cup {t.server : t \in all.tunnelConnections} \subseteq m_proxyClients
     /\ Cardinality(all.tunnelConnections) = all.serverConnectionsCount
     /\ Cardinality(listed) + Cardinality(orphans) = all.clientConnectionsCount
     /\ all.serverConnectionsCount + all.clientConnectionsCount <= all.totalClientCount
     /\ \A t \in all.tunnelConnections \ currentStatistics(FALSE).tunnelConnections :
          t.clientConnections = {}

-----------------------------------------------------------------------------
(* Action properties.                                                      *)

\* A tunnel is never moved or renumbered: it ends only when the connection of its
\* client or of its server is removed, whatever else the peers request.
TunnelEndsWithPeer ==
  [][\A c \in ClientIds :
       serverConnection[c] # NoClient
         => \/ <<serverConnection[c], socketAddress[c]>>' = <<serverConnection[c], socketAddress[c]>>
            \/ {c, serverConnection[c]} \ m_proxyClients' # {}]_vars

\* A connection keeps the role and the uuid it registered with until it is removed,
\* and SLIP, once on, stays on: a second registration is refused, not applied.
RoleIsFinal ==
  [][\A c \in m_proxyClients \cap m_proxyClients' :
       /\ type[c] # "none" => type'[c] = type[c] /\ uuid'[c] = uuid[c]
       /\ slipEnabled[c] => slipEnabled'[c]]_vars

\* The assertion of getFreeAddress: the address of a new client is not in use.
FreeAddressAssertion ==
  [][\A s \in ClientIds, a \in Addresses :
       m_clientConnectionsAddresses[s][a] # NoClient
         => m_clientConnectionsAddresses'[s][a] \in {m_clientConnectionsAddresses[s][a], NoClient}]_vars

-----------------------------------------------------------------------------
(* Liveness.                                                               *)

\* A connection that never registers does not hold its socket forever, however busy
\* it is: it registers or it is removed.
UnregisteredLeaves ==
  \A c \in ClientIds :
    c \in m_proxyClients /\ type[c] = "none" ~> c \notin m_proxyClients \/ type[c] # "none"

\* A client whose server is gone is removed, which frees its uuid for its next attempt.
OrphanLeaves ==
  \A c \in ClientIds :
    type[c] = "client" /\ serverConnection[c] = NoClient ~> c \notin m_proxyClients

\* The uuid of a server whose host was cut off is freed, so that it can register again.
VanishedServerFreed ==
  \A c \in ClientIds : c \in vanished /\ type[c] = "server" ~> c \notin m_proxyClients

-----------------------------------------------------------------------------
(* The connections and the server's tables implement a registry of tunnels. *)

tunnels == {t \in [server : ClientIds, address : Addresses, client : ClientIds] :
              m_clientConnectionsAddresses[t.server][t.address] = t.client}

Registry == INSTANCE TunnelRegistry WITH
  Connections <- ClientIds, Nobody <- NoClient,
  servers <- m_tunnelProxyServerConnections, clients <- m_tunnelProxyClientConnections

\* Every step of the proxy is one step of the registry, or leaves it alone.
ImplementsRegistry == Registry!Spec
=============================================================================
