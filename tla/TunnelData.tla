------------------------------ MODULE TunnelData ------------------------------
(***************************************************************************)
(* Data on its way through the tunnels of one server: from the application *)
(* of a client over TunnelProxyRemoteConnection, the proxy and             *)
(* TunnelProxySocketServer to the TunnelProxySocket the application of the *)
(* server has for that client, and back.                                   *)
(*                                                                         *)
(* The steps are those of whole messages.  How requests and frames are cut *)
(* into bytes is the matter of ServerUplink and ServerDownlink, how a      *)
(* connection is made and registered that of TunnelProxySocketServer and   *)
(* TunnelProxyRemoteConnection: here a client is a connection that         *)
(* registers once, and the server registers again when its connection is   *)
(* lost.  What a client or the server's application writes for a client is *)
(* numbered, so that its place and its owner can be told.                  *)
(*                                                                         *)
(* Addresses and data are values here: that the proxy forwards the frame   *)
(* of a server as it was escaped, and so alters data with protocol bytes   *)
(* and misses an address that has one, is shown by ServerUplink.           *)
(***************************************************************************)
EXTENDS Integers, Functions, SequencesExt, FiniteSetsExt

CONSTANTS
  Clients,
  NoClient,
  Reserved,      \* 0xFFFF, the last address and never given to a client
  MaxData,       \* bound: what is written by all clients and for all clients
  MaxServers     \* bound: how often the server registers

ASSUME ConstantsAssumption ==
  /\ Reserved \in Nat \ {0} /\ NoClient \notin Clients
  /\ MaxData \in Nat /\ MaxServers \in Nat \ {0}

VARIABLES
  tunnel,                  \* a client's connection at the proxy
  socketAddress,           \* its address, Reserved if it has none
  m_currentAddressCounter,
  serverConnection,        \* does the proxy know the server?
  registrations,           \* how often it has registered
  running,                 \* TunnelProxySocketServer::running
  m_tunnelProxySockets,    \* the client of each address, in the library of the server
  m_echo,                  \* does the server's application send back all data?
  fromClient, toClient,    \* data between clients and proxy
  toServer, fromServer,    \* messages between proxy and server
  written, received,       \* data of each client: written by it, got by the server
  answered, delivered,     \* written by the server for it, got by it
  promised,                \* written before the server asked to disconnect it
  early                    \* history: clients that got an address that was not settled

proxyVars    == <<tunnel, socketAddress, m_currentAddressCounter, serverConnection, registrations>>
libraryVars  == <<running, m_tunnelProxySockets, m_echo>>
networkVars  == <<fromClient, toClient, toServer, fromServer>>
progressVars == <<written, received, answered, delivered, promised>>
vars         == <<proxyVars, libraryVars, networkVars, progressVars, early>>

Addresses == 0..Reserved
Data      == [client : Clients, number : Nat]
Frames    == [message : {"data"}, address : Addresses, data : Data]

\* Messages to the server and from it.
ProxyMessages ==
  Frames \cup [message : {"ClientConnected"}, address : Addresses, client : Clients]
         \cup [message : {"ClientDisconnected"}, address : Addresses]
ServerMessages == Frames \cup [message : {"DisconnectClient"}, address : Addresses]

\* No request to disconnect the client yet.
NotAsked == -1

TypeOK ==
  /\ tunnel \in [Clients -> {"none", "open", "closing", "closed"}]
  /\ socketAddress \in [Clients -> Addresses]
  /\ m_currentAddressCounter \in Addresses
  /\ serverConnection \in BOOLEAN /\ running \in BOOLEAN /\ m_echo \in BOOLEAN
  /\ registrations \in 1..MaxServers
  /\ m_tunnelProxySockets \in [Addresses -> Clients \cup {NoClient}]
  /\ m_tunnelProxySockets[0] = NoClient /\ m_tunnelProxySockets[Reserved] = NoClient
  /\ fromClient \in [Clients -> Seq(Data)] /\ toClient \in [Clients -> Seq(Data)]
  /\ toServer \in Seq(ProxyMessages) /\ fromServer \in Seq(ServerMessages)
  /\ written \in [Clients -> Nat] /\ answered \in [Clients -> Nat]
  /\ promised \in [Clients -> Nat \cup {NotAsked}]
  /\ received \in [Clients -> Seq(Data)] /\ delivered \in [Clients -> Seq(Data)]
  /\ early \subseteq Clients

NoSockets == [a \in Addresses |-> NoClient]

Sum(counts) == FoldFunction(LAMBDA x, y : x + y, 0, counts)
Amount      == Sum(written) + Sum(answered)

\* The server has registered and runs.
Init ==
  /\ tunnel = [c \in Clients |-> "none"]
  /\ socketAddress = [c \in Clients |-> Reserved]
  /\ m_currentAddressCounter = 0
  /\ serverConnection = TRUE /\ registrations = 1
  /\ running = TRUE
  /\ m_tunnelProxySockets = NoSockets
  /\ m_echo \in BOOLEAN
  /\ fromClient = [c \in Clients |-> <<>>] /\ toClient = [c \in Clients |-> <<>>]
  /\ toServer = <<>> /\ fromServer = <<>>
  /\ written = [c \in Clients |-> 0] /\ received = [c \in Clients |-> <<>>]
  /\ answered = [c \in Clients |-> 0] /\ delivered = [c \in Clients |-> <<>>]
  /\ promised = [c \in Clients |-> NotAsked]
  /\ early = {}

-----------------------------------------------------------------------------
(* The proxy.                                                              *)

Taken(a) == a \in Range(socketAddress) \cup {0, Reserved}

Wrap(n) == n % (Reserved + 1)

IsFreeAddress_InUse(counter, a) ==
  \E i \in 0..Reserved :
    /\ a = Wrap(counter + i) /\ a \notin {0, Reserved}
    /\ \A j \in 0..(i - 1) : Wrap(counter + j) \in {0, Reserved}

\* getFreeAddress: the first one from the counter on that is not taken.  (That all are
\* taken is the matter of TunnelProxyServer.)
IsFreeAddress(counter, a) ==
  \E i \in 0..Reserved :
    /\ a = Wrap(counter + i) /\ ~Taken(a)
    /\ \A j \in 0..(i - 1) : Taken(Wrap(counter + j))

\* Nothing of the last client of an address is left: the library has no socket for it, and
\* no message about it is under way.
Settled(a) ==
  /\ m_tunnelProxySockets[a] = NoClient
  /\ \A i \in DOMAIN toServer : toServer[i].address # a
  /\ \A i \in DOMAIN fromServer : fromServer[i].address # a

\* A client registers: the server is told its address.
RegisterClient(c) ==
  /\ tunnel[c] = "none"
  /\ serverConnection
  /\ m_currentAddressCounter' = Wrap(m_currentAddressCounter + 1)
  /\ \E address \in Addresses :
       /\ IsFreeAddress(m_currentAddressCounter', address)
       /\ socketAddress' = [socketAddress EXCEPT ![c] = address]
       /\ toServer' = Append(toServer, [message |-> "ClientConnected", address |-> address,
                                        client |-> c])
       /\ early' = IF Settled(address) THEN early ELSE early \cup {c}
  /\ tunnel' = [tunnel EXCEPT ![c] = "open"]
  /\ UNCHANGED <<serverConnection, registrations, libraryVars, fromClient, toClient, fromServer,
                 progressVars>>

\* Data of a client goes to the server in a frame with the client's address.
ReceiveFromClient(c) ==
  /\ tunnel[c] = "open" /\ fromClient[c] # <<>>
  /\ toServer' = Append(toServer, [message |-> "data", address |-> socketAddress[c],
                                   data |-> Head(fromClient[c])])
  /\ fromClient' = [fromClient EXCEPT ![c] = Tail(@)]
  /\ UNCHANGED <<proxyVars, libraryVars, toClient, fromServer, progressVars, early>>

\* getClientConnection.
ClientAt(a) == {c \in Clients : socketAddress[c] = a /\ a # Reserved}

\* A frame of the server for a client.  A socket that is being closed takes no data.
SendTo(Targets, data) ==
  toClient' = [c \in Clients |-> IF c \in Targets /\ tunnel[c] = "open" THEN Append(toClient[c], data)
                                 ELSE toClient[c]]

\* killConnection closes a socket behind the data already written to it.
Kill_Aborts(Targets) ==
  /\ tunnel' = [c \in Clients |-> IF c \in Targets /\ tunnel[c] = "open" THEN "closing" ELSE tunnel[c]]
  /\ toClient' = [c \in Clients |-> IF c \in Targets THEN <<>> ELSE toClient[c]]

Kill(Targets) ==
  /\ tunnel' = [c \in Clients |-> IF c \in Targets /\ tunnel[c] = "open" THEN "closing" ELSE tunnel[c]]
  /\ UNCHANGED toClient

ReceiveFromServer_StopsAtUnknown ==
  /\ serverConnection /\ fromServer # <<>>
  /\ LET frame == Head(fromServer) IN
       /\ IF frame.message = "data"
          THEN SendTo(ClientAt(frame.address), frame.data) /\ UNCHANGED tunnel
          ELSE Kill(ClientAt(frame.address))
       /\ fromServer' = IF ClientAt(frame.address) = {} THEN <<>> ELSE Tail(fromServer)
  /\ UNCHANGED <<socketAddress, m_currentAddressCounter, serverConnection, registrations,
                 libraryVars, fromClient, toServer, progressVars, early>>

\* Frames for addresses without a client are dropped, requests for them refused.
ReceiveFromServer ==
  /\ serverConnection /\ fromServer # <<>>
  /\ LET frame == Head(fromServer) IN
       IF frame.message = "data"
       THEN SendTo(ClientAt(frame.address), frame.data) /\ UNCHANGED tunnel
       ELSE Kill(ClientAt(frame.address))
  /\ fromServer' = Tail(fromServer)
  /\ UNCHANGED <<socketAddress, m_currentAddressCounter, serverConnection, registrations,
                 libraryVars, fromClient, toServer, progressVars, early>>

\* A client's connection ends, from either side.  What the client has not read may be lost,
\* if it is the one to go.
ClientDisconnected(c) ==
  /\ tunnel[c] \in {"open", "closing"}
  /\ tunnel' = [tunnel EXCEPT ![c] = "closed"]
  /\ socketAddress' = [socketAddress EXCEPT ![c] = Reserved]
  /\ fromClient' = [fromClient EXCEPT ![c] = <<>>]
  /\ toClient' \in {toClient, [toClient EXCEPT ![c] = <<>>]}
  /\ toServer' = IF socketAddress[c] = Reserved THEN toServer
                 ELSE Append(toServer, [message |-> "ClientDisconnected",
                                        address |-> socketAddress[c]])
  /\ UNCHANGED <<m_currentAddressCounter, serverConnection, registrations, libraryVars, fromServer,
                 progressVars, early>>

\* The proxy loses its server, and closes the clients of it.
ServerDisconnected ==
  /\ serverConnection
  /\ serverConnection' = FALSE
  /\ fromServer' = <<>>
  /\ Kill({c \in Clients : socketAddress[c] # Reserved})
  /\ socketAddress' = [c \in Clients |-> Reserved]
  /\ UNCHANGED <<m_currentAddressCounter, registrations, libraryVars, fromClient, toServer,
                 progressVars, early>>

\* The server registers anew, with a new TunnelProxyServerConnection.
RegisterServer ==
  /\ ~serverConnection /\ ~running
  /\ registrations < MaxServers
  /\ registrations' = registrations + 1
  /\ serverConnection' = TRUE /\ running' = TRUE
  /\ m_currentAddressCounter' = 0
  /\ toServer' = <<>> /\ fromServer' = <<>>
  /\ UNCHANGED <<tunnel, socketAddress, m_tunnelProxySockets, m_echo, fromClient, toClient,
                 progressVars, early>>

-----------------------------------------------------------------------------
(* The server: library and application.                                    *)

\* writeData of the socket with this address.
WriteData(a) ==
  LET client == m_tunnelProxySockets[a] IN
  /\ answered' = [answered EXCEPT ![client] = @ + 1]
  /\ fromServer' = Append(fromServer, [message |-> "data", address |-> a,
                            data |-> [client |-> client, number |-> answered[client] + 1]])

\* Data for an unknown address is ignored.  An application that echoes answers at once.
OnFrame(frame) ==
  LET client == m_tunnelProxySockets[frame.address] IN
  /\ received' = IF client = NoClient THEN received
                 ELSE [received EXCEPT ![client] = Append(@, frame.data)]
  /\ IF m_echo /\ client # NoClient /\ Amount < MaxData THEN WriteData(frame.address)
     ELSE UNCHANGED <<answered, fromServer>>
  /\ UNCHANGED m_tunnelProxySockets

OnTunnelProxyClientConnected(frame) ==
  /\ m_tunnelProxySockets' = [m_tunnelProxySockets EXCEPT ![frame.address] = frame.client]
  /\ UNCHANGED <<received, answered, fromServer>>

OnTunnelProxyClientDisconnected(frame) ==
  /\ m_tunnelProxySockets' = [m_tunnelProxySockets EXCEPT ![frame.address] = NoClient]
  /\ UNCHANGED <<received, answered, fromServer>>

\* The library takes the next message from the proxy.
OnConnectionDataAvailable ==
  /\ running /\ toServer # <<>>
  /\ LET frame == Head(toServer) IN
       CASE frame.message = "data" -> OnFrame(frame)
         [] frame.message = "ClientConnected" -> OnTunnelProxyClientConnected(frame)
         [] frame.message = "ClientDisconnected" -> OnTunnelProxyClientDisconnected(frame)
  /\ toServer' = Tail(toServer)
  /\ UNCHANGED <<proxyVars, running, m_echo, fromClient, toClient, written, delivered, promised,
                 early>>

\* The application writes to a socket without being asked.
ApplicationWrites(a) ==
  /\ ~m_echo
  /\ m_tunnelProxySockets[a] # NoClient
  /\ Amount < MaxData
  /\ WriteData(a)
  /\ UNCHANGED <<proxyVars, libraryVars, fromClient, toClient, toServer, written, received,
                 delivered, promised, early>>

\* disconnectSocket.  (Bound: once for each client.)
RequestSocketDisconnect(a) ==
  /\ m_tunnelProxySockets[a] # NoClient
  /\ promised[m_tunnelProxySockets[a]] = NotAsked
  /\ promised' = [promised EXCEPT ![m_tunnelProxySockets[a]] = answered[m_tunnelProxySockets[a]]]
  /\ fromServer' = Append(fromServer, [message |-> "DisconnectClient", address |-> a])
  /\ UNCHANGED <<proxyVars, libraryVars, fromClient, toClient, toServer, written, received,
                 answered, delivered, early>>

\* cleanUp: the library has lost the proxy.
CleanUp ==
  /\ running
  /\ running' = FALSE
  /\ m_tunnelProxySockets' = NoSockets
  /\ toServer' = <<>>
  /\ UNCHANGED <<proxyVars, m_echo, fromClient, toClient, fromServer, progressVars, early>>

-----------------------------------------------------------------------------
(* The clients.                                                            *)

\* The application of a connected client sends data.
SendData(c) ==
  /\ tunnel[c] = "open"
  /\ Amount < MaxData
  /\ written' = [written EXCEPT ![c] = @ + 1]
  /\ fromClient' = [fromClient EXCEPT ![c] = Append(@, [client |-> c, number |-> written[c] + 1])]
  /\ UNCHANGED <<proxyVars, libraryVars, toClient, toServer, fromServer, received, answered,
                 delivered, promised, early>>

\* dataReady.
DataReady(c) ==
  /\ toClient[c] # <<>>
  /\ delivered' = [delivered EXCEPT ![c] = Append(@, Head(toClient[c]))]
  /\ toClient' = [toClient EXCEPT ![c] = Tail(@)]
  /\ UNCHANGED <<proxyVars, libraryVars, fromClient, toServer, fromServer, written, received,
                 answered, promised, early>>

Next ==
  \/ \E c \in Clients :
       \/ RegisterClient(c)
       \/ ReceiveFromClient(c)
       \/ ClientDisconnected(c)
       \/ SendData(c)
       \/ DataReady(c)
  \/ ReceiveFromServer
  \/ ServerDisconnected
  \/ RegisterServer
  \/ OnConnectionDataAvailable
  \/ \E a \in Addresses : ApplicationWrites(a) \/ RequestSocketDisconnect(a)
  \/ CleanUp

Spec == Init /\ [][Next]_vars

Symmetry == Permutations(Clients)

-----------------------------------------------------------------------------

InOrder(data, c) == \A i \in DOMAIN data : data[i] = [client |-> c, number |-> i]

\* Each side of a tunnel gets what the other side wrote into this tunnel, in order and
\* without gaps: no data of another client, also not when an address is used again, by
\* the next client or the next registration of the server.  A client may only get data
\* for the last one if it was given an address that was not settled.
OnlyPeerData ==
  \A c \in Clients :
    InOrder(received[c], c) /\ (c \notin early => InOrder(delivered[c], c))

\* While server and client stay connected nothing is lost: once the queues are empty each
\* side has all that the other one wrote, whatever is dropped for clients that just left.
AllForwarded ==
  \A c \in Clients :
    serverConnection /\ running /\ tunnel[c] = "open" /\ socketAddress[c] # Reserved
    /\ toServer = <<>> /\ fromServer = <<>> /\ fromClient[c] = <<>> /\ toClient[c] = <<>> =>
      /\ Len(received[c]) = written[c]
      /\ c \notin early => Len(delivered[c]) = answered[c]

\* What the server's application wrote before it asked to disconnect a client still
\* reaches that client: the proxy closes the connection behind that data, unless the
\* request was for the last client of an address that was not settled.
WrittenBeforeDisconnect ==
  \A c \in Clients \ early :
    tunnel[c] = "closing" /\ serverConnection /\ socketAddress[c] # Reserved
    /\ promised[c] # NotAsked =>
      Len(delivered[c]) + Len(toClient[c]) >= promised[c]
=============================================================================
