# TLA+ models of nymea-remoteproxy

nymea-remoteproxy lets clients reach nymea servers that sit behind a NAT. A server
registers with the proxy under its uuid, a client registers and names the server it wants,
and the proxy tunnels their data: raw bytes on the client's connection, SLIP frames with a
16 bit client address on the server's connection. This directory holds models of that
program, the configurations that check them with TLC, and proofs checked by TLAPS.
Paths in this file are relative to the repository.

## 1. The system

| Component | State | Operations | Talks to |
|---|---|---|---|
| `TunnelProxyServer` | `m_proxyClients`, `m_tunnelProxyServerConnections`, `m_tunnelProxyClientConnections` | `registerServer`, `registerClient`, `disconnectClient`, `onClientConnected`, `onClientDisconnected`, `onClientDataAvailable` | transports (signals), `JsonRpcServer` (calls) |
| `TunnelProxyServerConnection` | address table, list of clients, address counter | `registerClientConnection`, `unregisterClientConnection`, `getFreeAddress` | called by `TunnelProxyServer` |
| `TunnelProxyClientConnection` | its server connection and socket address | setters | as above |
| `TunnelProxyClient` / `TransportClient` | role, uuid, kill request, SLIP flags, packet buffer, inactivity timer | `processData`, `activateClient`, `killConnection`, `killConnectionAfterResponse`, `enableSlipAfterResponse` | transport (kill, send) |
| `JsonRpcServer`, `TunnelProxyHandler` | connected clients, pending asynchronous replies, notification id | `processData`, `processDataPacket`, `sendResponse`, `sendNotification` | calls `TunnelProxyServer` back through the handler |
| transports (`TcpSocketServer`, `WebSocketServer`, `UnixSocketServer`) | id to socket | accept, read, write, kill, stop | signals to `TunnelProxyServer` |
| `SlipDataProcessor` | none | encode, decode, frame | both sides |
| `TunnelProxySocketServer` (client library, server side) | `m_state`, `m_dataBuffer`, sockets by address, reconnect and keep-alive timers | `startServer`, `stopServer`, connection, state and data slots | `JsonRpcClient`, a `ProxyConnection` |
| `TunnelProxySocket` | address, connected | `writeData`, `disconnectSocket` | its socket server |
| `TunnelProxyRemoteConnection` (client library, client side) | `m_state`, connection | `connectServer`, `disconnectServer`, `sendData`, slots | `JsonRpcClient`, a `ProxyConnection` |
| `JsonRpcClient` | pending replies, packet buffer | calls, `processData` | a `ProxyConnection` |
| `JsonHandler`, `JsonTypes` | declarations of parameters and returns | registration of methods, validation, introspection | called by `JsonRpcServer` |
| `ProxyConnection`, `TcpSocketConnection`, `WebSocketConnection` (client library) | socket, `m_connected` | `connectServer`, `disconnectServer`, signals | used by the two classes above |
| `Engine` | the only instance, servers, configuration, `m_running`, timer | `start`, `stop`, `destroy`, queued `setRunning` | owns `TunnelProxyServer`, transports, `MonitorServer`; called by the server program |
| `MonitorServer`, `nymea-remoteproxy-monitor` | local sockets; one connection and its buffer | refresh | asks the engine for statistics |
| tunnel client program | a socket server or a remote connection | sends, echoes | uses the client library |
| `LogEngine`, `ProxyConfiguration` | files, settings | load, enable | owned by `Engine` |

Everything on the proxy runs in one Qt event loop and so does the library in its process.
There are no threads; what is hard is elsewhere:

- a slot may close a socket, and `disconnected` is emitted at once or in a later turn, also
  between two packets of one read;
- a read delivers any number of packets, or parts of them; packets are handled in a loop
  that does not stop when one of them ends the connection;
- both ends switch from JSON to SLIP, each at its own moment;
- hosts vanish without closing their sockets; only timers notice;
- 16 bit counters wrap; a search is bounded; a limit is assumed and not enforced.

What makes each component correct: the proxy's tables agree with each other, with the
connections and with what servers were told; uuids have one owner; roles are final;
tunnels end only with a peer; everything that has to leave leaves; the byte streams hand
over exactly what was sent.

## 2. Modules

| Module | Models |
|---|---|
| `TunnelProxyServer` | the proxy's connections, registrations, tunnels, kills, batches, timers, and the statistics over its tables |
| `TunnelRegistry` | the abstract specification: who is online under which uuid, and the tunnels |
| `TunnelData` | payload from application to application: two libraries, the proxy and the queues between them |
| `SlipData` | the SLIP codec as operators |
| `JsonPackets` | how JSON packets are cut out of a stream |
| `ServerUplink` | the byte stream from a server's library to the proxy |
| `ServerDownlink` | the byte stream from the proxy to a server's library |
| `JsonApi` | the JSON-RPC methods: declarations, validation, introspection, what each returns |
| `JsonRpcSession` | requests, replies, ids and notifications between a server's library and the proxy |
| `KeepAlive` | the ping timer of the library and the inactivity timer of the proxy, with a clock |
| `ConnectionOwner` | the connections of an object of the client library, the current and the discarded ones |
| `ProxyConnection` | a connection of the client library and the signals it emits, in their order; its constants are the slots of the owner |
| `TunnelProxySocketServer` | the life cycle of the library's server side, with reconnects and timers |
| `TunnelProxyRemoteConnection` | the life cycle of its client side, and the change from JSON to data |
| `Transports` | the three transports of the proxy: listening, accepting, TLS handshake, closing, deletion |
| `Engine` | start, stop and destruction of the proxy, over `Transports` |
| `MonitorSession` | the monitor program and the monitor server |
| `TunnelProxyServerProofs`, `TunnelProxySocketServerProofs`, `TunnelProxyRemoteConnectionProofs`, `TunnelDataProofs`, `EngineProofs`, `JsonApiProofs` | the theorems about the modules they are named after |
| `ServerSessionProofs` | the theorems about `JsonRpcSession` and `KeepAlive`, as `MCServerSession` instantiates them |
| `StreamsProofs` | the theorems about byte streams: `SlipData`, `JsonPackets`, `ServerUplink`, `ServerDownlink` and `MonitorSession`, as `MCStreams` instantiates them |
| `MCTunnelProxyServer`, `MCStreams`, `MCServerSession` | instances for TLC; the last two run several modules that share no state, one per behaviour |

How they are composed: `TunnelProxyServer` instantiates `TunnelRegistry` with its own
tables; `ServerUplink` and `ServerDownlink` build on `SlipData` and `JsonPackets`;
`TunnelProxySocketServer` and `TunnelProxyRemoteConnection` extend `ConnectionOwner` and
instantiate `ProxyConnection` with their own slots;
`Engine` extends `Transports`. `TunnelData` composes clients, proxy, library and
application at the level of whole messages, whose transport the stream modules justify.

### 2.1 TunnelProxyServer

A connection id stands for the random `QUuid` of a socket and for all objects made for it.
Variables with a name of the source are that member; `closing`, `vanished` and `batch`
are the socket layer, `announced` is a history of what a server was told. Objects owned by
another object are functions of the connection id: `m_clientConnectionsAddresses[s]` is the
hash of the server connection of `s`. The hash `m_clientConnections`, keyed by client uuid,
is the set of those connections.

| Action | Code |
|---|---|
| `OnClientConnected`, `Disconnected` | the slots of the same names of `TunnelProxyServer`, with the transport's part |
| `InactiveTimeout` | the timer of `TunnelProxyClient` |
| `PeerVanishes` | environment: a host is cut off |
| `RegisterServer`, `RefuseServer`, `RegisterClient`, `RefuseClient`, `DisconnectClient`, `PlainRequest` | `processDataPacket`, the handler's method and the method of `TunnelProxyServer`, to the response, the kill after it and the switch to SLIP |
| `MalformedPacket`, `BufferViolation` | the early exits of `processDataPacket` and `processData` |
| `EndOfData` | the end of the loop over packets |

Closing a socket marks the connection (`closing`); from then on it delivers no new data.
`Disconnected` is the report. Within a batch it is only possible for sockets that were
closed, or that the batch writes to: a write of the Unix and WebSocket transports can fail
and report at once. `onClientDisconnected` of a server closes its clients' sockets, and some
of those may be reported in the same call; as the tables are updated before, this is the
same as a `Disconnected` step that follows. A request on a connection that is already
removed finds no objects and changes nothing, so it is no action.

`currentStatistics` is an operator over this state, to be called in any of its states.

Left out: names, peer addresses, traffic counters and reply texts. Forwarding of payload
reads these tables and changes none; it is in `TunnelData`. `startServer` and `stopServer`
are in `Engine`.

### 2.2 SlipData, JsonPackets, ServerUplink, ServerDownlink

A byte array is a sequence of integers. `deserializeData` returns a null array for
inconsistent data and never another empty one, so the empty sequence is null. The loop of
`deserializeData` is a recursive function over the prefixes of its input, whose step
`ReadByte` is the body of the loop. In the same way `CutAll` is the loop that takes packets
out of JSON data, and `CutFirst` its body: a packet ends at a brace that is followed by a
newline and another brace, and what is left in the end is a packet if it ends like one.
JSON documents are written with the real codes of brace and newline, because the splitter
looks at nothing else; every other text is one byte. A document parses if it is one of those
the peers send, with whitespace removed.

`ServerUplink` and `ServerDownlink` each have `sent`, `wire`, the receiver's buffers and
state, and `received`. The wire is a FIFO of bytes and `Receive(n)` reads any prefix, as a
stream socket does. The receiver's step is the whole slot: append, split or decode, handle
each packet in order, change state. `FragmentRequests`, `FragmentResponses` and
`CoalesceReads` say what reads of JSON data may look like; frames are always cut freely.

### 2.3 TunnelData

A queue stands for a connection: `fromClient` and `toClient` per client, `toServer` and
`fromServer` for the server. What is written is numbered per client and direction, so that
a property can say whose data it is and what is missing. `TunnelProxyServer` shows that the
tables agree; here only `socketAddress` is kept, from which they follow. The steps that
matter are those between the ends: the library knows a client from the notification on and
until the other notification, while the proxy's view is ahead of it by the queue. Addresses
and data are values, and the frames of both directions carry them unchanged; what protocol
bytes in them come to is the matter of `ServerUplink`. `early` is a history variable (section 3).

### 2.4 ConnectionOwner, ProxyConnection, TunnelProxySocketServer, TunnelProxyRemoteConnection

A signal runs slots before the next signal is emitted, and a slot may replace the connection
that emits. So the library object is a record, each slot an operator from record to record,
and the order of signals the order of application; where Qt leaves an outcome open, the
operator returns a set. A connection discarded by `cleanUp` is `doomed` until the event loop
deletes it, and its destructor may still report: this is what most properties are about.
`transport` and `startsRunning` are chosen in the initial state, so that one run covers
TCP, TLS and WebSocket, and applications that do or do not call `startServer` (or
`connectServer`) on an object that is already started.

### 2.5 JsonRpcSession, KeepAlive

A message of the session carries its id and, for the properties only, the request it
answers. `m_commandId` is the constant it is in the code. `KeepAlive` has a discrete clock;
`TenSeconds` says how many of its units ten seconds are. A step that is due happens before the
clock goes on, so that timers of both sides race in every order a delay of up to `MaxLatency`
allows. What the proxy sends on its own is data of clients and notifications about them; both
restart the timer of the library's pings, and nothing answers them unless the application
writes something (`LibrarySends`). The history `heard` is the time since the library last read
such a message, as far as it can matter.

### 2.6 Transports, Engine

A connection stands for a socket and the uuid it is given. `clean()` runs slots while the
transports stop, so a call of the engine is two steps with no other between them.
`KnownAreUsable` and `UsersHaveEngine` state that nothing deleted is reached.
`setRunning(true)` is queued, as in the code.

### 2.7 MonitorSession, JsonApi

In `MonitorSession` a response is four pieces, the last two being the brace and the newline
the client looks for. `OnlyWholeResponses` says more than what is shown: the buffer, with what
is still to be read, is whole responses behind each other, so that a response that is dropped
takes no part of the next one with it. In `JsonApi` a value is one of four kinds (a uuid, other text, a
number, an object), as far as `QVariant::canConvert` tells them apart; the declarations are
those of the two handlers, and the outcome of a registration is any the proxy may give.

## 3. Runs

| Run | Checks | Bounds |
|---|---|---|
| `Tunnels` | invariants, action properties and refinement of the core | 3 connections, 3 uuids, addresses 0..3, search limit 3 |
| `Leaving` | liveness of the core | 2 connections, 2 uuids, one vanished peer |
| `TunnelData` | payload reaches its own tunnel, in order, completely | 3 clients, addresses 0..3 of which two are given out, 2 registrations of the server, 2 pieces of data in all |
| `Streams` | streams hand over what was sent, also to the monitor; the codec against its inverse | 4 packets up, 5 down, three frames; 2 requests of the monitor unread, 8 pieces; byte sequences up to length 5 over six bytes |
| `Api` | the JSON-RPC methods against their declarations | every method with every choice of four kinds of value, missing and extra parameters |
| `ServerSession` | ids, replies, notifications; timers with a clock | 2 addresses, one request under way, notifications 1..5; latency 1, 2 messages a way |
| `Library` | the server side of the library over its whole life | 3 connection objects, 2 addresses, all transports |
| `RemoteConnection` | its client side | 3 connection objects, all transports, 2 pieces of data |
| `Engine` | starting, stopping, deleting | 2 connections of any transport, 2 configurations |
| `Monitor` | liveness of the monitor's session | 2 requests unread, 8 pieces |
| `AddressWrap` | violated: the assertion of `getFreeAddress` | 3 connections, addresses 0..4, search limit 2 |
| `UplinkEscapes` | violated: frames with protocol bytes | 3 packets |

Each module has one type invariant, `TypeOK`, which says what its state looks like. TLC
checks it for the core only; for every module with proofs it is part of the inductive
invariant (`TypeCorrect`), for the others it is the documentation of their variables.

What they show beyond the one-line answers:

- *Streams.* `UplinkIntact` says three things of the stream to the proxy: what is handled was
  sent, in that order; a server that only sends well-formed requests stays connected; nothing
  is lost unless a frame was inconsistent. `DownlinkIntact` says the first and the last of the
  stream to the library. `CodecAgrees` says that each of the two functions of the codec undoes
  the other, on data anyone may send.

- *TunnelData.* A client may leave while its frames, the notification about it, the server's
  answers and a request to disconnect it are all under way; another may be given its address,
  or the server register again and number from 1. No data changes tunnels (`OnlyPeerData`),
  frames for those who left are dropped alone (`AllForwarded`), and what was written before a
  request to disconnect arrives (`WrittenBeforeDisconnect`): on the way to the server always,
  to a client unless its address was not *settled* when it got it, which means that the
  library still had a socket for it or a message about it was under way. The variable `early`
  remembers those clients; only they can get what was meant for another (section 4).
- *Library.* With deferred deletions, sockets that report late or at once, refusals and the
  application calling at any time, no state survives its connection
  and no connection is left over (`SessionHasConnection`), and a server that was running comes back (`RunningComesBack`).
- *ServerSession.* `TimeoutsJustified` has two sides: a server that is cut off is gone a
  minute after its last message, and one that can be reached is taken for dead only if, not
  long before, its library read something it had not asked for. Data and notifications put off
  the next ping and nothing need answer them, so the proxy may then wait in vain; a server
  that reads nothing unasked stays. `OnePing` and `RepliesMatch` belong together: all requests
  have one id, and it is the timers that keep pings from overlapping. `SocketsAgree` leaves out
  the first notification of a proxy, which has that id too (section 4).
- *Engine.* `WebSocketServer` closes its sockets in `stopServer` and again in its destructor;
  only the first may report them (`KnownAreUsable`). An engine that says it runs has its
  servers, and those who are connected find its configuration (`UsersHaveEngine`).
- *Monitor.* In `Streams` responses are cut anywhere and read together, and nothing but one whole
  response is shown (`OnlyWholeResponses`). Both ends notice when the other is gone (`EndNoticed`), except the one-shot modes
  of the program, which do not look.

Why the bounds are enough. Three connections are a server with two clients, or two servers
with one; three uuids let all three be registered at once. With addresses 0..3 only 1 and 2
may be given out, so the counter wraps all the time and meets both reserved addresses and
used ones. The theorems remove these bounds. For the streams, three packets make a
registration and two frames, the first of which can spoil the second; the frames cover the
empty one, the JSON address, one and two escaped address bytes, and data that looks like
JSON or like SLIP; the codec meets each pair and triple of protocol bytes in each order. In
`TunnelData` three clients on two addresses are one whose tunnel ends, one that stays on the
other address, and one that inherits the first within the same registration; two pieces of
data are the least that can be reordered or be taken for each other. Three connection objects
are the current one and two that wait for deletion: a slot can discard one connection
while another is still doomed. The two messages a way of `KeepAlive` are one more than a
ping and its response. Two connections of `Engine` can be of different transports, or one
in use while the other is closing.

`CHECK_DEADLOCK` is off in `Streams`, `UplinkEscapes`, `TunnelData`, `ServerSession` and
`Monitor` only: there a bound ends the behaviour, or a connection that is over, or a
program that has ended. The core, the library, the engine and the API never deadlock.

Symmetry over connections and uuids is used in the safety runs of the core and over
clients in `TunnelData`: they are drawn at random and only compared for equality. It is not
used for liveness.

Fairness. In `TunnelProxyServer`: the loop over a batch ends; a closed socket is reported; an
armed inactivity timer expires. The last is strong fairness, as batches of the same
connection disable it again and again, while an interval of the real timer always passes
between two of them in the end. For a server it is assumed only when its host has
vanished, since data rearms the timer. Nothing is assumed of peers. In
`TunnelProxySocketServer` deferred deletions happen and the reconnect timer fires; attempts
made again and again do not all fail, which is what "comes back" can mean. In
`TunnelProxyRemoteConnection` an attempt ends either way and the proxy answers. In
`JsonRpcSession`, `MonitorSession` and `Engine` the event loops run and the network delivers;
handshakes end, by their own timer.

## 4. Findings and divergences

Two runs show where the code does other than it says.

1. `AddressWrap`: `getFreeAddress` looks at no more than `m_connectionLimit` addresses, and
   nothing refuses further clients. An address in use is given out again.
2. `UplinkEscapes`: `TunnelProxyClient::processData` passes on the escaped buffer in place of
   the decoded frame.

The constants of the other modules exclude behaviours in which their properties do not
hold. Each line names the setting that brings the behaviour back and what TLC then finds
violated.

| Setting | Property | What happens |
|---|---|---|
| `Streams`: `NothingLost` of `ServerUplink` in place of `NothingLostWithoutFault` | `UplinkIntact` | after an inconsistent frame `TunnelProxyClient` keeps its buffer, and all later frames fail (`tunnelproxyclient.cpp:83`) |
| `FragmentRequests = TRUE` | `UplinkIntact` | a read that ends behind an inner brace is taken for a whole packet, and the connection closed (`tunnelproxyclient.cpp:102`) |
| `FragmentRequests = TRUE` | `FramesIntact` | the newline behind `RegisterServer`, read alone, becomes the first byte of the first frame (`tunnelproxyclient.cpp:95`) |
| `FragmentResponses = TRUE` | `DownlinkIntact` | the library drops a response cut behind an inner brace (`proxyjsonrpcclient.cpp:188`) |
| `CoalesceReads = TRUE` in `Streams` | `DownlinkIntact` | the response to `RegisterServer` read with the first frame is never recognised (`tunnelproxysocketserver.cpp:195`) |
| `CoalesceReads = TRUE` in `RemoteConnection` | `TunnelDataComplete` | the same on the client side: the first data is lost (`tunnelproxyremoteconnection.cpp:177`) |
| `MaxPending = 2` | `RepliesMatch` | `m_commandId` never changes, so a reply finishes with another's response (`proxyjsonrpcclient.cpp:51`) |
| `FirstNotificationId = 0` | `RepliesMatch`, `SocketsAgree` | the first notification of a proxy has the id of every request and is swallowed by a pending one (`proxyjsonrpcclient.cpp:136`) |
| `alive => open` in place of `IdleServerStays` | `TimeoutsJustified` | what arrives restarts the timer of the library's pings, but only what the library sends restarts the proxy's: a reachable server that only listens is closed (`tunnelproxysocketserver.cpp:193`) |
| `MaxLatency = 2`, with `TenSeconds = 1` | `OnePing`, `TimeoutsJustified` | the next ping is due before the response to the last has arrived; and a ping leaves half a minute after a response arrived, but has to arrive a minute after that was sent (`tunnelproxysocketserver.cpp:374`) |
| `StopsEarly = TRUE` | `UsersHaveEngine` | `stop` does not take back the queued `setRunning(true)` (`engine.cpp:112`) |
| `CutEnds = TRUE` in `Monitor` | `AskedOnceAnswered` | the end of a response that is read in two parts, between its brace and its newline, is not found (`monitorclient.cpp:87`) |
| `OrderlyTcp` dropped from `RunningComesBack` | itself | a web socket discarded while it connects stays silent, and a server started while it runs is hit by the end of its old connection |
| `server.m_enabled` in place of `server.m_state = "running"` in `RunningComesBack` | itself | a first attempt that fails within `connectServer` finds `m_enabled` not yet set, and no timer is started (`tunnelproxysocketserver.cpp:151`) |
| `~startsRunning` dropped from `OldConnectionHarmless` | itself | the old connection reports its end, at the latest from its destructor, to the slots that serve the new one, which is discarded (`tcpsocketconnection.cpp:60`) |
| the exception of `early` clients dropped | `OnlyPeerData`, `AllForwarded`, `WrittenBeforeDisconnect` | an address is given to a new client while frames, or a request to disconnect, for its last client are under way, and they reach the new one (`tunnelproxyserverconnection.cpp:87`) |
| the first two conjuncts dropped from `AttemptSettles` | itself | the same for `TunnelProxyRemoteConnection` |

Observed and not stated as properties: `RegisterServer` with a null uuid on a registered
server answers `slipEnabled: false` while SLIP stays on (`tunnelproxyhandler.cpp:102-119`);
the return value of `Introspect` is not validated; `noninteractivemonitor.cpp:100-101` prints
the server's traffic for its clients; the one-shot monitor waits for ever if its server goes
away before it answers; in `json` mode the monitor ends with `EXIT_FAILURE` when it succeeds.

## 5. Proofs

TLAPS checks the theorems of the eight modules named `...Proofs`. They hold for every value
of the constants that the named assumptions of the modules allow (types, and an order between
limits) and, where a theorem says so, one of the conditions below. Those of `TunnelDataProofs`
need none. Each condition rules out a
behaviour of the code that breaks the property; the runs of section 3 keep to it, and the
line of section 4 shows what happens without it.

| Condition | Needed by | It says | Without it |
|---|---|---|---|
| `EnoughAddresses` of `TunnelProxyServer` | all its theorems | no more connections than the address search looks at | run `AddressWrap` |
| `~CoalesceReads` | `AllTunnelData` | the response to `RegisterClient` is read by itself | `CoalesceReads = TRUE` |
| `OneAtATime` | `RepliesMatchRequests` | one request under way | `MaxPending = 2` |
| `IdsApart` | `RepliesMatchRequests`, `SocketsFollowClients` | no notification has the id of the requests | `FirstNotificationId = 0` |
| `ShortLatency` | `TimeoutsAreJustified`, `PingsOneAtATime` | a message arrives within half the keep-alive interval of 30 s | `MaxLatency = 2` |
| `~StopsEarly` | `UsersFindEngine` | `stop` is not called before the event loop has run | `StopsEarly = TRUE` |
| `UplinkHypothesis` | `UplinkCorrect` | requests are read whole (`~FragmentRequests`); frames have 16 bit addresses and no byte that SLIP escapes; a faulty encoding is one that `deserializeData` refuses | `FragmentRequests = TRUE`, run `UplinkEscapes` |
| `DownlinkHypothesis` | `DownlinkCorrect` | responses are read whole and by themselves (`~FragmentResponses`, `~CoalesceReads`); the addresses of clients are 16 bit and not 0, which `getFreeAddress` never gives out | `FragmentResponses = TRUE`, `CoalesceReads = TRUE` |

| Module | Theorems, with the property each proves |
|---|---|
| `TunnelProxyServerProofs` | `TypeCorrect`, `UuidsOwned` (`UuidOwnership`), `TunnelsAgree` (`TunnelTablesAgree`), `DataAlwaysHasServer` (`DataHasServer`), `ServerViewCorrect` (`ServerViewMatches`), `StatisticsCorrect` (`StatisticsAgree`), `AddressesFree` (`FreeAddressAssertion`), `TunnelsStay` (`TunnelEndsWithPeer`), `RolesFinal` (`RoleIsFinal`), `Refinement` (`ImplementsRegistry`) |
| `TunnelDataProofs` | `TypeCorrect`, `DataOfPeer` (`OnlyPeerData`), `NothingLost` (`AllForwarded`), `ClosedBehindData` (`WrittenBeforeDisconnect`) |
| `ServerSessionProofs` | `RepliesMatchRequests` (`RepliesMatch`), `SocketsFollowClients` (`SocketsAgree`), `TimeoutsAreJustified` (`TimeoutsJustified`), `SilenceEnds` (its second half, for any latency), `PingsOneAtATime` (`OnePing`) |
| `TunnelProxySocketServerProofs` | `TypeCorrect`, `SessionsHaveConnections` (`SessionHasConnection`), `StoppedServersStayDown` (`StoppedStaysDown`), `OldConnectionsHarmless` (`OldConnectionHarmless`) |
| `TunnelProxyRemoteConnectionProofs` | `TypeCorrect`, `ConnectedIsRegistered` (`RemoteConnectedIsRegistered`), `AllTunnelData` (`TunnelDataComplete`) |
| `EngineProofs` | `TypeCorrect`, `KnownClientsAreUsable` (`KnownAreUsable`), `UsersFindEngine` (`UsersHaveEngine`) |
| `JsonApiProofs` | `TypeCorrect`, `ResponsesAsDeclared` (`RepliesValid`), `IntrospectionTruthful` (`IntrospectionTrue`), `SlipAnnounced` (`SlipAsAnnounced`) |
| `StreamsProofs` | `DecodesWhatWasEncoded`, `EncodesWhatWasDecoded`, `ParsesWhatWasBuilt`, `CodecCorrect` (`CodecAgrees`), `SplitsWhatWasSent`, `UplinkCorrect` (`UplinkIntact`), `DownlinkCorrect` (`DownlinkIntact`), `OnlyWholeResponsesShown` (`OnlyWholeResponses`) |

### 5.1 TunnelProxyServer

The inductive invariant `IInv` is `TypeOK`, `UuidOwnership`, `TunnelTablesAgree`,
`DataHasServer` and `ServerViewMatches` together. None is inductive alone: that
`onClientDisconnected` clears the right entries (`TunnelTablesAgree`) needs the roles
(`UuidOwnership`), that a client without a server is closed needs the list of clients to be
complete, and that a notification names the right address needs the back references.

- *Addresses.* `FreeAddressFound`: if the search ended on a taken address, all
  `ConnectionLimit + 1` addresses it looked at would be taken, by different connections: a
  used address by its client, 0 by the server itself, `MaxAddress` by the new client. That is
  an injection into the connections, of which there are too few.
- *Removal.* `DisconnectedTables` and `DisconnectedStates` describe what a removal does to
  the tables in a symmetric way (everything that involves the connection goes), whatever
  its role; the invariant and the other theorems use only that.
- *Everything else.* `TablesKept`: steps that only open or close sockets keep the invariant.
- *Statistics* follow from `IInv`: the numbers are sizes of sets between which the tables are
  bijections.

### 5.2 TunnelData

`OnlyPeerData` speaks of what has arrived; the invariant must speak of everything that is
still to come. A client *claims* an address in four places: the table of the proxy, that of
the library, and the two queues between them. `OneAddress`: a client claims one address for
good, as it registers once. Several clients may claim an address; but the proxy has it for one
at a time (`OneLive`), and if it was settled when that client got it, nobody else claims it
while that client has it (`Exclusive`). `Untouched`: a client that has not come claims nothing.

On top of that `Uplink` and `Downlink` say that the data of a client in each queue
continues, without gaps, where what has arrived ends. `Downlink` and `Promises`, that what
was written before a request to disconnect has arrived or is ahead of the request, are about
clients on settled addresses. `Uplink` needs no such exception, because of `Known`: for each
frame on its way to the server, the last message about its address ahead of it, or with none
the library's table, names the client whose data it is (`HolderAt`), so the library sees the
address change hands where the data does.

### 5.3 JsonRpcSession and KeepAlive

`LastWord`: the last notification under way about an address tells whether the proxy has a
client there; with none under way, the library's table does. `OneRequest` relates the
pending reply, the request under way and the responses under way, of which there is one at
most; `ToldApart` keeps notifications out of it.

The timers are arithmetic on ages. `TimerOutlasts` is what makes `IdleServerStays` inductive:
the proxy's timer outlasts the message that is next to arrive, or, with none under way, the
rest of the library's timer and one latency; or else the library read something unasked while
its timer ran for the ping in question. It rests on `ResponsesAreFresh`, since a
response is what restarts the library's timer without restarting the proxy's.
`SentBeforeCutOff` bounds the silence of a host that is cut off, and gives `SilenceEnds`.
`PingsAreRecent` is what makes `OnePing` inductive: a ping on its way, or a response, is no
older than the library's timer has run.

### 5.4 The client library

For both classes a lemma per slot says what the slot does to the record of the object, and a
step is a composition of slots. `Session` ties the state to the connection; it survives the
late reports of discarded connections because of `ConnectionsApart`: while one still waits
for its deletion, the current one is not up. `StoppedIsClosing` makes `StoppedStaysDown` hold
and is the one part that fails in the midst of `startServer` and `stopServer`, so it is kept
apart from `Sound`. `GivenUpIsDown` is the reason `OldConnectionHarmless` needs a server
that is not started while it runs.

On the client side reads hold any number of packets. `Dialogue` says what the proxy may have
answered at each point of the session, `Stream` where the data of the tunnel is. The loop
over the packets of a read is an induction over their number. `AllTunnelData` and
`ConnectedIsRegistered` are for streams of any length.

### 5.5 Engine, JsonApi

`KnownAreUsable` is inductive with `ClientsAreServed`: a known client belongs to a transport
that listens, so `stopServer` finds it, and what is left between the two steps of a call is
no web socket. `UsersHaveEngine` needs `ConfigurationIsKept`, `StoppedIsEmpty` and
`RunningIsStarted`, which says that a queued `setRunning(true)` has its servers.

`RepliesValid` and `IntrospectionTrue` follow from the last step alone, whatever the kinds
of values of a request; `SlipAsAnnounced` needs the relation of roles and flags in `SlipInv`.

### 5.6 The SLIP codec

`StreamsProofs` shows by induction over byte arrays that the recursive functions of the model
exist and are computed from left to right: a byte more at the end is one more turn of the
loop (`ReadFacts`, `FlattenFacts`). `CodeIsRead` follows the decoder through one encoded
byte, `BodyIsRead` through all of them, and `ReadIsOf` says, for any data, what a prefix the
decoder has accepted is the encoding of. The induction theorems of the library quantify
over operators, which the provers cannot instantiate. `LeastNatural` takes their place:
finite sets of numbers are well founded under strict inclusion, a theorem the library states
without operators, so every nonempty set of numbers, and so every set of counterexamples,
has a least member.

### 5.7 The byte streams

What is written is a sequence of items (requests, responses, frames), and `Laid` puts their
codes behind each other. All theorems about streams say that a receiver finds its way back
from the bytes to the items, wherever reads cut them.

- *JSON data.* `FirstCut` says what one turn of the splitter's loop does with documents behind
  each other, and `CutsUpToTheLast` what the loop comes to: `SplitsWhatWasSent`. Documents end
  with a brace and a newline and have no newline inside, which is how both sides write them.
- *To the proxy.* The invariant is `Uploading`: what was sent is what was handled and then
  `pending`; before SLIP is on, the wire holds the codes of `pending` and the buffer nothing;
  from then on buffer and wire together are the codes of `pending`, and the buffer has no end
  byte. So a byte that is read either makes the buffer longer or, if it is the end byte, the
  buffer is the first item of `pending` (`CutAtEnd`). Once an inconsistent frame has ended,
  the code keeps it in the buffer, and all that is claimed then is that the buffer stays
  inconsistent, so that nothing more is handled. The read that turns SLIP on hands over
  from one form to the other; requests and frames are never in the same read, since no
  frame leaves before the response has arrived.
- *To the library.* `Downloading` has three forms, one for each state of the library, as each
  waits for a response of its own. Behind the response to `RegisterServer` frames may follow
  on the wire before it is read, and only those. `HandsOn` follows the loop of
  `onConnectionDataAvailable` through a read: at each byte, what has been handed on and what
  is pending are what was sent, in its order. Here frames may have any content.
- *To the monitor.* `Watching` is the inductive invariant. The brace that ends a response is
  the third piece in four, so whatever a read took, the next response begins two pieces
  behind it (`WholeBehindBrace`).

### 5.8 Only model-checked

Liveness (`UnregisteredLeaves`, `OrphanLeaves`, `VanishedServerFreed`, `RunningComesBack`,
`AttemptSettles`, `RepliesFinish`, `SocketsFreed`, `AskedOnceAnswered`, `EndNoticed`):
fairness is outside what the prover handles. Every safety property of the passing runs is
proved.

## 6. Not modelled

Not modelled, and why:

- `LogEngine`: `logStatistics` is never called, so it only opens and closes files.
- `ProxyConfiguration`: settings are read once into fields; a missing certificate refuses the
  start also with TLS off, and ports are cut to 16 bits.
- Asynchronous replies of `JsonRpcServer` and the timer of `JsonReply`: no handler creates one.
- Throughput and traffic counters, and the timer tick that moves them.
- The drawing of `TerminalWindow`, command lines, message handlers, and packaging.
- The signal handler's preemption: it destroys the engine between any two instructions,
  which steps of whole slots cannot show.

What could be added: the traffic counters, and `ProxyConfiguration` if settings are ever read
again while the proxy runs. Where the code changes so that a line of section 4 no longer
applies, its constant and its condition in section 5 can be dropped, and the theorem holds
without it.
