---------------------- MODULE TunnelProxySocketServer ----------------------
(***************************************************************************)
(* The server side of the client library: TunnelProxySocketServer with the *)
(* connections it makes, from startServer to stopServer, through lost      *)
(* connections, refused registrations and reconnects.                      *)
(*                                                                         *)
(* Steps of the network and of the timers come from the event loop; by     *)
(* then it has made the deferred deletions.  The application may call      *)
(* startServer and stopServer before and after those.  The JSON client     *)
(* lives as long as its connection, and its request ids are the matter of  *)
(* JsonRpcClient; here a response answers the request that is pending.     *)
(***************************************************************************)
EXTENDS ConnectionOwner

CONSTANTS
  SocketAddresses,  \* the addresses the proxy gives to clients
  FailsAtOnce,      \* may a connection attempt fail within connectServer?
  StartsRunning     \* may the application start a server that is enabled?

ASSUME StartsRunningAssumption == StartsRunning \subseteq BOOLEAN

VARIABLE server     \* the TunnelProxySocketServer and its connections

States == {"connecting", "hostLookup", "connected", "initializing", "register",
           "running", "disconnecting", "disconnected"}

ServerRecords == [
  transport : Transports,
  startsRunning : BOOLEAN,
  m_state : States,
  m_serverError : {"noError", "connectionError", "notConnected"},
  m_enabled : BOOLEAN,
  reconnectTimer : BOOLEAN,
  keepAliveTimer : BOOLEAN,
  connection : Connections \cup {NoConnection},
  request : {"none", "Hello", "RegisterServer"},
  sockets : SUBSET SocketAddresses,
  doomed : SUBSET Connections,
  socket : [Connections -> SocketStates],
  connected : [Connections -> BOOLEAN]]

TypeOK == server \in ServerRecords

Init == \E transport \in Transports, startsRunning \in StartsRunning :
  server = [
    transport |-> transport,
    startsRunning |-> startsRunning,
    m_state |-> "disconnected",
    m_serverError |-> "noError",
    m_enabled |-> FALSE,
    reconnectTimer |-> FALSE,
    keepAliveTimer |-> FALSE,
    connection |-> NoConnection,
    request |-> "none",
    sockets |-> {},
    doomed |-> {},
    socket |-> NoSockets,
    connected |-> NotConnected]

-----------------------------------------------------------------------------
(* The slots.                                                              *)

SetRunning(s, running) ==
  IF (s.m_state = "running") = running THEN s ELSE [s EXCEPT !.keepAliveTimer = running]

SetState_TimersSwapped(s, state) ==
  IF s.m_state = state THEN s
  ELSE LET t == [SetRunning(s, state = "running") EXCEPT !.m_state = state] IN
       IF state = "disconnected" /\ s.m_enabled
       THEN [t EXCEPT !.reconnectTimer = FALSE, !.keepAliveTimer = TRUE]
       ELSE t

\* The state that is left decides whether the running state changes.
SetState(s, state) ==
  IF s.m_state = state THEN s
  ELSE LET t == [SetRunning(s, state = "running") EXCEPT !.m_state = state] IN
       IF state = "disconnected" /\ s.m_enabled
       THEN [t EXCEPT !.reconnectTimer = TRUE, !.keepAliveTimer = FALSE]
       ELSE t

CleanUp_SocketsKept(s) ==
  SetState([Discarded(s) EXCEPT !.request = "none"], "disconnected")

\* Every TunnelProxySocket is disconnected, the JSON client and its request go.
CleanUp(s) ==
  SetState([Discarded(s) EXCEPT !.sockets = {}, !.request = "none"], "disconnected")

OnConnectionChanged(s, connected) ==
  IF connected
  THEN [SetState(SetState(s, "connected"), "initializing")
          EXCEPT !.m_serverError = "noError", !.request = "Hello"]
  ELSE CleanUp([SetState(s, "disconnected") EXCEPT !.m_serverError = "notConnected"])

OnConnectionStateChanged(s, state) ==
  CASE state = "unconnected" -> SetState(s, "disconnected")
    [] state = "closing"     -> SetState(s, "disconnecting")
    [] state = "connected"   -> [SetState(s, "connected") EXCEPT !.reconnectTimer = FALSE]
    [] OTHER                 -> SetState(s, state)

Connection == INSTANCE ProxyConnection

Reports(s, c, state) == Connection!OnStateChanged(s, c, state)
Ends(s, c)           == Connection!Closed(s, c)

\* Disconnecting the current connection, also from within one of its slots.
Disconnects(s) ==
  IF s.connection = NoConnection THEN {s}
  ELSE Connection!DisconnectServer(s, s.connection)

\* A response of the proxy: m_keepAliveTimer.start() and processData.
Received(s) == [s EXCEPT !.keepAliveTimer = TRUE, !.request = "none"]

Refused(s) == {[t EXCEPT !.m_serverError = "connectionError"] : t \in Disconnects(s)}

-----------------------------------------------------------------------------
(* The application.                                                        *)

\* startServer: its outcomes.  The attempt is made before the server is enabled.
Started(s) ==
  LET clean == CleanUp(s) IN
  UNION {LET tried == Connection!ConnectServer([clean EXCEPT !.connection = c], c)
             failed == IF FailsAtOnce THEN {Reports(tried, c, "unconnected")} ELSE {}
         IN {[t EXCEPT !.m_enabled = TRUE] : t \in {tried} \cup failed} :
         c \in Unused(clean)}

StartServer ==
  /\ server.startsRunning \/ ~server.m_enabled
  /\ server' \in Started(server)

StopServer_KeepsConnection ==
  server' = [server EXCEPT !.m_enabled = FALSE, !.reconnectTimer = FALSE]

StopServer ==
  server' \in Disconnects([server EXCEPT !.m_enabled = FALSE, !.reconnectTimer = FALSE])

-----------------------------------------------------------------------------
(* The event loop.                                                         *)

DeferredDelete(c) ==
  /\ c \in server.doomed
  /\ server' \in Connection!Deleted(server, c)

\* The current connection, once the deferred deletions are made.
Ready(c) == server.doomed = {} /\ c = server.connection

HostFound(c) ==
  /\ Ready(c)
  /\ server.socket[c] = "hostLookup"
  /\ server' = Reports(server, c, "connecting")

SocketConnects(c) ==
  /\ Ready(c)
  /\ server.socket[c] = "connecting"
  /\ server' = Reports(server, c, "connected")

Encrypted(c) ==
  /\ Ready(c)
  /\ server.transport = "ssl" /\ server.socket[c] = "connected" /\ ~server.connected[c]
  /\ server' = Connection!OnEncrypted(server, c)

\* An attempt fails, or a closing socket has written its data.
SocketGivesUp(c) ==
  /\ Ready(c)
  /\ server.socket[c] \in {"hostLookup", "connecting", "closing"}
  /\ server' = Reports(server, c, "unconnected")

\* The proxy or the network ends the connection.
ConnectionLost(c) ==
  /\ Ready(c)
  /\ server.socket[c] = "connected"
  /\ server' = Ends(server, c)

OnHelloFinished(success) ==
  /\ Ready(server.connection)
  /\ server.request = "Hello"
  /\ IF success
     THEN server' = [SetState(Received(server), "register") EXCEPT !.request = "RegisterServer"]
     ELSE server' \in Refused(Received(server))

OnServerRegistrationFinished(success) ==
  /\ Ready(server.connection)
  /\ server.request = "RegisterServer"
  /\ IF success
     THEN server' = [SetState(Received(server), "running") EXCEPT !.m_serverError = "noError"]
     ELSE server' \in Refused(Received(server))

OnTunnelProxyClientConnected(a) ==
  /\ Ready(server.connection)
  /\ server.m_state = "running"
  /\ a \notin server.sockets
  /\ server' = [server EXCEPT !.keepAliveTimer = TRUE, !.sockets = @ \cup {a}]

OnTunnelProxyClientDisconnected(a) ==
  /\ Ready(server.connection)
  /\ server.m_state = "running"
  /\ a \in server.sockets
  /\ server' = [server EXCEPT !.keepAliveTimer = TRUE, !.sockets = @ \ {a}]

\* The reconnect timer fires for as long as it is active; in any other state than
\* disconnected nothing happens.
ReconnectTimeout ==
  /\ server.doomed = {}
  /\ server.reconnectTimer
  /\ \/ ~server.m_enabled /\ server' = [server EXCEPT !.reconnectTimer = FALSE]
     \/ server.m_enabled /\ server.m_state = "disconnected" /\ server' \in Started(server)

\* The keep-alive timer fires while nothing runs; a running server pings.
KeepAliveTimeout ==
  /\ server.doomed = {}
  /\ server.keepAliveTimer
  /\ server.m_state # "running"
  /\ server' = [server EXCEPT !.keepAliveTimer = FALSE]

-----------------------------------------------------------------------------

Network ==
  \/ \E c \in Connections : \/ HostFound(c)
                            \/ SocketConnects(c)
                            \/ Encrypted(c)
                            \/ SocketGivesUp(c)
                            \/ ConnectionLost(c)
  \/ \E success \in BOOLEAN : \/ OnHelloFinished(success)
                              \/ OnServerRegistrationFinished(success)
  \/ \E a \in SocketAddresses : \/ OnTunnelProxyClientConnected(a)
                                \/ OnTunnelProxyClientDisconnected(a)

Next ==
  \/ StartServer
  \/ StopServer
  \/ \E c \in Connections : DeferredDelete(c)
  \/ Network
  \/ ReconnectTimeout
  \/ KeepAliveTimeout

vars == <<server>>

\* The event loop deletes, the timer fires.  Attempts that are made again and again do
\* not all fail, and not every registration is refused.
Fairness ==
  /\ \A c \in Connections :
       /\ WF_vars(DeferredDelete(c))
       /\ SF_vars(HostFound(c))
       /\ SF_vars(SocketConnects(c))
       /\ SF_vars(Encrypted(c))
       /\ WF_vars(SocketGivesUp(c))
  /\ SF_vars(OnHelloFinished(TRUE))
  /\ SF_vars(OnServerRegistrationFinished(TRUE))
  /\ SF_vars(ReconnectTimeout /\ server'.m_state # "disconnected")

Spec     == Init /\ [][Next]_vars
FairSpec == Spec /\ Fairness

-----------------------------------------------------------------------------

\* A server that talks to the proxy does so over a connection that is up, and only a
\* running one has TunnelProxySockets: no state and no socket survives the connection it
\* belongs to, whichever signals of it or of its predecessor come in between.  A
\* connection that is no longer the current one waits for its deletion: none is leaked
\* with its socket open.
SessionHasConnection ==
  /\ server.m_state \in {"register", "running"} \/ server.request # "none"
       => server.connection # NoConnection /\ server.connected[server.connection]
  /\ server.sockets # {} => server.m_state = "running"
  /\ \A c \in Connections :
       server.socket[c] # "unconnected" => c = server.connection \/ c \in server.doomed

\* After stopServer nothing gets a server to register or to run, not even a response or a
\* connection that is under way.
StoppedStaysDown ==
  [][server'.m_state \in {"register", "running"} /\ server'.m_state # server.m_state
       => server'.m_enabled]_vars

\* Whether the application stops a TCP server before it starts it again.  A web socket
\* may stay silent about its end.
OrderlyTcp == server.transport # "webSocket" /\ ~server.startsRunning

\* The deletion of a former connection, whose socket may then still report that it
\* closes, leaves the connection that has taken its place and its state alone, if the
\* application stops the server before it starts it again: by then every former
\* connection has reported its end.
OldConnectionHarmless ==
  [][server.doomed \ server'.doomed # {} /\ ~server.startsRunning
       => /\ server'.connection = server.connection
          /\ server'.m_state = server.m_state]_vars

\* A server over TCP that was running comes back after every loss of its connection, and
\* after every attempt that fails, unless it is stopped.  (Of one that was only started
\* that is not true: its first attempt may fail before m_enabled is set.)
RunningComesBack ==
  server.m_state = "running" /\ OrderlyTcp
    ~> ([]<>(server.m_state = "running") \/ <>~server.m_enabled)
=============================================================================
