----------------------------- MODULE Transports -----------------------------
(***************************************************************************)
(* The three transports of the proxy, WebSocketServer, TcpSocketServer and *)
(* UnixSocketServer, from the listening socket to the table of clients of  *)
(* TunnelProxyServer.                                                      *)
(*                                                                         *)
(* A connection stands for one socket object and for the uuid its          *)
(* transport gives it; both are new with every socket.  m_clientList joins *)
(* the tables of the three transports, their uuids being different.  A     *)
(* socket that is closed reports that at once, unless it still has data to *)
(* write: then it is "closing".  When a client of type server leaves, the  *)
(* proxy closes others with it; which ones is the matter of                *)
(* TunnelProxyServer, here they are any.                                   *)
(***************************************************************************)
EXTENDS FiniteSets

CONSTANTS
  Connections,
  DelayedClose   \* may a closing socket wait for data it still has to write?

\* "ssl" is the TcpSocketServer with TLS.
Kinds == {"webSocket", "tcp", "ssl", "unix"}

VARIABLES
  listening,       \* the kinds of transport with an m_server
  kind, socket,    \* of each connection: its transport and the state of its socket
  m_clientList,    \* the sockets the transports know, by their uuids
  m_proxyClients   \* TunnelProxyServer::m_proxyClients

transportVars == <<listening, kind, socket, m_clientList, m_proxyClients>>

\* "closed" sockets wait for their deletion.
SocketStates == {"none", "encrypting", "open", "closing", "closed"}

TransportsTypeOK ==
  /\ listening \subseteq Kinds /\ ~({"tcp", "ssl"} \subseteq listening)
  /\ kind \in [Connections -> Kinds]
  /\ socket \in [Connections -> SocketStates]
  /\ m_clientList \subseteq Connections
  /\ m_proxyClients \subseteq Connections

TransportsInit ==
  /\ listening = {}
  /\ kind = [c \in Connections |-> "tcp"]
  /\ socket = [c \in Connections |-> "none"]
  /\ m_clientList = {}
  /\ m_proxyClients = {}

-----------------------------------------------------------------------------

\* onSocketConnected or onClientConnected, and TunnelProxyServer::onClientConnected.
Announced(c) ==
  /\ m_clientList' = m_clientList \cup {c}
  /\ m_proxyClients' = m_proxyClients \cup {c}

NotAnnounced == UNCHANGED <<m_clientList, m_proxyClients>>

NewSocket(c, k, state) ==
  /\ socket[c] = "none" /\ c \notin m_clientList \cup m_proxyClients
  /\ k \in listening
  /\ kind' = [kind EXCEPT ![c] = k]
  /\ socket' = [socket EXCEPT ![c] = state]
  /\ UNCHANGED listening

\* A web socket of another protocol version is closed.
WebSocketConnected(c) ==
  \/ NewSocket(c, "webSocket", "open") /\ Announced(c)
  \/ NewSocket(c, "webSocket", "closed") /\ NotAnnounced

UnixSocketConnected(c) == NewSocket(c, "unix", "open") /\ Announced(c)

TcpSocketConnected(c) == NewSocket(c, "tcp", "open") /\ Announced(c)

\* incomingConnection: with TLS a socket is announced only when it is encrypted.
IncomingConnection(c) == NewSocket(c, "ssl", "encrypting") /\ NotAnnounced

Encrypted(c) ==
  /\ socket[c] = "encrypting"
  /\ socket' = [socket EXCEPT ![c] = "open"]
  /\ Announced(c)
  /\ UNCHANGED <<listening, kind>>

\* The sockets of Gone report that they are disconnected, and leave both tables; nothing
\* knows a socket that never was encrypted.
Reported(Gone) ==
  /\ m_clientList' = m_clientList \ Gone
  /\ m_proxyClients' = m_proxyClients \ Gone

\* How sockets come out of closing those of Closing: the ones in AtOnce report it.
SocketsClose(Closing, AtOnce) ==
  /\ AtOnce \subseteq Closing
  /\ DelayedClose \/ AtOnce = Closing
  /\ socket' = [c \in Connections |-> IF c \in AtOnce THEN "closed"
                                      ELSE IF c \in Closing THEN "closing" ELSE socket[c]]
  /\ Reported(AtOnce)

\* A TLS handshake fails, takes more than five seconds, or its peer goes.
HandshakeEnds(c) ==
  /\ socket[c] = "encrypting"
  /\ \E AtOnce \in SUBSET {c} : SocketsClose({c}, AtOnce)
  /\ UNCHANGED <<listening, kind>>

\* killClientConnection: a refused request, an idle client, a binary message.  Clients
\* are closed with a server only when it has gone.
KillClientConnection(c) ==
  /\ c \in m_clientList
  /\ socket[c] = "open"
  /\ \/ SocketsClose({c}, {})
     \/ \E Others \in SUBSET {o \in m_clientList \ {c} : socket[o] = "open"} :
          \E AtOnce \in SUBSET Others : SocketsClose(Others \cup {c}, AtOnce \cup {c})
  /\ UNCHANGED <<listening, kind>>

\* The peer closes, the socket has an error, or a closing socket has written its data.
SocketDisconnects(c) ==
  /\ socket[c] \in {"open", "closing"}
  /\ \E Others \in SUBSET {o \in m_clientList \ {c} : socket[o] = "open"} :
       \E AtOnce \in SUBSET Others : SocketsClose(Others \cup {c}, AtOnce \cup {c})
  /\ UNCHANGED <<listening, kind>>

\* deleteLater in the slots of disconnected.  A unix socket is left to its server.
DeferredDelete_TcpOnly(c) ==
  /\ socket[c] = "closed" /\ kind[c] = "tcp"
  /\ socket' = [socket EXCEPT ![c] = "none"]
  /\ UNCHANGED <<listening, kind, m_clientList, m_proxyClients>>

DeferredDelete(c) ==
  /\ socket[c] = "closed" /\ kind[c] # "unix"
  /\ socket' = [socket EXCEPT ![c] = "none"]
  /\ UNCHANGED <<listening, kind, m_clientList, m_proxyClients>>

ConnectionStep ==
  \E c \in Connections :
    \/ WebSocketConnected(c)
    \/ UnixSocketConnected(c)
    \/ TcpSocketConnected(c)
    \/ IncomingConnection(c)
    \/ Encrypted(c)
    \/ HandshakeEnds(c)
    \/ KillClientConnection(c)
    \/ SocketDisconnects(c)
    \/ DeferredDelete(c)

-----------------------------------------------------------------------------

\* Each transport listens, or its port or file is blocked.
WebSocketListens == {{}, {"webSocket"}}
UnixListens      == {{}, {"unix"}}

TcpListens(ssl) == {{}, {IF ssl THEN "ssl" ELSE "tcp"}}

\* TunnelProxyServer::startServer.
StartServers(ssl) ==
  \E w \in WebSocketListens, u \in UnixListens, t \in TcpListens(ssl) : listening' = w \cup u \cup t

Of(kinds) == {c \in m_clientList : kind[c] \in kinds \cap listening}

Aborted_Closed == {}

\* Web sockets are aborted when their server stops: they report that at once.
Aborted == Of({"webSocket"})

\* A TCP server is deleted later, the other servers at once, and with them their sockets.
DeletedWithServer == {c \in Connections : kind[c] \in {"webSocket", "unix"}}

\* TunnelProxyServer::stopServer: every known socket is closed.
StopServers ==
  /\ \E AtOnce \in SUBSET Of(Kinds) :
       /\ Aborted \subseteq AtOnce
       /\ DelayedClose \/ AtOnce = Of(Kinds)
       /\ socket' = [c \in Connections |-> IF c \in DeletedWithServer THEN "none"
                                           ELSE IF c \in AtOnce THEN "closed"
                                           ELSE IF c \in Of(Kinds) THEN "closing" ELSE socket[c]]
       /\ Reported(AtOnce)
  /\ listening' = {}
  /\ UNCHANGED kind

\* The TunnelProxyServer and the transports are deleted, and with them all that is left.
DeleteServers ==
  /\ socket' = [c \in Connections |-> "none"]
  /\ m_clientList' = {}
  /\ m_proxyClients' = {}
  /\ UNCHANGED kind
=============================================================================
