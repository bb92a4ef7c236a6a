-------------------------- MODULE ProxyConnection --------------------------
(***************************************************************************)
(* ProxyConnection with its two kinds, TcpSocketConnection and             *)
(* WebSocketConnection: what they report to the object that owns them.     *)
(***************************************************************************)
EXTENDS ConnectionOwner

CONSTANTS
  OnConnectionChanged(_, _),       \* the owner's slots
  OnConnectionStateChanged(_, _)

SetConnected(s, c, connected) ==
  IF s.connected[c] = connected THEN s
  ELSE OnConnectionChanged([s EXCEPT !.connected[c] = connected], connected)

\* An encrypted socket is connected with its handshake only.
TcpOnStateChanged(s, c, state) ==
  IF state = "connected" /\ s.transport = "ssl" THEN s
  ELSE SetConnected(s, c, state = "connected")

WebSocketOnStateChanged(s, c, state) == SetConnected(s, c, state = "connected")

\* The socket reports a state: connectedChanged comes before stateChanged.
OnStateChanged(s, c, state) ==
  LET moved == [s EXCEPT !.socket[c] = state] IN
  OnConnectionStateChanged(
    IF s.transport = "webSocket" THEN WebSocketOnStateChanged(moved, c, state)
    ELSE TcpOnStateChanged(moved, c, state), state)

OnEncrypted(s, c) == SetConnected(s, c, TRUE)

\* A socket that is closed at once, also by its peer.
Closed(s, c) == OnStateChanged(OnStateChanged(s, c, "closing"), c, "unconnected")

\* The outcomes of closing a connected socket.
Closes(s, c) ==
  {Closed(s, c)} \cup (IF DelayedClose THEN {OnStateChanged(s, c, "closing")} ELSE {})

\* What a socket reports when it is told to connect.
TcpConnecting       == "hostLookup"
WebSocketConnecting == "connecting"

ConnectServer(s, c) ==
  OnStateChanged(s, c, IF s.transport = "webSocket" THEN WebSocketConnecting ELSE TcpConnecting)

\* A TCP socket is aborted.
TcpDisconnect(s, c) == {Closed(s, c)}

\* A web socket that is still connecting gives up when the connection is there, which it
\* does not report.
WebSocketDisconnect(s, c) ==
  CASE s.socket[c] = "connecting" -> {[s EXCEPT !.socket[c] = "closing"]}
    [] s.socket[c] = "connected" -> Closes(s, c)
    [] OTHER -> {s}

\* disconnectServer: its outcomes.
DisconnectServer(s, c) ==
  CASE s.socket[c] = "unconnected" -> {s}
    [] s.socket[c] # "unconnected" /\ s.transport # "webSocket" -> TcpDisconnect(s, c)
    [] OTHER -> WebSocketDisconnect(s, c)

\* The destructor, in the deferred deletion: a connected socket still reports.
Deleted(s, c) ==
  LET gone(t) == [t EXCEPT !.doomed = @ \ {c},
                           !.socket[c] = "unconnected", !.connected[c] = FALSE]
  IN {gone(t) : t \in IF s.socket[c] = "connected" THEN Closes(s, c) ELSE {s}}
=============================================================================
