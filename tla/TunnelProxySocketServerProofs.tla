------------------- MODULE TunnelProxySocketServerProofs -------------------
(***************************************************************************)
(* Proofs about TunnelProxySocketServer, for any number of connections and *)
(* addresses.  A lemma about each slot says what it does to the record of  *)
(* the server, without the timers; the steps are compositions of slots.    *)
(***************************************************************************)
EXTENDS TunnelProxySocketServer, TLAPS

\* What SessionHasConnection rests on, for the record of a server between two steps.
\* The current connection is none of those given up.  Only a connected socket makes a
\* connection connected.  While connections given up wait for their deletion, the current
\* one is not up yet, so that nothing they still report can hurt a session.  A web socket,
\* which cannot be closed while it looks up its host, is never found doing that.  A
\* running server has all its responses.
ConnectionsApart(s) ==
  /\ s.connection \notin s.doomed
  /\ \A c \in Connections : s.connected[c] => s.socket[c] = "connected"
  /\ s.doomed # {} => s.connection = NoConnection \/ ~s.connected[s.connection]
  /\ s.transport = "webSocket" => \A c \in Connections : s.socket[c] # "hostLookup"
  /\ s.m_state = "running" => s.request = "none"

\* What OldConnectionHarmless rests on: if a server is stopped before it is started
\* again, no connection is given up while its socket is connected, for then its state
\* says so.
GivenUpIsDown(s) ==
  ~s.startsRunning =>
    /\ \A c \in s.doomed : s.socket[c] # "connected"
    /\ s.connection # NoConnection /\ s.socket[s.connection] = "connected"
         => s.m_state # "disconnected"

\* What StoppedStaysDown rests on: the connection of a stopped server is down or closes.
StoppedIsClosing(s) ==
  s.connection # NoConnection /\ s.socket[s.connection] \notin {"unconnected", "closing"}
    => s.m_enabled

\* SessionHasConnection, for any record.
Session(s) ==
  /\ s.m_state \in {"register", "running"} \/ s.request # "none"
       => s.connection # NoConnection /\ s.connected[s.connection]
  /\ s.sockets # {} => s.m_state = "running"
  /\ \A c \in Connections :
       s.socket[c] # "unconnected" => c = s.connection \/ c \in s.doomed

\* All but StoppedIsClosing, which fails in the midst of startServer and of stopServer.
Sound(s) ==
  /\ s \in ServerRecords
  /\ Session(s)
  /\ ConnectionsApart(s)
  /\ GivenUpIsDown(s)

Good(s) == Sound(s) /\ StoppedIsClosing(s)

IInv == Good(server)

-----------------------------------------------------------------------------
(* The slots.                                                              *)

\* What no slot changes.
Fixed(s, t) ==
  /\ t.transport = s.transport
  /\ t.startsRunning = s.startsRunning
  /\ t.m_enabled = s.m_enabled

\* The connection, its request and its sockets.
SameSession(s, t) ==
  /\ t.connection = s.connection
  /\ t.doomed = s.doomed
  /\ t.request = s.request
  /\ t.sockets = s.sockets

\* The connection is given up with all that belongs to it.
SessionGone(s, t) ==
  /\ t.connection = NoConnection
  /\ t.doomed = s.doomed \cup ({s.connection} \ {NoConnection})
  /\ t.request = "none"
  /\ t.sockets = {}

\* The state that the server takes from its socket.
StateOf(state) == CASE state = "unconnected" -> "disconnected"
                    [] state = "closing"     -> "disconnecting"
                    [] OTHER                 -> state

\* A socket reports any state but connected: if its connection was connected, the
\* current connection is given up.
Down(s, c, state, t) ==
  /\ t \in ServerRecords
  /\ Fixed(s, t)
  /\ IF s.connected[c] THEN SessionGone(s, t) ELSE SameSession(s, t)
  /\ t.m_state = StateOf(state)
  /\ t.socket = [s.socket EXCEPT ![c] = state]
  /\ t.connected = [s.connected EXCEPT ![c] = FALSE]

\* setState changes the state and the timers.
LEMMA SetStateFacts ==
  ASSUME NEW s \in ServerRecords, NEW state \in States
  PROVE  LET t == SetState(s, state) IN
         /\ t \in ServerRecords
         /\ Fixed(s, t) /\ SameSession(s, t)
         /\ t.m_state = state
         /\ t.socket = s.socket /\ t.connected = s.connected
<1> DEFINE Same(u) == /\ u \in ServerRecords
                      /\ Fixed(s, u) /\ SameSession(s, u)
                      /\ u.socket = s.socket /\ u.connected = s.connected
           u == SetRunning(s, state = "running")
           v == [u EXCEPT !.m_state = state]
           w == [v EXCEPT !.reconnectTimer = TRUE, !.keepAliveTimer = FALSE]
<1>1. Same(s)
  BY DEF Fixed, SameSession
<1>2. Same(u)
  <2>1. CASE u = s
    BY <1>1, <2>1
  <2>2. CASE u = [s EXCEPT !.keepAliveTimer = (state = "running")]
    BY <2>2 DEF ServerRecords, Fixed, SameSession
  <2> HIDE DEF Same
  <2> QED
    BY <2>1, <2>2 DEF SetRunning
<1> HIDE DEF u
<1>3. Same(v) /\ v.m_state = state
  BY <1>2 DEF ServerRecords, Fixed, SameSession
<1> HIDE DEF v
<1>4. Same(w) /\ w.m_state = state
  BY <1>3 DEF ServerRecords, Fixed, SameSession
<1> HIDE DEF w
<1>5. SetState(s, state) = IF s.m_state = state THEN s
                           ELSE IF state = "disconnected" /\ s.m_enabled THEN w ELSE v
  BY DEF SetState, u, v, w
<1> HIDE DEF Same
<1>6. LET t == SetState(s, state) IN Same(t) /\ t.m_state = state
  BY <1>1, <1>3, <1>4, <1>5
<1> QED
  BY <1>6 DEF Same

\* cleanUp gives up the connection.
LEMMA CleanUpFacts ==
  ASSUME NEW s \in ServerRecords
  PROVE  LET t == CleanUp(s) IN
         /\ t \in ServerRecords
         /\ Fixed(s, t) /\ SessionGone(s, t)
         /\ t.m_state = "disconnected"
         /\ t.socket = s.socket /\ t.connected = s.connected
<1> DEFINE r == [Discarded(s) EXCEPT !.sockets = {}, !.request = "none"]
<1>1. /\ r \in ServerRecords /\ Fixed(s, r) /\ SessionGone(s, r)
      /\ r.socket = s.socket /\ r.connected = s.connected
  BY DEF Discarded, ServerRecords, Fixed, SessionGone
<1>2. CleanUp(s) = SetState(r, "disconnected")
  BY DEF CleanUp
<1> HIDE DEF r
<1> QED BY <1>1, <1>2, SetStateFacts DEF Fixed, SessionGone, SameSession, States

\* onConnectionChanged when the connection is lost.
LEMMA ConnectionDownFacts ==
  ASSUME NEW s \in ServerRecords
  PROVE  LET t == OnConnectionChanged(s, FALSE) IN
         /\ t \in ServerRecords
         /\ Fixed(s, t) /\ SessionGone(s, t)
         /\ t.m_state = "disconnected"
         /\ t.socket = s.socket /\ t.connected = s.connected
<1> DEFINE r == SetState(s, "disconnected")
           q == [r EXCEPT !.m_serverError = "notConnected"]
<1>1. r \in ServerRecords /\ Fixed(s, r) /\ SameSession(s, r) /\ r.socket = s.socket /\ r.connected = s.connected
  BY SetStateFacts DEF States
<1>2. OnConnectionChanged(s, FALSE) = CleanUp(q)
  BY DEF OnConnectionChanged
<1> HIDE DEF r
<1>3. q \in ServerRecords /\ Fixed(s, q) /\ SameSession(s, q) /\ q.socket = s.socket /\ q.connected = s.connected
  BY <1>1 DEF ServerRecords, Fixed, SameSession
<1> HIDE DEF q
<1> DEFINE t == CleanUp(q)
<1>4. /\ t \in ServerRecords /\ Fixed(q, t) /\ SessionGone(q, t)
      /\ t.m_state = "disconnected" /\ t.socket = q.socket /\ t.connected = q.connected
  BY <1>3, CleanUpFacts
<1> HIDE DEF t
<1>5. Fixed(s, t) /\ t.socket = s.socket /\ t.connected = s.connected
  BY <1>3, <1>4 DEF Fixed
<1>6. SessionGone(s, t)
  BY <1>3, <1>4 DEF SameSession, SessionGone
<1> QED BY <1>2, <1>4, <1>5, <1>6 DEF t

\* onConnectionChanged when the connection is made: Hello is sent.
LEMMA ConnectionUpFacts ==
  ASSUME NEW s \in ServerRecords
  PROVE  LET t == OnConnectionChanged(s, TRUE) IN
         /\ t \in ServerRecords
         /\ Fixed(s, t)
         /\ t.connection = s.connection /\ t.doomed = s.doomed /\ t.sockets = s.sockets
         /\ t.request = "Hello"
         /\ t.m_state = "initializing"
         /\ t.socket = s.socket /\ t.connected = s.connected
<1> DEFINE r == SetState(s, "connected")
           q == SetState(r, "initializing")
<1>1. r \in ServerRecords /\ Fixed(s, r) /\ SameSession(s, r) /\ r.socket = s.socket /\ r.connected = s.connected
  BY SetStateFacts DEF States
<1> HIDE DEF r
<1>2. /\ q \in ServerRecords /\ Fixed(s, q) /\ SameSession(s, q) /\ q.socket = s.socket
      /\ q.connected = s.connected /\ q.m_state = "initializing"
  BY <1>1, SetStateFacts DEF States, Fixed, SameSession
<1> HIDE DEF q
<1>3. OnConnectionChanged(s, TRUE) = [q EXCEPT !.m_serverError = "noError", !.request = "Hello"]
  BY DEF OnConnectionChanged, q, r
<1> DEFINE t == [q EXCEPT !.m_serverError = "noError", !.request = "Hello"]
<1>4. t \in ServerRecords
  BY <1>2 DEF ServerRecords
<1>5. /\ Fixed(q, t)
      /\ t.connection = q.connection /\ t.doomed = q.doomed /\ t.sockets = q.sockets
      /\ t.request = "Hello" /\ t.m_state = q.m_state
      /\ t.socket = q.socket /\ t.connected = q.connected
  BY <1>2 DEF ServerRecords, Fixed
<1> HIDE DEF t
<1> QED BY <1>2, <1>3, <1>4, <1>5 DEF Fixed, SameSession, t

\* A socket reports that it is anything else than connected.
LEMMA ReportsDown ==
  ASSUME NEW s \in ServerRecords, NEW c \in Connections,
         NEW state \in SocketStates \ {"connected"}
  PROVE  Down(s, c, state, Reports(s, c, state))
<1> DEFINE moved == [s EXCEPT !.socket[c] = state]
           lost == [moved EXCEPT !.connected[c] = FALSE]
           r == Connection!SetConnected(moved, c, FALSE)
<1>1. /\ moved \in ServerRecords /\ Fixed(s, moved) /\ SameSession(s, moved)
      /\ moved.socket = [s.socket EXCEPT ![c] = state] /\ moved.connected = s.connected
  BY DEF ServerRecords, Fixed, SameSession
<1>2. Reports(s, c, state) = OnConnectionStateChanged(r, state)
  BY DEF Reports, Connection!OnStateChanged, Connection!WebSocketOnStateChanged, Connection!TcpOnStateChanged
<1> HIDE DEF moved
<1>3. /\ lost \in ServerRecords /\ Fixed(s, lost) /\ SameSession(s, lost)
      /\ lost.socket = moved.socket /\ lost.connected = [s.connected EXCEPT ![c] = FALSE]
  BY <1>1 DEF ServerRecords, Fixed, SameSession
<1>4. r = IF s.connected[c] = FALSE THEN moved ELSE OnConnectionChanged(lost, FALSE)
  BY <1>1 DEF Connection!SetConnected
<1> HIDE DEF lost, r
<1>5. /\ r \in ServerRecords /\ Fixed(s, r)
      /\ IF s.connected[c] THEN SessionGone(s, r) ELSE SameSession(s, r)
      /\ r.socket = [s.socket EXCEPT ![c] = state]
      /\ r.connected = [s.connected EXCEPT ![c] = FALSE]
  <2>1. CASE s.connected[c] = FALSE
    <3>1. s.connected = [s.connected EXCEPT ![c] = FALSE]
      BY <2>1 DEF ServerRecords
    <3> QED BY <1>1, <1>4, <2>1, <3>1
  <2>2. CASE s.connected[c] = TRUE
    <3>1. r = OnConnectionChanged(lost, FALSE)
      BY <1>4, <2>2
    <3>2. /\ r \in ServerRecords /\ Fixed(lost, r) /\ SessionGone(lost, r)
          /\ r.socket = lost.socket /\ r.connected = lost.connected
      BY <1>3, <3>1, ConnectionDownFacts
    <3> QED BY <1>1, <1>3, <2>2, <3>2 DEF Fixed, SameSession, SessionGone
  <2>3. s.connected[c] \in BOOLEAN
    BY DEF ServerRecords
  <2> QED BY <2>1, <2>2, <2>3
<1>6. OnConnectionStateChanged(r, state) = SetState(r, StateOf(state)) /\ StateOf(state) \in States
  BY DEF OnConnectionStateChanged, StateOf, SocketStates, States
<1> QED BY <1>2, <1>5, <1>6, SetStateFacts DEF Down, Fixed, SameSession, SessionGone

\* The current socket reports that it is connected: Hello is sent, over TLS not before
\* it is encrypted.
LEMMA ReportsConnected ==
  ASSUME NEW s \in ServerRecords, NEW c \in Connections, ~s.connected[c]
  PROVE  LET t == Reports(s, c, "connected") IN
         /\ t \in ServerRecords
         /\ Fixed(s, t)
         /\ t.connection = s.connection /\ t.doomed = s.doomed /\ t.sockets = s.sockets
         /\ t.m_state = "connected"
         /\ t.socket = [s.socket EXCEPT ![c] = "connected"]
         /\ IF s.transport = "ssl" THEN t.connected = s.connected /\ t.request = s.request
            ELSE t.connected = [s.connected EXCEPT ![c] = TRUE] /\ t.request = "Hello"
<1> DEFINE moved == [s EXCEPT !.socket[c] = "connected"]
           made == [moved EXCEPT !.connected[c] = TRUE]
           up == OnConnectionChanged(made, TRUE)
           r == IF s.transport = "ssl" THEN moved ELSE up
           q == SetState(r, "connected")
<1>1. /\ moved \in ServerRecords /\ Fixed(s, moved) /\ SameSession(s, moved)
      /\ moved.socket = [s.socket EXCEPT ![c] = "connected"] /\ moved.connected = s.connected
  BY DEF ServerRecords, SocketStates, Fixed, SameSession
<1>2. Reports(s, c, "connected") = [q EXCEPT !.reconnectTimer = FALSE]
  <2>1. Connection!SetConnected(moved, c, TRUE) = up
    <3>1. moved.connected[c] # TRUE
      BY <1>1
    <3> HIDE DEF moved
    <3> QED BY <3>1 DEF Connection!SetConnected
  <2>2. moved.transport = s.transport
    BY <1>1 DEF Fixed
  <2>3. s.transport \in {"tcp", "ssl", "webSocket"}
    BY TransportsAssumption DEF ServerRecords
  <2> HIDE DEF up
  <2>4. Reports(s, c, "connected") = OnConnectionStateChanged(r, "connected")
    BY <2>1, <2>2, <2>3 DEF Reports, Connection!OnStateChanged,
       Connection!WebSocketOnStateChanged, Connection!TcpOnStateChanged
  <2> QED BY <2>4 DEF OnConnectionStateChanged
<1> HIDE DEF moved
<1>3. /\ made \in ServerRecords /\ Fixed(s, made) /\ SameSession(s, made)
      /\ made.socket = moved.socket /\ made.connected = [s.connected EXCEPT ![c] = TRUE]
  BY <1>1 DEF ServerRecords, Fixed, SameSession
<1> HIDE DEF made
<1>4. /\ up \in ServerRecords /\ Fixed(s, up)
      /\ up.connection = s.connection /\ up.doomed = s.doomed /\ up.sockets = s.sockets
      /\ up.request = "Hello" /\ up.socket = moved.socket
      /\ up.connected = [s.connected EXCEPT ![c] = TRUE]
  BY <1>3, ConnectionUpFacts DEF Fixed, SameSession
<1> HIDE DEF up
<1>5. r \in ServerRecords /\ Fixed(s, r)
  BY <1>1, <1>4
<1>6. /\ q \in ServerRecords /\ Fixed(r, q) /\ SameSession(r, q) /\ q.m_state = "connected"
      /\ q.socket = r.socket /\ q.connected = r.connected
  <2> HIDE DEF r
  <2> QED BY <1>5, SetStateFacts DEF States
<1> HIDE DEF q
<1>7. /\ q \in ServerRecords /\ Fixed(s, q)
      /\ q.connection = s.connection /\ q.doomed = s.doomed /\ q.sockets = s.sockets
      /\ q.m_state = "connected"
      /\ q.socket = [s.socket EXCEPT ![c] = "connected"]
      /\ IF s.transport = "ssl" THEN q.connected = s.connected /\ q.request = s.request
         ELSE q.connected = [s.connected EXCEPT ![c] = TRUE] /\ q.request = "Hello"
  BY <1>1, <1>4, <1>5, <1>6 DEF Fixed, SameSession
<1> DEFINE t == [q EXCEPT !.reconnectTimer = FALSE]
<1>8. t \in ServerRecords
  BY <1>7 DEF ServerRecords
<1>9. /\ Fixed(q, t)
      /\ t.connection = q.connection /\ t.doomed = q.doomed /\ t.sockets = q.sockets
      /\ t.m_state = q.m_state /\ t.request = q.request
      /\ t.socket = q.socket /\ t.connected = q.connected
  BY <1>7 DEF ServerRecords, Fixed
<1> HIDE DEF t
<1> QED BY <1>2, <1>7, <1>8, <1>9 DEF Fixed, t

\* The outcomes of ending the socket of a connection: it reports closing and is done
\* with that, or is not yet done.
LEMMA ClosedFacts ==
  ASSUME NEW s \in ServerRecords, NEW c \in Connections
  PROVE  Down(s, c, "unconnected", Connection!Closed(s, c))
<1> DEFINE r == Reports(s, c, "closing")
           t == Reports(r, c, "unconnected")
<1>1. Down(s, c, "closing", r)
  BY ReportsDown DEF SocketStates
<1>2. Connection!Closed(s, c) = t
  BY DEF Connection!Closed, Reports
<1> HIDE DEF r
<1>3. Down(r, c, "unconnected", t)
  BY <1>1, ReportsDown DEF SocketStates, Down
<1>4. ~r.connected[c]
  BY <1>1 DEF Down, ServerRecords
<1>5. /\ r.socket = [s.socket EXCEPT ![c] = "closing"]
      /\ r.connected = [s.connected EXCEPT ![c] = FALSE]
      /\ t.socket = [r.socket EXCEPT ![c] = "unconnected"]
      /\ t.connected = [r.connected EXCEPT ![c] = FALSE]
  BY <1>1, <1>3 DEF Down
<1>6. /\ t.socket = [s.socket EXCEPT ![c] = "unconnected"]
      /\ t.connected = [s.connected EXCEPT ![c] = FALSE]
  BY <1>5 DEF ServerRecords
<1> HIDE DEF t
<1> QED BY <1>1, <1>2, <1>3, <1>4, <1>6 DEF Down, Fixed, SameSession, SessionGone, StateOf

\* The outcomes of disconnectServer: nothing is left to do, the socket reports its end,
\* or a web socket that is connecting gives up without a report.
LEMMA DisconnectFacts ==
  ASSUME NEW s \in ServerRecords, NEW c \in Connections,
         NEW t \in Connection!DisconnectServer(s, c)
  PROVE  \/ t = s /\ s.socket[c] # "connected" /\ (s.transport = "webSocket" \/ s.socket[c] = "unconnected")
              /\ s.socket[c] # "connecting"
         \/ \E state \in {"unconnected", "closing"} : Down(s, c, state, t)
         \/ s.socket[c] = "connecting" /\ t = [s EXCEPT !.socket[c] = "closing"]
<1>1. Down(s, c, "unconnected", Connection!Closed(s, c))
  BY ClosedFacts
<1>2. Down(s, c, "closing", Connection!OnStateChanged(s, c, "closing"))
  BY ReportsDown DEF Reports, SocketStates
<1>3. t \in Connection!Closes(s, c) => \E state \in {"unconnected", "closing"} : Down(s, c, state, t)
  BY <1>1, <1>2 DEF Connection!Closes
<1>4. \/ s.socket[c] = "unconnected" /\ t = s
      \/ s.socket[c] # "unconnected" /\ s.transport # "webSocket" /\ t = Connection!Closed(s, c)
      \/ s.socket[c] # "unconnected" /\ s.transport = "webSocket" /\ t \in Connection!WebSocketDisconnect(s, c)
  BY DEF Connection!DisconnectServer, Connection!TcpDisconnect
<1>5. ASSUME t \in Connection!WebSocketDisconnect(s, c)
      PROVE  \/ s.socket[c] = "connecting" /\ t = [s EXCEPT !.socket[c] = "closing"]
             \/ s.socket[c] = "connected" /\ t \in Connection!Closes(s, c)
             \/ s.socket[c] \notin {"connecting", "connected"} /\ t = s
  BY <1>5 DEF Connection!WebSocketDisconnect
<1> QED BY <1>1, <1>3, <1>4, <1>5

-----------------------------------------------------------------------------
(* What the slots preserve.                                                *)

\* A report of the current socket, or of the socket of a connection that is given up
\* while it is connected, leaves no session without its connection.
LEMMA DownSound ==
  ASSUME NEW s, Sound(s), NEW c \in Connections, NEW t,
         NEW state \in SocketStates \ {"connected"}, Down(s, c, state, t),
         s.transport = "webSocket" => state # "hostLookup",
         c = s.connection \/ (c \in s.doomed /\ s.socket[c] = "connected")
  PROVE  Sound(t)
<1> USE NoConnectionAssumption DEF Down, Fixed, SameSession, SessionGone
<1>1. /\ s \in ServerRecords /\ t \in ServerRecords
      /\ s.socket \in [Connections -> SocketStates] /\ s.connected \in [Connections -> BOOLEAN]
      /\ s.doomed \subseteq Connections /\ s.connection \in Connections \cup {NoConnection}
  BY DEF Sound, ServerRecords
<1>2. StateOf(state) \notin {"register", "running"}
  BY DEF StateOf, SocketStates
<1>3. Session(t)
  BY <1>1, <1>2 DEF Sound, Session, ConnectionsApart
<1>4. ConnectionsApart(t)
  BY <1>1, <1>2 DEF Sound, ConnectionsApart
<1>5. GivenUpIsDown(t)
  BY <1>1 DEF Sound, GivenUpIsDown, ConnectionsApart
<1> QED BY <1>1, <1>3, <1>4, <1>5 DEF Sound

\* Disconnecting leaves nothing that could still get a stopped server to register.
LEMMA DisconnectsGood ==
  ASSUME NEW s, Sound(s), NEW t \in Disconnects(s)
  PROVE  /\ Good(t)
         /\ s.doomed \subseteq t.doomed
         /\ t.m_state \in {s.m_state, "disconnected", "disconnecting"}
<1>1. CASE s.connection = NoConnection
  BY <1>1 DEF Disconnects, Good, StoppedIsClosing
<1>2. CASE s.connection # NoConnection
  <2> DEFINE c == s.connection
  <2>1. /\ s \in ServerRecords /\ c \in Connections
        /\ s.socket[c] \in SocketStates
        /\ s.transport = "webSocket" => s.socket[c] # "hostLookup"
    BY <1>2 DEF Sound, ServerRecords, ConnectionsApart
  <2>2. t \in Connection!DisconnectServer(s, c)
    BY <1>2 DEF Disconnects
  <2>3. CASE t = s /\ s.socket[c] \in {"unconnected", "closing"}
    BY <2>1, <2>3 DEF Good, StoppedIsClosing
  <2>4. ASSUME NEW state \in {"unconnected", "closing"}, Down(s, c, state, t)
        PROVE  /\ Good(t)
               /\ s.doomed \subseteq t.doomed
               /\ t.m_state \in {"disconnected", "disconnecting"}
    <3>1. state \in SocketStates \ {"connected"} /\ state # "hostLookup"
      BY DEF SocketStates
    <3>2. Sound(t)
      BY <2>1, <2>4, <3>1, DownSound
    <3>3. StoppedIsClosing(t)
      BY <2>1, <2>4 DEF Down, SameSession, SessionGone, StoppedIsClosing, ServerRecords
    <3> QED BY <2>4, <3>2, <3>3 DEF Good, Down, StateOf, SameSession, SessionGone
  <2>5. CASE s.socket[c] = "connecting" /\ t = [s EXCEPT !.socket[c] = "closing"]
    <3>1. ~s.connected[c]
      BY <2>1, <2>5 DEF Sound, ConnectionsApart
    <3>2. t \in ServerRecords
      BY <2>1, <2>5 DEF ServerRecords, SocketStates
    <3>3. /\ Fixed(s, t) /\ SameSession(s, t) /\ t.m_state = s.m_state
          /\ t.socket = [s.socket EXCEPT ![c] = "closing"] /\ t.connected = s.connected
      BY <2>1, <2>5 DEF ServerRecords, Fixed, SameSession
    <3>4. /\ s.socket \in [Connections -> SocketStates]
      BY <2>1 DEF ServerRecords
    <3> HIDE DEF c
    <3>5. c = s.connection
      BY DEF c
    <3>6. Session(t) /\ ConnectionsApart(t) /\ GivenUpIsDown(t) /\ StoppedIsClosing(t)
      BY <2>1, <3>1, <3>3, <3>4, <3>5 DEF Sound, Session, ConnectionsApart, GivenUpIsDown, StoppedIsClosing,
         Fixed, SameSession
    <3> QED BY <3>2, <3>3, <3>6 DEF Good, Sound, SameSession
  <2> QED BY <2>1, <2>2, <2>3, <2>4, <2>5, DisconnectFacts DEF SocketStates
<1> QED BY <1>1, <1>2

\* A connection attempt replaces the connection that cleanUp gives up.
LEMMA StartedGood ==
  ASSUME NEW s, Good(s), NEW t \in Started(s),
         s.startsRunning \/ s.connection = NoConnection \/ s.socket[s.connection] # "connected"
  PROVE  /\ Good(t)
         /\ s.doomed \subseteq t.doomed
         /\ t.m_state \in {"disconnected", "hostLookup", "connecting"}
<1> DEFINE clean == CleanUp(s)
<1>0. s \in ServerRecords
  BY DEF Good, Sound
<1>1. /\ clean \in ServerRecords
      /\ Fixed(s, clean) /\ SessionGone(s, clean)
      /\ clean.m_state = "disconnected"
      /\ clean.socket = s.socket /\ clean.connected = s.connected
  BY <1>0, CleanUpFacts
<1>2. PICK c \in Unused(clean) :
        LET tried == Connection!ConnectServer([clean EXCEPT !.connection = c], c)
            failed == IF FailsAtOnce THEN {Reports(tried, c, "unconnected")} ELSE {}
        IN t \in {[u EXCEPT !.m_enabled = TRUE] : u \in {tried} \cup failed}
  BY DEF Started
<1> HIDE DEF clean
<1> DEFINE made == [clean EXCEPT !.connection = c]
           state == IF made.transport = "webSocket" THEN "connecting" ELSE "hostLookup"
           tried == Reports(made, c, state)
<1>3. c \in Connections /\ c \notin s.doomed /\ c # s.connection
  BY <1>1, NoConnectionAssumption DEF Unused, SessionGone, ServerRecords
<1>4. s.socket[c] = "unconnected" /\ ~s.connected[c]
  BY <1>3 DEF Good, Sound, Session, ConnectionsApart
<1>5. /\ made \in ServerRecords /\ Fixed(s, made)
      /\ made.connection = c /\ made.doomed = clean.doomed
      /\ made.request = "none" /\ made.sockets = {}
      /\ made.m_state = "disconnected"
      /\ made.socket = s.socket /\ made.connected = s.connected
  BY <1>1, <1>3 DEF ServerRecords, SessionGone, Fixed
<1>6. \E u : /\ u = tried \/ u = Reports(tried, c, "unconnected")
             /\ t = [u EXCEPT !.m_enabled = TRUE]
  <2>1. tried = Connection!ConnectServer(made, c)
    BY DEF Reports, Connection!ConnectServer, Connection!WebSocketConnecting, Connection!TcpConnecting
  <2> HIDE DEF tried, made
  <2> QED BY <1>2, <2>1 DEF made
<1> HIDE DEF made
<1>7. Sound(made)
  <2>1. Session(made)
    <3>1. \A x \in Connections :
            s.socket[x] # "unconnected" => x = s.connection \/ x \in s.doomed
      BY DEF Good, Sound, Session
    <3>2. \A x \in Connections : x = s.connection \/ x \in s.doomed => x \in made.doomed
      BY <1>1, <1>5, NoConnectionAssumption DEF SessionGone
    <3> QED
      BY <1>5, <3>1, <3>2 DEF Session
  <2>2. ConnectionsApart(made)
    BY <1>1, <1>3, <1>4, <1>5 DEF Good, Sound, ConnectionsApart, SessionGone, Fixed
  <2>3. GivenUpIsDown(made)
    BY <1>1, <1>3, <1>4, <1>5 DEF Good, Sound, GivenUpIsDown, SessionGone, Fixed
  <2> QED BY <1>5, <2>1, <2>2, <2>3 DEF Sound
<1>8. state \in SocketStates \ {"connected", "unconnected"} /\ (made.transport = "webSocket" => state # "hostLookup")
  BY DEF SocketStates
<1>9. Down(made, c, state, tried)
  BY <1>3, <1>5, <1>8, ReportsDown
<1> HIDE DEF state, tried
<1>10. Sound(tried)
  BY <1>3, <1>5, <1>7, <1>8, <1>9, DownSound
<1>11. tried.connection = c /\ tried.doomed = made.doomed /\ ~tried.connected[c] /\ tried \in ServerRecords
  BY <1>3, <1>4, <1>5, <1>9 DEF Down, SameSession, ServerRecords
<1>12. Down(tried, c, "unconnected", Reports(tried, c, "unconnected"))
  BY <1>3, <1>11, ReportsDown DEF SocketStates
<1>13. Sound(Reports(tried, c, "unconnected"))
  BY <1>3, <1>10, <1>11, <1>12, DownSound DEF SocketStates
<1>14. PICK u : Sound(u) /\ t = [u EXCEPT !.m_enabled = TRUE] /\ u.doomed = made.doomed
              /\ u.m_state \in {StateOf(state), "disconnected"}
  BY <1>6, <1>9, <1>10, <1>11, <1>12, <1>13 DEF Down, SameSession, StateOf
<1>15. /\ u \in ServerRecords /\ t \in ServerRecords /\ t.m_enabled = TRUE
       /\ t.transport = u.transport /\ t.startsRunning = u.startsRunning
       /\ SameSession(u, t) /\ t.m_state = u.m_state
       /\ t.socket = u.socket /\ t.connected = u.connected
  BY <1>14 DEF Sound, ServerRecords, SameSession
<1>16. Sound(t)
  BY <1>14, <1>15 DEF Sound, Session, ConnectionsApart, GivenUpIsDown, SameSession
<1>17. s.doomed \subseteq t.doomed
  BY <1>1, <1>5, <1>14, <1>15 DEF SessionGone, SameSession
<1>18. t.m_state \in {"disconnected", "hostLookup", "connecting"}
  BY <1>14, <1>15 DEF state, StateOf
<1> QED BY <1>15, <1>16, <1>17, <1>18 DEF Good, StoppedIsClosing

\* The deletion of a connection that was given up.
LEMMA DeletedGood ==
  ASSUME NEW s, Good(s), NEW c \in s.doomed, NEW t \in Connection!Deleted(s, c)
  PROVE  /\ Good(t)
         /\ t.m_state \in {s.m_state, "disconnected", "disconnecting"}
         /\ ~s.startsRunning => t.connection = s.connection /\ t.m_state = s.m_state
<1>1. s \in ServerRecords /\ Sound(s) /\ c \in Connections /\ c # s.connection
  BY DEF Good, Sound, ServerRecords, ConnectionsApart
<1>2. PICK u : /\ u = s \/ (s.socket[c] = "connected" /\ u \in Connection!Closes(s, c))
               /\ t = [u EXCEPT !.doomed = u.doomed \ {c},
                                !.socket[c] = "unconnected", !.connected[c] = FALSE]
  BY DEF Connection!Deleted
<1>3. ASSUME s.socket[c] = "connected", u \in Connection!Closes(s, c)
      PROVE  /\ Good(u) /\ c # u.connection
             /\ u.m_state \in {"disconnected", "disconnecting"}
             /\ s.startsRunning
  <2>1. Down(s, c, "unconnected", Connection!Closed(s, c))
    BY <1>1, ClosedFacts
  <2>2. Down(s, c, "closing", Connection!OnStateChanged(s, c, "closing"))
    BY <1>1, ReportsDown DEF Reports, SocketStates
  <2>3. PICK state \in {"unconnected", "closing"} : Down(s, c, state, u)
    BY <1>3, <2>1, <2>2 DEF Connection!Closes
  <2>4. state \in SocketStates \ {"connected"} /\ state # "hostLookup"
    BY DEF SocketStates
  <2>5. Sound(u)
    BY <1>1, <1>3, <2>3, <2>4, DownSound
  <2>6. s.startsRunning
    BY <1>1, <1>3 DEF Sound, GivenUpIsDown, ServerRecords
  <2>7. c # u.connection
    BY <1>1, <2>3, NoConnectionAssumption DEF Down, SessionGone, SameSession
  <2>8. StoppedIsClosing(u)
    BY <1>1, <2>3 DEF Good, StoppedIsClosing, Down, Fixed, SessionGone, SameSession, ServerRecords
  <2>9. u.m_state \in {"disconnected", "disconnecting"}
    BY <2>3 DEF Down, StateOf
  <2> QED BY <2>5, <2>6, <2>7, <2>8, <2>9 DEF Good
<1>4. /\ Good(u) /\ c # u.connection
      /\ u.m_state \in {s.m_state, "disconnected", "disconnecting"}
      /\ ~s.startsRunning => u = s
  BY <1>1, <1>2, <1>3
<1>5. /\ u \in ServerRecords /\ t \in ServerRecords
      /\ Fixed(u, t) /\ t.m_state = u.m_state
      /\ t.connection = u.connection /\ t.request = u.request /\ t.sockets = u.sockets
      /\ t.doomed = u.doomed \ {c}
      /\ t.socket = [u.socket EXCEPT ![c] = "unconnected"]
      /\ t.connected = [u.connected EXCEPT ![c] = FALSE]
  <2>1. u \in ServerRecords
    BY <1>4 DEF Good, Sound
  <2> QED BY <1>1, <1>2, <2>1 DEF ServerRecords, SocketStates, Fixed
<1>6. /\ u.socket \in [Connections -> SocketStates] /\ u.connected \in [Connections -> BOOLEAN]
      /\ u.doomed \subseteq Connections
  BY <1>5 DEF ServerRecords
<1>7. Session(t) /\ ConnectionsApart(t)
  BY <1>1, <1>4, <1>5, <1>6 DEF Good, Sound, Session, ConnectionsApart, Fixed
<1>8. GivenUpIsDown(t) /\ StoppedIsClosing(t)
  BY <1>1, <1>4, <1>5, <1>6 DEF Good, Sound, GivenUpIsDown, StoppedIsClosing, Fixed
<1> QED BY <1>4, <1>5, <1>7, <1>8 DEF Good, Sound

-----------------------------------------------------------------------------
(* The steps.                                                              *)

\* What every step from record s to record t does.
StepOK(s, t) ==
  /\ Good(t)
  /\ t.m_state \in {"register", "running"} /\ t.m_state # s.m_state => t.m_enabled
  /\ s.doomed \ t.doomed # {} /\ ~s.startsRunning
       => t.connection = s.connection /\ t.m_state = s.m_state

\* A step that makes no connection and gives none up, and gets to no further state.
LEMMA SessionKept ==
  ASSUME NEW s, Good(s), NEW t \in ServerRecords,
         Fixed(s, t), t.connection = s.connection, t.doomed = s.doomed,
         t.m_state = s.m_state, t.socket = s.socket, t.connected = s.connected,
         t.request = "none" \/ t.request = s.request,
         t.sockets = s.sockets \/ s.m_state = "running"
  PROVE  StepOK(s, t)
BY DEF StepOK, Good, Sound, Session, ConnectionsApart, GivenUpIsDown, StoppedIsClosing, Fixed

\* The application and the deferred deletions.
LEMMA ApplicationStep ==
  ASSUME IInv,
         StartServer \/ StopServer \/ \E c \in Connections : DeferredDelete(c)
  PROVE  StepOK(server, server')
<1>0. server \in ServerRecords /\ Good(server)
  BY DEF IInv, Good, Sound
<1>1. CASE StartServer
  <2>1. server.startsRunning \/ server.connection = NoConnection
          \/ server.socket[server.connection] # "connected"
    BY <1>0, <1>1 DEF StartServer, Good, StoppedIsClosing
  <2> QED BY <1>0, <1>1, <2>1, StartedGood DEF StartServer, StepOK
<1>2. CASE StopServer
  <2> DEFINE s == [server EXCEPT !.m_enabled = FALSE, !.reconnectTimer = FALSE]
  <2>1. /\ s \in ServerRecords /\ SameSession(server, s) /\ s.m_state = server.m_state
        /\ s.startsRunning = server.startsRunning /\ s.transport = server.transport
        /\ s.socket = server.socket /\ s.connected = server.connected
    BY <1>0 DEF ServerRecords, SameSession
  <2>2. server' \in Disconnects(s)
    BY <1>2 DEF StopServer
  <2> HIDE DEF s
  <2>3. Sound(s)
    BY <1>0, <2>1 DEF Good, Sound, Session, ConnectionsApart, GivenUpIsDown, SameSession
  <2> QED BY <2>1, <2>2, <2>3, DisconnectsGood DEF StepOK, SameSession
<1>3. ASSUME NEW c \in Connections, DeferredDelete(c) PROVE StepOK(server, server')
  BY <1>0, <1>3, DeletedGood DEF DeferredDelete, StepOK
<1> QED BY <1>1, <1>2, <1>3

\* The current socket: it makes progress, fails or is closed by the proxy.
LEMMA SocketStep ==
  ASSUME IInv, NEW c \in Connections,
         HostFound(c) \/ SocketConnects(c) \/ Encrypted(c) \/ SocketGivesUp(c) \/ ConnectionLost(c)
  PROVE  StepOK(server, server')
<1>0. server \in ServerRecords /\ Good(server) /\ Sound(server)
  BY DEF IInv, Good, Sound
<1>1. /\ server.doomed = {} /\ c = server.connection /\ c # NoConnection
      /\ server.socket[c] \in {"hostLookup", "connecting", "connected"} => server.m_enabled
  BY <1>0, NoConnectionAssumption
     DEF HostFound, SocketConnects, Encrypted, SocketGivesUp, ConnectionLost, Ready, Good, StoppedIsClosing
<1>2. ASSUME NEW state \in {"connecting", "unconnected"}, Down(server, c, state, server'),
             state = "connecting" => server.m_enabled
      PROVE  StepOK(server, server')
  <2>1. Sound(server')
    BY <1>0, <1>1, <1>2, DownSound DEF SocketStates
  <2>2. StoppedIsClosing(server')
    BY <1>0, <1>1, <1>2 DEF Down, Fixed, SameSession, SessionGone, StoppedIsClosing, ServerRecords
  <2>3. server.doomed \subseteq server'.doomed /\ server'.m_state \notin {"register", "running"}
    BY <1>1, <1>2 DEF Down, StateOf
  <2> QED BY <2>1, <2>2, <2>3 DEF StepOK, Good
<1>3. CASE HostFound(c)
  BY <1>0, <1>1, <1>2, <1>3, ReportsDown DEF HostFound, SocketStates
<1>4. CASE SocketGivesUp(c)
  BY <1>0, <1>2, <1>4, ReportsDown DEF SocketGivesUp, SocketStates
<1>5. CASE ConnectionLost(c)
  BY <1>0, <1>2, <1>5, ClosedFacts DEF ConnectionLost, Ends
<1>6. ASSUME server' \in ServerRecords, Fixed(server, server'), server.m_enabled,
             ~server.connected[c],
             server'.connection = c, server'.doomed = {}, server'.sockets = server.sockets,
             server'.m_state \in {"connected", "initializing"},
             server'.socket = [server.socket EXCEPT ![c] = "connected"],
             \/ server'.connected = server.connected /\ server'.request = server.request
             \/ server'.connected = [server.connected EXCEPT ![c] = TRUE]
      PROVE  StepOK(server, server')
  <2>1. /\ server.socket \in [Connections -> SocketStates]
        /\ server.connected \in [Connections -> BOOLEAN]
    BY <1>0 DEF ServerRecords
  <2>2. server.sockets = {} /\ server.request = "none"
    BY <1>0, <1>1, <1>6 DEF Sound, Session
  <2>3. Session(server')
    BY <1>0, <1>1, <1>6, <2>1, <2>2 DEF Sound, Session
  <2>4. ConnectionsApart(server') /\ GivenUpIsDown(server') /\ StoppedIsClosing(server')
    BY <1>0, <1>1, <1>6, <2>1, <2>2 DEF Sound, ConnectionsApart, GivenUpIsDown, StoppedIsClosing, Fixed
  <2> QED BY <1>1, <1>6, <2>3, <2>4 DEF StepOK, Good, Sound
<1>7. CASE SocketConnects(c)
  <2>1. ~server.connected[c] /\ server.m_enabled
    BY <1>0, <1>1, <1>7 DEF SocketConnects, Sound, ConnectionsApart
  <2> QED BY SMTT(60), <1>0, <1>1, <1>6, <1>7, <2>1, ReportsConnected DEF SocketConnects
<1>8. CASE Encrypted(c)
  <2> DEFINE s == [server EXCEPT !.connected[c] = TRUE]
  <2>1. /\ s \in ServerRecords /\ Fixed(server, s) /\ SameSession(server, s)
        /\ s.socket = server.socket /\ s.connected = [server.connected EXCEPT ![c] = TRUE]
    BY <1>0 DEF ServerRecords, Fixed, SameSession
  <2>2. server' = OnConnectionChanged(s, TRUE)
    BY <1>8 DEF Encrypted, Connection!OnEncrypted, Connection!SetConnected
  <2>3. server.socket = [server.socket EXCEPT ![c] = "connected"]
    BY <1>0, <1>8 DEF Encrypted, ServerRecords
  <2> HIDE DEF s
  <2>4. /\ server' \in ServerRecords /\ Fixed(server, server')
        /\ server'.connection = c /\ server'.doomed = {} /\ server'.sockets = server.sockets
        /\ server'.m_state = "initializing"
        /\ server'.socket = server.socket /\ server'.connected = [server.connected EXCEPT ![c] = TRUE]
    BY <1>1, <2>1, <2>2, ConnectionUpFacts DEF Fixed, SameSession
  <2> QED BY <1>1, <1>6, <1>8, <2>3, <2>4 DEF Encrypted
<1> QED BY <1>3, <1>4, <1>5, <1>7, <1>8

\* A response to Hello or RegisterServer: the next request, the running state, or the end
\* of the connection.  It is one to the current connection, which is up: a stopped
\* server gets none.
LEMMA ResponseStep ==
  ASSUME IInv, NEW success \in BOOLEAN,
         OnHelloFinished(success) \/ OnServerRegistrationFinished(success)
  PROVE  StepOK(server, server')
<1>0. server \in ServerRecords /\ Good(server)
  BY DEF IInv, Good, Sound
<1>1. /\ server.request # "none" /\ server.doomed = {}
      /\ server.connection # NoConnection /\ server.connected[server.connection]
      /\ server.connection \in Connections /\ server.m_enabled
  BY <1>0 DEF OnHelloFinished, OnServerRegistrationFinished, Ready, Good, Sound, Session,
              ConnectionsApart, StoppedIsClosing, ServerRecords
<1> DEFINE s == Received(server)
<1>2. /\ s \in ServerRecords /\ Fixed(server, s) /\ s.m_state = server.m_state
      /\ s.connection = server.connection /\ s.doomed = {} /\ s.sockets = server.sockets
      /\ s.request = "none" /\ s.socket = server.socket /\ s.connected = server.connected
  BY <1>0, <1>1 DEF Received, ServerRecords, Fixed
<1>3. \/ server' = [SetState(s, "register") EXCEPT !.request = "RegisterServer"] /\ server.request = "Hello"
      \/ server' = [SetState(s, "running") EXCEPT !.m_serverError = "noError"]
      \/ server' \in Refused(s)
  BY DEF OnHelloFinished, OnServerRegistrationFinished
<1> HIDE DEF s
<1>4. ASSUME NEW state \in {"register", "running"}, server' \in ServerRecords,
             Fixed(s, server'), server'.m_state = state, state = "running" => server'.request = "none",
             server'.connection = server.connection, server'.doomed = {},
             server'.sockets = server.sockets, state = "register" => server.sockets = {},
             server'.socket = server.socket, server'.connected = server.connected
      PROVE  StepOK(server, server')
  BY <1>0, <1>1, <1>2, <1>4 DEF StepOK, Good, Sound, Session, ConnectionsApart, GivenUpIsDown,
     StoppedIsClosing, Fixed
<1>5. ASSUME server' = [SetState(s, "register") EXCEPT !.request = "RegisterServer"],
             server.request = "Hello"
      PROVE  StepOK(server, server')
  <2>1. server.sockets = {}
    BY <1>0, <1>1 DEF Good, Sound, Session, ConnectionsApart
  <2>2. /\ server' \in ServerRecords /\ Fixed(s, server') /\ server'.m_state = "register"
        /\ server'.connection = s.connection /\ server'.doomed = s.doomed
        /\ server'.sockets = s.sockets
        /\ server'.socket = s.socket /\ server'.connected = s.connected
    BY <1>2, <1>5, SetStateFacts DEF ServerRecords, States, Fixed, SameSession
  <2> QED BY <1>2, <1>4, <2>1, <2>2
<1>6. ASSUME server' = [SetState(s, "running") EXCEPT !.m_serverError = "noError"]
      PROVE  StepOK(server, server')
  <2>1. /\ server' \in ServerRecords /\ Fixed(s, server') /\ server'.m_state = "running"
        /\ server'.connection = s.connection /\ server'.doomed = s.doomed
        /\ server'.sockets = s.sockets /\ server'.request = "none"
        /\ server'.socket = s.socket /\ server'.connected = s.connected
    BY <1>2, <1>6, SetStateFacts DEF ServerRecords, States, Fixed, SameSession
  <2> QED BY <1>2, <1>4, <2>1
<1>7. ASSUME server' \in Refused(s)
      PROVE  StepOK(server, server')
  <2>1. PICK t \in Disconnects(s) : server' = [t EXCEPT !.m_serverError = "connectionError"]
    BY <1>7 DEF Refused
  <2>2. Sound(s)
    BY <1>0, <1>1, <1>2 DEF Good, Sound, Session, ConnectionsApart, GivenUpIsDown, Fixed
  <2>3. Good(t) /\ t \in ServerRecords /\ t.m_state \in {server.m_state, "disconnected", "disconnecting"}
    BY <1>2, <2>2, DisconnectsGood DEF Good, Sound
  <2>4. /\ server' \in ServerRecords /\ Fixed(t, server') /\ SameSession(t, server')
        /\ server'.m_state = t.m_state
        /\ server'.socket = t.socket /\ server'.connected = t.connected
    BY <2>1, <2>3 DEF ServerRecords, Fixed, SameSession
  <2>5. Good(server')
    BY <2>3, <2>4 DEF Good, Sound, Session, ConnectionsApart, GivenUpIsDown, StoppedIsClosing,
       Fixed, SameSession
  <2> QED BY <1>1, <2>3, <2>4, <2>5 DEF StepOK
<1> QED BY <1>3, <1>5, <1>6, <1>7

\* Clients come and go, and the timers fire.
LEMMA ClientAndTimerStep ==
  ASSUME IInv,
         \/ \E a \in SocketAddresses :
              OnTunnelProxyClientConnected(a) \/ OnTunnelProxyClientDisconnected(a)
         \/ ReconnectTimeout \/ KeepAliveTimeout
  PROVE  StepOK(server, server')
<1>0. server \in ServerRecords /\ Good(server)
  BY DEF IInv, Good, Sound
<1>1. CASE \E a \in SocketAddresses :
             OnTunnelProxyClientConnected(a) \/ OnTunnelProxyClientDisconnected(a)
  <2>1. PICK a \in SocketAddresses :
          OnTunnelProxyClientConnected(a) \/ OnTunnelProxyClientDisconnected(a)
    BY <1>1
  <2>2. \E sockets \in SUBSET SocketAddresses :
          server' = [server EXCEPT !.keepAliveTimer = TRUE, !.sockets = sockets]
    <3>1. server.sockets \cup {a} \in SUBSET SocketAddresses /\ server.sockets \ {a} \in SUBSET SocketAddresses
      BY <1>0 DEF ServerRecords
    <3> QED BY <2>1, <3>1 DEF OnTunnelProxyClientConnected, OnTunnelProxyClientDisconnected
  <2>3. server.m_state = "running"
    BY <2>1 DEF OnTunnelProxyClientConnected, OnTunnelProxyClientDisconnected
  <2>4. /\ server' \in ServerRecords /\ Fixed(server, server')
        /\ server'.connection = server.connection /\ server'.doomed = server.doomed
        /\ server'.m_state = "running" /\ server.m_state = "running"
        /\ server'.socket = server.socket /\ server'.connected = server.connected
        /\ server'.request = server.request
    BY <1>0, <2>2, <2>3 DEF ServerRecords, Fixed
  <2> QED BY <1>0, <2>4, SessionKept
<1>2. CASE KeepAliveTimeout \/ (ReconnectTimeout /\ ~server.m_enabled)
  <2>1. /\ server' \in ServerRecords /\ Fixed(server, server') /\ SameSession(server, server')
        /\ server'.m_state = server.m_state
        /\ server'.socket = server.socket /\ server'.connected = server.connected
    <3>1. CASE server' = [server EXCEPT !.keepAliveTimer = FALSE]
      BY <1>0, <3>1 DEF ServerRecords, Fixed, SameSession
    <3>2. CASE server' = [server EXCEPT !.reconnectTimer = FALSE]
      BY <1>0, <3>2 DEF ServerRecords, Fixed, SameSession
    <3> QED
      BY <1>2, <3>1, <3>2 DEF KeepAliveTimeout, ReconnectTimeout
  <2> QED BY <1>0, <2>1, SessionKept DEF SameSession
<1>3. CASE ReconnectTimeout /\ server.m_enabled
  <2>1. server' \in Started(server) /\ server.m_state = "disconnected"
    BY <1>3 DEF ReconnectTimeout
  <2>2. server.startsRunning \/ server.connection = NoConnection
          \/ server.socket[server.connection] # "connected"
    BY <1>0, <2>1 DEF Good, Sound, GivenUpIsDown
  <2> QED BY <1>0, <2>1, <2>2, StartedGood DEF StepOK
<1> QED BY <1>1, <1>2, <1>3

-----------------------------------------------------------------------------
(* The theorems.                                                           *)

\* A server starts without a connection.
LEMMA InitInv == Init => IInv
<1> SUFFICES ASSUME Init PROVE IInv
  OBVIOUS
<1>1. PICK transport \in Transports, startsRunning \in StartsRunning :
        server = [transport |-> transport, startsRunning |-> startsRunning,
                  m_state |-> "disconnected", m_serverError |-> "noError", m_enabled |-> FALSE,
                  reconnectTimer |-> FALSE, keepAliveTimer |-> FALSE,
                  connection |-> NoConnection, request |-> "none", sockets |-> {},
                  doomed |-> {}, socket |-> NoSockets, connected |-> NotConnected]
  BY DEF Init
<1>2. server \in ServerRecords
  BY <1>1, StartsRunningAssumption DEF ServerRecords, States, NoSockets, NotConnected, SocketStates
<1> QED BY <1>1, <1>2 DEF IInv, Good, Sound, Session, ConnectionsApart, GivenUpIsDown, StoppedIsClosing,
           NoSockets, NotConnected

\* Every step preserves the invariant, and does no more than StepOK allows.
THEOREM InvStep == IInv /\ [Next]_vars => IInv' /\ StepOK(server, server')
<1> SUFFICES ASSUME IInv, [Next]_vars PROVE StepOK(server, server')
  BY DEF StepOK, IInv
<1>1. CASE UNCHANGED vars
  BY <1>1 DEF vars, IInv, StepOK
<1>2. CASE Next
  BY <1>2, ApplicationStep, SocketStep, ResponseStep, ClientAndTimerStep DEF Next, Network
<1> QED BY <1>1, <1>2

\* The inductive invariant holds, however often the server is started and stopped, its
\* connection is lost or its registration refused.
THEOREM Invariance == Spec => []IInv
<1>1. Init => IInv
  BY InitInv
<1>2. IInv /\ [Next]_vars => IInv'
  BY InvStep
<1> QED BY <1>1, <1>2, PTL DEF Spec

\* Every field of the server keeps its type: no slot leaves an unknown state.
THEOREM TypeCorrect == Spec => []TypeOK
<1>1. IInv => TypeOK
  BY DEF IInv, Good, Sound, TypeOK
<1> QED BY <1>1, Invariance, PTL

\* No state, request or socket of a server survives the connection it belongs to, and no
\* connection is leaked with its socket open.
THEOREM SessionsHaveConnections == Spec => []SessionHasConnection
<1>1. IInv => SessionHasConnection
  BY DEF IInv, Good, Sound, Session, SessionHasConnection
<1> QED BY <1>1, Invariance, PTL

\* A stopped server neither registers nor runs, whatever was under way.
THEOREM StoppedServersStayDown == Spec => StoppedStaysDown
<1> DEFINE StaysDown == server'.m_state \in {"register", "running"} /\ server'.m_state # server.m_state
                      => server'.m_enabled
<1>1. IInv /\ [Next]_vars => [StaysDown]_vars
  BY InvStep DEF StepOK
<1> QED BY <1>1, Invariance, PTL DEF Spec, StoppedStaysDown

\* If the application stops the server before it starts it again, the destructor of a
\* former connection never disturbs the connection made since.
THEOREM OldConnectionsHarmless == Spec => OldConnectionHarmless
<1> DEFINE Harmless == server.doomed \ server'.doomed # {} /\ ~server.startsRunning
             => /\ server'.connection = server.connection
                /\ server'.m_state = server.m_state
<1>1. IInv /\ [Next]_vars => [Harmless]_vars
  BY InvStep DEF StepOK
<1> QED BY <1>1, Invariance, PTL DEF Spec, OldConnectionHarmless

=============================================================================
