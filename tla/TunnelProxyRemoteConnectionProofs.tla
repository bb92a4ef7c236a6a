----------------- MODULE TunnelProxyRemoteConnectionProofs -----------------
(***************************************************************************)
(* The theorems about TunnelProxyRemoteConnection, for any number of       *)
(* connections, any transports and any amount of data.  A lemma about each *)
(* slot says what it does to the record of the client; the steps are       *)
(* compositions of slots.  Reads of JSON data handle any number of packets *)
(* in a loop, whose invariant is an induction over the packets.            *)
(***************************************************************************)
EXTENDS TunnelProxyRemoteConnection, FiniteSetTheorems, SequenceTheorems,
        WellFoundedInduction, TLAPS

\* The current connection is up.
Connected(s) == s.connection # NoConnection /\ s.connected[s.connection]

\* The current connection is none of those given up, and is not up while they wait for
\* their deletion.  Only a connected socket makes a connection connected.
ConnectionsApart(s) ==
  /\ s.connection \notin s.doomed
  /\ s.doomed # {} => ~Connected(s)
  /\ \A c \in Connections : s.connected[c] =>
       s.socket[c] = "connected" /\ (c = s.connection \/ c \in s.doomed)

\* The session exists as long as the connection is up, and is at one of three points.
Session(s) ==
  /\ Connected(s) <=> s.request # "none" \/ s.m_state = "remoteConnected"
  /\ s.request = "Hello" => s.m_state \in {"initializing", "connected"} /\ s.buffer = <<>>
  /\ s.request = "RegisterClient" <=> s.m_state = "register"
  /\ ~Connected(s) => s.buffer = <<>>

Sound(s) == s \in ClientRecords /\ ConnectionsApart(s) /\ Session(s)

\* What the proxy has answered, and what of it has not been read, at each point of the
\* session.  Without a session nothing can be read, and on a connection that is not up
\* yet nothing was answered.  A refusal is the last that the proxy sends.
Dialogue ==
  /\ ~Connected(client) => wire = <<>> /\ (client.connection # NoConnection => answered = "none")
  /\ client.request = "Hello" =>
       \/ answered = "none" /\ wire = <<>>
       \/ answered = "Hello" /\ (wire = <<"HelloResponse">> \/ wire = <<"refused">>)
  /\ client.request = "RegisterClient" =>
       \/ answered = "Hello" /\ wire = <<>> /\ client.buffer = <<>>
       \/ /\ answered = "RegisterClient"
          /\ \/ wire = <<"refused">> /\ client.buffer = <<>>
             \/ "refused" \notin Range(wire) \cup Range(client.buffer)
  /\ client.m_state = "remoteConnected" => answered = "RegisterClient"

\* Where the data of the tunnel is, if the response before it is read by itself.
Stream ==
  /\ client.connection # NoConnection /\ answered # "RegisterClient" =>
       sentData = <<>> /\ dataReady = <<>>
  /\ client.request = "RegisterClient" /\ answered = "RegisterClient" =>
       /\ client.buffer = <<>> /\ dataReady = <<>>
       /\ \/ wire = <<"refused">> /\ sentData = <<>>
          \/ wire = <<"RegisterResponse">> \o sentData
  /\ client.m_state = "remoteConnected" => dataReady \o wire = sentData

IInv == TypeOK /\ Sound(client) /\ Dialogue /\ (~CoalesceReads => Stream)

-----------------------------------------------------------------------------
(* The slots.                                                              *)

\* What no slot changes.
Fixed(s, t) == t.transport = s.transport /\ t.startsRunning = s.startsRunning

\* The connection and its session.
SameSession(s, t) ==
  /\ t.connection = s.connection
  /\ t.doomed = s.doomed
  /\ t.request = s.request
  /\ t.buffer = s.buffer

\* The connection is given up with all that belongs to it.
SessionGone(s, t) ==
  /\ t.connection = NoConnection
  /\ t.doomed = s.doomed \cup ({s.connection} \ {NoConnection})
  /\ t.request = "none"
  /\ t.buffer = <<>>

\* The state that the client takes from its socket.
StateOf(state) == CASE state = "unconnected" -> "disconnected"
                    [] state = "closing"     -> "disconnecting"
                    [] OTHER                 -> state

\* A socket reports any state but connected: if its connection was connected, the
\* current connection is given up.
Down(s, c, state, t) ==
  /\ t \in ClientRecords
  /\ Fixed(s, t)
  /\ IF s.connected[c] THEN SessionGone(s, t) ELSE SameSession(s, t)
  /\ t.m_state = StateOf(state)
  /\ t.socket = [s.socket EXCEPT ![c] = state]
  /\ t.connected = [s.connected EXCEPT ![c] = FALSE]

\* setState changes nothing else.
LEMMA SetStateFacts ==
  ASSUME NEW s \in ClientRecords, NEW state \in States
  PROVE  LET t == SetState(s, state) IN
         /\ t \in ClientRecords
         /\ Fixed(s, t) /\ SameSession(s, t)
         /\ t.m_state = state
         /\ t.socket = s.socket /\ t.connected = s.connected
BY DEF SetState, ClientRecords, Fixed, SameSession

\* cleanUp gives up the connection.
LEMMA CleanUpFacts ==
  ASSUME NEW s \in ClientRecords
  PROVE  LET t == CleanUp(s) IN
         /\ t \in ClientRecords
         /\ Fixed(s, t) /\ SessionGone(s, t)
         /\ t.m_state = "disconnected"
         /\ t.socket = s.socket /\ t.connected = s.connected
<1> DEFINE d == Discarded(s)
           r == [d EXCEPT !.request = "none", !.buffer = <<>>]
<1>1. /\ r \in ClientRecords /\ Fixed(s, r) /\ SessionGone(s, r)
      /\ r.socket = s.socket /\ r.connected = s.connected
  <2>1. /\ d \in ClientRecords /\ Fixed(s, d)
        /\ d.connection = NoConnection
        /\ d.doomed = s.doomed \cup ({s.connection} \ {NoConnection})
        /\ d.socket = s.socket /\ d.connected = s.connected
    BY DEF Discarded, ClientRecords, Fixed
  <2>2. <<>> \in Buffers
    BY DEF Buffers
  <2> HIDE DEF d
  <2> QED
    BY <2>1, <2>2 DEF ClientRecords, Fixed, SessionGone, Requests
<1>2. CleanUp(s) = SetState(r, "disconnected")
  BY DEF CleanUp
<1> HIDE DEF r
<1> QED
  BY <1>1, <1>2, SetStateFacts DEF Fixed, SessionGone, SameSession, States

\* A socket reports that it is anything else than connected.
LEMMA ReportsDown ==
  ASSUME NEW s \in ClientRecords, NEW c \in Connections,
         NEW state \in SocketStates \ {"connected"}
  PROVE  Down(s, c, state, Reports(s, c, state))
<1> DEFINE moved == [s EXCEPT !.socket[c] = state]
           lost == [moved EXCEPT !.connected[c] = FALSE]
           r == Connection!SetConnected(moved, c, FALSE)
<1>1. /\ moved \in ClientRecords /\ Fixed(s, moved) /\ SameSession(s, moved)
      /\ moved.socket = [s.socket EXCEPT ![c] = state] /\ moved.connected = s.connected
  BY DEF ClientRecords, Fixed, SameSession
<1>2. Reports(s, c, state) = OnConnectionStateChanged(r, state)
  BY DEF Reports, Connection!OnStateChanged, Connection!WebSocketOnStateChanged,
     Connection!TcpOnStateChanged
<1> HIDE DEF moved
<1>3. /\ lost \in ClientRecords /\ Fixed(s, lost) /\ SameSession(s, lost)
      /\ lost.socket = moved.socket /\ lost.connected = [s.connected EXCEPT ![c] = FALSE]
  BY <1>1 DEF ClientRecords, Fixed, SameSession
<1>4. r = IF s.connected[c] = FALSE THEN moved ELSE CleanUp(lost)
  BY <1>1 DEF Connection!SetConnected, OnConnectionChanged
<1> HIDE DEF lost, r
<1>5. /\ r \in ClientRecords /\ Fixed(s, r)
      /\ IF s.connected[c] THEN SessionGone(s, r) ELSE SameSession(s, r)
      /\ r.socket = [s.socket EXCEPT ![c] = state]
      /\ r.connected = [s.connected EXCEPT ![c] = FALSE]
  <2>1. CASE s.connected[c] = FALSE
    <3>1. s.connected = [s.connected EXCEPT ![c] = FALSE]
      BY <2>1 DEF ClientRecords
    <3> QED
      BY <1>1, <1>4, <2>1, <3>1
  <2>2. CASE s.connected[c] = TRUE
    <3>1. r = CleanUp(lost)
      BY <1>4, <2>2
    <3>2. /\ r \in ClientRecords /\ Fixed(lost, r) /\ SessionGone(lost, r)
          /\ r.socket = lost.socket /\ r.connected = lost.connected
      BY <1>3, <3>1, CleanUpFacts
    <3> QED
      BY <1>1, <1>3, <2>2, <3>2 DEF Fixed, SameSession, SessionGone
  <2>3. s.connected[c] \in BOOLEAN
    BY DEF ClientRecords
  <2> QED
    BY <2>1, <2>2, <2>3
<1>6. OnConnectionStateChanged(r, state) = SetState(r, StateOf(state)) /\ StateOf(state) \in States
  BY DEF OnConnectionStateChanged, StateOf, SocketStates, States
<1> QED
  BY <1>2, <1>5, <1>6, SetStateFacts DEF Down, Fixed, SameSession, SessionGone

\* connectedChanged(true): Hello is sent.
LEMMA ConnectionUpFacts ==
  ASSUME NEW s \in ClientRecords, NEW c \in Connections, ~s.connected[c]
  PROVE  LET t == Connection!SetConnected(s, c, TRUE) IN
         /\ t \in ClientRecords
         /\ Fixed(s, t)
         /\ t.connection = s.connection /\ t.doomed = s.doomed /\ t.buffer = s.buffer
         /\ t.request = "Hello" /\ t.m_state = "initializing"
         /\ t.socket = s.socket /\ t.connected = [s.connected EXCEPT ![c] = TRUE]
<1> DEFINE made == [s EXCEPT !.connected[c] = TRUE]
           r == SetState(made, "initializing")
<1>1. /\ made \in ClientRecords /\ Fixed(s, made) /\ SameSession(s, made)
      /\ made.socket = s.socket /\ made.connected = [s.connected EXCEPT ![c] = TRUE]
  BY DEF ClientRecords, Fixed, SameSession
<1>2. Connection!SetConnected(s, c, TRUE) = [r EXCEPT !.request = "Hello"]
  BY DEF Connection!SetConnected, OnConnectionChanged
<1> HIDE DEF made
<1>3. /\ r \in ClientRecords /\ Fixed(made, r) /\ SameSession(made, r) /\ r.m_state = "initializing"
      /\ r.socket = made.socket /\ r.connected = made.connected
  BY <1>1, SetStateFacts DEF States
<1> HIDE DEF r
<1> QED
  BY <1>1, <1>2, <1>3 DEF ClientRecords, Requests, Fixed, SameSession

\* The current socket reports that it is connected: Hello is sent, over TLS not before
\* it is encrypted.
LEMMA ReportsConnected ==
  ASSUME NEW s \in ClientRecords, NEW c \in Connections, ~s.connected[c]
  PROVE  LET t == Reports(s, c, "connected") IN
         /\ t \in ClientRecords
         /\ Fixed(s, t)
         /\ t.connection = s.connection /\ t.doomed = s.doomed /\ t.buffer = s.buffer
         /\ t.m_state = "connected"
         /\ t.socket = [s.socket EXCEPT ![c] = "connected"]
         /\ IF s.transport = "ssl" THEN t.connected = s.connected /\ t.request = s.request
            ELSE t.connected = [s.connected EXCEPT ![c] = TRUE] /\ t.request = "Hello"
<1> DEFINE moved == [s EXCEPT !.socket[c] = "connected"]
           up == Connection!SetConnected(moved, c, TRUE)
           r == IF s.transport = "ssl" THEN moved ELSE up
<1>1. /\ moved \in ClientRecords /\ Fixed(s, moved) /\ SameSession(s, moved)
      /\ moved.socket = [s.socket EXCEPT ![c] = "connected"] /\ moved.connected = s.connected
  BY DEF ClientRecords, SocketStates, Fixed, SameSession
<1>2. Reports(s, c, "connected") = SetState(r, "connected")
  <2>1. moved.transport = s.transport
    BY <1>1 DEF Fixed
  <2>2. s.transport \in {"tcp", "ssl", "webSocket"}
    BY TransportsAssumption DEF ClientRecords
  <2> HIDE DEF up
  <2>3. Reports(s, c, "connected") = OnConnectionStateChanged(r, "connected")
    BY <2>1, <2>2 DEF Reports, Connection!OnStateChanged,
       Connection!WebSocketOnStateChanged, Connection!TcpOnStateChanged, up
  <2> QED
    BY <2>3 DEF OnConnectionStateChanged
<1> HIDE DEF moved
<1>3. /\ up \in ClientRecords /\ Fixed(s, up)
      /\ up.connection = s.connection /\ up.doomed = s.doomed /\ up.buffer = s.buffer
      /\ up.request = "Hello" /\ up.socket = moved.socket
      /\ up.connected = [s.connected EXCEPT ![c] = TRUE]
  <2>1. ~moved.connected[c]
    BY <1>1
  <2>2. /\ up \in ClientRecords /\ Fixed(moved, up)
        /\ up.connection = moved.connection /\ up.doomed = moved.doomed
        /\ up.buffer = moved.buffer /\ up.request = "Hello"
        /\ up.socket = moved.socket /\ up.connected = [moved.connected EXCEPT ![c] = TRUE]
    BY <1>1, <2>1, ConnectionUpFacts, Zenon
  <2> HIDE DEF up
  <2> QED
    BY <1>1, <2>2 DEF Fixed, SameSession
<1> HIDE DEF up
<1>4. /\ r \in ClientRecords /\ Fixed(s, r)
      /\ r.connection = s.connection /\ r.doomed = s.doomed /\ r.buffer = s.buffer
      /\ r.socket = [s.socket EXCEPT ![c] = "connected"]
      /\ IF s.transport = "ssl" THEN r.connected = s.connected /\ r.request = s.request
         ELSE r.connected = [s.connected EXCEPT ![c] = TRUE] /\ r.request = "Hello"
  BY <1>1, <1>3 DEF SameSession
<1> HIDE DEF r
<1> QED
  BY <1>2, <1>4, SetStateFacts DEF States, Fixed, SameSession

\* The outcomes of ending the socket of a connection.
LEMMA ClosedFacts ==
  ASSUME NEW s \in ClientRecords, NEW c \in Connections
  PROVE  Down(s, c, "unconnected", Connection!Closed(s, c))
<1> DEFINE r == Reports(s, c, "closing")
           t == Reports(r, c, "unconnected")
<1>1. Down(s, c, "closing", r)
  BY ReportsDown DEF SocketStates
<1>2. Connection!Closed(s, c) = t
  BY DEF Connection!Closed, Reports
<1> HIDE DEF r
<1>3. Down(r, c, "unconnected", t)
  BY <1>1, ReportsDown DEF SocketStates, Down
<1>4. ~r.connected[c]
  BY <1>1 DEF Down, ClientRecords
<1>5. /\ r.socket = [s.socket EXCEPT ![c] = "closing"]
      /\ r.connected = [s.connected EXCEPT ![c] = FALSE]
      /\ t.socket = [r.socket EXCEPT ![c] = "unconnected"]
      /\ t.connected = [r.connected EXCEPT ![c] = FALSE]
  BY <1>1, <1>3 DEF Down
<1>6. /\ t.socket = [s.socket EXCEPT ![c] = "unconnected"]
      /\ t.connected = [s.connected EXCEPT ![c] = FALSE]
  BY <1>5 DEF ClientRecords
<1> HIDE DEF t
<1> QED
  BY <1>1, <1>2, <1>3, <1>4, <1>6 DEF Down, Fixed, SameSession, SessionGone, StateOf

\* The outcomes of disconnectServer: nothing is left to do, the socket reports its end,
\* or a web socket that is connecting gives up without a report.
LEMMA DisconnectFacts ==
  ASSUME NEW s \in ClientRecords, NEW c \in Connections,
         NEW t \in Connection!DisconnectServer(s, c)
  PROVE  \/ t = s /\ s.socket[c] # "connected"
         \/ \E state \in {"unconnected", "closing"} : Down(s, c, state, t)
         \/ s.socket[c] = "connecting" /\ t = [s EXCEPT !.socket[c] = "closing"]
<1>1. Down(s, c, "unconnected", Connection!Closed(s, c))
  BY ClosedFacts
<1>2. Down(s, c, "closing", Connection!OnStateChanged(s, c, "closing"))
  BY ReportsDown DEF Reports, SocketStates
<1>3. t \in Connection!Closes(s, c) => \E state \in {"unconnected", "closing"} : Down(s, c, state, t)
  BY <1>1, <1>2 DEF Connection!Closes
<1>4. \/ s.socket[c] = "unconnected" /\ t = s
      \/ s.socket[c] # "unconnected" /\ s.transport # "webSocket" /\ t = Connection!Closed(s, c)
      \/ s.socket[c] # "unconnected" /\ s.transport = "webSocket"
           /\ t \in Connection!WebSocketDisconnect(s, c)
  BY DEF Connection!DisconnectServer, Connection!TcpDisconnect
<1>5. ASSUME t \in Connection!WebSocketDisconnect(s, c)
      PROVE  \/ s.socket[c] = "connecting" /\ t = [s EXCEPT !.socket[c] = "closing"]
             \/ s.socket[c] = "connected" /\ t \in Connection!Closes(s, c)
             \/ s.socket[c] \notin {"connecting", "connected"} /\ t = s
  BY <1>5 DEF Connection!WebSocketDisconnect
<1> QED
  BY <1>1, <1>3, <1>4, <1>5

-----------------------------------------------------------------------------
(* What the slots preserve.                                                *)

\* No session is left; a connection that is left was not up before either.
Quiet(s, t) ==
  /\ ~Connected(t)
  /\ t.connection # NoConnection => t.connection = s.connection /\ ~Connected(s)

\* A report of the current socket, or of one that was given up, ends the session if there
\* is one.
LEMMA DownSound ==
  ASSUME NEW s \in ClientRecords, ConnectionsApart(s), NEW c \in Connections, NEW t,
         NEW state \in SocketStates \ {"connected"}, Down(s, c, state, t),
         c = s.connection \/ c \in s.doomed,
         s.connected[c] \/ Session(s)
  PROVE  Sound(t) /\ Quiet(s, t)
<1> USE NoConnectionAssumption DEF Down, Fixed, SameSession, SessionGone
<1>1. /\ t \in ClientRecords
      /\ s.socket \in [Connections -> SocketStates] /\ s.connected \in [Connections -> BOOLEAN]
      /\ s.doomed \subseteq Connections /\ s.connection \in Connections \cup {NoConnection}
  BY DEF ClientRecords
<1>2. StateOf(state) \notin {"register", "remoteConnected"}
  BY DEF StateOf, SocketStates
<1>3. CASE s.connected[c]
  <2>1. /\ t.connection = NoConnection /\ t.request = "none" /\ t.buffer = <<>>
        /\ t.doomed = s.doomed \cup ({s.connection} \ {NoConnection})
        /\ t.socket = [s.socket EXCEPT ![c] = state]
        /\ t.connected = [s.connected EXCEPT ![c] = FALSE]
        /\ t.m_state = StateOf(state)
    BY <1>3
  <2>2. ConnectionsApart(t)
    BY <1>1, <2>1 DEF ConnectionsApart, Connected
  <2>3. Session(t) /\ Quiet(s, t)
    BY <1>2, <2>1 DEF Session, Quiet, Connected
  <2> QED
    BY <1>1, <2>2, <2>3 DEF Sound
<1>4. CASE ~s.connected[c]
  <2>1. t.connected = s.connected
    <3>1. s.connected[c] = FALSE /\ t.connected = [s.connected EXCEPT ![c] = FALSE]
      BY <1>1, <1>4
    <3>2. ASSUME NEW f \in [Connections -> BOOLEAN], f[c] = FALSE
          PROVE  [f EXCEPT ![c] = FALSE] = f
      BY <3>2, Zenon
    <3> QED
      BY <1>1, <3>1, <3>2
  <2>2. /\ t.connection = s.connection /\ t.request = s.request /\ t.buffer = s.buffer
        /\ t.doomed = s.doomed
        /\ t.socket = [s.socket EXCEPT ![c] = state]
        /\ t.m_state = StateOf(state)
    BY <1>4
  <2>3. ~Connected(s) /\ Session(s)
    BY <1>4 DEF ConnectionsApart, Connected
  <2>4. ~Connected(t)
    BY <2>1, <2>2, <2>3 DEF Connected
  <2>5. ConnectionsApart(t)
    BY <1>1, <1>4, <2>1, <2>2, <2>4 DEF ConnectionsApart
  <2>6. Session(t) /\ Quiet(s, t)
    BY <1>2, <2>2, <2>3, <2>4 DEF Session, Quiet
  <2> QED
    BY <1>1, <2>5, <2>6 DEF Sound
<1> QED
  BY <1>3, <1>4

\* disconnectServer, also behind a response that resets the request: the session is over.
LEMMA DisconnectsSound ==
  ASSUME NEW s \in ClientRecords, ConnectionsApart(s), Connected(s) \/ Session(s),
         NEW t \in Disconnects(s)
  PROVE  Sound(t) /\ Quiet(s, t)
<1>1. CASE s.connection = NoConnection
  BY <1>1 DEF Disconnects, Sound, Quiet, Connected
<1>2. CASE s.connection # NoConnection
  <2> DEFINE c == s.connection
  <2>1. c \in Connections /\ s.connected[c] \in BOOLEAN
    BY <1>2 DEF ClientRecords
  <2>2. t \in Connection!DisconnectServer(s, c)
    BY <1>2 DEF Disconnects
  <2>3. CASE t = s /\ s.socket[c] # "connected"
    <3>1. ~Connected(s)
      BY <1>2, <2>1, <2>3 DEF ConnectionsApart, Connected
    <3> QED
      BY <2>3, <3>1 DEF Sound, Quiet
  <2>4. ASSUME NEW state \in {"unconnected", "closing"}, Down(s, c, state, t)
        PROVE  Sound(t) /\ Quiet(s, t)
    <3>1. state \in SocketStates \ {"connected"}
      BY DEF SocketStates
    <3>2. s.connected[c] \/ Session(s)
      BY DEF Connected
    <3> QED
      BY <2>1, <2>4, <3>1, <3>2, DownSound
  <2>5. CASE s.socket[c] = "connecting" /\ t = [s EXCEPT !.socket[c] = "closing"]
    <3>1. ~Connected(s) /\ ~s.connected[c]
      BY <1>2, <2>1, <2>5 DEF ConnectionsApart, Connected
    <3>2. t \in ClientRecords
      BY <2>1, <2>5 DEF ClientRecords, SocketStates
    <3>3. /\ SameSession(s, t) /\ t.m_state = s.m_state
          /\ t.socket = [s.socket EXCEPT ![c] = "closing"] /\ t.connected = s.connected
      BY <2>1, <2>5 DEF ClientRecords, SameSession
    <3>4. /\ s.socket \in [Connections -> SocketStates]
      BY DEF ClientRecords
    <3> HIDE DEF c
    <3>5. c = s.connection
      BY DEF c
    <3>6. ~Connected(t)
      BY <3>1, <3>3 DEF Connected, SameSession
    <3>7. ConnectionsApart(t)
      BY <2>1, <3>1, <3>3, <3>4, <3>5, <3>6 DEF ConnectionsApart, SameSession
    <3>8. Session(t)
      BY <3>1, <3>3, <3>6 DEF Session, SameSession
    <3> QED
      BY <3>1, <3>2, <3>3, <3>6, <3>7, <3>8 DEF Sound, Quiet, SameSession
  <2> QED
    BY <2>1, <2>2, <2>3, <2>4, <2>5, DisconnectFacts
<1> QED
  BY <1>1, <1>2

\* A connection attempt gives up the connection before, and is not up yet.
LEMMA AttemptsSound ==
  ASSUME NEW s, Sound(s), NEW t \in Attempts(s)
  PROVE  Sound(t) /\ ~Connected(t)
<1> DEFINE clean == CleanUp(s)
<1>0. s \in ClientRecords
  BY DEF Sound
<1>1. /\ clean \in ClientRecords
      /\ Fixed(s, clean) /\ SessionGone(s, clean)
      /\ clean.m_state = "disconnected"
      /\ clean.socket = s.socket /\ clean.connected = s.connected
  BY <1>0, CleanUpFacts
<1>2. PICK c \in Unused(clean) :
        LET tried == Connection!ConnectServer([clean EXCEPT !.connection = c], c)
        IN t \in {tried} \cup (IF FailsAtOnce THEN {Reports(tried, c, "unconnected")} ELSE {})
  BY DEF Attempts
<1> HIDE DEF clean
<1> DEFINE made == [clean EXCEPT !.connection = c]
           state == IF made.transport = "webSocket" THEN "connecting" ELSE "hostLookup"
           tried == Reports(made, c, state)
<1>3. c \in Connections /\ c \notin clean.doomed /\ c # s.connection
  BY <1>1, NoConnectionAssumption DEF Unused, SessionGone, ClientRecords
<1>4. ~s.connected[c]
  BY <1>1, <1>3 DEF Sound, ConnectionsApart, SessionGone
<1>5. /\ made \in ClientRecords
      /\ made.connection = c /\ made.doomed = clean.doomed
      /\ made.request = "none" /\ made.buffer = <<>>
      /\ made.m_state = "disconnected"
      /\ made.socket = s.socket /\ made.connected = s.connected
  BY <1>1, <1>3 DEF ClientRecords, SessionGone
<1>6. t = tried \/ t = Reports(tried, c, "unconnected")
  <2>1. tried = Connection!ConnectServer(made, c)
    BY DEF Reports, Connection!ConnectServer, Connection!WebSocketConnecting,
       Connection!TcpConnecting
  <2> HIDE DEF tried, made
  <2> QED
    BY <1>2, <2>1 DEF made
<1> HIDE DEF made
<1>7. ~Connected(made)
  BY <1>4, <1>5 DEF Connected
<1>8. Sound(made)
  <2>1. Session(made)
    BY <1>5, <1>7 DEF Session
  <2>2. ConnectionsApart(made)
    <3>1. \A x \in Connections : s.connected[x] => s.socket[x] = "connected"
      BY DEF Sound, ConnectionsApart
    <3>2. \A x \in Connections : s.connected[x] => x \in clean.doomed
      BY <1>1, NoConnectionAssumption DEF Sound, ConnectionsApart, SessionGone
    <3> QED
      BY <1>3, <1>5, <1>7, <3>1, <3>2 DEF ConnectionsApart
  <2> QED
    BY <1>5, <2>1, <2>2 DEF Sound
<1>9. state \in SocketStates \ {"connected"} /\ "unconnected" \in SocketStates \ {"connected"}
  BY DEF SocketStates
<1>10. Down(made, c, state, tried)
  BY <1>3, <1>5, <1>9, ReportsDown
<1> HIDE DEF state, tried
<1>11. Sound(tried) /\ ~Connected(tried)
  BY <1>3, <1>5, <1>8, <1>9, <1>10, DownSound DEF Sound, Quiet
<1>12. tried.connection = c
  BY <1>4, <1>5, <1>10 DEF Down, SameSession
<1>13. Down(tried, c, "unconnected", Reports(tried, c, "unconnected"))
  BY <1>3, <1>9, <1>11, ReportsDown DEF Sound
<1>14. Sound(Reports(tried, c, "unconnected")) /\ ~Connected(Reports(tried, c, "unconnected"))
  BY <1>3, <1>9, <1>11, <1>12, <1>13, DownSound DEF Sound, Quiet
<1> QED
  BY <1>6, <1>11, <1>14

\* The deletion of a connection that was given up.
LEMMA DeletedSound ==
  ASSUME NEW s, Sound(s), NEW c \in s.doomed, NEW t \in Connection!Deleted(s, c)
  PROVE  Sound(t) /\ Quiet(s, t)
<1>1. s \in ClientRecords /\ c \in Connections /\ c # s.connection /\ ~Connected(s)
  BY DEF Sound, ClientRecords, ConnectionsApart
<1> DEFINE gone(u) == [u EXCEPT !.doomed = @ \ {c},
                                !.socket[c] = "unconnected", !.connected[c] = FALSE]
<1>2. PICK u : t = gone(u) /\ (u = s \/ u \in Connection!Closes(s, c))
  BY DEF Connection!Deleted
<1>3. Sound(u) /\ Quiet(s, u) /\ c \in u.doomed /\ c # u.connection
  <2>1. CASE u = s
    BY <1>1, <2>1 DEF Quiet
  <2>2. CASE u \in Connection!Closes(s, c)
    <3>1. PICK state \in {"unconnected", "closing"} : Down(s, c, state, u)
      <4>1. Down(s, c, "unconnected", Connection!Closed(s, c))
        BY <1>1, ClosedFacts
      <4>2. Down(s, c, "closing", Connection!OnStateChanged(s, c, "closing"))
        BY <1>1, ReportsDown DEF Reports, SocketStates
      <4> QED
        BY <2>2, <4>1, <4>2 DEF Connection!Closes
    <3>2. state \in SocketStates \ {"connected"}
      BY DEF SocketStates
    <3>3. Sound(u) /\ Quiet(s, u)
      BY <1>1, <3>1, <3>2, DownSound DEF Sound
    <3>4. c \in u.doomed
      BY <3>1 DEF Down, SameSession, SessionGone
    <3> QED
      BY <3>3, <3>4 DEF Sound, ConnectionsApart
  <2> QED
    BY <1>2, <2>1, <2>2
<1>4. /\ t \in ClientRecords
      /\ t.connection = u.connection /\ t.request = u.request /\ t.buffer = u.buffer
      /\ t.m_state = u.m_state /\ t.doomed = u.doomed \ {c}
      /\ t.socket = [u.socket EXCEPT ![c] = "unconnected"]
      /\ t.connected = [u.connected EXCEPT ![c] = FALSE]
  BY <1>1, <1>2, <1>3 DEF Sound, ClientRecords, SocketStates
<1>5. ~Connected(t)
  BY <1>3, <1>4 DEF Connected, Quiet, Sound, ClientRecords
<1>6. ConnectionsApart(t)
  BY <1>1, <1>3, <1>4, <1>5 DEF Sound, ConnectionsApart, ClientRecords
<1>7. Session(t)
  BY <1>3, <1>4, <1>5 DEF Sound, Session, Quiet
<1> QED
  BY <1>3, <1>4, <1>5, <1>6, <1>7 DEF Sound, Quiet

-----------------------------------------------------------------------------
(* Steps without data.                                                     *)

\* A step after which the connection is not up, and nothing is left to read.
LEMMA QuietStep ==
  ASSUME IInv, Sound(client'), Quiet(client, client'), wire' = <<>>,
         UNCHANGED <<answered, sentData, dataReady>>
  PROVE  IInv'
<1>1. TypeOK'
  BY DEF IInv, TypeOK, Sound, Buffers
<1>2. ~Connected(client') /\ client'.request = "none" /\ client'.m_state # "remoteConnected"
  BY DEF Quiet, Sound, Session
<1>3. Dialogue'
  BY <1>2 DEF IInv, Dialogue, Quiet
<1>4. Stream \/ CoalesceReads
  BY DEF IInv
<1>5. Stream => Stream'
  BY <1>2 DEF IInv, Stream, Quiet
<1> QED
  BY <1>1, <1>3, <1>4, <1>5 DEF IInv

LEMMA ConnectStep ==
  ASSUME IInv, Connect
  PROVE  IInv'
<1>1. Sound(client') /\ ~Connected(client')
  BY AttemptsSound DEF IInv, Connect
<1>2. client'.request = "none" /\ client'.m_state # "remoteConnected"
  BY <1>1 DEF Sound, Session
<1>3. wire' = <<>> /\ answered' = "none" /\ sentData' = <<>> /\ dataReady' = <<>>
  BY DEF Connect
<1>4. TypeOK'
  BY <1>1, <1>3 DEF TypeOK, Sound, Buffers, Requests
<1>5. Dialogue' /\ Stream'
  BY <1>1, <1>2, <1>3 DEF Dialogue, Stream
<1> QED
  BY <1>1, <1>4, <1>5 DEF IInv

\* Before a session there is nothing to read.
LEMMA NothingToRead ==
  ASSUME IInv, ~Connected(client)
  PROVE  wire = <<>>
BY DEF IInv, Dialogue

LEMMA EndingStep ==
  ASSUME IInv,
         \/ Disconnect
         \/ \E c \in Connections : DeferredDelete(c) \/ SocketGivesUp(c) \/ ConnectionLost(c)
  PROVE  IInv'
<1>0. Sound(client) /\ client \in ClientRecords /\ ConnectionsApart(client) /\ Session(client)
  BY DEF IInv, Sound
<1>1. CASE Disconnect
  BY <1>0, <1>1, DisconnectsSound, QuietStep DEF Disconnect
<1>2. ASSUME NEW c \in Connections, DeferredDelete(c)
      PROVE  IInv'
  <2>1. ~Connected(client)
    BY <1>0, <1>2 DEF DeferredDelete, ConnectionsApart
  <2> QED
    BY <1>0, <1>2, <2>1, NothingToRead, DeletedSound, QuietStep DEF DeferredDelete, SocketStep
<1>3. ASSUME NEW c \in Connections, SocketGivesUp(c)
      PROVE  IInv'
  <2>1. ~Connected(client) /\ c = client.connection /\ client' = Reports(client, c, "unconnected")
    BY <1>0, <1>3 DEF SocketGivesUp, Ready, Connected, ConnectionsApart
  <2>2. "unconnected" \in SocketStates \ {"connected"}
    BY DEF SocketStates
  <2>3. Sound(client') /\ Quiet(client, client')
    BY <1>0, <2>1, <2>2, ReportsDown, DownSound
  <2> QED
    BY <1>3, <2>1, <2>3, NothingToRead, QuietStep DEF SocketGivesUp, SocketStep
<1>4. ASSUME NEW c \in Connections, ConnectionLost(c)
      PROVE  IInv'
  <2>1. c = client.connection /\ client' = Connection!Closed(client, c)
    BY <1>4 DEF ConnectionLost, Ready
  <2>2. "unconnected" \in SocketStates \ {"connected"}
    BY DEF SocketStates
  <2>3. Sound(client') /\ Quiet(client, client')
    BY <1>0, <2>1, <2>2, ClosedFacts, DownSound
  <2> QED
    BY <1>4, <2>3, QuietStep DEF ConnectionLost
<1> QED
  BY <1>1, <1>2, <1>3, <1>4

\* The connection gets up, and the session begins with Hello.
LEMMA UpStep ==
  ASSUME IInv, ~Connected(client), client.connection # NoConnection, SocketStep,
         Sound(client'), client'.connection = client.connection, client'.request = "Hello"
  PROVE  IInv'
<1>1. wire = <<>> /\ answered = "none"
  BY DEF IInv, Dialogue
<1>2. UNCHANGED <<wire, answered, sentData, dataReady>>
  BY DEF SocketStep
<1>3. TypeOK'
  BY <1>2 DEF IInv, TypeOK, Sound
<1>4. Connected(client') /\ client'.m_state \notin {"register", "remoteConnected"}
  BY DEF Sound, Session
<1>5. Dialogue'
  BY <1>1, <1>2, <1>4 DEF Dialogue
<1>6. Stream => Stream'
  BY <1>1, <1>2, <1>4 DEF Stream
<1> QED
  BY <1>3, <1>5, <1>6 DEF IInv

LEMMA ConnectingStep ==
  ASSUME IInv,
         \E c \in Connections : HostFound(c) \/ SocketConnects(c) \/ Encrypted(c)
  PROVE  IInv'
<1>0. Sound(client) /\ client \in ClientRecords /\ ConnectionsApart(client) /\ Session(client)
  BY DEF IInv, Sound
<1>1. ASSUME NEW c \in Connections, HostFound(c)
      PROVE  IInv'
  <2>1. ~Connected(client) /\ c = client.connection /\ client' = Reports(client, c, "connecting")
    BY <1>0, <1>1 DEF HostFound, Ready, Connected, ConnectionsApart
  <2>2. "connecting" \in SocketStates \ {"connected"}
    BY DEF SocketStates
  <2>3. Sound(client') /\ Quiet(client, client')
    BY <1>0, <2>1, <2>2, ReportsDown, DownSound
  <2> QED
    BY <1>1, <2>1, <2>3, NothingToRead, QuietStep DEF HostFound, SocketStep
<1>2. ASSUME NEW c \in Connections, SocketConnects(c)
      PROVE  IInv'
  <2> DEFINE s == client
             t == client'
  <2>1. /\ c = s.connection /\ s.doomed = {} /\ s.socket[c] = "connecting"
        /\ t = Reports(s, c, "connected")
    BY <1>2 DEF SocketConnects, Ready
  <2>2. ~s.connected[c] /\ ~Connected(s)
    BY <1>0, <2>1 DEF ConnectionsApart, Connected
  <2>3. /\ t \in ClientRecords
        /\ t.connection = s.connection /\ t.doomed = s.doomed /\ t.buffer = s.buffer
        /\ t.m_state = "connected"
        /\ t.socket = [s.socket EXCEPT ![c] = "connected"]
        /\ IF s.transport = "ssl" THEN t.connected = s.connected /\ t.request = s.request
           ELSE t.connected = [s.connected EXCEPT ![c] = TRUE] /\ t.request = "Hello"
    BY <1>0, <2>1, <2>2, ReportsConnected
  <2>4. /\ s.socket \in [Connections -> SocketStates] /\ s.connected \in [Connections -> BOOLEAN]
        /\ s.connection # NoConnection
    BY <1>0, <2>1, NoConnectionAssumption DEF ClientRecords
  <2>5. s.request = "none" /\ s.buffer = <<>>
    BY <1>0, <2>2 DEF Session
  <2>6. SocketStep
    BY <1>2 DEF SocketConnects
  <2> HIDE DEF s, t
  <2>7. CASE s.transport = "ssl"
    <3>1. ~Connected(t)
      BY <2>1, <2>2, <2>3, <2>7 DEF Connected
    <3>2. ConnectionsApart(t) /\ Session(t)
      BY <1>0, <2>1, <2>2, <2>3, <2>4, <2>5, <2>7, <3>1 DEF ConnectionsApart, Session, s
    <3>3. Sound(t) /\ Quiet(s, t)
      BY <2>2, <2>3, <3>1, <3>2 DEF Sound, Quiet
    <3> QED
      BY <2>2, <2>6, <3>3, NothingToRead, QuietStep DEF s, t, SocketStep
  <2>8. CASE s.transport # "ssl"
    <3>1. Connected(t) /\ t.request = "Hello"
      BY <2>1, <2>3, <2>4, <2>8 DEF Connected
    <3>2. ConnectionsApart(t) /\ Session(t)
      BY <1>0, <2>1, <2>2, <2>3, <2>4, <2>5, <2>8, <3>1 DEF ConnectionsApart, Session, s
    <3>3. Sound(t)
      BY <2>3, <3>2 DEF Sound
    <3> QED
      BY <2>2, <2>3, <2>4, <2>6, <3>1, <3>3, UpStep DEF s, t
  <2> QED
    BY <2>7, <2>8
<1>3. ASSUME NEW c \in Connections, Encrypted(c)
      PROVE  IInv'
  <2> DEFINE s == client
             t == client'
  <2>1. /\ c = s.connection /\ s.doomed = {} /\ s.socket[c] = "connected" /\ ~s.connected[c]
        /\ t = Connection!SetConnected(s, c, TRUE)
    BY <1>3 DEF Encrypted, Ready, Connection!OnEncrypted
  <2>2. ~Connected(s)
    BY <2>1 DEF Connected
  <2>3. /\ t \in ClientRecords
        /\ t.connection = s.connection /\ t.doomed = s.doomed /\ t.buffer = s.buffer
        /\ t.request = "Hello" /\ t.m_state = "initializing"
        /\ t.socket = s.socket /\ t.connected = [s.connected EXCEPT ![c] = TRUE]
    BY <1>0, <2>1, ConnectionUpFacts
  <2>4. /\ s.connected \in [Connections -> BOOLEAN]
        /\ s.connection # NoConnection
    BY <1>0, <2>1, NoConnectionAssumption DEF ClientRecords
  <2>5. s.buffer = <<>>
    BY <1>0, <2>2 DEF Session
  <2>6. SocketStep
    BY <1>3 DEF Encrypted
  <2> HIDE DEF s, t
  <2>7. Connected(t)
    BY <2>1, <2>3, <2>4 DEF Connected
  <2>8. ConnectionsApart(t) /\ Session(t)
    BY <1>0, <2>1, <2>3, <2>4, <2>5, <2>7 DEF ConnectionsApart, Session, s
  <2>9. Sound(t)
    BY <2>3, <2>8 DEF Sound
  <2> QED
    BY <2>2, <2>3, <2>4, <2>6, <2>9, UpStep DEF s, t
<1> QED
  BY <1>1, <1>2, <1>3

-----------------------------------------------------------------------------
(* Induction over the packets of a read.  The least number of a set stands *)
(* for an induction theorem: the set is what the induction is about.       *)

\* Every set of natural numbers has a least element.
LEMMA LeastNatural ==
  ASSUME NEW T \in SUBSET Nat, T # {}
  PROVE  \E m \in T : \A k \in T : m <= k
<1> DEFINE Below(n) == 0..n
           D == {Below(n) : n \in T}
<1>1. D \subseteq FiniteSubsetsOf(Nat)
  <2>1. ASSUME NEW n \in T PROVE Below(n) \in FiniteSubsetsOf(Nat)
    BY FS_Interval, 0 \in Int, n \in Int DEF FiniteSubsetsOf
  <2> QED
    BY <2>1
<1>2. PICK x \in D : \A y \in D : <<y, x>> \notin StrictSubsetOrdering(Nat)
  <2>1. IsWellFoundedOn(StrictSubsetOrdering(Nat), FiniteSubsetsOf(Nat))
    BY FS_StrictSubsetOrderingWellFounded
  <2>2. D # {}
    OBVIOUS
  <2> HIDE DEF D
  <2> QED
    BY <1>1, <2>1, <2>2, WFMin
<1>3. PICK m \in T : x = Below(m)
  OBVIOUS
<1>4. ASSUME NEW k \in T, k < m PROVE FALSE
  <2>1. Below(k) \subseteq Below(m) /\ Below(k) # Below(m)
    <3>1. m \in Below(m) /\ m \notin Below(k)
      BY <1>4
    <3>2. Below(k) \subseteq Below(m)
      BY <1>4
    <3> QED
      BY <3>1, <3>2
  <2>2. <<Below(k), Below(m)>> \in StrictSubsetOrdering(Nat)
    BY <2>1 DEF StrictSubsetOrdering
  <2> QED
    BY <1>2, <1>3, <2>2
<1> QED
  BY <1>4

\* A set that holds 0, and with each number the next, holds them all.
LEMMA Induction ==
  ASSUME NEW T, 0 \in T, \A n \in Nat : n \in T => n + 1 \in T
  PROVE  Nat \subseteq T
<1>1. SUFFICES ASSUME Nat \ T # {} PROVE FALSE
  OBVIOUS
<1>2. PICK m \in Nat \ T : \A k \in Nat \ T : m <= k
  BY <1>1, LeastNatural
<1>3. m - 1 \in Nat /\ m - 1 \in T
  BY <1>2
<1> QED
  BY <1>2, <1>3

\* A finite set of numbers has a least and a greatest element.
LEMMA MinFacts ==
  ASSUME NEW S \in SUBSET Nat, S # {}
  PROVE  Min(S) \in S
<1>1. \E x \in S : \A y \in S : x <= y
  BY LeastNatural
<1> QED
  BY <1>1 DEF Min

LEMMA MaxFacts ==
  ASSUME NEW top \in Nat, NEW S \in SUBSET (0..top), S # {}
  PROVE  Max(S) \in S
<1> DEFINE T == {top - x : x \in S}
<1>1. T \in SUBSET Nat /\ T # {}
  <2>1. \A x \in S : top - x \in Nat
    OBVIOUS
  <2>2. \E x \in S : top - x \in T
    OBVIOUS
  <2> QED
    BY <2>1, <2>2
<1>2. PICK m \in T : \A k \in T : m <= k
  BY <1>1, LeastNatural
<1>3. PICK x \in S : m = top - x
  BY <1>2
<1>4. \A y \in S : x >= y
  BY SMTT(40), <1>2, <1>3
<1> QED
  BY <1>4 DEF Max

-----------------------------------------------------------------------------
(* What processData makes of a read.                                       *)

\* The packet that begins at k is a piece of the buffer.
LEMMA PacketFacts ==
  ASSUME NEW buffer \in Buffers, NEW k \in DOMAIN buffer
  PROVE  \E m \in k..Len(buffer) : Packet(buffer, k) = SubSeq(buffer, k, m)
<1> DEFINE ends == {i \in k..Len(buffer) : i = Len(buffer) \/ i + 1 \in Starts(buffer)}
<1>1. Len(buffer) \in Nat /\ k \in 1..Len(buffer)
  BY DEF Buffers
<1>2. ends \in SUBSET Nat /\ Len(buffer) \in ends
  BY <1>1
<1>3. Min(ends) \in ends
  BY <1>2, MinFacts
<1> QED
  BY <1>3 DEF Packet

\* The last packet of a buffer.
LEMMA LastStart ==
  ASSUME NEW buffer \in Buffers, buffer # <<>>
  PROVE  /\ Starts(buffer) \subseteq DOMAIN buffer
         /\ Max(Starts(buffer)) \in DOMAIN buffer
<1>1. Len(buffer) \in Nat /\ DOMAIN buffer = 1..Len(buffer) /\ Len(buffer) > 0
  BY DEF Buffers
<1>2. Starts(buffer) \in SUBSET (0..Len(buffer)) /\ 1 \in Starts(buffer)
  BY <1>1 DEF Starts
<1> QED
  BY <1>1, <1>2, MaxFacts DEF Starts

\* A turn of the loop over the packets, and what the turns lead to.
Turn(first, handled, buffer, k, before) ==
  CASE k = 0 -> first
    [] k \in handled -> UNION {ProcessPacket(t, Packet(buffer, k)) : t \in before}
    [] OTHER -> before

Loop(first, handled, buffer, length, after) ==
  after = [k \in 0..length |-> Turn(first, handled, buffer, k, after[k - 1])]

\* The loop over the packets is defined for any number of turns.
LEMMA LoopExists ==
  ASSUME NEW first, NEW handled, 0 \notin handled, NEW buffer, NEW length \in Nat
  PROVE  \E after : Loop(first, handled, buffer, length, after)
<1> DEFINE T == {n \in Nat : \E after : Loop(first, handled, buffer, n, after)}
<1>1. 0 \in T
  <2> DEFINE f == [k \in 0..0 |-> first]
  <2>1. \A k \in 0..0 : f[k] = Turn(first, handled, buffer, k, f[k - 1])
    BY DEF Turn
  <2>2. DOMAIN f = 0..0 /\ f = [k \in 0..0 |-> f[k]]
    OBVIOUS
  <2> HIDE DEF f
  <2> QED
    BY <2>1, <2>2 DEF Loop
<1>2. ASSUME NEW n \in Nat, n \in T PROVE n + 1 \in T
  <2>1. PICK f : f = [k \in 0..n |-> Turn(first, handled, buffer, k, f[k - 1])]
    BY <1>2 DEF Loop
  <2> DEFINE g == [k \in 0..(n + 1) |-> IF k = n + 1 THEN Turn(first, handled, buffer, n + 1, f[n]) ELSE f[k]]
  <2>2. ASSUME NEW k \in 0..(n + 1) PROVE g[k] = Turn(first, handled, buffer, k, g[k - 1])
    <3>1. CASE k = n + 1
      <4>1. g[k] = Turn(first, handled, buffer, n + 1, f[n]) /\ g[n] = f[n] /\ k - 1 = n
        BY <3>1
      <4> HIDE DEF g
      <4> QED
        BY <3>1, <4>1
    <3>2. CASE k \in 1..n
      <4>1. g[k] = f[k] /\ g[k - 1] = f[k - 1]
        BY <3>2
      <4>2. f[k] = Turn(first, handled, buffer, k, f[k - 1])
        BY <2>1, <3>2
      <4> HIDE DEF g
      <4> QED
        BY <4>1, <4>2
    <3>3. CASE k = 0
      <4>1. g[0] = f[0]
        OBVIOUS
      <4>2. f[0] = Turn(first, handled, buffer, 0, f[0 - 1])
        BY <2>1
      <4>3. \A before : Turn(first, handled, buffer, 0, before) = first
        BY DEF Turn
      <4> HIDE DEF g
      <4> QED
        BY <3>3, <4>1, <4>2, <4>3
    <3> QED
      BY <3>1, <3>2, <3>3
  <2>3. g = [k \in 0..(n + 1) |-> Turn(first, handled, buffer, k, g[k - 1])]
    <3>1. DOMAIN g = 0..(n + 1) /\ g = [k \in 0..(n + 1) |-> g[k]]
      OBVIOUS
    <3> HIDE DEF g
    <3> QED
      BY <2>2, <3>1
  <2> HIDE DEF g
  <2> QED
    BY <2>3 DEF Loop
<1>3. length \in T
  <2> HIDE DEF T
  <2> QED
    BY <1>1, <1>2, Induction
<1> QED
  BY <1>3

\* Before the proxy can have refused it, a registration has either not been answered by
\* any packet, or has been accepted by one.
LEMMA ManyPackets ==
  ASSUME NEW s, s.request = "RegisterClient", s.buffer \in Buffers,
         NEW data \in Buffers, data # <<>>,
         "refused" \notin Range(s.buffer) \cup Range(data),
         NEW t \in ProcessJson(s, data)
  PROVE  \E rest \in Buffers :
           /\ "refused" \notin Range(rest)
           /\ LET waiting == [s EXCEPT !.buffer = rest] IN
              \/ t = waiting
              \/ t = SetState([waiting EXCEPT !.request = "none"], "remoteConnected")
<1> DEFINE buffer == s.buffer \o data
           handled == IF Last(buffer) # "raw" THEN Starts(buffer)
                      ELSE Starts(buffer) \ {Max(Starts(buffer))}
           rest == IF Last(buffer) # "raw" THEN <<>> ELSE Packet(buffer, Max(Starts(buffer)))
           waiting == [s EXCEPT !.buffer = rest]
           done == SetState([waiting EXCEPT !.request = "none"], "remoteConnected")
           after == CHOOSE f : Loop({waiting}, handled, buffer, Len(buffer), f)
<1>1. /\ buffer \in Buffers /\ buffer # <<>> /\ Len(buffer) \in Nat
      /\ \A i \in DOMAIN buffer : buffer[i] # "refused"
  BY DEF Buffers, Range
<1>2. t \in after[Len(buffer)]
  BY DEF ProcessJson, Loop, Turn
<1> HIDE DEF buffer
<1>3. handled \subseteq DOMAIN buffer
  BY <1>1, LastStart
<1>4. rest \in Buffers /\ "refused" \notin Range(rest)
  <2>1. CASE Last(buffer) # "raw"
    BY <2>1 DEF Buffers, Range
  <2>2. CASE Last(buffer) = "raw"
    <3> DEFINE k == Max(Starts(buffer))
    <3>0. k \in DOMAIN buffer /\ \E m \in k..Len(buffer) : rest = SubSeq(buffer, k, m)
      BY <1>1, <2>2, LastStart, PacketFacts
    <3> HIDE DEF k
    <3>1. PICK m \in k..Len(buffer) : rest = SubSeq(buffer, k, m)
      BY <3>0
    <3>2. k \in 1..Len(buffer) /\ \A i \in k..m : i \in DOMAIN buffer
      BY <1>1, <3>0, <3>1 DEF Buffers
    <3>3. \A i \in k..m : buffer[i] \in (Responses \cup Data) \ {"refused"}
      BY <1>1, <3>2 DEF Buffers
    <3>4. k \in Int /\ m \in Int
      BY <1>1, <3>2, <3>1
    <3> HIDE DEF rest
    <3>5. rest \in Seq((Responses \cup Data) \ {"refused"})
      BY <3>1, <3>3, <3>4, SubSeqProperties
    <3> QED
      BY <3>5 DEF Buffers, Range
  <2> QED
    BY <2>1, <2>2
<1> HIDE DEF handled, rest
<1>5. Loop({waiting}, handled, buffer, Len(buffer), after)
  <2>1. \E f : Loop({waiting}, handled, buffer, Len(buffer), f)
    <3>1. 0 \notin handled
      BY <1>1, <1>3 DEF Buffers
    <3> HIDE DEF waiting
    <3> QED
      BY <1>1, <3>1, LoopExists
  <2> QED
    BY <2>1
<1> HIDE DEF after
<1>6. waiting.request = "RegisterClient" /\ done.request = "none"
  BY DEF SetState
<1>7. ASSUME NEW k \in handled, NEW u \in {waiting, done}
      PROVE  ProcessPacket(u, Packet(buffer, k)) \subseteq {waiting, done}
  <2>1. Packet(buffer, k) # <<"refused">>
    <3>1. PICK m \in k..Len(buffer) : Packet(buffer, k) = SubSeq(buffer, k, m)
      BY <1>1, <1>3, PacketFacts
    <3>2. k \in 1..Len(buffer)
      BY <1>1, <1>3 DEF Buffers
    <3>3. SubSeq(buffer, k, m)[1] = buffer[k]
      BY <3>1, <3>2
    <3>4. buffer[k] # "refused"
      BY <1>1, <1>3
    <3>5. <<"refused">>[1] = "refused"
      OBVIOUS
    <3> QED
      BY <3>1, <3>3, <3>4, <3>5
  <2>2. CASE u = done
    BY <1>6, <2>2 DEF ProcessPacket
  <2>3. CASE u = waiting
    <3>1. OnClientRegistrationFinished(waiting, TRUE) = {done}
      BY DEF OnClientRegistrationFinished
    <3> HIDE DEF waiting, done
    <3> QED
      BY <1>6, <2>1, <2>3, <3>1 DEF ProcessPacket
  <2> QED
    BY <2>2, <2>3
<1> DEFINE T == {n \in Nat : n <= Len(buffer) => after[n] \subseteq {waiting, done}}
<1>8. 0 \in T
  BY SMTT(40), <1>1, <1>5 DEF Loop, Turn
<1>9. ASSUME NEW n \in Nat, n \in T PROVE n + 1 \in T
  <2>1. SUFFICES ASSUME n + 1 <= Len(buffer) PROVE after[n + 1] \subseteq {waiting, done}
    OBVIOUS
  <2>2. after[n] \subseteq {waiting, done}
    BY <1>1, <1>9, <2>1
  <2>3. n + 1 \in 0..Len(buffer) /\ n + 1 # 0 /\ (n + 1) - 1 = n
    BY <1>1, <2>1
  <2> HIDE DEF waiting, done
  <2>4. CASE n + 1 \in handled
    <3>1. after[n + 1] = UNION {ProcessPacket(u, Packet(buffer, n + 1)) : u \in after[n]}
      BY <1>5, <2>3, <2>4 DEF Loop, Turn
    <3> QED
      BY <1>7, <2>2, <2>4, <3>1
  <2>5. CASE n + 1 \notin handled
    <3>1. after[n + 1] = after[n]
      BY <1>5, <2>3, <2>5 DEF Loop, Turn
    <3> QED
      BY <2>2, <3>1
  <2> QED
    BY <2>4, <2>5
<1>10. after[Len(buffer)] \subseteq {waiting, done}
  <2>1. Len(buffer) \in T
    <3> HIDE DEF T
    <3> QED
      BY <1>1, <1>8, <1>9, Induction
  <2> QED
    BY <1>1, <2>1
<1> QED
  BY <1>2, <1>4, <1>10

\* A response that is read by itself is a packet.
LEMMA SinglePacket ==
  ASSUME NEW s \in ClientRecords, s.buffer = <<>>, NEW message \in Responses
  PROVE  ProcessJson(s, <<message>>) = ProcessPacket(s, <<message>>)
<1> DEFINE buffer == s.buffer \o <<message>>
           handled == IF Last(buffer) # "raw" THEN Starts(buffer)
                      ELSE Starts(buffer) \ {Max(Starts(buffer))}
           rest == IF Last(buffer) # "raw" THEN <<>> ELSE Packet(buffer, Max(Starts(buffer)))
           waiting == [s EXCEPT !.buffer = rest]
           after == CHOOSE f : Loop({waiting}, handled, buffer, Len(buffer), f)
<1>1. ProcessJson(s, <<message>>) = after[Len(buffer)]
  BY DEF ProcessJson, Loop, Turn
<1>2. buffer = <<message>> /\ Len(buffer) = 1
  OBVIOUS
<1>3. buffer \in Buffers /\ message # "raw"
  BY <1>2 DEF Buffers, Responses
<1> HIDE DEF buffer
<1>4. Starts(buffer) = {1} /\ Last(buffer) # "raw"
  BY <1>2, <1>3 DEF Starts, Last
<1>5. handled = {1} /\ rest = <<>>
  BY <1>4
<1> HIDE DEF handled, rest
<1>6. waiting = s
  BY <1>5 DEF ClientRecords
<1>7. Loop({waiting}, handled, buffer, Len(buffer), after)
  <2>1. \E f : Loop({waiting}, handled, buffer, Len(buffer), f)
    <3>1. 0 \notin handled /\ Len(buffer) \in Nat
      BY <1>2, <1>5
    <3> HIDE DEF waiting
    <3> QED
      BY <3>1, LoopExists
  <2> QED
    BY <2>1
<1> HIDE DEF after
<1>8. after[0] = {s}
  BY <1>2, <1>5, <1>6, <1>7 DEF Loop, Turn
<1>9. after[1] = UNION {ProcessPacket(u, Packet(buffer, 1)) : u \in after[0]}
  BY <1>2, <1>5, <1>7 DEF Loop, Turn
<1>10. Packet(buffer, 1) = <<message>>
  <2>1. PICK m \in 1..Len(buffer) : Packet(buffer, 1) = SubSeq(buffer, 1, m)
    <3>1. 1 \in DOMAIN buffer
      BY <1>2
    <3> QED
      BY <1>3, <3>1, PacketFacts
  <2>2. m = 1
    BY <1>2, <2>1
  <2> QED
    BY <1>2, <2>1, <2>2
<1> QED
  BY <1>1, <1>2, <1>8, <1>9, <1>10

-----------------------------------------------------------------------------
(* Steps with data.                                                        *)

\* What is in one of two queues.
LEMMA RangeFacts ==
  /\ Range(<<>>) = {}
  /\ \A x : Range(<<x>>) = {x}
  /\ \A queue \in Buffers, x \in Responses \cup Data :
       /\ Append(queue, x) \in Buffers
       /\ Range(Append(queue, x)) = Range(queue) \cup {x}
<1>1. Range(<<>>) = {} /\ \A x : Range(<<x>>) = {x}
  BY DEF Range
<1>2. ASSUME NEW queue \in Buffers, NEW x \in Responses \cup Data
      PROVE  /\ Append(queue, x) \in Buffers
             /\ Range(Append(queue, x)) = Range(queue) \cup {x}
  <2>1. /\ Len(queue) \in Nat /\ DOMAIN queue = 1..Len(queue)
        /\ Append(queue, x) \in Buffers
        /\ DOMAIN Append(queue, x) = 1..(Len(queue) + 1)
        /\ \A i \in 1..Len(queue) : Append(queue, x)[i] = queue[i]
        /\ Append(queue, x)[Len(queue) + 1] = x
    BY DEF Buffers
  <2>2. \A y \in Range(Append(queue, x)) : y \in Range(queue) \cup {x}
    BY <2>1 DEF Range
  <2>3. \A y \in Range(queue) \cup {x} : y \in Range(Append(queue, x))
    BY <2>1 DEF Range
  <2> QED
    BY <2>1, <2>2, <2>3
<1> QED
  BY <1>1, <1>2

\* A read takes the first n messages and leaves the others.
LEMMA ReadFacts ==
  ASSUME NEW queue \in Buffers, NEW n \in DOMAIN queue
  PROVE  LET chunk == SubSeq(queue, 1, n)
             rest  == SubSeq(queue, n + 1, Len(queue)) IN
         /\ chunk \in Buffers /\ chunk # <<>> /\ rest \in Buffers
         /\ Range(chunk) \subseteq Range(queue) /\ Range(rest) \subseteq Range(queue)
         /\ chunk \o rest = queue
         /\ n = 1 => chunk = <<queue[1]>>
         /\ n = Len(queue) => rest = <<>>
<1> DEFINE chunk == SubSeq(queue, 1, n)
           rest  == SubSeq(queue, n + 1, Len(queue))
<1>1. /\ Len(queue) \in Nat /\ DOMAIN queue = 1..Len(queue) /\ n \in 1..Len(queue)
      /\ \A i \in 1..Len(queue) : queue[i] \in Range(queue) /\ queue[i] \in Responses \cup Data
  BY DEF Buffers, Range
<1>2. chunk \in Seq((Responses \cup Data) \cap Range(queue)) /\ Len(chunk) = n
  <2>1. \A i \in 1..n : queue[i] \in (Responses \cup Data) \cap Range(queue)
    BY <1>1
  <2>2. 1 \in Int /\ n \in Int /\ 1 <= n
    BY <1>1
  <2> HIDE DEF chunk
  <2> QED
    BY <2>1, <2>2, SubSeqProperties DEF chunk
<1>3. rest \in Seq((Responses \cup Data) \cap Range(queue))
  <2>1. \A i \in (n + 1)..Len(queue) : queue[i] \in (Responses \cup Data) \cap Range(queue)
    BY <1>1
  <2>2. n + 1 \in Int /\ Len(queue) \in Int
    BY <1>1
  <2> HIDE DEF rest
  <2> QED
    BY <2>1, <2>2, SubSeqProperties DEF rest
<1>4. chunk \o rest = queue
  <2>1. /\ queue \in Seq(Responses \cup Data) /\ 1 \in 1..(Len(queue) + 1)
        /\ n \in (1 - 1)..Len(queue) /\ Len(queue) \in n..Len(queue)
    BY <1>1 DEF Buffers
  <2>2. chunk \o rest = SubSeq(queue, 1, Len(queue))
    BY ONLY <2>1, ConcatAdjacentSubSeq
  <2>3. SubSeq(queue, 1, Len(queue)) = queue
    BY ONLY <2>1, SubSeqFull
  <2> QED
    BY ONLY <2>2, <2>3
<1>5. n = 1 => chunk = <<queue[1]>>
  <2>1. n = 1 => chunk[1] = queue[1]
    BY <1>1
  <2> HIDE DEF chunk
  <2>2. chunk \in Seq(Responses \cup Data) /\ <<queue[1]>> \in Seq(Responses \cup Data)
    <3>1. chunk \in Seq(Responses \cup Data)
      BY <1>2
    <3> QED
      BY <1>1, <3>1
  <2>3. n = 1 => /\ Len(chunk) = Len(<<queue[1]>>)
                 /\ \A i \in 1..Len(chunk) : chunk[i] = <<queue[1]>>[i]
    BY <1>2, <2>1
  <2> QED
    BY <2>2, <2>3, SeqEqual
<1>6. n = Len(queue) => rest = <<>>
  BY <1>1
<1> HIDE DEF chunk, rest
<1>7. chunk # <<>>
  BY <1>1, <1>2
<1>8. chunk \in Buffers /\ rest \in Buffers
  BY <1>2, <1>3 DEF Buffers
<1>9. Range(chunk) \subseteq Range(queue) /\ Range(rest) \subseteq Range(queue)
  BY <1>2, <1>3 DEF Range
<1> QED
  BY <1>4, <1>5, <1>6, <1>7, <1>8, <1>9 DEF chunk, rest

\* What follows the same beginning.
LEMMA CancelLeft ==
  ASSUME NEW begin \in Buffers, NEW s \in Buffers, NEW t \in Buffers, begin \o s = begin \o t
  PROVE  s = t
BY ConcatSimplifications DEF Buffers

LEMMA ProxyRespondsStep ==
  ASSUME IInv, ProxyResponds
  PROVE  IInv'
<1>1. PICK message \in Responses :
        /\ wire' = Append(wire, message)
        /\ client.request = "Hello" => message \in {"HelloResponse", "refused"}
        /\ client.request = "RegisterClient" => message \in {"RegisterResponse", "refused"}
  BY DEF ProxyResponds, Responses
<1>2. /\ answered' = client.request /\ client.request # "none" /\ client.request # answered
      /\ UNCHANGED <<client, sentData, dataReady>>
  BY DEF ProxyResponds
<1>3. /\ Sound(client) /\ Connected(client) /\ client.connection # NoConnection
      /\ client.request \in Requests /\ client.buffer \in Buffers /\ wire \in Buffers
  BY <1>2 DEF IInv, TypeOK, Sound, Session, Connected, ClientRecords
<1>4. wire = <<>> /\ answered # "RegisterClient" /\ client.buffer = <<>>
  BY <1>2, <1>3 DEF IInv, Dialogue, Requests, Sound, Session
<1>5. wire' = <<message>>
  BY <1>1, <1>4
<1>6. TypeOK'
  BY <1>1, <1>2, <1>3, RangeFacts DEF IInv, TypeOK
<1>7. client.m_state # "remoteConnected" \/ client.request # "RegisterClient"
  BY <1>3 DEF Sound, Session
<1>8. Dialogue'
  <2>1. client.request = "RegisterClient" /\ message = "RegisterResponse" =>
          "refused" \notin Range(wire') \cup Range(client.buffer)
    BY <1>4, <1>5, RangeFacts
  <2>2. client.m_state # "remoteConnected"
    BY <1>4, <1>3 DEF IInv, Dialogue
  <2> QED
    BY <1>1, <1>2, <1>3, <1>4, <1>5, <2>1, <2>2 DEF Dialogue
<1>9. Stream => Stream'
  <2>1. Stream => sentData = <<>> /\ dataReady = <<>>
    BY <1>3, <1>4 DEF Stream
  <2>2. client.m_state # "remoteConnected"
    BY <1>4 DEF IInv, Dialogue
  <2>3. <<"RegisterResponse">> = <<"RegisterResponse">> \o <<>>
    OBVIOUS
  <2> QED
    BY <1>1, <1>2, <1>4, <1>5, <2>1, <2>2, <2>3 DEF Stream
<1> QED
  BY <1>2, <1>3, <1>6, <1>8, <1>9 DEF IInv

LEMMA ProxyForwardsStep ==
  ASSUME IInv, NEW d \in Data, ProxyForwards(d)
  PROVE  IInv'
<1>1. /\ answered = "RegisterClient" /\ wire' = Append(wire, d) /\ sentData' = Append(sentData, d)
      /\ UNCHANGED <<client, answered, dataReady>>
      /\ wire # <<"refused">>
      /\ client.m_state \in {"register", "remoteConnected"}
  <2>1. wire = <<"refused">> => Last(wire) = "refused" /\ wire # <<>>
    BY DEF Last
  <2> QED
    BY <2>1 DEF ProxyForwards
<1>2. /\ Sound(client) /\ Connected(client) /\ client.buffer \in Buffers
      /\ wire \in Buffers /\ sentData \in Seq(Data) /\ dataReady \in Buffers
  BY <1>1 DEF IInv, TypeOK, Sound, Session, ClientRecords
<1>3. d \in Responses \cup Data /\ d # "refused"
  BY DEF Data
<1>4. TypeOK'
  <2>1. sentData' \in Seq(Data)
    BY <1>1, <1>2
  <2> QED
    BY <1>1, <1>2, <1>3, <2>1, RangeFacts DEF IInv, TypeOK
<1>5. Dialogue'
  <2>1. client.m_state = "register" => "refused" \notin Range(wire') \cup Range(client.buffer)
    <3>1. client.m_state = "register" => "refused" \notin Range(wire) \cup Range(client.buffer)
      BY <1>1, <1>2 DEF IInv, Dialogue, Sound, Session
    <3> QED
      BY <1>1, <1>2, <1>3, <3>1, RangeFacts
  <2>2. client.request # "Hello" /\ (client.request = "RegisterClient" => client.m_state = "register")
    BY <1>1, <1>2 DEF Sound, Session
  <2> QED
    BY <1>1, <1>2, <2>1, <2>2 DEF Dialogue
<1>6. Stream => Stream'
  <2>1. ASSUME wire = <<"RegisterResponse">> \o sentData
        PROVE  wire' = <<"RegisterResponse">> \o sentData'
    <3>1. <<"RegisterResponse">> \in Buffers /\ sentData \in Buffers /\ d \in Responses \cup Data
      BY <1>2, <1>3 DEF Buffers, Responses
    <3> QED
      BY <1>1, <2>1, <3>1 DEF Buffers
  <2>2. ASSUME dataReady \o wire = sentData
        PROVE  dataReady \o wire' = sentData'
    BY <1>1, <1>2, <1>3, <2>2 DEF Buffers
  <2> QED
    BY <1>1, <2>1, <2>2 DEF Stream
<1> QED
  BY <1>1, <1>2, <1>4, <1>5, <1>6 DEF IInv

\* A refused client disconnects.
LEMMA RefusedStep ==
  ASSUME IInv, Connected(client),
         client' \in OnClientRegistrationFinished(client, FALSE), wire' = <<>>,
         UNCHANGED <<answered, sentData, dataReady>>
  PROVE  IInv'
<1> DEFINE u == [client EXCEPT !.request = "none"]
<1>1. /\ client \in ClientRecords /\ ConnectionsApart(client)
  BY DEF IInv, Sound
<1>2. /\ u \in ClientRecords
      /\ u.connection = client.connection /\ u.doomed = client.doomed
      /\ u.socket = client.socket /\ u.connected = client.connected
  BY <1>1 DEF ClientRecords, Requests
<1>3. client' \in Disconnects(u)
  BY DEF OnClientRegistrationFinished
<1> HIDE DEF u
<1>4. Connected(u) /\ ConnectionsApart(u)
  BY <1>1, <1>2 DEF Connected, ConnectionsApart
<1>5. Sound(client') /\ Quiet(u, client')
  BY <1>2, <1>3, <1>4, DisconnectsSound
<1>6. Quiet(client, client')
  BY <1>2, <1>4, <1>5 DEF Quiet
<1> QED
  BY <1>5, <1>6, QuietStep

\* The session goes on.
LEMMA SessionGoesOn ==
  ASSUME IInv, Connected(client), NEW request \in Requests, NEW state \in States,
         NEW buffer \in Buffers,
         client' = [client EXCEPT !.request = request, !.m_state = state, !.buffer = buffer],
         \/ request = "RegisterClient" /\ state = "register"
         \/ request = "none" /\ state = "remoteConnected"
  PROVE  Sound(client') /\ Connected(client') /\ client'.connection = client.connection
<1>1. client \in ClientRecords /\ ConnectionsApart(client)
  BY DEF IInv, Sound
<1>2. /\ client' \in ClientRecords
      /\ client'.request = request /\ client'.m_state = state /\ client'.buffer = buffer
      /\ client'.connection = client.connection /\ client'.doomed = client.doomed
      /\ client'.socket = client.socket /\ client'.connected = client.connected
  BY <1>1 DEF ClientRecords
<1>3. Connected(client')
  BY <1>2 DEF Connected
<1>4. ConnectionsApart(client')
  BY <1>1, <1>2, <1>3 DEF ConnectionsApart, Connected
<1>5. Session(client')
  BY <1>2, <1>3 DEF Session
<1> QED
  BY <1>2, <1>3, <1>4, <1>5 DEF Sound

LEMMA ReadStep ==
  ASSUME IInv, NEW n \in DOMAIN wire, OnConnectionDataAvailable(n)
  PROVE  IInv'
<1> DEFINE chunk == SubSeq(wire, 1, n)
           rest  == SubSeq(wire, n + 1, Len(wire))
<1>0. /\ wire \in Buffers /\ client \in ClientRecords /\ client.buffer \in Buffers
      /\ dataReady \in Buffers /\ sentData \in Seq(Data) /\ answered \in Requests
      /\ client.request \in Requests /\ Session(client)
  BY DEF IInv, TypeOK, Sound, ClientRecords
<1>1. /\ chunk \in Buffers /\ chunk # <<>> /\ rest \in Buffers
      /\ Range(chunk) \subseteq Range(wire) /\ Range(rest) \subseteq Range(wire)
      /\ chunk \o rest = wire
      /\ n = 1 => chunk = <<wire[1]>>
      /\ n = Len(wire) => rest = <<>>
  BY <1>0, ReadFacts
<1>2. /\ wire' = rest /\ UNCHANGED <<answered, sentData>>
      /\ IF client.m_state = "remoteConnected"
         THEN dataReady' = dataReady \o chunk /\ UNCHANGED client
         ELSE client' \in ProcessJson(client, chunk) /\ UNCHANGED dataReady
      /\ CoalesceReads \/ n = 1 \/ wire[1] \in Data
  BY DEF OnConnectionDataAvailable
<1>3. wire # <<>> /\ Connected(client) /\ client.connection # NoConnection
  BY <1>0 DEF IInv, Dialogue, Connected
<1> HIDE DEF chunk, rest
<1>4. CASE client.m_state = "remoteConnected"
  <2>1. dataReady' \in Buffers /\ dataReady' \o wire' = dataReady \o wire
    <3>1. wire' = rest /\ dataReady' = dataReady \o chunk /\ chunk \o rest = wire
      BY <1>1, <1>2, <1>4
    <3>2. dataReady \o chunk \in Buffers
      BY <1>0, <1>1, ConcatProperties DEF Buffers
    <3>3. (dataReady \o chunk) \o rest = dataReady \o (chunk \o rest)
      <4>1. /\ dataReady \in Seq(Responses \cup Data)
            /\ chunk \in Seq(Responses \cup Data) /\ rest \in Seq(Responses \cup Data)
        BY <1>0, <1>1 DEF Buffers
      <4> QED
        BY ONLY <4>1, ConcatAssociative
    <3> QED
      BY <3>1, <3>2, <3>3
  <2>2. TypeOK'
    BY <1>0, <1>1, <1>2, <1>4, <2>1 DEF IInv, TypeOK
  <2>3. client.request = "none"
    <3>1. client.request # "Hello" /\ client.request # "RegisterClient"
      BY <1>0, <1>4 DEF Session
    <3> QED
      BY <1>0, <3>1 DEF Requests
  <2>4. Dialogue'
    BY <1>2, <1>3, <1>4, <2>3 DEF IInv, Dialogue
  <2>5. Stream => Stream'
    BY <1>2, <1>4, <2>1, <2>3 DEF IInv, Dialogue, Stream
  <2> QED
    BY <1>2, <1>4, <2>2, <2>4, <2>5 DEF IInv
<1>5. CASE client.m_state # "remoteConnected" /\ (wire = <<"refused">> /\ client.buffer = <<>>)
  <2>1. n = 1 /\ n = Len(wire) /\ wire[1] = "refused"
    BY <1>5
  <2>2. client' \in ProcessPacket(client, <<"refused">>) /\ wire' = <<>>
    BY <1>0, <1>1, <1>2, <1>5, <2>1, SinglePacket DEF Responses
  <2>3. client.request # "none"
    BY <1>0, <1>3, <1>5 DEF Session
  <2>4. client' \in OnClientRegistrationFinished(client, FALSE)
    <3>1. <<"refused">> # <<"HelloResponse">> /\ <<"refused">> # <<"RegisterResponse">>
      OBVIOUS
    <3> QED
      BY <2>2, <2>3, <3>1 DEF ProcessPacket
  <2> QED
    BY <1>2, <1>3, <1>5, <2>2, <2>4, RefusedStep
<1>6. CASE client.request = "Hello" /\ wire = <<"HelloResponse">>
  <2>0. client.m_state # "remoteConnected" /\ client.buffer = <<>>
    BY <1>0, <1>6 DEF Session
  <2>1. n = 1 /\ n = Len(wire) /\ wire[1] = "HelloResponse"
    BY <1>6
  <2>2. client' \in ProcessPacket(client, <<"HelloResponse">>) /\ wire' = <<>>
    BY <1>0, <1>1, <1>2, <2>0, <2>1, SinglePacket DEF Responses
  <2>3. client' = OnHelloFinished(client)
    BY <1>6, <2>2 DEF ProcessPacket
  <2>4. client' = [client EXCEPT !.request = "RegisterClient", !.m_state = "register",
                                 !.buffer = <<>>]
    BY <1>0, <2>0, <2>3 DEF OnHelloFinished, SetState, ClientRecords
  <2>5. Sound(client') /\ Connected(client') /\ client'.connection = client.connection
    <3>1. <<>> \in Buffers /\ "RegisterClient" \in Requests /\ "register" \in States
      BY DEF Buffers, Requests, States
    <3> QED
      BY <1>3, <2>4, <3>1, SessionGoesOn
  <2>6. answered = "Hello"
    BY <1>3, <1>6 DEF IInv, Dialogue
  <2>7. client'.request = "RegisterClient" /\ client'.m_state = "register" /\ client'.buffer = <<>>
    BY <1>0, <2>4 DEF ClientRecords
  <2>8. UNCHANGED dataReady
    BY <1>2, <2>0
  <2>9. TypeOK'
    BY <1>0, <1>1, <1>2, <2>5, <2>8 DEF TypeOK, Sound
  <2>10. Dialogue'
    BY <1>2, <2>2, <2>5, <2>6, <2>7 DEF Dialogue
  <2>11. Stream => Stream'
    BY <1>2, <1>3, <2>5, <2>6, <2>7, <2>8 DEF Stream
  <2> QED
    BY <2>5, <2>9, <2>10, <2>11 DEF IInv
<1>7. CASE /\ client.request = "RegisterClient" /\ answered = "RegisterClient"
           /\ "refused" \notin Range(wire) \cup Range(client.buffer)
  <2>0. client.m_state = "register"
    BY <1>0, <1>7 DEF Session
  <2>1. client' \in ProcessJson(client, chunk) /\ UNCHANGED dataReady
    BY <1>2, <2>0
  <2>2. PICK left \in Buffers :
          /\ "refused" \notin Range(left)
          /\ LET waiting == [client EXCEPT !.buffer = left] IN
             \/ client' = waiting
             \/ client' = SetState([waiting EXCEPT !.request = "none"], "remoteConnected")
    BY <1>0, <1>1, <1>7, <2>1, ManyPackets
  <2>3. \/ client' = [client EXCEPT !.request = "RegisterClient", !.m_state = "register",
                                    !.buffer = left]
        \/ client' = [client EXCEPT !.request = "none", !.m_state = "remoteConnected",
                                    !.buffer = left]
    <3>1. client \in ClientRecords
      BY <1>0
    <3>2. [client EXCEPT !.buffer = left] =
            [client EXCEPT !.request = "RegisterClient", !.m_state = "register", !.buffer = left]
      BY <1>7, <2>0, <3>1 DEF ClientRecords
    <3>3. SetState([[client EXCEPT !.buffer = left] EXCEPT !.request = "none"], "remoteConnected") =
            [client EXCEPT !.request = "none", !.m_state = "remoteConnected", !.buffer = left]
      BY <3>1 DEF SetState, ClientRecords
    <3> QED
      BY <2>2, <3>2, <3>3
  <2>4. Sound(client') /\ Connected(client') /\ client'.connection = client.connection
    BY <1>3, <2>3, SessionGoesOn DEF Requests, States
  <2>5. /\ client'.buffer = left
        /\ \/ client'.request = "RegisterClient" /\ client'.m_state = "register"
           \/ client'.request = "none" /\ client'.m_state = "remoteConnected"
    BY <1>0, <2>3 DEF ClientRecords
  <2>6. TypeOK'
    BY <1>0, <1>1, <1>2, <2>1, <2>4 DEF TypeOK, Sound
  <2>7. Dialogue'
    BY <1>1, <1>2, <1>7, <2>2, <2>4, <2>5 DEF Dialogue
  <2>8. ASSUME ~CoalesceReads, Stream PROVE Stream'
    <3>1. client.buffer = <<>> /\ dataReady = <<>> /\ wire = <<"RegisterResponse">> \o sentData
      BY <1>7, <2>8, RangeFacts DEF Stream
    <3>2. wire[1] = "RegisterResponse" /\ wire[1] \notin Data
      BY <1>0, <3>1 DEF Data
    <3>3. n = 1 /\ chunk = <<"RegisterResponse">>
      BY <1>1, <1>2, <2>8, <3>2
    <3>4. client' \in ProcessPacket(client, <<"RegisterResponse">>)
      BY <1>0, <2>1, <3>1, <3>3, SinglePacket DEF Responses
    <3>5. client' \in OnClientRegistrationFinished(client, TRUE)
      BY <1>7, <3>4 DEF ProcessPacket
    <3>6. client'.request = "none" /\ client'.m_state = "remoteConnected"
      BY <1>0, <3>5 DEF OnClientRegistrationFinished, SetState, ClientRecords
    <3>7. wire' = sentData
      <4>1. <<"RegisterResponse">> \in Buffers /\ sentData \in Buffers /\ rest \in Buffers
        BY <1>0, <1>1 DEF Buffers, Responses
      <4>2. <<"RegisterResponse">> \o rest = <<"RegisterResponse">> \o sentData
        BY <1>1, <3>1, <3>3
      <4>3. rest = sentData
        BY <4>1, <4>2, CancelLeft
      <4> QED
        BY <1>2, <4>3
    <3>8. <<>> \o sentData = sentData
      BY <1>0, ConcatEmptySeq
    <3> QED
      BY <1>2, <1>7, <2>1, <3>1, <3>6, <3>7, <3>8 DEF Stream
  <2> QED
    BY <2>4, <2>6, <2>7, <2>8 DEF IInv
<1>8. client.request \in {"Hello", "RegisterClient"} \/ client.m_state = "remoteConnected"
  BY <1>0, <1>3 DEF Session, Requests
<1>9. client.request = "Hello" => client.buffer = <<>> /\ client.m_state # "remoteConnected"
  BY <1>0 DEF Session
<1>10. client.request = "RegisterClient" => client.m_state # "remoteConnected"
  BY <1>0 DEF Session
<1> QED
  BY <1>3, <1>4, <1>5, <1>6, <1>7, <1>8, <1>9, <1>10 DEF IInv, Dialogue

-----------------------------------------------------------------------------
(* The theorems.                                                           *)

LEMMA InitEstablishes == Init => IInv
<1> SUFFICES ASSUME Init PROVE IInv
  OBVIOUS
<1>1. /\ client \in ClientRecords
      /\ client.m_state = "disconnected" /\ client.connection = NoConnection
      /\ client.request = "none" /\ client.buffer = <<>> /\ client.doomed = {}
      /\ client.connected = [c \in Connections |-> FALSE]
  BY StartsRunningAssumption
     DEF Init, ClientRecords, States, Requests, Buffers, NoSockets, NotConnected, SocketStates
<1>2. wire = <<>> /\ answered = "none" /\ sentData = <<>> /\ dataReady = <<>>
  BY DEF Init
<1>3. TypeOK
  BY <1>1, <1>2 DEF TypeOK, Buffers, Requests
<1>4. ~Connected(client)
  BY <1>1 DEF Connected
<1>5. Sound(client)
  BY <1>1, <1>4 DEF Sound, ConnectionsApart, Session
<1>6. Dialogue /\ Stream
  BY <1>1, <1>2, <1>4 DEF Dialogue, Stream
<1> QED
  BY <1>3, <1>5, <1>6 DEF IInv

LEMMA InvStep == IInv /\ [Next]_vars => IInv'
<1> SUFFICES ASSUME IInv, [Next]_vars PROVE IInv'
  OBVIOUS
<1>1. CASE UNCHANGED vars
  <2>1. UNCHANGED <<client, wire, answered, sentData, dataReady>>
    BY <1>1 DEF vars
  <2> QED
    BY <2>1 DEF IInv, TypeOK, Dialogue, Stream
<1>2. CASE Connect
  BY <1>2, ConnectStep
<1>3. CASE \/ Disconnect
           \/ \E c \in Connections : DeferredDelete(c) \/ SocketGivesUp(c) \/ ConnectionLost(c)
  BY <1>3, EndingStep
<1>4. CASE \E c \in Connections : HostFound(c) \/ SocketConnects(c) \/ Encrypted(c)
  BY <1>4, ConnectingStep
<1>5. CASE ProxyResponds
  BY <1>5, ProxyRespondsStep
<1>6. CASE \E d \in Data : ProxyForwards(d)
  BY <1>6, ProxyForwardsStep
<1>7. CASE \E n \in DOMAIN wire : OnConnectionDataAvailable(n)
  BY <1>7, ReadStep
<1> QED
  BY <1>1, <1>2, <1>3, <1>4, <1>5, <1>6, <1>7 DEF Next

\* The inductive invariant holds in every behaviour of the client side.
THEOREM Invariance == Spec => []IInv
BY InitEstablishes, InvStep, PTL DEF Spec

\* The client, what is under way to it and what it was given keep their types.
THEOREM TypeCorrect == Spec => []TypeOK
<1>1. IInv => TypeOK
  BY DEF IInv
<1> QED
  BY <1>1, Invariance, PTL

\* onClientRegistrationFinished and the slots of the connection: whoever is shown a remote
\* connection has a registration at the proxy and a connection that is up, however the
\* responses and the data are read.
THEOREM ConnectedIsRegistered == Spec => []RemoteConnectedIsRegistered
<1>1. IInv => RemoteConnectedIsRegistered
  BY DEF IInv, Sound, Session, Dialogue, Connected, RemoteConnectedIsRegistered
<1> QED
  BY <1>1, Invariance, PTL

\* onConnectionDataAvailable: as long as responses are read by themselves, the application
\* gets all the data of the tunnel, and nothing else.
THEOREM AllTunnelData == ~CoalesceReads => (Spec => []TunnelDataComplete)
<1> SUFFICES ASSUME ~CoalesceReads PROVE Spec => []TunnelDataComplete
  OBVIOUS
<1>1. IInv => TunnelDataComplete
  BY DEF IInv, Stream, TunnelDataComplete
<1> QED
  BY <1>1, Invariance, PTL
=============================================================================
