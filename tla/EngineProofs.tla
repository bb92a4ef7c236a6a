---------------------------- MODULE EngineProofs ----------------------------
(***************************************************************************)
(* Proofs about Engine and the Transports it starts and stops, for any     *)
(* number of connections and configurations, whether or not a closing      *)
(* socket may wait for data it still has to write.                         *)
(***************************************************************************)
EXTENDS Engine, TLAPS

\* What KnownAreUsable rests on.  Between the calls each client that is known, or still to
\* be once it is encrypted, belongs to a transport that listens, so that stopServer finds
\* it: after the first half of clean() no socket is left open, and no known one is a web
\* socket.
ClientsAreServed ==
  /\ m_clientList = m_proxyClients
  /\ \A c \in Connections : socket[c] = "open" => c \in m_clientList /\ call = "none"
  /\ call = "none" =>
       \A c \in Connections :
         /\ c \in m_clientList => socket[c] \in {"open", "closing"}
         /\ c \in m_clientList \/ socket[c] = "encrypting" => kind[c] \in listening
  /\ call # "none" => \A c \in m_clientList : kind[c] # "webSocket"

\* No transport is left of an engine that is stopped.
StoppedIsEmpty ==
  ~tunnelProxyServer =>
    /\ listening = {} /\ m_clientList = {}
    /\ \A c \in Connections : socket[c] = "none"
    /\ ~monitorServer
    /\ m_configuration = NoConfiguration

\* What UsersHaveEngine rests on: the configuration of a started engine is there until
\* another is, and a call of start brings one that differs.
ConfigurationIsKept ==
  /\ tunnelProxyServer => exists /\ m_configuration \in allocated
  /\ call # "none" => exists /\ ~monitorServer /\ listening = {}
  /\ call = "start" => /\ starting \in allocated /\ starting # m_configuration
                       /\ queued < MaxQueued

\* An engine that runs, or is about to say so, has its servers, unless stop was called
\* before the event loop came to it.
RunningIsStarted ==
  \/ StopsEarly
  \/ /\ queued > 0 \/ m_running => tunnelProxyServer
     /\ call = "stop" => queued = 0

IInv ==
  /\ TypeOK
  /\ ClientsAreServed
  /\ StoppedIsEmpty
  /\ ConfigurationIsKept
  /\ RunningIsStarted

-----------------------------------------------------------------------------
(* The transports.                                                         *)

\* A new socket is known if it is open, and belongs to a transport that listens.
LEMMA NewSocketStep ==
  ASSUME IInv, NEW c \in Connections, call' = call, call = "none",
         NEW k \in Kinds, NEW state \in {"open", "closed", "encrypting"}, NewSocket(c, k, state),
         IF state = "open" THEN Announced(c) ELSE NotAnnounced
  PROVE  TransportsTypeOK' /\ ClientsAreServed' /\ tunnelProxyServer
<1>1. tunnelProxyServer /\ k \in listening
  BY DEF IInv, StoppedIsEmpty, NewSocket
<1>2. TransportsTypeOK'
  BY DEF IInv, TypeOK, TransportsTypeOK, NewSocket, Announced, NotAnnounced, SocketStates
<1>3. ClientsAreServed'
  BY DEF IInv, TypeOK, TransportsTypeOK, ClientsAreServed, NewSocket, Announced, NotAnnounced
<1> QED BY <1>1, <1>2, <1>3

\* Sockets close and report it: those that do leave both tables, the others keep their
\* place in them until they do.
LEMMA SocketsCloseStep ==
  ASSUME IInv, call' = call, call = "none", UNCHANGED <<listening, kind>>,
         NEW Closing \in SUBSET Connections,
         \A c \in Closing : socket[c] # "none",
         NEW AtOnce \in SUBSET Closing, SocketsClose(Closing, AtOnce)
  PROVE  TransportsTypeOK' /\ ClientsAreServed'
<1>1. TransportsTypeOK'
  BY DEF IInv, TypeOK, TransportsTypeOK, SocketsClose, Reported, SocketStates
<1>2. ClientsAreServed'
  BY DEF IInv, TypeOK, TransportsTypeOK, ClientsAreServed, SocketsClose, Reported
<1> QED BY <1>1, <1>2

\* The event loop serves the sockets.
LEMMA ServeStep ==
  ASSUME IInv, Serve(ConnectionStep)
  PROVE  IInv'
<1>1. call = "none" /\ ConnectionStep /\ UNCHANGED engineVars
  BY DEF Serve
<1>2. PICK c \in Connections :
        \/ WebSocketConnected(c) \/ UnixSocketConnected(c) \/ TcpSocketConnected(c)
        \/ IncomingConnection(c) \/ Encrypted(c) \/ HandshakeEnds(c)
        \/ KillClientConnection(c) \/ SocketDisconnects(c) \/ DeferredDelete(c)
  BY <1>1 DEF ConnectionStep
<1>3. call' = call
  BY <1>1 DEF engineVars
<1> DEFINE Kept == TransportsTypeOK' /\ ClientsAreServed' /\ tunnelProxyServer
<1>4. socket[c] # "none" \/ c \in m_clientList => tunnelProxyServer
  BY DEF IInv, StoppedIsEmpty
<1>5. ASSUME WebSocketConnected(c) \/ UnixSocketConnected(c) \/ TcpSocketConnected(c) \/ IncomingConnection(c) PROVE Kept
  <2>1. /\ "webSocket" \in Kinds /\ "unix" \in Kinds /\ "tcp" \in Kinds /\ "ssl" \in Kinds
        /\ "open" \in {"open", "closed", "encrypting"} /\ "closed" \in {"open", "closed", "encrypting"}
        /\ "encrypting" \in {"open", "closed", "encrypting"}
    BY DEF Kinds
  <2>2. \E k \in Kinds, state \in {"open", "closed", "encrypting"} :
          NewSocket(c, k, state) /\ IF state = "open" THEN Announced(c) ELSE NotAnnounced
    BY <1>5, <2>1 DEF WebSocketConnected, UnixSocketConnected, TcpSocketConnected, IncomingConnection
  <2> QED BY <1>1, <1>3, <2>2, NewSocketStep
<1>6. ASSUME Encrypted(c) PROVE Kept
  <2>1. TransportsTypeOK' /\ tunnelProxyServer
    BY <1>4, <1>6 DEF IInv, TypeOK, TransportsTypeOK, Encrypted, Announced, SocketStates
  <2>2. ClientsAreServed'
    BY <1>1, <1>3, <1>6 DEF IInv, TypeOK, TransportsTypeOK, ClientsAreServed, Encrypted, Announced
  <2> QED BY <2>1, <2>2
<1>7. ASSUME HandshakeEnds(c) PROVE Kept
  <2>1. PICK AtOnce \in SUBSET {c} : SocketsClose({c}, AtOnce)
    BY <1>7 DEF HandshakeEnds
  <2>2. {c} \in SUBSET Connections /\ socket[c] # "none" /\ UNCHANGED <<listening, kind>>
    BY <1>7 DEF HandshakeEnds
  <2> QED BY <1>1, <1>3, <1>4, <2>1, <2>2, SocketsCloseStep
<1>8. ASSUME KillClientConnection(c) \/ SocketDisconnects(c) PROVE Kept
  <2>1. \E Closing \in SUBSET Connections : \E AtOnce \in SUBSET Closing :
          SocketsClose(Closing, AtOnce) /\ \A d \in Closing : socket[d] # "none"
    <3>1. m_clientList \subseteq Connections
      BY DEF IInv, TypeOK, TransportsTypeOK
    <3>2. ASSUME NEW Others \in SUBSET {o \in m_clientList \ {c} : socket[o] = "open"},
                 NEW AtOnce \in SUBSET Others, SocketsClose(Others \cup {c}, AtOnce \cup {c}),
                 socket[c] # "none"
          PROVE  \E Closing \in SUBSET Connections : \E Reports \in SUBSET Closing :
                   SocketsClose(Closing, Reports) /\ \A d \in Closing : socket[d] # "none"
      <4>1. /\ Others \cup {c} \in SUBSET Connections
            /\ AtOnce \cup {c} \in SUBSET (Others \cup {c})
            /\ \A d \in Others \cup {c} : socket[d] # "none"
        BY <3>1, <3>2
      <4> QED BY <3>2, <4>1
    <3>3. ASSUME SocketsClose({c}, {}), socket[c] # "none"
          PROVE  \E Closing \in SUBSET Connections : \E Reports \in SUBSET Closing :
                   SocketsClose(Closing, Reports) /\ \A d \in Closing : socket[d] # "none"
      <4>1. {c} \in SUBSET Connections /\ {} \in SUBSET {c}
        OBVIOUS
      <4> QED BY <3>3, <4>1
    <3>4. socket[c] # "none"
      BY <1>8 DEF KillClientConnection, SocketDisconnects
    <3> QED BY <1>8, <3>2, <3>3, <3>4 DEF KillClientConnection, SocketDisconnects
  <2>2. socket[c] # "none" /\ UNCHANGED <<listening, kind>>
    BY <1>8 DEF KillClientConnection, SocketDisconnects
  <2> QED BY <1>1, <1>3, <1>4, <2>1, <2>2, SocketsCloseStep
<1>9. ASSUME DeferredDelete(c) PROVE Kept
  <2>1. TransportsTypeOK' /\ tunnelProxyServer
    BY <1>4, <1>9 DEF IInv, TypeOK, TransportsTypeOK, DeferredDelete, SocketStates
  <2>2. ClientsAreServed'
    BY <1>1, <1>3, <1>9 DEF IInv, TypeOK, TransportsTypeOK, ClientsAreServed, DeferredDelete
  <2> QED BY <2>1, <2>2
<1>10. Kept
  BY <1>2, <1>5, <1>6, <1>7, <1>8, <1>9
<1> QED BY <1>1, <1>10 DEF IInv, TypeOK, StoppedIsEmpty, ConfigurationIsKept, RunningIsStarted, engineVars

-----------------------------------------------------------------------------
(* The calls.                                                              *)

\* The first half of clean(): all servers stop, and what they know closes.
LEMMA CleanKeeps ==
  ASSUME IInv, call = "none", exists, Clean, call' # "none",
         allocated \subseteq allocated'
  PROVE  /\ TransportsTypeOK' /\ ClientsAreServed' /\ StoppedIsEmpty'
         /\ monitorServer' = FALSE /\ exists' = exists /\ listening' = {}
         /\ tunnelProxyServer' = tunnelProxyServer
         /\ tunnelProxyServer' => m_configuration' \in allocated'
         /\ m_configuration' = m_configuration /\ queued' = queued /\ m_running' = m_running
<1>1. /\ monitorServer' = FALSE /\ exists' = exists /\ tunnelProxyServer' = tunnelProxyServer
      /\ m_configuration' = m_configuration /\ queued' = queued /\ m_running' = m_running
  BY DEF Clean
<1>2. CASE ~tunnelProxyServer
  <2>1. UNCHANGED <<listening, kind, socket, m_clientList, m_proxyClients>>
    BY <1>2 DEF Clean, transportVars
  <2>2. TransportsTypeOK'
    BY <2>1 DEF IInv, TypeOK, TransportsTypeOK
  <2>3. ClientsAreServed' /\ StoppedIsEmpty'
    BY <1>1, <1>2, <2>1 DEF IInv, ClientsAreServed, StoppedIsEmpty
  <2>4. listening' = {}
    BY <1>2, <2>1 DEF IInv, StoppedIsEmpty
  <2> QED BY <1>1, <1>2, <2>2, <2>3, <2>4
<1>3. CASE tunnelProxyServer
  <2>1. PICK AtOnce \in SUBSET Of(Kinds) :
          /\ Aborted \subseteq AtOnce
          /\ socket' = [c \in Connections |-> IF c \in DeletedWithServer THEN "none"
                                              ELSE IF c \in AtOnce THEN "closed"
                                              ELSE IF c \in Of(Kinds) THEN "closing" ELSE socket[c]]
          /\ Reported(AtOnce)
    BY <1>3 DEF Clean, StopServers
  <2>2. listening' = {} /\ kind' = kind
    BY <1>3 DEF Clean, StopServers
  <2>3. Of(Kinds) \subseteq m_clientList /\ m_clientList \subseteq Connections
    BY DEF Of, IInv, TypeOK, TransportsTypeOK
  <2>4. TransportsTypeOK'
    BY <2>1, <2>2, <2>3 DEF IInv, TypeOK, TransportsTypeOK, SocketStates, Reported
  <2>5. \A c \in Connections : socket[c] = "open" => c \in Of(Kinds)
    BY <2>3 DEF Of, IInv, TypeOK, TransportsTypeOK, ClientsAreServed
  <2>6. \A c \in m_clientList : kind[c] = "webSocket" => c \in Aborted
    BY <2>3 DEF Of, Aborted, Kinds, IInv, ClientsAreServed
  <2>7. ClientsAreServed'
    BY <2>1, <2>2, <2>3, <2>5, <2>6 DEF IInv, ClientsAreServed, Reported
  <2> QED BY <1>1, <1>3, <2>2, <2>4, <2>7 DEF IInv, ConfigurationIsKept, StoppedIsEmpty
<1> QED BY <1>2, <1>3

\* start, stop and destroy begin with it.
LEMMA CallStep ==
  ASSUME IInv, (\E configuration \in Configurations : Start(configuration)) \/ Stop \/ Destroy
  PROVE  IInv'
<1>1. CASE \E configuration \in Configurations : Start(configuration)
  <2>1. PICK configuration \in Configurations : Start(configuration)
    BY <1>1
  <2>2. /\ call = "none" /\ exists /\ configuration \notin allocated /\ queued < MaxQueued
        /\ call' = "start" /\ starting' = configuration
        /\ allocated' = allocated \cup {configuration} /\ Clean
    BY <2>1 DEF Start
  <2>3. configuration # m_configuration
    BY <2>2, NoConfigurationAssumption DEF IInv, ConfigurationIsKept, StoppedIsEmpty
  <2>4. TypeOK'
    BY <2>2, CleanKeeps DEF IInv, TypeOK
  <2>5. /\ ClientsAreServed' /\ StoppedIsEmpty' /\ exists' /\ ~monitorServer' /\ listening' = {}
        /\ tunnelProxyServer' = tunnelProxyServer /\ m_configuration' = m_configuration
        /\ tunnelProxyServer' => m_configuration' \in allocated'
        /\ queued' = queued /\ m_running' = m_running
    BY <2>2, CleanKeeps
  <2>6. ConfigurationIsKept'
    BY <2>2, <2>3, <2>5 DEF ConfigurationIsKept
  <2>7. RunningIsStarted'
    BY <2>2, <2>5 DEF IInv, RunningIsStarted
  <2> QED BY <2>4, <2>5, <2>6, <2>7 DEF IInv
<1>2. CASE Stop \/ Destroy
  <2>1. /\ call = "none" /\ exists /\ call' \in {"stop", "destroy"} /\ Clean
        /\ starting' = starting /\ allocated' = allocated
        /\ call' = "stop" => StopsEarly \/ queued = 0
    BY <1>2 DEF Stop, Destroy
  <2>2. TypeOK'
    BY <2>1, CleanKeeps DEF IInv, TypeOK
  <2>3. /\ ClientsAreServed' /\ StoppedIsEmpty' /\ exists' /\ ~monitorServer' /\ listening' = {}
        /\ tunnelProxyServer' = tunnelProxyServer /\ m_configuration' = m_configuration
        /\ tunnelProxyServer' => m_configuration' \in allocated'
        /\ queued' = queued /\ m_running' = m_running
    BY <2>1, CleanKeeps
  <2>4. ConfigurationIsKept'
    BY <2>1, <2>3 DEF ConfigurationIsKept
  <2>5. RunningIsStarted'
    BY <2>1, <2>3 DEF IInv, RunningIsStarted
  <2> QED BY <2>2, <2>3, <2>4, <2>5 DEF IInv
<1> QED BY <1>1, <1>2

\* The rest of each call deletes what is left, and start makes all anew.
LEMMA ReturnStep ==
  ASSUME IInv, Started \/ Stopped
  PROVE  IInv'
<1>1. CASE Started
  <2>1. /\ call = "start" /\ DeleteServers /\ call' = "none" /\ exists' = exists
        /\ allocated' = allocated \ {m_configuration} /\ m_configuration' = starting
        /\ starting' = NoConfiguration /\ tunnelProxyServer' = TRUE
        /\ monitorServer' \in BOOLEAN /\ queued' = queued + 1 /\ m_running' = m_running
    BY <1>1 DEF Started
  <2>2. listening' \subseteq Kinds /\ ~({"tcp", "ssl"} \subseteq listening')
    <3>1. PICK ssl \in BOOLEAN : StartServers(ssl)
      BY <1>1 DEF Started
    <3> QED BY <3>1 DEF StartServers, WebSocketListens, UnixListens, TcpListens, Kinds
  <2>3. TransportsTypeOK' /\ ClientsAreServed'
    BY <2>1, <2>2 DEF IInv, TypeOK, TransportsTypeOK, ClientsAreServed, DeleteServers, SocketStates
  <2>4. TypeOK'
    BY <2>1, <2>3, MaxQueuedAssumption DEF IInv, TypeOK, ConfigurationIsKept
  <2> QED BY <2>1, <2>3, <2>4 DEF IInv, StoppedIsEmpty, ConfigurationIsKept, RunningIsStarted
<1>2. CASE Stopped
  <2>1. /\ call \in {"stop", "destroy"} /\ DeleteServers /\ call' = "none"
        /\ allocated' = allocated \ {m_configuration} /\ m_configuration' = NoConfiguration
        /\ tunnelProxyServer' = FALSE /\ m_running' = FALSE
        /\ IF call = "destroy" THEN exists' = FALSE /\ queued' = 0 ELSE exists' = exists /\ queued' = queued
        /\ listening' = listening /\ starting' = starting /\ monitorServer' = monitorServer
    BY <1>2 DEF Stopped
  <2>2. TransportsTypeOK' /\ ClientsAreServed'
    BY <2>1 DEF IInv, TypeOK, TransportsTypeOK, ClientsAreServed, DeleteServers, SocketStates
  <2>3. TypeOK'
    <3>1. exists' \in BOOLEAN /\ queued' \in 0..MaxQueued
      <4>1. exists \in BOOLEAN /\ queued \in 0..MaxQueued /\ 0 \in 0..MaxQueued
        BY MaxQueuedAssumption DEF IInv, TypeOK
      <4>2. CASE call = "destroy"
        BY <2>1, <4>1, <4>2
      <4>3. CASE call # "destroy"
        BY <2>1, <4>1, <4>3
      <4> QED BY <4>2, <4>3
    <3>2. /\ call' \in {"none", "start", "stop", "destroy"} /\ starting' \in Configurations \cup {NoConfiguration}
          /\ tunnelProxyServer' \in BOOLEAN /\ monitorServer' \in BOOLEAN /\ m_running' \in BOOLEAN
          /\ m_configuration' \in Configurations \cup {NoConfiguration} /\ allocated' \subseteq Configurations
      BY <2>1 DEF IInv, TypeOK
    <3> QED BY <2>2, <3>1, <3>2 DEF TypeOK
  <2>4. listening' = {}
    BY <2>1 DEF IInv, ConfigurationIsKept
  <2> QED BY <2>1, <2>2, <2>3, <2>4 DEF IInv, StoppedIsEmpty, ConfigurationIsKept, RunningIsStarted, DeleteServers
<1> QED BY <1>1, <1>2

-----------------------------------------------------------------------------
(* The theorems.                                                           *)

\* Before Engine::instance() there is nothing.
LEMMA InitInv == Init => IInv
<1> SUFFICES ASSUME Init PROVE IInv
  OBVIOUS
<1>1. TypeOK
  <2>1. TransportsTypeOK
    BY DEF Init, TransportsInit, TransportsTypeOK, Kinds, SocketStates
  <2>2. queued \in 0..MaxQueued
    BY MaxQueuedAssumption DEF Init
  <2> QED BY <2>1, <2>2 DEF Init, TypeOK
<1>2. ClientsAreServed
  BY DEF Init, TransportsInit, ClientsAreServed
<1>3. StoppedIsEmpty /\ ConfigurationIsKept /\ RunningIsStarted
  BY DEF Init, TransportsInit, StoppedIsEmpty, ConfigurationIsKept, RunningIsStarted
<1> QED BY <1>1, <1>2, <1>3 DEF IInv

\* Every step preserves the invariant: the calls, their ends, and the event loop.
THEOREM InvStep == IInv /\ [Next]_vars => IInv'
<1> SUFFICES ASSUME IInv, [Next]_vars PROVE IInv'
  OBVIOUS
<1>1. CASE Instance
  BY <1>1 DEF Instance, transportVars, IInv, TypeOK, TransportsTypeOK, ClientsAreServed,
     StoppedIsEmpty, ConfigurationIsKept, RunningIsStarted
<1>2. CASE (\E configuration \in Configurations : Start(configuration)) \/ Stop \/ Destroy
  BY <1>2, CallStep
<1>3. CASE Started \/ Stopped
  BY <1>3, ReturnStep
<1>4. CASE SetRunning
  <2>1. /\ call = "none" /\ queued > 0 /\ queued' = queued - 1 /\ m_running' = TRUE
        /\ UNCHANGED <<listening, kind, socket, m_clientList, m_proxyClients, exists, call, starting,
                       tunnelProxyServer, monitorServer, m_configuration, allocated>>
    BY <1>4 DEF SetRunning, transportVars
  <2>2. TypeOK'
    BY <2>1, MaxQueuedAssumption DEF IInv, TypeOK, TransportsTypeOK
  <2>3. RunningIsStarted'
    BY <2>1 DEF IInv, TypeOK, RunningIsStarted
  <2> QED BY <2>1, <2>2, <2>3 DEF IInv, ClientsAreServed, StoppedIsEmpty, ConfigurationIsKept
<1>5. CASE Serve(ConnectionStep)
  BY <1>5, ServeStep
<1>6. CASE UNCHANGED vars
  BY <1>6 DEF vars, transportVars, engineVars, IInv, TypeOK, TransportsTypeOK, ClientsAreServed,
     StoppedIsEmpty, ConfigurationIsKept, RunningIsStarted
<1> QED BY <1>1, <1>2, <1>3, <1>4, <1>5, <1>6 DEF Next

\* The inductive invariant holds, whenever the engine is started, stopped and destroyed.
THEOREM Invariance == Spec => []IInv
<1>1. Init => IInv
  BY InitInv
<1>2. IInv /\ [Next]_vars => IInv'
  BY InvStep
<1> QED BY <1>1, <1>2, PTL DEF Spec

\* Every variable keeps its type; TCP listens with or without TLS, never both.
THEOREM TypeCorrect == Spec => []TypeOK
<1>1. IInv => TypeOK
  BY DEF IInv
<1> QED BY <1>1, Invariance, PTL

\* The transports and the proxy know the same clients, each of which has its socket.
THEOREM KnownClientsAreUsable == Spec => []KnownAreUsable
<1>1. IInv => KnownAreUsable
  BY DEF IInv, TypeOK, TransportsTypeOK, ClientsAreServed, KnownAreUsable
<1> QED BY <1>1, Invariance, PTL

\* While there may be clients or monitors, the engine they are answered from is there, and
\* an engine that says it runs has its servers, if stop is not called before the event
\* loop came to the setRunning(true) that start has queued.
THEOREM UsersFindEngine == ASSUME ~StopsEarly PROVE Spec => []UsersHaveEngine
<1>1. IInv => UsersHaveEngine
  BY DEF IInv, ClientsAreServed, StoppedIsEmpty, ConfigurationIsKept, RunningIsStarted, UsersHaveEngine
<1> QED BY <1>1, Invariance, PTL

=============================================================================
