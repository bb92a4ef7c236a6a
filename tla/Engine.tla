------------------------------- MODULE Engine -------------------------------
(***************************************************************************)
(* Engine: one instance at most, which starts and stops the                *)
(* TunnelProxyServer with its transports and the monitor server.           *)
(*                                                                         *)
(* clean() is part of start, stop and the destructor.  It is two steps     *)
(* here, between which nothing else happens: first the servers stop, which *)
(* closes sockets and thereby runs slots, then they are deleted and the    *)
(* call goes on.                                                           *)
(***************************************************************************)
EXTENDS Transports, Naturals

CONSTANTS
  Configurations,   \* ProxyConfiguration objects, used again once they are deleted
  NoConfiguration,  \* the null pointer
  StopsEarly,       \* may stop be called before the event loop has run?
  MaxQueued         \* bound: calls of setRunning in the event queue

ASSUME NoConfigurationAssumption == NoConfiguration \notin Configurations
ASSUME MaxQueuedAssumption == MaxQueued \in Nat

VARIABLES
  exists,             \* s_instance
  call,               \* the call whose clean() is half done, or "none"
  starting,           \* the configuration start was called with
  tunnelProxyServer,  \* is m_tunnelProxyServer there, with its transports?
  monitorServer,      \* does the monitor server listen?
  m_configuration,
  allocated,          \* the configurations that are not deleted
  m_running,          \* and with it m_timer
  queued              \* calls of setRunning(true) in the event queue

engineVars == <<exists, call, starting, tunnelProxyServer, monitorServer,
                m_configuration, allocated, m_running, queued>>
vars       == <<transportVars, engineVars>>

TypeOK ==
  /\ TransportsTypeOK
  /\ exists \in BOOLEAN
  /\ call \in {"none", "start", "stop", "destroy"}
  /\ starting \in Configurations \cup {NoConfiguration}
  /\ tunnelProxyServer \in BOOLEAN
  /\ monitorServer \in BOOLEAN
  /\ m_configuration \in Configurations \cup {NoConfiguration}
  /\ allocated \subseteq Configurations
  /\ m_running \in BOOLEAN
  /\ queued \in 0..MaxQueued

Init ==
  /\ TransportsInit
  /\ exists = FALSE
  /\ call = "none"
  /\ starting = NoConfiguration
  /\ tunnelProxyServer = FALSE
  /\ monitorServer = FALSE
  /\ m_configuration = NoConfiguration
  /\ allocated = {}
  /\ m_running = FALSE
  /\ queued = 0

-----------------------------------------------------------------------------
(* The calls.                                                              *)

\* Engine::instance(): a getter that creates.
Instance ==
  /\ call = "none" /\ ~exists
  /\ exists' = TRUE
  /\ UNCHANGED <<transportVars, call, starting, tunnelProxyServer, monitorServer,
                 m_configuration, allocated, m_running, queued>>

\* The first half of clean().
Clean ==
  /\ IF tunnelProxyServer THEN StopServers ELSE UNCHANGED transportVars
  /\ monitorServer' = FALSE
  /\ UNCHANGED <<exists, tunnelProxyServer, m_configuration, m_running, queued>>

Start(configuration) ==
  /\ call = "none" /\ exists
  /\ configuration \notin allocated
  /\ queued < MaxQueued
  /\ call' = "start"
  /\ starting' = configuration
  /\ allocated' = allocated \cup {configuration}
  /\ Clean

Stop ==
  /\ call = "none" /\ exists
  /\ StopsEarly \/ queued = 0
  /\ call' = "stop"
  /\ Clean
  /\ UNCHANGED <<starting, allocated>>

\* Engine::destroy(), from the handler of SIGTERM and the like.
Destroy ==
  /\ call = "none" /\ exists
  /\ call' = "destroy"
  /\ Clean
  /\ UNCHANGED <<starting, allocated>>

\* The rest of start: both kinds of server, and running in the next event loop.  The old
\* configuration is deleted in clean(), before the new one is kept.
Started ==
  /\ call = "start"
  /\ DeleteServers
  /\ \E ssl \in BOOLEAN : StartServers(ssl)
  /\ allocated' = allocated \ {m_configuration}
  /\ m_configuration' = starting
  /\ tunnelProxyServer' = TRUE
  /\ monitorServer' \in BOOLEAN
  /\ queued' = queued + 1
  /\ call' = "none" /\ starting' = NoConfiguration
  /\ UNCHANGED <<exists, m_running>>

Stopped_RunningKept ==
  /\ call \in {"stop", "destroy"}
  /\ DeleteServers
  /\ allocated' = allocated \ {m_configuration}
  /\ m_configuration' = NoConfiguration
  /\ tunnelProxyServer' = FALSE
  /\ IF call = "destroy" THEN exists' = FALSE /\ queued' = 0 ELSE UNCHANGED <<exists, queued>>
  /\ call' = "none"
  /\ UNCHANGED <<listening, starting, monitorServer, m_running>>

\* The rest of stop, which is also the destructor's: a destroyed engine gets no events.
Stopped ==
  /\ call \in {"stop", "destroy"}
  /\ DeleteServers
  /\ allocated' = allocated \ {m_configuration}
  /\ m_configuration' = NoConfiguration
  /\ tunnelProxyServer' = FALSE
  /\ m_running' = FALSE
  /\ IF call = "destroy" THEN exists' = FALSE /\ queued' = 0 ELSE UNCHANGED <<exists, queued>>
  /\ call' = "none"
  /\ UNCHANGED <<listening, starting, monitorServer>>

\* setRunning(true) from the event queue.
SetRunning ==
  /\ call = "none" /\ queued > 0
  /\ queued' = queued - 1
  /\ m_running' = TRUE
  /\ UNCHANGED <<transportVars, exists, call, starting, tunnelProxyServer, monitorServer,
                 m_configuration, allocated>>

\* The event loop serves the sockets.
Serve(Step) == call = "none" /\ Step /\ UNCHANGED engineVars

Next ==
  \/ Instance
  \/ \E configuration \in Configurations : Start(configuration)
  \/ Stop
  \/ Destroy
  \/ Started
  \/ Stopped
  \/ SetRunning
  \/ Serve(ConnectionStep)

\* Calls come to their end and the event loop runs; a TLS handshake ends or its timer of
\* five seconds fires, and what a closing socket still has to write is written or given
\* up by the system.
Fairness ==
  /\ WF_vars(Started) /\ WF_vars(Stopped) /\ WF_vars(SetRunning)
  /\ \A c \in Connections :
       /\ WF_vars(Serve(HandshakeEnds(c)))
       /\ WF_vars(Serve(socket[c] = "closing" /\ SocketDisconnects(c)))
       /\ WF_vars(Serve(DeferredDelete(c)))

Spec == Init /\ [][Next]_vars /\ Fairness

-----------------------------------------------------------------------------

\* A transport and the proxy know the same clients, and each of them has its socket: no
\* data, kill or timer reaches a deleted socket, whoever closes, stops or deletes.  In
\* the course of a call the web sockets matter, which the destructor closes again.  A
\* client is known from when its socket can carry requests, over TLS not before it is
\* encrypted, to when it no longer can.
KnownAreUsable ==
  /\ m_clientList = m_proxyClients
  /\ \A c \in m_clientList :
       call = "none" \/ kind[c] = "webSocket" => socket[c] \in {"open", "closing"}
  /\ \A c \in Connections : socket[c] = "open" => c \in m_proxyClients

\* Clients that say Hello and monitors that refresh are answered from the configuration
\* and the TunnelProxyServer of the engine: while there may be any, both are there.  So
\* are the servers of an engine that says it runs.
UsersHaveEngine ==
  /\ m_proxyClients # {} \/ monitorServer =>
       tunnelProxyServer /\ exists /\ m_configuration \in allocated
  /\ call = "none" /\ m_running => tunnelProxyServer /\ exists

\* No connection keeps its socket object without being usable: handshakes and closes end,
\* and the object is deleted.  (Unix sockets are deleted with their server only.)
SocketsFreed ==
  \A c \in Connections :
    socket[c] \in {"encrypting", "closing", "closed"} /\ kind[c] # "unix"
      ~> socket[c] \in {"open", "none"}
=============================================================================
