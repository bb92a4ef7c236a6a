---------------------- MODULE TunnelProxyServerProofs ----------------------
(***************************************************************************)
(* Proofs about TunnelProxyServer, for any number of connections, uuids    *)
(* and addresses.  The five invariants the model checker verifies are one  *)
(* inductive invariant together: none of them is inductive alone.          *)
(***************************************************************************)
EXTENDS TunnelProxyServer, FunctionTheorems, FiniteSetTheorems, TLAPS

IInv ==
  /\ TypeOK
  /\ UuidOwnership
  /\ TunnelTablesAgree
  /\ DataHasServer
  /\ ServerViewMatches

-----------------------------------------------------------------------------
(* The search for a free address.                                          *)

\* Address arithmetic stays in the range, and ConnectionLimit + 1 addresses counted on
\* from any address are all different.
LEMMA WrapFacts ==
  ASSUME NEW n \in Addresses
  PROVE  /\ Wrap(n + 1) \in Addresses
         /\ \A i \in 0..ConnectionLimit : Wrap(n + i) \in Addresses
         /\ \A i, j \in 0..ConnectionLimit : Wrap(n + i) = Wrap(n + j) => i = j
BY AddressAssumption DEF Addresses, Wrap

\* getFreeAddress finds a free address whenever there are no more connections than its
\* search can step over: each address it finds taken is held by another client, or is
\* one of the two reserved ones, which the server and the new client make up for.
LEMMA FreeAddressFound ==
  ASSUME IInv, EnoughAddresses,
         NEW s \in ClientIds, type[s] = "server",
         NEW c \in ClientIds, type[c] = "none",
         NEW a \in Addresses, IsFreeAddress(s, a)
  PROVE  ~AddressTaken(s, a)
<1> DEFINE start == Wrap(m_currentAddressCounter[s] + 1)
           candidate(i) == Wrap(start + i)
           holder(b) == IF b = 0 THEN s ELSE IF b = MaxAddress THEN c
                        ELSE m_clientConnectionsAddresses[s][b]
           f == [i \in 0..ConnectionLimit |-> holder(candidate(i))]
<1>1. SUFFICES ASSUME AddressTaken(s, a) PROVE FALSE
  OBVIOUS
<1>2. start \in Addresses
  BY WrapFacts DEF IInv, TypeOK
<1>3. /\ \A i \in 0..ConnectionLimit : candidate(i) \in Addresses
      /\ \A i, j \in 0..ConnectionLimit : candidate(i) = candidate(j) => i = j
  <2> HIDE DEF start
  <2> QED BY <1>2, WrapFacts
<1> HIDE DEF start
<1>4. \A i \in 0..ConnectionLimit : AddressTaken(s, candidate(i))
  <2>1. PICK i \in 0..ConnectionLimit :
          /\ a = candidate(i)
          /\ \A j \in 0..(i - 1) : AddressTaken(s, candidate(j))
          /\ i = ConnectionLimit \/ ~AddressTaken(s, a)
    BY DEF IsFreeAddress, start
  <2>2. i = ConnectionLimit
    BY <1>1, <2>1
  <2> HIDE DEF candidate
  <2>3. \A j \in 0..ConnectionLimit : j = i \/ j \in 0..(i - 1)
    BY <2>2, AddressAssumption
  <2> QED BY <1>1, <2>1, <2>3
<1> HIDE DEF candidate
<1>5. \A b \in Addresses : AddressTaken(s, b) => holder(b) \in ClientIds
  BY DEF AddressTaken, IInv, TypeOK, ClientOrNo
<1>6. \A b, d \in Addresses :
        AddressTaken(s, b) /\ AddressTaken(s, d) /\ holder(b) = holder(d) => b = d
  <2>1. \A b \in Addresses : m_clientConnectionsAddresses[s][b] # NoClient
          => /\ m_clientConnectionsAddresses[s][b] \in ClientIds
             /\ socketAddress[m_clientConnectionsAddresses[s][b]] = b
             /\ serverConnection[m_clientConnectionsAddresses[s][b]] = s
    BY DEF IInv, TypeOK, ClientOrNo, TunnelTablesAgree
  <2>2. \A d \in ClientIds : serverConnection[d] = s => type[d] = "client" /\ d # s /\ d # c
    BY ClientIdsAssumption DEF IInv, TunnelTablesAgree
  <2>3. s # c
    OBVIOUS
  <2> QED BY <2>1, <2>2, <2>3 DEF AddressTaken
<1> HIDE DEF holder
<1>7. f \in Injection(0..ConnectionLimit, ClientIds)
  <2>1. f \in [0..ConnectionLimit -> ClientIds]
    BY <1>3, <1>4, <1>5
  <2>2. \A i, j \in 0..ConnectionLimit : f[i] = f[j] => i = j
    BY <1>3, <1>4, <1>6
  <2> QED BY <2>1, <2>2, Fun_IsInj
<1> HIDE DEF f
<1>8. Cardinality(0..ConnectionLimit) = ConnectionLimit + 1
  BY FS_Interval, AddressAssumption
<1>9. Cardinality(0..ConnectionLimit) <= Cardinality(ClientIds)
  BY <1>7, FS_Injection, ClientIdsAssumption
<1>10. Cardinality(ClientIds) \in Nat
  BY FS_CardinalityType, ClientIdsAssumption
<1> QED BY <1>8, <1>9, <1>10, AddressAssumption DEF EnoughAddresses
-----------------------------------------------------------------------------
(* The inductive invariant.                                                *)

\* The server starts with empty tables, which agree with each other.
LEMMA InitInv == Init => IInv
<1> SUFFICES ASSUME Init PROVE IInv
  OBVIOUS
<1> USE ClientIdsAssumption, UuidAssumption, AddressAssumption DEF Init, NoTable, Addresses, ClientOrNo
<1>1. TypeOK
  BY DEF TypeOK
<1>2. UuidOwnership
  BY DEF UuidOwnership
<1>3. TunnelTablesAgree
  BY DEF TunnelTablesAgree
<1>4. DataHasServer
  BY DEF DataHasServer
<1>5. ServerViewMatches
  BY DEF ServerViewMatches
<1> QED BY <1>1, <1>2, <1>3, <1>4, <1>5 DEF IInv

\* A step that registers and removes nothing, and only closes sockets, keeps IInv.
LEMMA TablesKept ==
  ASSUME IInv, TypeOK',
         m_proxyClients \subseteq m_proxyClients',
         closing \subseteq closing',
         \A c \in ClientIds : slipEnabled[c] => slipEnabled'[c],
         UNCHANGED <<type, uuid, registryVars, addressVars>>
  PROVE  IInv'
<1>1. /\ type' = type /\ uuid' = uuid
      /\ m_tunnelProxyServerConnections' = m_tunnelProxyServerConnections
      /\ m_tunnelProxyClientConnections' = m_tunnelProxyClientConnections
      /\ m_clientConnectionsAddresses' = m_clientConnectionsAddresses
      /\ m_clientConnections' = m_clientConnections
      /\ serverConnection' = serverConnection /\ socketAddress' = socketAddress
      /\ announced' = announced
  BY DEF registryVars, addressVars
<1>2. UuidOwnership'
  BY <1>1 DEF IInv, UuidOwnership
<1>3. TunnelTablesAgree'
  BY <1>1 DEF IInv, TunnelTablesAgree, Addresses
<1>4. DataHasServer'
  BY <1>1 DEF IInv, DataHasServer
<1>5. ServerViewMatches'
  BY <1>1 DEF IInv, ServerViewMatches
<1> QED BY <1>2, <1>3, <1>4, <1>5 DEF IInv

\* Where a client connection's server and a server's clients are: both are connected.
LEMMA TunnelEnds ==
  ASSUME IInv, NEW s \in ClientIds
  PROVE  /\ m_clientConnections[s] \subseteq m_proxyClients
         /\ \A c \in m_clientConnections[s] : /\ serverConnection[c] = s /\ c # s
                                              /\ type[c] = "client" /\ type[s] = "server"
         /\ \A a \in Addresses : m_clientConnectionsAddresses[s][a] # NoClient
              => m_clientConnectionsAddresses[s][a] \in m_clientConnections[s]
<1>1. \A c \in m_clientConnections[s] : c \in ClientIds /\ serverConnection[c] = s
  BY DEF IInv, TypeOK, TunnelTablesAgree
<1>2. \A c \in ClientIds : serverConnection[c] = s =>
        type[c] = "client" /\ type[s] = "server" /\ c # s /\ c \in m_proxyClients
  BY ClientIdsAssumption DEF IInv, TunnelTablesAgree, UuidOwnership
<1>3. \A a \in Addresses : m_clientConnectionsAddresses[s][a] # NoClient
        => m_clientConnectionsAddresses[s][a] \in m_clientConnections[s]
  BY DEF IInv, TypeOK, TunnelTablesAgree, ClientOrNo
<1> QED BY <1>1, <1>2, <1>3

\* The actions of the sockets and timers, except Disconnected.
LEMMA SocketStep ==
  ASSUME IInv, NEW c \in ClientIds,
         \/ OnClientConnected(c) \/ PeerVanishes(c)
         \/ InactiveTimeout(c) \/ BufferViolation(c)
  PROVE  IInv'
<1> USE DEF clientVars, registryVars, addressVars
<1>1. TypeOK'
  BY DEF IInv, TypeOK, OnClientConnected, PeerVanishes, InactiveTimeout, BufferViolation
<1>2. /\ m_proxyClients \subseteq m_proxyClients' /\ closing \subseteq closing'
      /\ UNCHANGED <<clientVars, registryVars, addressVars>>
  BY DEF OnClientConnected, PeerVanishes, InactiveTimeout, BufferViolation
<1> QED BY <1>1, <1>2, TablesKept

\* The end of a batch of packets changes no table.
LEMMA EndOfDataStep == IInv /\ EndOfData => IInv'
<1> SUFFICES ASSUME IInv, EndOfData PROVE IInv'
  OBVIOUS
<1> USE DEF EndOfData, clientVars, registryVars, addressVars
<1>1. TypeOK'
  BY DEF IInv, TypeOK, ClientOrNo
<1> QED BY <1>1, TablesKept

\* Every request sends a response: what it may do to the connection states.
LEMMA RespondFacts ==
  ASSUME IInv, NEW c \in ClientIds, NEW kill \in BOOLEAN, NEW slip \in BOOLEAN,
         NEW others \in SUBSET m_proxyClients,
         Processing(c), Respond(c, kill, slip, others)
  PROVE  /\ m_proxyClients' = m_proxyClients /\ vanished' = vanished
         /\ batch' \in ClientOrNo
         /\ closing \subseteq closing' /\ closing' \subseteq m_proxyClients
         /\ killRequested' \in [ClientIds -> BOOLEAN]
         /\ slipEnabled' \in [ClientIds -> BOOLEAN]
         /\ \A d \in ClientIds : slipEnabled[d] => slipEnabled'[d]
         /\ slip => c \in closing' \/ slipEnabled'[c]
BY ZenonT(40) DEF IInv, TypeOK, Processing, Respond, ClientOrNo

\* The requests that register nothing.
LEMMA OtherRequestStep ==
  ASSUME IInv, NEW c \in ClientIds,
         \/ MalformedPacket(c) \/ PlainRequest(c)
         \/ \E u \in Uuids : RefuseServer(c, u)
         \/ \E u, v \in Uuids : RefuseClient(c, u, v)
         \/ \E a \in Addresses : DisconnectClient(c, a)
  PROVE  IInv'
<1> USE DEF registryVars, addressVars
<1>1. CASE MalformedPacket(c)
  <2>1. TypeOK'
    BY <1>1 DEF IInv, TypeOK, MalformedPacket, Processing, clientVars, ClientOrNo
  <2> QED BY <1>1, <2>1, TablesKept DEF MalformedPacket, Processing, clientVars
<1>2. ASSUME NEW kill \in BOOLEAN, NEW others \in SUBSET m_proxyClients,
             Processing(c), Respond(c, kill, FALSE, others),
             UNCHANGED <<type, uuid, registryVars, addressVars>>
      PROVE  IInv'
  <2>1. TypeOK'
    BY <1>2, RespondFacts DEF IInv, TypeOK
  <2> QED BY <1>2, <2>1, RespondFacts, TablesKept
<1>3. ASSUME NEW kill \in BOOLEAN, Processing(c), Respond(c, kill, FALSE, {}),
             UNCHANGED <<type, uuid, registryVars, addressVars>>
      PROVE  IInv'
  <2>1. {} \in SUBSET m_proxyClients
    OBVIOUS
  <2> QED BY <1>2, <1>3, <2>1
<1>4. CASE PlainRequest(c)
  <2>1. FALSE \in BOOLEAN
    OBVIOUS
  <2> QED BY <1>3, <1>4, <2>1 DEF PlainRequest
<1>5. ASSUME NEW u \in Uuids, NEW v \in Uuids, RefuseServer(c, u) \/ RefuseClient(c, u, v)
      PROVE  IInv'
  <2>1. TRUE \in BOOLEAN
    OBVIOUS
  <2> QED BY <1>3, <1>5, <2>1 DEF RefuseServer, RefuseClient
<1>6. ASSUME NEW a \in Addresses, DisconnectClient(c, a) PROVE IInv'
  <2>1. DisconnectTargets(c, a) \subseteq m_proxyClients
    BY TunnelEnds DEF DisconnectTargets
  <2>2. (type[c] # "server") \in BOOLEAN
    OBVIOUS
  <2> QED BY <1>2, <1>6, <2>1, <2>2 DEF DisconnectClient
<1> QED BY <1>1, <1>4, <1>5, <1>6

\* RegisterServer: a new entry under an unused uuid; no tunnel leads to it yet.
LEMMA RegisterServerStep ==
  ASSUME IInv, NEW c \in ClientIds, NEW u \in Uuids, RegisterServer(c, u)
  PROVE  IInv'
<1>1. /\ type' = [type EXCEPT ![c] = "server"] /\ uuid' = [uuid EXCEPT ![c] = u]
      /\ m_tunnelProxyServerConnections' = [m_tunnelProxyServerConnections EXCEPT ![u] = c]
      /\ m_tunnelProxyClientConnections' = m_tunnelProxyClientConnections
      /\ UNCHANGED addressVars
      /\ Processing(c) /\ Respond(c, FALSE, TRUE, {})
      /\ type[c] = "none" /\ ~UuidInUse(u) /\ c \in m_proxyClients
  BY DEF RegisterServer, CanRegisterServer, Processing
<1>2. /\ m_proxyClients' = m_proxyClients /\ vanished' = vanished
      /\ batch' \in ClientOrNo
      /\ closing \subseteq closing' /\ closing' \subseteq m_proxyClients
      /\ killRequested' \in [ClientIds -> BOOLEAN]
      /\ slipEnabled' \in [ClientIds -> BOOLEAN]
      /\ \A d \in ClientIds : slipEnabled[d] => slipEnabled'[d]
      /\ c \in closing' \/ slipEnabled'[c]
  <2>1. {} \in SUBSET m_proxyClients /\ FALSE \in BOOLEAN /\ TRUE \in BOOLEAN
    OBVIOUS
  <2> QED BY <1>1, <2>1, RespondFacts
<1>3. TypeOK'
  BY <1>1, <1>2 DEF IInv, TypeOK, addressVars, ClientOrNo
<1>4. UuidOwnership'
  <2>1. \A w \in Uuids : /\ m_tunnelProxyServerConnections'[w] = IF w = u THEN c ELSE m_tunnelProxyServerConnections[w]
                         /\ m_tunnelProxyClientConnections'[w] = m_tunnelProxyClientConnections[w]
    BY <1>1 DEF IInv, TypeOK
  <2>2. \A d \in ClientIds : /\ type'[d] = IF d = c THEN "server" ELSE type[d]
                             /\ uuid'[d] = IF d = c THEN u ELSE uuid[d]
    BY <1>1 DEF IInv, TypeOK
  <2>3. /\ m_tunnelProxyServerConnections[u] = NoClient
        /\ m_tunnelProxyClientConnections[u] = NoClient
    BY <1>1 DEF UuidInUse
  <2>4. \A d \in ClientIds : uuid[d] = u => type[d] = "none"
    <3>1. \A d \in ClientIds : d # NoClient
      BY ClientIdsAssumption
    <3>2. \A d \in ClientIds : type[d] \in {"none", "server", "client"}
      BY DEF IInv, TypeOK
    <3> QED BY <2>3, <3>1, <3>2 DEF IInv, UuidOwnership
  <2>5. \A w \in Uuids, d \in ClientIds :
          /\ m_tunnelProxyServerConnections'[w] = d <=> type'[d] = "server" /\ uuid'[d] = w
          /\ m_tunnelProxyClientConnections'[w] = d <=> type'[d] = "client" /\ uuid'[d] = w
    BY <1>1, <2>1, <2>2, <2>3, <2>4, ClientIdsAssumption DEF IInv, UuidOwnership
  <2>6. \A w \in Uuids : \/ m_tunnelProxyServerConnections'[w] = NoClient
                         \/ m_tunnelProxyClientConnections'[w] = NoClient
    BY <2>1, <2>3 DEF IInv, UuidOwnership
  <2>7. \A d \in ClientIds : /\ type'[d] # "none" => d \in m_proxyClients'
                             /\ uuid'[d] = NullUuid <=> type'[d] = "none"
    BY <1>1, <1>2, <2>2, UuidAssumption DEF IInv, UuidOwnership
  <2> QED BY <2>5, <2>6, <2>7 DEF UuidOwnership
<1>5. TunnelTablesAgree'
  BY <1>1 DEF IInv, TypeOK, TunnelTablesAgree, addressVars, Addresses
<1>6. DataHasServer'
  BY <1>1, <1>2 DEF IInv, TypeOK, DataHasServer, addressVars
<1>7. ServerViewMatches'
  <2>1. m_clientConnectionsAddresses[c] = NoTable
    <3>1. \A a \in Addresses : m_clientConnectionsAddresses[c][a] = NoClient
      BY <1>1, TunnelEnds
    <3> QED BY <3>1 DEF IInv, TypeOK, NoTable
  <2>2. announced[c] = NoTable
    BY <1>1 DEF IInv, ServerViewMatches
  <2> QED BY <1>1, <1>2, <2>1, <2>2 DEF IInv, TypeOK, ServerViewMatches, addressVars
<1> QED BY <1>3, <1>4, <1>5, <1>6, <1>7 DEF IInv

\* RegisterClient: the address search decides whether the tables stay one-to-one.
LEMMA RegisterClientStep ==
  ASSUME IInv, EnoughAddresses,
         NEW c \in ClientIds, NEW u \in Uuids, NEW v \in Uuids, RegisterClient(c, u, v)
  PROVE  IInv'
<1> DEFINE s == m_tunnelProxyServerConnections[v]
<1>1. /\ Processing(c) /\ Respond(c, FALSE, FALSE, {})
      /\ type[c] = "none" /\ ~UuidInUse(u) /\ s # NoClient /\ c \in m_proxyClients
      /\ type' = [type EXCEPT ![c] = "client"] /\ uuid' = [uuid EXCEPT ![c] = u]
      /\ m_tunnelProxyClientConnections' = [m_tunnelProxyClientConnections EXCEPT ![u] = c]
      /\ m_tunnelProxyServerConnections' = m_tunnelProxyServerConnections
  BY DEF RegisterClient, CanRegisterClient, Processing
<1>2. PICK a \in Addresses : /\ IsFreeAddress(s, a)
                             /\ RegisterClientConnection(s, c, a)
                             /\ AnnounceConnected(s, c, a)
  BY DEF RegisterClient
<1>3. s \in ClientIds /\ type[s] = "server" /\ s # c
  BY <1>1 DEF IInv, TypeOK, UuidOwnership, ClientOrNo
<1> HIDE DEF s
<1>4. ~AddressTaken(s, a)
  BY <1>1, <1>2, <1>3, FreeAddressFound
<1>5. serverConnection[c] = NoClient
  BY <1>1 DEF IInv, TunnelTablesAgree, TypeOK, ClientOrNo
<1>6. /\ m_proxyClients' = m_proxyClients /\ vanished' = vanished
      /\ batch' \in ClientOrNo
      /\ closing \subseteq closing' /\ closing' \subseteq m_proxyClients
      /\ killRequested' \in [ClientIds -> BOOLEAN]
      /\ slipEnabled' \in [ClientIds -> BOOLEAN]
      /\ \A d \in ClientIds : slipEnabled[d] => slipEnabled'[d]
  <2>1. {} \in SUBSET m_proxyClients /\ FALSE \in BOOLEAN
    OBVIOUS
  <2> QED BY <1>1, <2>1, RespondFacts
<1>7. /\ m_currentAddressCounter' \in [ClientIds -> Addresses]
      /\ m_clientConnectionsAddresses' =
           [m_clientConnectionsAddresses EXCEPT ![s] = [m_clientConnectionsAddresses[s] EXCEPT ![a] = c]]
      /\ m_clientConnections' = [m_clientConnections EXCEPT ![s] = m_clientConnections[s] \cup {c}]
      /\ serverConnection' = [serverConnection EXCEPT ![c] = s]
      /\ socketAddress' = [socketAddress EXCEPT ![c] = a]
  <2>1. Wrap(m_currentAddressCounter[s] + 1) \in Addresses
    BY <1>3, WrapFacts DEF IInv, TypeOK
  <2> QED BY <1>2, <2>1 DEF RegisterClientConnection, IInv, TypeOK
<1>8. TypeOK'
  <2>1. announced' \in [ClientIds -> [Addresses -> ClientOrNo]]
    BY <1>2, <1>3 DEF AnnounceConnected, IInv, TypeOK, ClientOrNo
  <2>2. m_clientConnectionsAddresses' \in [ClientIds -> [Addresses -> ClientOrNo]]
    BY <1>3, <1>7 DEF IInv, TypeOK, ClientOrNo
  <2> QED BY <1>1, <1>3, <1>6, <1>7, <2>1, <2>2 DEF IInv, TypeOK, ClientOrNo
<1>9. UuidOwnership'
  <2>1. \A w \in Uuids : /\ m_tunnelProxyClientConnections'[w] = IF w = u THEN c ELSE m_tunnelProxyClientConnections[w]
                         /\ m_tunnelProxyServerConnections'[w] = m_tunnelProxyServerConnections[w]
    BY <1>1 DEF IInv, TypeOK
  <2>2. \A d \in ClientIds : /\ type'[d] = IF d = c THEN "client" ELSE type[d]
                             /\ uuid'[d] = IF d = c THEN u ELSE uuid[d]
    BY <1>1 DEF IInv, TypeOK
  <2>3. /\ m_tunnelProxyServerConnections[u] = NoClient
        /\ m_tunnelProxyClientConnections[u] = NoClient
    BY <1>1 DEF UuidInUse
  <2>4. \A d \in ClientIds : uuid[d] = u => type[d] = "none"
    <3>1. \A d \in ClientIds : d # NoClient
      BY ClientIdsAssumption
    <3>2. \A d \in ClientIds : type[d] \in {"none", "server", "client"}
      BY DEF IInv, TypeOK
    <3> QED BY <2>3, <3>1, <3>2 DEF IInv, UuidOwnership
  <2>5. \A w \in Uuids, d \in ClientIds :
          /\ m_tunnelProxyServerConnections'[w] = d <=> type'[d] = "server" /\ uuid'[d] = w
          /\ m_tunnelProxyClientConnections'[w] = d <=> type'[d] = "client" /\ uuid'[d] = w
    BY <1>1, <2>1, <2>2, <2>3, <2>4, ClientIdsAssumption DEF IInv, UuidOwnership
  <2>6. \A w \in Uuids : \/ m_tunnelProxyServerConnections'[w] = NoClient
                         \/ m_tunnelProxyClientConnections'[w] = NoClient
    BY <2>1, <2>3 DEF IInv, UuidOwnership
  <2>7. \A d \in ClientIds : /\ type'[d] # "none" => d \in m_proxyClients'
                             /\ uuid'[d] = NullUuid <=> type'[d] = "none"
    BY <1>1, <1>6, <2>2, UuidAssumption DEF IInv, UuidOwnership
  <2> QED BY <2>5, <2>6, <2>7 DEF UuidOwnership
<1>10. TunnelTablesAgree'
  <2>1. \A t \in ClientIds, b \in Addresses :
          m_clientConnectionsAddresses'[t][b] =
            IF t = s /\ b = a THEN c ELSE m_clientConnectionsAddresses[t][b]
    BY <1>3, <1>7 DEF IInv, TypeOK
  <2>2. \A d \in ClientIds :
          /\ serverConnection'[d] = IF d = c THEN s ELSE serverConnection[d]
          /\ socketAddress'[d] = IF d = c THEN a ELSE socketAddress[d]
          /\ type'[d] = IF d = c THEN "client" ELSE type[d]
    BY <1>1, <1>7 DEF IInv, TypeOK
  <2>3. \A t, d \in ClientIds, b \in Addresses :
          m_clientConnectionsAddresses'[t][b] = d
            <=> serverConnection'[d] = t /\ socketAddress'[d] = b
    BY <1>3, <1>4, <1>5, <2>1, <2>2, ClientIdsAssumption
       DEF IInv, TunnelTablesAgree, AddressTaken
  <2>4. \A t, d \in ClientIds : d \in m_clientConnections'[t] <=> serverConnection'[d] = t
    BY <1>3, <1>5, <1>7, <2>2, ClientIdsAssumption DEF IInv, TypeOK, TunnelTablesAgree
  <2>5. \A d \in ClientIds : serverConnection'[d] # NoClient =>
          /\ type'[d] = "client" /\ type'[serverConnection'[d]] = "server"
          /\ socketAddress'[d] \notin {0, MaxAddress}
    BY <1>1, <1>3, <1>4, <2>2 DEF IInv, TypeOK, TunnelTablesAgree, AddressTaken, ClientOrNo
  <2> QED BY <2>3, <2>4, <2>5 DEF TunnelTablesAgree, Addresses
<1>11. DataHasServer'
  BY <1>1, <1>3, <1>6, <1>7, ClientIdsAssumption DEF IInv, TypeOK, DataHasServer
<1>12. ServerViewMatches'
  <2>1. \A t \in ClientIds : t \notin closing =>
          announced'[t] = IF t = s THEN [announced[s] EXCEPT ![a] = c] ELSE announced[t]
    BY <1>2, <1>3 DEF AnnounceConnected, IInv, TypeOK
  <2>2. \A t \in ClientIds : type[t] # "server" => announced'[t] = announced[t]
    BY <1>2, <1>3 DEF AnnounceConnected, IInv, TypeOK
  <2>3. \A t \in ClientIds : /\ type'[t] = IF t = c THEN "client" ELSE type[t]
                             /\ slipEnabled[t] => slipEnabled'[t]
                             /\ t \notin closing' => t \notin closing
    BY <1>1, <1>6 DEF IInv, TypeOK
  <2>4. \A t \in ClientIds : m_clientConnectionsAddresses'[t] =
          IF t = s THEN [m_clientConnectionsAddresses[s] EXCEPT ![a] = c]
          ELSE m_clientConnectionsAddresses[t]
    BY <1>3, <1>7 DEF IInv, TypeOK
  <2>5. ASSUME NEW t \in ClientIds, type'[t] = "server", t \notin closing'
        PROVE  announced'[t] = m_clientConnectionsAddresses'[t] /\ slipEnabled'[t]
    <3>1. type[t] = "server" /\ t \notin closing
      BY <2>3, <2>5
    <3>2. announced[t] = m_clientConnectionsAddresses[t] /\ slipEnabled[t]
      BY <3>1 DEF IInv, ServerViewMatches
    <3> QED BY <2>1, <2>3, <2>4, <3>1, <3>2
  <2>6. ASSUME NEW t \in ClientIds, type'[t] # "server" PROVE announced'[t] = NoTable
    <3>1. type[t] # "server"
      BY <1>1, <2>3, <2>6
    <3>2. announced[t] = NoTable
      BY <3>1 DEF IInv, ServerViewMatches
    <3> QED BY <2>2, <3>1, <3>2
  <2> QED BY <2>5, <2>6 DEF ServerViewMatches
<1> QED BY <1>8, <1>9, <1>10, <1>11, <1>12 DEF IInv

\* The tables after Disconnected(c), entry by entry: the tunnels that end are those of
\* c, on either side.
TablesAfter(c) ==
  /\ \A d \in ClientIds :
       /\ serverConnection'[d] =
            IF d = c \/ serverConnection[d] = c THEN NoClient ELSE serverConnection[d]
       /\ socketAddress'[d] =
            IF d = c \/ serverConnection[d] = c THEN MaxAddress ELSE socketAddress[d]
  /\ \A s \in ClientIds, a \in Addresses :
       m_clientConnectionsAddresses'[s][a] =
         IF s = c \/ m_clientConnectionsAddresses[s][a] = c
         THEN NoClient ELSE m_clientConnectionsAddresses[s][a]
  /\ \A s, d \in ClientIds :
       d \in m_clientConnections'[s] <=> d \in m_clientConnections[s] /\ s # c /\ d # c

\* onClientDisconnected takes exactly the tunnels of the removed connection out of the
\* tables, whichever end of them it was.
LEMMA DisconnectedTables ==
  ASSUME IInv, NEW c \in ClientIds, Disconnected(c)
  PROVE  TablesAfter(c)
<1>1. \A d \in ClientIds : d \in Detached(c) <=>
        \/ serverConnection[d] = c
        \/ d = c /\ serverConnection[c] # NoClient
  <2>1. \A d \in ClientIds : serverConnection[d] = c => type[c] = "server"
    BY ClientIdsAssumption DEF IInv, TunnelTablesAgree
  <2>2. type[c] = "server" => serverConnection[c] = NoClient
    BY DEF IInv, TunnelTablesAgree
  <2>3. \A d \in ClientIds : d \in m_clientConnections[c] <=> serverConnection[d] = c
    BY DEF IInv, TunnelTablesAgree
  <2> QED BY <2>1, <2>2, <2>3 DEF Detached
<1>2. \A d \in ClientIds : d \in Detached(c) \cup {c} <=> d = c \/ serverConnection[d] = c
  BY <1>1
<1>3. \A d \in Detached(c) : d \in ClientIds
  BY DEF Detached, IInv, TypeOK
<1>4. ASSUME NEW s \in ClientIds, NEW a \in Addresses, s # c
      PROVE  (\E d \in Detached(c) : serverConnection[d] = s /\ socketAddress[d] = a)
               <=> m_clientConnectionsAddresses[s][a] = c
  <2>1. m_clientConnectionsAddresses[s][a] = c
          <=> serverConnection[c] = s /\ socketAddress[c] = a
    BY DEF IInv, TunnelTablesAgree
  <2>2. \A d \in Detached(c) : serverConnection[d] = s => d = c
    BY <1>1, <1>3, <1>4
  <2>3. serverConnection[c] = s => c \in Detached(c)
    BY <1>1, ClientIdsAssumption
  <2> QED BY <2>1, <2>2, <2>3
<1>5. \A d \in ClientIds :
        /\ serverConnection'[d] =
             IF d = c \/ serverConnection[d] = c THEN NoClient ELSE serverConnection[d]
        /\ socketAddress'[d] =
             IF d = c \/ serverConnection[d] = c THEN MaxAddress ELSE socketAddress[d]
  BY <1>2 DEF Disconnected
<1>6. \A s \in ClientIds, a \in Addresses :
        m_clientConnectionsAddresses'[s][a] =
          IF s = c \/ m_clientConnectionsAddresses[s][a] = c
          THEN NoClient ELSE m_clientConnectionsAddresses[s][a]
  BY <1>4 DEF Disconnected, NoTable
<1>7. \A s, d \in ClientIds :
        d \in m_clientConnections'[s] <=> d \in m_clientConnections[s] /\ s # c /\ d # c
  <2>1. \A s, d \in ClientIds : d \in m_clientConnections[s] <=> serverConnection[d] = s
    BY DEF IInv, TunnelTablesAgree
  <2>2. m_clientConnections' =
          [s \in ClientIds |-> IF s = c THEN {} ELSE m_clientConnections[s] \ Detached(c)]
    BY DEF Disconnected
  <2> QED BY <1>1, <2>1, <2>2, ClientIdsAssumption
<1> QED BY <1>5, <1>6, <1>7 DEF TablesAfter

\* The connection states after Disconnected(c).
StatesAfter(c) ==
  /\ m_proxyClients' = m_proxyClients \ {c} /\ vanished' = vanished \ {c}
  /\ closing' = (closing \cup m_clientConnections[c]) \ {c}
  /\ batch' = batch
  /\ \A d \in ClientIds :
       /\ type'[d] = IF d = c THEN "none" ELSE type[d]
       /\ uuid'[d] = IF d = c THEN NullUuid ELSE uuid[d]
       /\ slipEnabled'[d] = IF d = c THEN FALSE ELSE slipEnabled[d]
  /\ \A u \in Uuids :
       /\ m_tunnelProxyServerConnections'[u] =
            IF m_tunnelProxyServerConnections[u] = c
            THEN NoClient ELSE m_tunnelProxyServerConnections[u]
       /\ m_tunnelProxyClientConnections'[u] =
            IF m_tunnelProxyClientConnections[u] = c
            THEN NoClient ELSE m_tunnelProxyClientConnections[u]

\* onClientDisconnected takes the removed connection out of both lookup tables, resets
\* its state and closes the sockets of its clients if it was a server.
LEMMA DisconnectedStates ==
  ASSUME IInv, NEW c \in ClientIds, Disconnected(c)
  PROVE  StatesAfter(c)
<1>1. closing' = (closing \cup m_clientConnections[c]) \ {c}
  <2>1. type[c] # "server" => m_clientConnections[c] = {}
    BY TunnelEnds
  <2> QED BY <2>1 DEF Disconnected, ClosedWith
<1>2. \A d \in ClientIds :
        /\ type'[d] = IF d = c THEN "none" ELSE type[d]
        /\ uuid'[d] = IF d = c THEN NullUuid ELSE uuid[d]
        /\ slipEnabled'[d] = IF d = c THEN FALSE ELSE slipEnabled[d]
  BY DEF Disconnected, IInv, TypeOK
<1>3. \A u \in Uuids :
        /\ m_tunnelProxyServerConnections'[u] =
             IF m_tunnelProxyServerConnections[u] = c
             THEN NoClient ELSE m_tunnelProxyServerConnections[u]
        /\ m_tunnelProxyClientConnections'[u] =
             IF m_tunnelProxyClientConnections[u] = c
             THEN NoClient ELSE m_tunnelProxyClientConnections[u]
  BY DEF Disconnected, IInv, UuidOwnership
<1> QED BY <1>1, <1>2, <1>3 DEF Disconnected, StatesAfter

\* onClientDisconnected leaves tables that agree, clients without a server only behind
\* closed sockets, and tells the server of a removed client the address it knows.
LEMMA DisconnectedStep ==
  ASSUME IInv, NEW c \in ClientIds, Disconnected(c)
  PROVE  IInv'
<1>0. StatesAfter(c) /\ TablesAfter(c)
  BY DisconnectedStates, DisconnectedTables
<1>1. TypeOK'
  <2>1. closing' \subseteq m_proxyClients'
    BY <1>0, TunnelEnds DEF IInv, TypeOK, StatesAfter
  <2>2. /\ m_clientConnectionsAddresses' \in [ClientIds -> [Addresses -> ClientOrNo]]
        /\ m_clientConnections' \in [ClientIds -> SUBSET ClientIds]
    BY DEF Disconnected, IInv, TypeOK, ClientOrNo, NoTable
  <2>3. announced' \in [ClientIds -> [Addresses -> ClientOrNo]]
    BY DEF Disconnected, AnnounceDisconnected, IInv, TypeOK, ClientOrNo, NoTable
  <2>4. /\ m_tunnelProxyServerConnections' \in [Uuids -> ClientOrNo]
        /\ m_tunnelProxyClientConnections' \in [Uuids -> ClientOrNo]
    BY DEF Disconnected, IInv, TypeOK, ClientOrNo
  <2>5. /\ serverConnection' \in [ClientIds -> ClientOrNo]
        /\ socketAddress' \in [ClientIds -> Addresses]
        /\ m_currentAddressCounter' \in [ClientIds -> Addresses]
    BY AddressAssumption DEF Disconnected, IInv, TypeOK, ClientOrNo, Addresses
  <2>6. /\ type' \in [ClientIds -> {"none", "server", "client"}]
        /\ uuid' \in [ClientIds -> Uuids \cup {NullUuid}]
        /\ killRequested' \in [ClientIds -> BOOLEAN]
        /\ slipEnabled' \in [ClientIds -> BOOLEAN]
    BY DEF Disconnected, IInv, TypeOK
  <2> QED BY <2>1, <2>2, <2>3, <2>4, <2>5, <2>6, <1>0 DEF IInv, TypeOK, StatesAfter
<1>2. UuidOwnership'
  <2>1. \A u \in Uuids, d \in ClientIds :
          /\ m_tunnelProxyServerConnections'[u] = d <=> type'[d] = "server" /\ uuid'[d] = u
          /\ m_tunnelProxyClientConnections'[u] = d <=> type'[d] = "client" /\ uuid'[d] = u
    <3>1. ASSUME NEW u \in Uuids, NEW d \in ClientIds
          PROVE  m_tunnelProxyServerConnections'[u] = d <=> type'[d] = "server" /\ uuid'[d] = u
      <4>1. m_tunnelProxyServerConnections'[u] = IF m_tunnelProxyServerConnections[u] = c THEN NoClient ELSE m_tunnelProxyServerConnections[u]
        BY <1>0 DEF StatesAfter
      <4>2. /\ type'[d] = IF d = c THEN "none" ELSE type[d]
            /\ uuid'[d] = IF d = c THEN NullUuid ELSE uuid[d]
        BY <1>0 DEF StatesAfter
      <4>3. m_tunnelProxyServerConnections[u] = d <=> type[d] = "server" /\ uuid[d] = u
        BY DEF IInv, UuidOwnership
      <4> QED BY <4>1, <4>2, <4>3, ClientIdsAssumption
    <3>2. ASSUME NEW u \in Uuids, NEW d \in ClientIds
          PROVE  m_tunnelProxyClientConnections'[u] = d <=> type'[d] = "client" /\ uuid'[d] = u
      <4>1. m_tunnelProxyClientConnections'[u] = IF m_tunnelProxyClientConnections[u] = c THEN NoClient ELSE m_tunnelProxyClientConnections[u]
        BY <1>0 DEF StatesAfter
      <4>2. /\ type'[d] = IF d = c THEN "none" ELSE type[d]
            /\ uuid'[d] = IF d = c THEN NullUuid ELSE uuid[d]
        BY <1>0 DEF StatesAfter
      <4>3. m_tunnelProxyClientConnections[u] = d <=> type[d] = "client" /\ uuid[d] = u
        BY DEF IInv, UuidOwnership
      <4> QED BY <4>1, <4>2, <4>3, ClientIdsAssumption
    <3> QED BY <3>1, <3>2
  <2>2. \A u \in Uuids : \/ m_tunnelProxyServerConnections'[u] = NoClient
                         \/ m_tunnelProxyClientConnections'[u] = NoClient
    BY <1>0 DEF IInv, UuidOwnership, StatesAfter
  <2>3. \A d \in ClientIds : /\ type'[d] # "none" => d \in m_proxyClients'
                             /\ uuid'[d] = NullUuid <=> type'[d] = "none"
    BY <1>0 DEF IInv, UuidOwnership, StatesAfter
  <2> QED BY <2>1, <2>2, <2>3 DEF UuidOwnership
<1>3. TunnelTablesAgree'
  <2>1. \A s \in ClientIds, a \in Addresses, d \in ClientIds :
          m_clientConnectionsAddresses'[s][a] = d
            <=> serverConnection'[d] = s /\ socketAddress'[d] = a
    BY <1>0, ClientIdsAssumption DEF IInv, TunnelTablesAgree, TablesAfter
  <2>2. \A s, d \in ClientIds : d \in m_clientConnections'[s] <=> serverConnection'[d] = s
    BY <1>0, ClientIdsAssumption DEF IInv, TunnelTablesAgree, TablesAfter
  <2>3. \A d \in ClientIds : serverConnection'[d] # NoClient =>
          /\ type'[d] = "client" /\ type'[serverConnection'[d]] = "server"
          /\ socketAddress'[d] \notin {0, MaxAddress}
    <3> SUFFICES ASSUME NEW d \in ClientIds, serverConnection'[d] # NoClient
                 PROVE  /\ type'[d] = "client" /\ type'[serverConnection'[d]] = "server"
                        /\ socketAddress'[d] \notin {0, MaxAddress}
      OBVIOUS
    <3>1. /\ d # c /\ serverConnection[d] # c /\ serverConnection'[d] = serverConnection[d]
          /\ socketAddress'[d] = socketAddress[d]
      BY <1>0 DEF TablesAfter
    <3>2. serverConnection[d] \in ClientIds
      BY <3>1 DEF IInv, TypeOK, ClientOrNo
    <3>3. type'[d] = type[d] /\ type'[serverConnection[d]] = type[serverConnection[d]]
      BY <1>0, <3>1, <3>2 DEF StatesAfter
    <3> QED BY <3>1, <3>3 DEF IInv, TunnelTablesAgree
  <2> QED BY <2>1, <2>2, <2>3 DEF TunnelTablesAgree, Addresses
<1>4. DataHasServer'
  <2>1. \A d \in ClientIds : d \in m_clientConnections[c] <=> serverConnection[d] = c
    BY DEF IInv, TunnelTablesAgree
  <2> QED BY <2>1, <1>0 DEF IInv, DataHasServer, StatesAfter, TablesAfter
<1>5. ServerViewMatches'
  <2>1. \A s \in ClientIds : type'[s] # "server" => announced'[s] = NoTable
    <3> SUFFICES ASSUME NEW s \in ClientIds, type'[s] # "server"
                 PROVE  announced'[s] = NoTable
      OBVIOUS
    <3>1. CASE s = c
      BY <3>1 DEF Disconnected, AnnounceDisconnected
    <3>2. CASE s # c
      <4>1. type[s] # "server" /\ announced[s] = NoTable
        BY <1>0, <3>2 DEF StatesAfter, IInv, ServerViewMatches
      <4>2. s # serverConnection[c]
        BY <4>1, ClientIdsAssumption DEF IInv, TunnelTablesAgree
      <4> QED BY <3>2, <4>1, <4>2 DEF Disconnected, AnnounceDisconnected
    <3> QED BY <3>1, <3>2
  <2>2. ASSUME NEW s \in ClientIds, type'[s] = "server", s \notin closing'
        PROVE  announced'[s] = m_clientConnectionsAddresses'[s] /\ slipEnabled'[s]
    <3>1. s # c /\ type[s] = "server" /\ s \notin closing
      BY <2>2, <1>0 DEF StatesAfter
    <3>2. announced[s] = m_clientConnectionsAddresses[s] /\ slipEnabled[s]
      BY <3>1 DEF IInv, ServerViewMatches
    <3>3. \A a \in Addresses : announced'[s][a] = m_clientConnectionsAddresses'[s][a]
      <4>1. \A a \in Addresses : m_clientConnectionsAddresses[s][a] = c
              <=> serverConnection[c] = s /\ socketAddress[c] = a
        BY DEF IInv, TunnelTablesAgree
      <4>2. serverConnection[c] = s => type[c] = "client"
        BY <3>1, ClientIdsAssumption DEF IInv, TunnelTablesAgree
      <4>3. \A a \in Addresses : announced'[s][a] =
              IF type[c] = "client" /\ serverConnection[c] = s /\ socketAddress[c] = a
              THEN NoClient ELSE announced[s][a]
        BY <3>1 DEF Disconnected, AnnounceDisconnected, IInv, TypeOK
      <4> QED BY <3>1, <3>2, <4>1, <4>2, <4>3, <1>0 DEF TablesAfter
    <3>4. /\ announced'[s] \in [Addresses -> ClientOrNo]
          /\ m_clientConnectionsAddresses'[s] \in [Addresses -> ClientOrNo]
      BY <1>1 DEF TypeOK, Addresses, ClientOrNo
    <3>5. announced'[s] = m_clientConnectionsAddresses'[s]
      BY <3>3, <3>4
    <3> QED BY <3>1, <3>2, <3>5, <1>0 DEF StatesAfter
  <2> QED BY <2>1, <2>2 DEF ServerViewMatches, NoTable, Addresses
<1> QED BY <1>1, <1>2, <1>3, <1>4, <1>5 DEF IInv

\* Each action of Next preserves the invariant.
THEOREM InvStep == ASSUME EnoughAddresses PROVE IInv /\ [Next]_vars => IInv'
<1> SUFFICES ASSUME IInv, [Next]_vars PROVE IInv'
  OBVIOUS
<1>1. CASE EndOfData
  BY <1>1, EndOfDataStep
<1>2. ASSUME NEW c \in ClientIds, SocketEvent(c) PROVE IInv'
  BY <1>2, SocketStep, DisconnectedStep DEF SocketEvent
<1>3. ASSUME NEW c \in ClientIds, Request(c) PROVE IInv'
  BY <1>3, OtherRequestStep, RegisterServerStep, RegisterClientStep DEF Request
<1>4. CASE UNCHANGED vars
  <2>1. UNCHANGED <<connectionVars, clientVars, registryVars, addressVars>>
    BY <1>4 DEF vars
  <2>2. TypeOK'
    BY <2>1 DEF IInv, TypeOK, connectionVars, clientVars, registryVars, addressVars
  <2> QED BY <2>1, <2>2, TablesKept DEF connectionVars, clientVars
<1> QED BY <1>1, <1>2, <1>3, <1>4 DEF Next

\* The inductive invariant holds: with no more connections than the address search can
\* step over, the tables never contradict each other, whatever the peers send and in
\* whatever order sockets close.
THEOREM Invariance == ASSUME EnoughAddresses PROVE Spec => []IInv
<1>1. Init => IInv
  BY InitInv
<1>2. IInv /\ [Next]_vars => IInv'
  BY InvStep
<1> QED BY <1>1, <1>2, PTL DEF Spec

\* Every variable keeps its type; in particular only connected sockets are closed and
\* every table entry is a connection.
THEOREM TypeCorrect == ASSUME EnoughAddresses PROVE Spec => []TypeOK
<1>1. IInv => TypeOK
  BY DEF IInv
<1> QED BY <1>1, Invariance, PTL

\* The lookup tables agree with every connection's role and uuid, and no uuid is shared.
THEOREM UuidsOwned == ASSUME EnoughAddresses PROVE Spec => []UuidOwnership
<1>1. IInv => UuidOwnership
  BY DEF IInv
<1> QED BY <1>1, Invariance, PTL

\* Addresses route the same tunnels in both directions and are never the reserved ones.
THEOREM TunnelsAgree == ASSUME EnoughAddresses PROVE Spec => []TunnelTablesAgree
<1>1. IInv => TunnelTablesAgree
  BY DEF IInv
<1> QED BY <1>1, Invariance, PTL

\* The assertion of onClientDataAvailable cannot fail.
THEOREM DataAlwaysHasServer == ASSUME EnoughAddresses PROVE Spec => []DataHasServer
<1>1. IInv => DataHasServer
  BY DEF IInv
<1> QED BY <1>1, Invariance, PTL

\* A connected server's picture of its clients is the table it is routed by.
THEOREM ServerViewCorrect == ASSUME EnoughAddresses PROVE Spec => []ServerViewMatches
<1>1. IInv => ServerViewMatches
  BY DEF IInv
<1> QED BY <1>1, Invariance, PTL

-----------------------------------------------------------------------------
(* The statistics.                                                         *)

\* A finite set and its image under a one-to-one function have as many elements.
LEMMA SameCardinality ==
  ASSUME NEW S, IsFiniteSet(S), NEW T, NEW f \in [S -> T],
         \A x, y \in S : f[x] = f[y] => x = y,
         \A y \in T : \E x \in S : f[x] = y
  PROVE  Cardinality(T) = Cardinality(S)
<1>1. f \in Bijection(S, T)
  BY Fun_IsBij
<1>2. ExistsBijection(S, T)
  BY <1>1 DEF ExistsBijection
<1> QED BY <1>2, FS_Bijection

\* The connections that currentStatistics finds under a uuid, in each of the tables.
Servers == {c \in ClientIds : type[c] = "server"}
Clients == {c \in ClientIds : type[c] = "client"}
Tunnelled == {c \in ClientIds : serverConnection[c] # NoClient}

\* Each registered connection is found under exactly one uuid, in the table of its role.
LEMMA UuidsCounted ==
  ASSUME IInv
  PROVE  /\ Cardinality({u \in Uuids : m_tunnelProxyServerConnections[u] # NoClient}) = Cardinality(Servers)
         /\ Cardinality({u \in Uuids : m_tunnelProxyClientConnections[u] # NoClient}) = Cardinality(Clients)
<1> DEFINE inUse(table) == {u \in Uuids : table[u] # NoClient}
<1>1. IsFiniteSet(Servers) /\ IsFiniteSet(Clients)
  BY ClientIdsAssumption, FS_Subset DEF Servers, Clients
<1>2. \A c \in Servers \cup Clients : uuid[c] \in Uuids
  BY DEF Servers, Clients, IInv, TypeOK, UuidOwnership
<1>3. \A c \in ClientIds : c # NoClient
  BY ClientIdsAssumption
<1>4. Cardinality(inUse(m_tunnelProxyServerConnections)) = Cardinality(Servers)
  <2> DEFINE f == [c \in Servers |-> uuid[c]]
  <2>1. \A c \in Servers : m_tunnelProxyServerConnections[uuid[c]] = c
    BY <1>2 DEF Servers, IInv, UuidOwnership
  <2>2. f \in [Servers -> inUse(m_tunnelProxyServerConnections)]
    BY <1>2, <1>3, <2>1 DEF Servers
  <2>3. \A c, d \in Servers : f[c] = f[d] => c = d
    BY <2>1
  <2>4. \A u \in inUse(m_tunnelProxyServerConnections) : \E c \in Servers : f[c] = u
    BY DEF Servers, IInv, TypeOK, ClientOrNo, UuidOwnership
  <2> QED BY <1>1, <2>2, <2>3, <2>4, SameCardinality
<1>5. Cardinality(inUse(m_tunnelProxyClientConnections)) = Cardinality(Clients)
  <2> DEFINE f == [c \in Clients |-> uuid[c]]
  <2>1. \A c \in Clients : m_tunnelProxyClientConnections[uuid[c]] = c
    BY <1>2 DEF Clients, IInv, UuidOwnership
  <2>2. f \in [Clients -> inUse(m_tunnelProxyClientConnections)]
    BY <1>2, <1>3, <2>1 DEF Clients
  <2>3. \A c, d \in Clients : f[c] = f[d] => c = d
    BY <2>1
  <2>4. \A u \in inUse(m_tunnelProxyClientConnections) : \E c \in Clients : f[c] = u
    BY DEF Clients, IInv, TypeOK, ClientOrNo, UuidOwnership
  <2> QED BY <1>1, <2>2, <2>3, <2>4, SameCardinality
<1> QED BY <1>4, <1>5

\* What currentStatistics lists: every server, and under them every tunnelled client.
LEMMA StatisticsListed ==
  ASSUME IInv
  PROVE  LET all == TunnelConnections(TRUE)
         IN /\ all = {[server |-> s, clientConnections |-> m_clientConnections[s]] : s \in Servers}
            /\ {t.server : t \in all} = Servers
            /\ UNION {t.clientConnections : t \in all} = Tunnelled
            /\ Cardinality(all) = Cardinality(Servers)
<1> DEFINE all == TunnelConnections(TRUE)
           entry(s) == [server |-> s, clientConnections |-> m_clientConnections[s]]
           f == [s \in Servers |-> entry(s)]
<1>1. {m_tunnelProxyServerConnections[u] : u \in Uuids} \ {NoClient} = Servers
  <2>1. \A c \in Servers : uuid[c] \in Uuids /\ c # NoClient
    BY ClientIdsAssumption DEF Servers, IInv, TypeOK, UuidOwnership
  <2> QED BY <2>1 DEF Servers, IInv, TypeOK, ClientOrNo, UuidOwnership
<1>2. all = {entry(s) : s \in Servers}
  BY <1>1 DEF TunnelConnections
<1> HIDE DEF all
<1>3. {t.server : t \in all} = Servers
  <2>1. \A t \in all : t.server \in Servers
    BY <1>2
  <2>2. \A s \in Servers : entry(s) \in all /\ entry(s).server = s
    BY <1>2
  <2> QED BY <2>1, <2>2
<1>4. UNION {t.clientConnections : t \in all} = Tunnelled
  <2>1. \A c : c \in UNION {t.clientConnections : t \in all}
               <=> \E s \in Servers : c \in m_clientConnections[s]
    <3>1. \A t \in all : \E s \in Servers : t.clientConnections = m_clientConnections[s]
      BY <1>2
    <3>2. \A s \in Servers : entry(s) \in all /\ entry(s).clientConnections = m_clientConnections[s]
      BY <1>2
    <3> QED BY <3>1, <3>2
  <2>2. \A s \in Servers : m_clientConnections[s] \subseteq ClientIds
    BY DEF Servers, IInv, TypeOK
  <2>3. \A c \in ClientIds : c \in Tunnelled <=> \E s \in Servers : c \in m_clientConnections[s]
    BY ClientIdsAssumption DEF Servers, Tunnelled, IInv, TypeOK, ClientOrNo, TunnelTablesAgree
  <2> QED BY <2>1, <2>2, <2>3 DEF Tunnelled
<1>5. Cardinality(all) = Cardinality(Servers)
  <2>1. f \in [Servers -> all]
    BY <1>2
  <2>2. \A s, t \in Servers : f[s] = f[t] => s = t
    OBVIOUS
  <2>3. \A t \in all : \E s \in Servers : f[s] = t
    BY <1>2
  <2>4. IsFiniteSet(Servers)
    BY ClientIdsAssumption, FS_Subset DEF Servers
  <2> QED BY <2>1, <2>2, <2>3, <2>4, SameCardinality
<1> QED BY <1>2, <1>3, <1>4, <1>5 DEF all

\* The monitor's numbers agree with each other and all they are read from is alive.
THEOREM StatisticsCorrect == ASSUME EnoughAddresses PROVE Spec => []StatisticsAgree
<1>1. IInv => StatisticsAgree
  <2> SUFFICES ASSUME IInv PROVE StatisticsAgree
    OBVIOUS
  <2> DEFINE orphans == {c \in closing : type[c] = "client" /\ serverConnection[c] = NoClient}
             all == TunnelConnections(TRUE)
  <2>1. /\ Servers \cup Clients \subseteq m_proxyClients
        /\ Servers \cap Clients = {}
        /\ Tunnelled \subseteq Clients
    BY DEF Servers, Clients, Tunnelled, IInv, UuidOwnership, TunnelTablesAgree
  <2>2. Tunnelled \cup orphans = Clients /\ Tunnelled \cap orphans = {}
    BY <2>1 DEF Clients, Tunnelled, IInv, TypeOK, DataHasServer
  <2>3. /\ IsFiniteSet(m_proxyClients) /\ IsFiniteSet(Servers) /\ IsFiniteSet(Clients)
        /\ IsFiniteSet(Tunnelled) /\ IsFiniteSet(orphans)
    <3>1. /\ m_proxyClients \subseteq ClientIds /\ Servers \subseteq ClientIds
          /\ Clients \subseteq ClientIds /\ Tunnelled \subseteq ClientIds
          /\ orphans \subseteq ClientIds
      BY DEF Servers, Clients, Tunnelled, IInv, TypeOK
    <3> QED BY <3>1, ClientIdsAssumption, FS_Subset
  <2> HIDE DEF orphans
  <2>4. /\ Cardinality(Tunnelled) \in Nat /\ Cardinality(orphans) \in Nat
        /\ Cardinality(Servers) \in Nat /\ Cardinality(Clients) \in Nat
        /\ Cardinality(m_proxyClients) \in Nat /\ Cardinality({}) = 0
    BY <2>3, FS_CardinalityType, FS_EmptySet
  <2>5. Cardinality(Tunnelled) + Cardinality(orphans) = Cardinality(Clients)
    <3>1. Cardinality(Tunnelled \cup orphans)
          = Cardinality(Tunnelled) + Cardinality(orphans) - Cardinality(Tunnelled \cap orphans)
      BY <2>3, FS_Union
    <3>2. /\ Cardinality(Tunnelled \cup orphans) = Cardinality(Clients)
          /\ Cardinality(Tunnelled \cap orphans) = 0
      BY <2>2, <2>4, Zenon
    <3> QED BY <2>4, <3>1, <3>2
  <2>6. Cardinality(Servers) + Cardinality(Clients) <= Cardinality(m_proxyClients)
    <3>1. Cardinality(Servers \cup Clients) = Cardinality(Servers) + Cardinality(Clients)
      <4>1. Cardinality(Servers \cup Clients)
              = Cardinality(Servers) + Cardinality(Clients) - Cardinality(Servers \cap Clients)
        BY <2>3, FS_Union
      <4>2. Cardinality(Servers \cap Clients) = 0
        BY <2>1, <2>4, Zenon
      <4> QED BY <2>4, <4>1, <4>2
    <3>2. Cardinality(Servers \cup Clients) <= Cardinality(m_proxyClients)
      BY <2>1, <2>3, FS_Subset
    <3> QED BY <3>1, <3>2
  <2>7. \A t \in all \ TunnelConnections(FALSE) : t.clientConnections = {}
    BY DEF TunnelConnections
  <2>8. (UNION {t.clientConnections : t \in all}) \cup {t.server : t \in all} \subseteq m_proxyClients
    BY <2>1, StatisticsListed
  <2>9. /\ UNION {t.clientConnections : t \in all} = Tunnelled
        /\ Cardinality(all) = Cardinality(Servers)
    BY StatisticsListed
  <2> HIDE DEF all
  <2>10. /\ currentStatistics(TRUE).tunnelConnections = all
         /\ currentStatistics(FALSE).tunnelConnections = TunnelConnections(FALSE)
         /\ currentStatistics(TRUE).totalClientCount = Cardinality(m_proxyClients)
         /\ currentStatistics(TRUE).serverConnectionsCount = Cardinality(Servers)
         /\ currentStatistics(TRUE).clientConnectionsCount = Cardinality(Clients)
    BY UuidsCounted DEF currentStatistics, all
  <2> QED BY <2>5, <2>6, <2>7, <2>8, <2>9, <2>10 DEF StatisticsAgree, orphans
<1> QED BY <1>1, Invariance, PTL

-----------------------------------------------------------------------------
(* Action properties.                                                      *)

\* The requests and events that change no role, no lookup table and no tunnel.
OtherStep ==
  \/ EndOfData
  \/ \E c \in ClientIds :
       \/ OnClientConnected(c) \/ PeerVanishes(c) \/ InactiveTimeout(c) \/ BufferViolation(c)
       \/ MalformedPacket(c) \/ PlainRequest(c)
       \/ \E u \in Uuids : RefuseServer(c, u)
       \/ \E u, v \in Uuids : RefuseClient(c, u, v)
       \/ \E a \in Addresses : DisconnectClient(c, a)

\* Those events leave roles and tables as they are.
LEMMA OtherStepKeeps ==
  OtherStep \/ UNCHANGED vars => UNCHANGED <<type, uuid, registryVars, addressVars>>
BY DEF OtherStep, EndOfData, OnClientConnected, PeerVanishes, InactiveTimeout,
       BufferViolation, MalformedPacket, PlainRequest, RefuseServer, RefuseClient,
       DisconnectClient, vars, clientVars

\* Only the removal of a connection and the two registrations do more.
LEMMA NextCases ==
  Next => \/ OtherStep
          \/ \E c \in ClientIds : \/ Disconnected(c)
                                  \/ \E u \in Uuids : RegisterServer(c, u)
                                  \/ \E u, v \in Uuids : RegisterClient(c, u, v)
BY DEF Next, SocketEvent, Request, OtherStep

\* What registerClient does to the tables, with the address it was given.
LEMMA RegisterClientTables ==
  ASSUME IInv, EnoughAddresses,
         NEW c \in ClientIds, NEW u \in Uuids, NEW v \in Uuids, RegisterClient(c, u, v)
  PROVE  \E s \in ClientIds, a \in Addresses :
           /\ s = m_tunnelProxyServerConnections[v]
           /\ ~AddressTaken(s, a) /\ serverConnection[c] = NoClient /\ type[c] = "none"
           /\ m_clientConnectionsAddresses' =
                [m_clientConnectionsAddresses EXCEPT ![s] = [m_clientConnectionsAddresses[s] EXCEPT ![a] = c]]
           /\ serverConnection' = [serverConnection EXCEPT ![c] = s]
           /\ socketAddress' = [socketAddress EXCEPT ![c] = a]
<1> DEFINE s == m_tunnelProxyServerConnections[v]
<1>1. type[c] = "none" /\ s # NoClient
  BY DEF RegisterClient, CanRegisterClient
<1>2. s \in ClientIds /\ type[s] = "server"
  BY <1>1 DEF IInv, TypeOK, UuidOwnership, ClientOrNo
<1>3. PICK a \in Addresses : IsFreeAddress(s, a) /\ RegisterClientConnection(s, c, a)
  BY DEF RegisterClient
<1> HIDE DEF s
<1>4. ~AddressTaken(s, a)
  BY <1>1, <1>2, <1>3, FreeAddressFound
<1>5. serverConnection[c] = NoClient
  BY <1>1 DEF IInv, TunnelTablesAgree, TypeOK, ClientOrNo
<1> QED BY <1>1, <1>2, <1>3, <1>4, <1>5 DEF RegisterClientConnection, s

\* The assertion of getFreeAddress: no client is ever given an address in use.
THEOREM AddressesFree == ASSUME EnoughAddresses PROVE Spec => FreeAddressAssertion
<1> DEFINE Kept == \A s \in ClientIds, a \in Addresses :
             m_clientConnectionsAddresses[s][a] # NoClient
               => m_clientConnectionsAddresses'[s][a] \in {m_clientConnectionsAddresses[s][a], NoClient}
<1>1. IInv /\ [Next]_vars => Kept
  <2> SUFFICES ASSUME IInv, [Next]_vars PROVE Kept
    OBVIOUS
  <2>1. CASE OtherStep \/ UNCHANGED vars
    BY <2>1, OtherStepKeeps DEF addressVars
  <2>2. ASSUME NEW c \in ClientIds, Disconnected(c) PROVE Kept
    <3>1. TablesAfter(c)
      BY <2>2, DisconnectedTables
    <3> QED BY <3>1 DEF TablesAfter
  <2>3. ASSUME NEW c \in ClientIds, NEW u \in Uuids, RegisterServer(c, u) PROVE Kept
    BY <2>3 DEF RegisterServer, addressVars
  <2>4. ASSUME NEW c \in ClientIds, NEW u \in Uuids, NEW v \in Uuids, RegisterClient(c, u, v)
        PROVE  Kept
    <3>1. PICK s \in ClientIds, a \in Addresses :
            /\ ~AddressTaken(s, a)
            /\ m_clientConnectionsAddresses' =
                 [m_clientConnectionsAddresses EXCEPT ![s] = [m_clientConnectionsAddresses[s] EXCEPT ![a] = c]]
      BY <2>4, RegisterClientTables
    <3> QED BY <3>1 DEF AddressTaken, IInv, TypeOK
  <2> QED BY <2>1, <2>2, <2>3, <2>4, NextCases
<1>2. IInv /\ [Next]_vars => [Kept]_vars
  BY <1>1
<1> QED BY <1>2, Invariance, PTL DEF Spec, FreeAddressAssertion

\* A tunnel ends only with the connection of its client or of its server.
THEOREM TunnelsStay == ASSUME EnoughAddresses PROVE Spec => TunnelEndsWithPeer
<1> DEFINE Kept == \A c \in ClientIds :
       serverConnection[c] # NoClient
         => \/ <<serverConnection[c], socketAddress[c]>>' = <<serverConnection[c], socketAddress[c]>>
            \/ {c, serverConnection[c]} \ m_proxyClients' # {}
<1>1. IInv /\ [Next]_vars => Kept
  <2> SUFFICES ASSUME IInv, [Next]_vars PROVE Kept
    OBVIOUS
  <2>1. CASE OtherStep \/ UNCHANGED vars
    BY <2>1, OtherStepKeeps DEF addressVars
  <2>2. ASSUME NEW c \in ClientIds, Disconnected(c) PROVE Kept
    <3>1. TablesAfter(c) /\ m_proxyClients' = m_proxyClients \ {c}
      BY <2>2, DisconnectedTables DEF Disconnected
    <3> QED BY <3>1 DEF TablesAfter
  <2>3. ASSUME NEW c \in ClientIds, NEW u \in Uuids, RegisterServer(c, u) PROVE Kept
    BY <2>3 DEF RegisterServer, addressVars
  <2>4. ASSUME NEW c \in ClientIds, NEW u \in Uuids, NEW v \in Uuids, RegisterClient(c, u, v)
        PROVE  Kept
    <3>1. PICK s \in ClientIds, a \in Addresses :
            /\ serverConnection[c] = NoClient
            /\ serverConnection' = [serverConnection EXCEPT ![c] = s]
            /\ socketAddress' = [socketAddress EXCEPT ![c] = a]
      BY <2>4, RegisterClientTables
    <3> QED BY <3>1 DEF IInv, TypeOK
  <2> QED BY <2>1, <2>2, <2>3, <2>4, NextCases
<1>2. IInv /\ [Next]_vars => [Kept]_vars
  BY <1>1
<1> QED BY <1>2, Invariance, PTL DEF Spec, TunnelEndsWithPeer

\* No request changes the role or the uuid of a registered connection, and nothing
\* switches SLIP off again while it is connected.
THEOREM RolesFinal == ASSUME EnoughAddresses PROVE Spec => RoleIsFinal
<1> DEFINE Final == \A c \in m_proxyClients \cap m_proxyClients' :
       /\ type[c] # "none" => type'[c] = type[c] /\ uuid'[c] = uuid[c]
       /\ slipEnabled[c] => slipEnabled'[c]
<1>1. IInv /\ [Next]_vars => Final
  <2> SUFFICES ASSUME IInv, [Next]_vars, NEW d \in m_proxyClients \cap m_proxyClients'
               PROVE  /\ type[d] # "none" => type'[d] = type[d] /\ uuid'[d] = uuid[d]
                      /\ slipEnabled[d] => slipEnabled'[d]
    OBVIOUS
  <2>0. d \in ClientIds
    BY DEF IInv, TypeOK
  <2>1. CASE OtherStep \/ UNCHANGED vars
    <3>1. type' = type /\ uuid' = uuid
      BY <2>1, OtherStepKeeps
    <3>2. slipEnabled[d] => slipEnabled'[d]
      BY <2>0, <2>1 DEF OtherStep, EndOfData, OnClientConnected, PeerVanishes, InactiveTimeout,
         BufferViolation, MalformedPacket, PlainRequest, RefuseServer, RefuseClient,
         DisconnectClient, Respond, vars, clientVars, IInv, TypeOK
    <3> QED BY <3>1, <3>2
  <2>2. ASSUME NEW c \in ClientIds, Disconnected(c)
        PROVE  /\ type[d] # "none" => type'[d] = type[d] /\ uuid'[d] = uuid[d]
               /\ slipEnabled[d] => slipEnabled'[d]
    BY <2>0, <2>2, DisconnectedStates DEF StatesAfter
  <2>3. ASSUME NEW c \in ClientIds, NEW u \in Uuids, RegisterServer(c, u)
        PROVE  /\ type[d] # "none" => type'[d] = type[d] /\ uuid'[d] = uuid[d]
               /\ slipEnabled[d] => slipEnabled'[d]
    BY <2>0, <2>3 DEF RegisterServer, CanRegisterServer, Respond, IInv, TypeOK
  <2>4. ASSUME NEW c \in ClientIds, NEW u \in Uuids, NEW v \in Uuids, RegisterClient(c, u, v)
        PROVE  /\ type[d] # "none" => type'[d] = type[d] /\ uuid'[d] = uuid[d]
               /\ slipEnabled[d] => slipEnabled'[d]
    BY <2>0, <2>4 DEF RegisterClient, CanRegisterClient, Respond, IInv, TypeOK
  <2> QED BY <2>1, <2>2, <2>3, <2>4, NextCases
<1>2. IInv /\ [Next]_vars => [Final]_vars
  BY <1>1
<1> QED BY <1>2, Invariance, PTL DEF Spec, RoleIsFinal

-----------------------------------------------------------------------------
(* Refinement.                                                             *)

\* Each step of the proxy is a step of the registry on its tables and tunnels: the two
\* registrations and onClientDisconnected are its three actions, all else is a stutter.
LEMMA RegistryStep ==
  ASSUME IInv, EnoughAddresses, [Next]_vars
  PROVE  [Registry!Next]_<<m_tunnelProxyServerConnections, m_tunnelProxyClientConnections, tunnels>>
<1> USE DEF Registry!Free, Registry!Unregistered
<1>1. CASE OtherStep \/ UNCHANGED vars
  BY <1>1, OtherStepKeeps DEF registryVars, addressVars, tunnels
<1>2. ASSUME NEW c \in ClientIds, NEW u \in Uuids, RegisterServer(c, u)
      PROVE  Registry!ServerOnline(u, c)
  <2>1. Registry!Unregistered(c)
    BY <1>2 DEF RegisterServer, CanRegisterServer, IInv, UuidOwnership
  <2> QED BY <1>2, <2>1 DEF RegisterServer, CanRegisterServer, UuidInUse,
             addressVars, tunnels, Registry!ServerOnline
<1>3. ASSUME NEW c \in ClientIds, NEW u \in Uuids, NEW v \in Uuids, RegisterClient(c, u, v)
      PROVE  \E s \in ClientIds, a \in 1..(MaxAddress - 1) : Registry!ClientOnline(u, c, s, a)
  <2>1. PICK s \in ClientIds, a \in Addresses :
          /\ s = m_tunnelProxyServerConnections[v]
          /\ ~AddressTaken(s, a)
          /\ m_clientConnectionsAddresses' =
               [m_clientConnectionsAddresses EXCEPT ![s] = [m_clientConnectionsAddresses[s] EXCEPT ![a] = c]]
    BY SMTT(60), <1>3, RegisterClientTables
  <2>2. a \in 1..(MaxAddress - 1)
    BY <2>1, AddressAssumption DEF AddressTaken, Addresses
  <2>3. \A t \in tunnels : t.server = s => t.address # a
    BY <2>1, ClientIdsAssumption DEF AddressTaken, tunnels
  <2>4. tunnels' = tunnels \cup {[server |-> s, address |-> a, client |-> c]}
    <3>1. \A t \in ClientIds, b \in Addresses :
            m_clientConnectionsAddresses'[t][b] =
              IF t = s /\ b = a THEN c ELSE m_clientConnectionsAddresses[t][b]
      BY <2>1 DEF IInv, TypeOK
    <3>2. m_clientConnectionsAddresses[s][a] = NoClient
      BY <2>1 DEF AddressTaken
    <3> QED BY <3>1, <3>2, ClientIdsAssumption DEF tunnels
  <2>5. Registry!Unregistered(c)
    BY <1>3 DEF RegisterClient, CanRegisterClient, IInv, UuidOwnership
  <2> QED BY <1>3, <2>1, <2>2, <2>3, <2>4, <2>5
          DEF RegisterClient, CanRegisterClient, UuidInUse, Registry!ClientOnline
<1>4. ASSUME NEW c \in ClientIds, Disconnected(c)
      PROVE  Registry!Offline(c)
  <2>1. StatesAfter(c) /\ TablesAfter(c)
    BY <1>4, DisconnectedStates, DisconnectedTables
  <2>2. tunnels' = {t \in tunnels : t.server # c /\ t.client # c}
    BY <2>1, ClientIdsAssumption DEF TablesAfter, tunnels
  <2>3. /\ m_tunnelProxyServerConnections' =
             [u \in Uuids |-> IF m_tunnelProxyServerConnections[u] = c THEN NoClient
                              ELSE m_tunnelProxyServerConnections[u]]
        /\ m_tunnelProxyClientConnections' =
             [u \in Uuids |-> IF m_tunnelProxyClientConnections[u] = c THEN NoClient
                              ELSE m_tunnelProxyClientConnections[u]]
    BY <1>4 DEF Disconnected, IInv, UuidOwnership
  <2> QED BY <2>2, <2>3 DEF Registry!Offline
<1> QED BY <1>1, <1>2, <1>3, <1>4, NextCases DEF Registry!Next

\* The proxy implements the registry of tunnels.
THEOREM Refinement == ASSUME EnoughAddresses PROVE Spec => ImplementsRegistry
<1>1. Init => Registry!Init
  BY ClientIdsAssumption DEF Init, NoTable, tunnels, Registry!Init
<1>2. IInv /\ [Next]_vars => [Registry!Next]_Registry!vars
  BY RegistryStep DEF Registry!vars
<1> QED BY <1>1, <1>2, Invariance, PTL DEF Spec, ImplementsRegistry, Registry!Spec
=============================================================================
