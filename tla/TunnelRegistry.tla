--------------------------- MODULE TunnelRegistry ---------------------------
(***************************************************************************)
(* What the tunnel proxy promises: a registry of who is online under which *)
(* uuid, and of the tunnels between clients and servers.  It has no        *)
(* sockets, requests or responses; a connection comes, is registered in    *)
(* one role under a uuid nobody else holds, and goes, in one step with     *)
(* every tunnel it is part of.                                             *)
(***************************************************************************)
EXTENDS Integers

CONSTANTS Connections, Uuids, Nobody, MaxAddress

VARIABLES
  servers,   \* uuid -> the connection registered as server under it, or Nobody
  clients,   \* uuid -> the connection registered as client under it, or Nobody
  tunnels    \* the tunnels: a server, the address it uses, and the client behind it

Init ==
  /\ servers = [u \in Uuids |-> Nobody]
  /\ clients = [u \in Uuids |-> Nobody]
  /\ tunnels = {}

Free(u) == servers[u] = Nobody /\ clients[u] = Nobody

Unregistered(c) == \A u \in Uuids : servers[u] # c /\ clients[u] # c

ServerOnline(u, s) ==
  /\ Free(u) /\ Unregistered(s)
  /\ servers' = [servers EXCEPT ![u] = s]
  /\ UNCHANGED <<clients, tunnels>>

\* The address is that of no other tunnel of the server; Next keeps it off the
\* reserved ones, 0 and MaxAddress.
ClientOnline(u, c, s, a) ==
  /\ Free(u) /\ Unregistered(c)
  /\ \E v \in Uuids : servers[v] = s
  /\ \A t \in tunnels : t.server = s => t.address # a
  /\ clients' = [clients EXCEPT ![u] = c]
  /\ tunnels' = tunnels \cup {[server |-> s, address |-> a, client |-> c]}
  /\ UNCHANGED servers

Offline(c) ==
  /\ servers' = [u \in Uuids |-> IF servers[u] = c THEN Nobody ELSE servers[u]]
  /\ clients' = [u \in Uuids |-> IF clients[u] = c THEN Nobody ELSE clients[u]]
  /\ tunnels' = {t \in tunnels : t.server # c /\ t.client # c}

Next == \E c \in Connections :
  \/ \E u \in Uuids : ServerOnline(u, c)
  \/ \E u \in Uuids, s \in Connections, a \in 1..(MaxAddress - 1) : ClientOnline(u, c, s, a)
  \/ Offline(c)

vars == <<servers, clients, tunnels>>

Spec == Init /\ [][Next]_vars
=============================================================================
