------------------------ MODULE MCTunnelProxyServer ------------------------
(* Instances of TunnelProxyServer for TLC. *)
EXTENDS TunnelProxyServer, TLC

CONSTANTS c1, c2, c3, u1, u2, u3

\* Connection ids and uuids are drawn at random and only ever compared.
Symmetry == Permutations(ClientIds) \cup Permutations(Uuids)
=============================================================================
