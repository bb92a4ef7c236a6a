-------------------------- MODULE ConnectionOwner --------------------------
(***************************************************************************)
(* The connections of an object of the client library.                     *)
(*                                                                         *)
(* A signal of the socket runs slots of the owner before the next signal   *)
(* is emitted, and a slot may replace the connection.  So a library object *)
(* is a record s, every slot an operator from record to record, and the    *)
(* order of signals the order in which they are applied.  The owner has    *)
(* the fields                                                              *)
(*   transport   how the url is reached, which stays                       *)
(*   connection  m_connection, made together with m_jsonClient             *)
(*   doomed      connections that wait for their deferred deletion         *)
(*   socket      per connection: the state of its socket                   *)
(*   connected   per connection: ProxyConnection::m_connected              *)
(***************************************************************************)

CONSTANTS
  Connections,   \* connection objects, used again once they are deleted
  NoConnection,  \* the null pointer
  Transports,    \* how the url may be reached: some of "tcp", "ssl" and "webSocket"
  DelayedClose   \* may a closing socket wait for data it still has to write?

ASSUME TransportsAssumption == Transports \subseteq {"tcp", "ssl", "webSocket"}
ASSUME NoConnectionAssumption == NoConnection \notin Connections

SocketStates == {"unconnected", "hostLookup", "connecting", "connected", "closing"}

NoSockets    == [c \in Connections |-> "unconnected"]
NotConnected == [c \in Connections |-> FALSE]

\* The part of cleanUp that gives up the connection.
Discarded(s) == [s EXCEPT !.doomed = @ \cup ({s.connection} \ {NoConnection}),
                          !.connection = NoConnection]

Unused(s) == Connections \ (s.doomed \cup {s.connection})
=============================================================================
