--------------------------- MODULE MCServerSession ---------------------------
(***************************************************************************)
(* Instances for TLC of what a registered server and the proxy owe each    *)
(* other over time: the requests, replies and notifications of the JSON    *)
(* session, and the timers that keep the connection.  They share no        *)
(* state, so a behaviour is one of the two, by the value of "part".        *)
(***************************************************************************)
EXTENDS Integers, Sequences

CONSTANTS
  SocketAddresses, FirstNotificationId, MaxNotificationId, MaxPending,
  TenSeconds, MaxLatency, MaxQueue

ASSUME SessionAssumption ==
  /\ FirstNotificationId \in Nat /\ MaxNotificationId \in Nat
  /\ FirstNotificationId <= MaxNotificationId
  /\ MaxPending \in Nat
ASSUME TimeAssumption ==
  /\ TenSeconds \in Nat \ {0} /\ MaxLatency \in Nat /\ MaxQueue \in Nat

VARIABLES
  part,
  m_state, m_replies, sockets, finished, registered, clients, m_notificationId,
  toProxy, toLibrary,
  alive, silent, open, keepAlive, inactive, up, down, heard

Session == INSTANCE JsonRpcSession
Timers  == INSTANCE KeepAlive

sessionVars == <<m_state, m_replies, sockets, finished, registered, clients,
                 m_notificationId, toProxy, toLibrary>>
timerVars   == <<alive, silent, open, keepAlive, inactive, up, down, heard>>
vars        == <<part, sessionVars, timerVars>>

Init ==
  /\ part \in {"session", "timers"}
  /\ Session!Init
  /\ Timers!Init
  /\ part = "session" => inactive = Timers!InactiveInterval

InSession == part = "session" /\ Session!Next /\ UNCHANGED <<part, timerVars>>
OnTime    == part = "timers" /\ Timers!Next /\ UNCHANGED <<part, sessionVars>>

ProcessDataPacket ==
  part = "session" /\ Session!ProcessDataPacket /\ UNCHANGED <<part, timerVars>>
HandleRequest ==
  part = "session" /\ Session!HandleRequest /\ UNCHANGED <<part, timerVars>>

Next == InSession \/ OnTime

\* As in JsonRpcSession: messages arrive and are handled.
Spec == Init /\ [][Next]_vars /\ WF_vars(ProcessDataPacket) /\ WF_vars(HandleRequest)

-----------------------------------------------------------------------------

\* JsonRpcClient::processDataPacket: a reply finishes with the response to its own
\* request: the slot behind it acts on the result and the versions in that message.
RepliesMatch == Session!RepliesMatch

\* TunnelProxySocketServer: once the library has read everything, its sockets are the
\* clients the proxy has for it: no announcement is lost or taken for something else, if
\* no notification has the id of the requests.  JsonRpcServer numbers its notifications
\* from 0, which is that id: the first of a proxy is excluded here, and is lost if a reply
\* is pending.
SocketsAgree == Session!SocketsAgree

\* JsonRpcClient::m_replies: a reply the library waits for finishes, or the connection
\* ends.
RepliesFinish == Session!RepliesFinish

\* TunnelProxyClient::m_inactiveTimer closes the connection of a server that cannot be
\* reached at the latest a minute after its last message; and of one that can be only if,
\* within the interval of its pings and the latency, the library read data or a
\* notification: these put off its next ping, but not the timeout of the proxy.
TimeoutsJustified == Timers!IdleServerStays /\ Timers!DeadServerGone

\* TunnelProxySocketServer::m_keepAliveTimer: at most one ping is unanswered, so that
\* pings alone never break RepliesMatch, all requests having the same id.
OnePing == Timers!OnePing
=============================================================================
