----------------------------- MODULE KeepAlive -----------------------------
(***************************************************************************)
(* The timers that keep a registered server connected: the library pings   *)
(* when it has received nothing for a while, the proxy closes a connection *)
(* it has received nothing from for a while.  Time is discrete; what is    *)
(* due happens before time goes on.                                        *)
(***************************************************************************)
EXTENDS Integers, Sequences

CONSTANTS
  TenSeconds,  \* how many units of time there are in ten seconds
  MaxLatency,  \* how long a message may be under way
  MaxQueue     \* bound: how many messages may be under way in one direction

VARIABLES
  alive,          \* is the host of the server reachable?
  silent,         \* for how long it has not been
  open,           \* has the proxy not closed the connection?
  keepAlive,      \* time left of TunnelProxySocketServer::m_keepAliveTimer
  inactive,       \* time left of TunnelProxyClient::m_inactiveTimer
  up, down,       \* messages to the proxy and to the library: their kind and age
  heard           \* history: time since the library read what it had not asked for

vars == <<alive, silent, open, keepAlive, inactive, up, down, heard>>

KeepAliveInterval_TenSeconds == TenSeconds

\* 30000 ms.
KeepAliveInterval == 3 * TenSeconds

\* 60000 ms, for a registered server.
InactiveInterval == 6 * TenSeconds

\* Notifications of the proxy are "data" as well: both come without being asked for.
Kinds == {"ping", "response", "data"}
Sent(kind) == [kind |-> kind, age |-> 0]
Messages == [kind : Kinds, age : 0..MaxLatency]

\* For so long what the library reads, late as it may arrive, puts off its next ping;
\* what was read before that is not told apart.
PutsOff == KeepAliveInterval + MaxLatency
LongAgo == PutsOff + 1

TypeOK ==
  /\ alive \in BOOLEAN
  /\ open \in BOOLEAN
  /\ silent \in 0..(InactiveInterval + MaxLatency + 1)
  /\ keepAlive \in 0..KeepAliveInterval
  /\ inactive \in 0..InactiveInterval
  /\ up \in Seq(Messages) /\ Len(up) <= MaxQueue
  /\ down \in Seq(Messages) /\ Len(down) <= MaxQueue
  /\ heard \in 0..LongAgo

\* The library has just read that it is registered; the proxy's timer has run since it
\* sent that.
Init ==
  /\ alive = TRUE
  /\ silent = 0
  /\ open = TRUE
  /\ keepAlive = KeepAliveInterval
  /\ inactive \in {t \in 0..InactiveInterval : InactiveInterval - t <= MaxLatency}
  /\ up = <<>>
  /\ down = <<>>
  /\ heard = LongAgo

Older(queue) == [i \in DOMAIN queue |-> [queue[i] EXCEPT !.age = @ + 1]]
Due(queue)   == \E i \in DOMAIN queue : queue[i].age = MaxLatency

\* Time goes on by one unit.
Tick ==
  /\ open
  /\ inactive > 0 /\ ~Due(up)
  /\ alive => keepAlive > 0 /\ ~Due(down)
  /\ inactive' = inactive - 1
  /\ up' = Older(up)
  /\ IF alive
     THEN /\ keepAlive' = keepAlive - 1 /\ down' = Older(down)
          /\ heard' = IF heard = LongAgo THEN heard ELSE heard + 1
          /\ UNCHANGED silent
     ELSE silent' = silent + 1 /\ UNCHANGED <<keepAlive, down, heard>>
  /\ UNCHANGED <<alive, open>>

\* The timeout of m_keepAliveTimer, which repeats.
KeepAliveTimeout ==
  /\ alive /\ open
  /\ keepAlive = 0
  /\ Len(up) < MaxQueue
  /\ up' = Append(up, Sent("ping"))
  /\ keepAlive' = KeepAliveInterval
  /\ UNCHANGED <<alive, silent, open, inactive, down, heard>>

\* Whatever arrives restarts the timer.
Received == keepAlive' = KeepAliveInterval

\* onConnectionDataAvailable.  The library answers nothing it is sent: neither data nor
\* ClientConnected and ClientDisconnected.  An application that answers is LibrarySends.
LibraryReceives ==
  /\ alive /\ open
  /\ down # <<>>
  /\ down' = Tail(down)
  /\ Received
  /\ heard' = IF Head(down).kind = "response" THEN heard ELSE 0
  /\ UNCHANGED <<alive, silent, open, inactive, up>>

\* The application writes to a TunnelProxySocket.
LibrarySends ==
  /\ alive /\ open
  /\ Len(up) < MaxQueue
  /\ up' = Append(up, Sent("data"))
  /\ UNCHANGED <<alive, silent, open, keepAlive, inactive, down, heard>>

\* A client sends data, or comes or goes, which the server is notified of.
ProxySends ==
  /\ open
  /\ Len(down) < MaxQueue
  /\ down' = Append(down, Sent("data"))
  /\ UNCHANGED <<alive, silent, open, keepAlive, inactive, up, heard>>

ActivityRestarts_Not == inactive' = inactive

\* addRxDataCount: received data restarts the inactivity timer, sent data does not.
ActivityRestarts == inactive' = InactiveInterval

ProxyReceives ==
  /\ open
  /\ up # <<>>
  /\ up' = Tail(up)
  /\ ActivityRestarts
  /\ IF Head(up).kind = "ping"
     THEN Len(down) < MaxQueue /\ down' = Append(down, Sent("response"))
     ELSE UNCHANGED down
  /\ UNCHANGED <<alive, silent, open, keepAlive, heard>>

\* The timeout of m_inactiveTimer.
InactiveTimeout ==
  /\ open
  /\ inactive = 0
  /\ open' = FALSE
  /\ UNCHANGED <<alive, silent, keepAlive, inactive, up, down, heard>>

\* The host of the server is cut off; what it had sent may still arrive.
CutOff ==
  /\ alive /\ open
  /\ alive' = FALSE
  /\ down' = <<>>
  /\ UNCHANGED <<silent, open, keepAlive, inactive, up, heard>>

Next ==
  \/ Tick
  \/ KeepAliveTimeout
  \/ LibraryReceives
  \/ LibrarySends
  \/ ProxySends
  \/ ProxyReceives
  \/ InactiveTimeout
  \/ CutOff

Spec == Init /\ [][Next]_vars

-----------------------------------------------------------------------------

\* A server that can be reached is taken for dead only if the library has just read
\* something it had not asked for: that restarts the timer of its pings and nothing else,
\* so that the proxy may wait for a ping in vain (as with a server that only listens).
IdleServerStays == alive /\ ~open => heard <= PutsOff

\* A server that cannot be reached is dropped a minute after its last message.
DeadServerGone == open => silent <= InactiveInterval + MaxLatency

\* The pings under way, and the responses to pings.
Unfinished == {<<"up", i>> : i \in {j \in DOMAIN up : up[j].kind = "ping"}}
              \cup {<<"down", i>> : i \in {j \in DOMAIN down : down[j].kind = "response"}}

\* At most one ping is unanswered, so that its response finds its own reply
\* (JsonRpcSession).
OnePing == alive => \A m, n \in Unfinished : m = n
=============================================================================
