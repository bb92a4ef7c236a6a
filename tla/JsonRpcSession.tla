--------------------------- MODULE JsonRpcSession ---------------------------
(***************************************************************************)
(* The JSON-RPC session of a tunnel server with the proxy: on one side the *)
(* JsonRpcClient of the library with its pending replies, on the other the *)
(* JsonRpcServer with its notifications, and what is under way between     *)
(* them.  How bytes become messages is the matter of ServerUplink and      *)
(* ServerDownlink; here a message is read whole.                           *)
(*                                                                         *)
(* A message of the proxy carries, besides its id, the request it answers  *)
(* ("answers"): nothing in the code looks at that, the properties do.      *)
(***************************************************************************)
EXTENDS Integers, Sequences, FiniteSets

CONSTANTS
  SocketAddresses,      \* the addresses the proxy gives to clients
  FirstNotificationId,  \* how many notifications the proxy has sent to other servers
  MaxNotificationId,    \* bound: how far its counter goes
  MaxPending            \* bound: how many requests may be under way

VARIABLES
  m_state,           \* of the TunnelProxySocketServer, as far as the session goes
  m_replies,         \* the replies it waits for: command id -> request
  sockets,           \* the addresses of its TunnelProxySockets
  finished,          \* the last reply that finished: its request and the message
  registered,        \* has the proxy registered the server?
  clients,           \* the addresses of the clients the proxy has for it
  m_notificationId,  \* of the JsonRpcServer, shared by all its connections
  toProxy, toLibrary \* the messages under way

libraryVars == <<m_state, m_replies, sockets, finished>>
proxyVars   == <<registered, clients, m_notificationId>>
vars        == <<libraryVars, proxyVars, toProxy, toLibrary>>

\* The command id of the library, which no code changes.
m_commandId == 0

Request(method, a) == [method |-> method, socketAddress |-> a]
Hello              == Request("Hello", 0)
RegisterServer     == Request("RegisterServer", 0)
Ping               == Request("Ping", 0)
DisconnectClient(a) == Request("DisconnectClient", a)

Requests == {Hello, RegisterServer, Ping} \cup {DisconnectClient(a) : a \in SocketAddresses}
NoRequest == Request("none", 0)

Response(id, request) ==
  [id |-> id, notification |-> "none", socketAddress |-> 0, answers |-> request]

Notification_OfPendingId(id, name, a) ==
  [id |-> m_commandId, notification |-> name, socketAddress |-> a, answers |-> NoRequest]

Notification(id, name, a) ==
  [id |-> id, notification |-> name, socketAddress |-> a, answers |-> NoRequest]

Calls == [id : {m_commandId}, request : Requests]

Notifications == {"ClientConnected", "ClientDisconnected"}

Messages ==
  [id : 0..MaxNotificationId, notification : {"none"} \cup Notifications,
   socketAddress : {0} \cup SocketAddresses, answers : Requests \cup {NoRequest}]

TypeOK ==
  /\ m_state \in {"disconnected", "initializing", "register", "running"}
  /\ DOMAIN m_replies \subseteq {m_commandId}
  /\ \A id \in DOMAIN m_replies : m_replies[id] \in Requests
  /\ sockets \subseteq SocketAddresses
  /\ finished \in [request : Requests \cup {NoRequest}, message : Messages]
  /\ registered \in BOOLEAN
  /\ clients \subseteq SocketAddresses
  /\ m_notificationId \in FirstNotificationId..MaxNotificationId
  /\ toProxy \in Seq(Calls)
  /\ toLibrary \in Seq(Messages)

NoReply == [request |-> NoRequest, message |-> Response(0, NoRequest)]

Init ==
  /\ m_state = "disconnected"
  /\ m_replies = <<>>
  /\ sockets = {}
  /\ finished = NoReply
  /\ registered = FALSE
  /\ clients = {}
  /\ m_notificationId = FirstNotificationId
  /\ toProxy = <<>>
  /\ toLibrary = <<>>

-----------------------------------------------------------------------------
(* The library.                                                            *)

Responses == {i \in DOMAIN toLibrary : toLibrary[i].notification = "none"}
Waiting   == Len(toProxy) + Cardinality(Responses)

\* callHello, callRegisterServer, callPing and callDisconnectClient: the request is
\* sent, its reply entered under its id, replacing what is there.
Call(replies, request) ==
  /\ toProxy' = Append(toProxy, [id |-> m_commandId, request |-> request])
  /\ m_replies' = [id \in DOMAIN replies \cup {m_commandId} |->
                    IF id = m_commandId THEN request ELSE replies[id]]

\* The connection is up: onConnectionChanged.
Connected ==
  /\ m_state = "disconnected"
  /\ m_state' = "initializing"
  /\ Call(m_replies, Hello)
  /\ UNCHANGED <<sockets, finished, proxyVars, toLibrary>>

\* The keep-alive timer, or the application through TunnelProxySocket::disconnectSocket.
Asks(request) ==
  /\ m_state = "running"
  /\ Waiting < MaxPending
  /\ Call(m_replies, request)
  /\ UNCHANGED <<m_state, sockets, finished, proxyVars, toLibrary>>

Without(replies, id) == [i \in DOMAIN replies \ {id} |-> replies[i]]

\* The slots behind a reply: Hello is followed by RegisterServer, that by nothing.
ReplyFinished(request, replies) ==
  CASE request = Hello -> m_state' = "register" /\ Call(replies, RegisterServer)
    [] request = RegisterServer ->
         m_state' = "running" /\ m_replies' = replies /\ UNCHANGED toProxy
    [] OTHER -> m_replies' = replies /\ UNCHANGED <<m_state, toProxy>>

OnNotification_ConnectedOnly(message) ==
  sockets' = IF message.notification = "ClientConnected"
             THEN sockets \cup {message.socketAddress} ELSE sockets

OnNotification(message) ==
  sockets' = CASE message.notification = "ClientConnected" -> sockets \cup {message.socketAddress}
               [] message.notification = "ClientDisconnected" -> sockets \ {message.socketAddress}
               [] OTHER -> sockets

\* processDataPacket: whatever has the id of a pending reply finishes it.
ProcessDataPacket ==
  /\ toLibrary # <<>>
  /\ LET message == Head(toLibrary) IN
       \/ /\ message.id \in DOMAIN m_replies
          /\ finished' = [request |-> m_replies[message.id], message |-> message]
          /\ ReplyFinished(m_replies[message.id], Without(m_replies, message.id))
          /\ UNCHANGED sockets
       \/ /\ message.id \notin DOMAIN m_replies
          /\ OnNotification(message)
          /\ UNCHANGED <<m_state, m_replies, finished, toProxy>>
  /\ toLibrary' = Tail(toLibrary)
  /\ UNCHANGED proxyVars

-----------------------------------------------------------------------------
(* The proxy.                                                              *)

SendResponse_NoId(sent, call) == Append(sent, Response(MaxNotificationId, call.request))

SendResponse(sent, call) == Append(sent, Response(call.id, call.request))

SendNotification(sent, name, a) == Append(sent, Notification(m_notificationId, name, a))

\* A request is handled.  The client DisconnectClient closes leaves at once, before the
\* response, or later.
HandleRequest ==
  /\ toProxy # <<>>
  /\ toProxy' = Tail(toProxy)
  /\ LET call == Head(toProxy) IN
       \/ /\ toLibrary' = SendResponse(toLibrary, call)
          /\ registered' = (registered \/ call.request = RegisterServer)
          /\ UNCHANGED <<clients, m_notificationId>>
       \/ /\ call.request.method = "DisconnectClient"
          /\ call.request.socketAddress \in clients
          /\ m_notificationId < MaxNotificationId
          /\ clients' = clients \ {call.request.socketAddress}
          /\ toLibrary' = SendResponse(SendNotification(toLibrary, "ClientDisconnected",
                                                        call.request.socketAddress), call)
          /\ m_notificationId' = m_notificationId + 1
          /\ UNCHANGED registered
  /\ UNCHANGED libraryVars

\* A client registers for the server, or its connection ends.
Announce(name, a) ==
  /\ m_notificationId < MaxNotificationId
  /\ toLibrary' = SendNotification(toLibrary, name, a)
  /\ m_notificationId' = m_notificationId + 1
  /\ UNCHANGED <<libraryVars, registered, toProxy>>

ClientConnected(a) ==
  /\ registered
  /\ a \notin clients
  /\ clients' = clients \cup {a}
  /\ Announce("ClientConnected", a)

ClientDisconnected(a) ==
  /\ a \in clients
  /\ clients' = clients \ {a}
  /\ Announce("ClientDisconnected", a)

\* The connection ends: cleanUp on the one side, onClientDisconnected on the other.
ConnectionLost ==
  /\ m_state # "disconnected"
  /\ m_state' = "disconnected"
  /\ m_replies' = <<>>
  /\ sockets' = {}
  /\ finished' = NoReply
  /\ registered' = FALSE
  /\ clients' = {}
  /\ toProxy' = <<>>
  /\ toLibrary' = <<>>
  /\ UNCHANGED m_notificationId

-----------------------------------------------------------------------------

Next ==
  \/ Connected
  \/ Asks(Ping)
  \/ \E a \in sockets : Asks(DisconnectClient(a))
  \/ ProcessDataPacket
  \/ HandleRequest
  \/ \E a \in SocketAddresses : ClientConnected(a) \/ ClientDisconnected(a)
  \/ ConnectionLost

\* Messages arrive and are handled.
Spec == Init /\ [][Next]_vars /\ WF_vars(ProcessDataPacket) /\ WF_vars(HandleRequest)

-----------------------------------------------------------------------------

\* A reply finishes with the response to its own request: the slot behind it acts on
\* "tunnelProxyError" and the versions in that message.
RepliesMatch == finished.message.answers = finished.request

\* Once the library has read everything, its TunnelProxySockets are the clients the proxy
\* has for it: no announcement is lost or taken for something else.  (The one with id 0,
\* where the proxy begins to count, may be: FirstNotificationId excludes it if it is 1.)
SocketsAgree == registered /\ toLibrary = <<>> => sockets = clients

\* A reply the library waits for finishes, or the connection ends.
RepliesFinish ==
  \A request \in Requests :
    (request \in {m_replies[id] : id \in DOMAIN m_replies})
      ~> (finished.request = request \/ m_state = "disconnected")
=============================================================================
