------------------------------- MODULE JsonApi -------------------------------
(***************************************************************************)
(* The JSON-RPC interface of the proxy as one connection meets it: which   *)
(* methods there are, how JsonTypes validates parameters and return        *)
(* values, what JsonRpcServer::processDataPacket answers, and what the     *)
(* handlers make of their parameters.                                      *)
(*                                                                         *)
(* A JSON value is one of a few kinds, told apart by what QVariant         *)
(* converts it to.  The templates of the handlers are flat maps without    *)
(* optional keys; nested maps, lists and "o:" keys, which JsonTypes knows  *)
(* too, do not occur.  What the tables of TunnelProxyServer say about a    *)
(* registration is any of their answers.                                   *)
(***************************************************************************)
CONSTANTS
  ParameterValues   \* the kinds of JSON values requests are made of

ASSUME ParameterValuesAssumption ==
  ParameterValues \subseteq {"uuid", "text", "number", "true", "object"}

VARIABLES
  request,                 \* the last packet
  response,                \* and the answer to it
  type, uuid,              \* of the TunnelProxyClient
  killConnectionRequested,
  slipEnabled,
  killed                   \* has killConnection been called?

vars == <<request, response, type, uuid, killConnectionRequested, slipEnabled, killed>>

-----------------------------------------------------------------------------
(* What the handlers declare.                                              *)

Nothing == [key \in {} |-> "String"]

\* setParams.
m_params ==
  [RemoteProxy |->
     [Hello             |-> Nothing,
      Introspect        |-> Nothing,
      TunnelEstablished |-> [uuid |-> "String", name |-> "String"]],
   TunnelProxy |->
     [RegisterServer     |-> [serverName |-> "String", serverUuid |-> "Uuid"],
      DisconnectClient   |-> [socketAddress |-> "UInt"],
      Ping               |-> [timestamp |-> "UInt"],
      RegisterClient     |-> [clientName |-> "String", clientUuid |-> "Uuid",
                              serverUuid |-> "Uuid"],
      ClientConnected    |-> [clientName |-> "String", clientUuid |-> "String",
                              clientPeerAddress |-> "String", socketAddress |-> "UInt"],
      ClientDisconnected |-> [socketAddress |-> "UInt"]]]

tunnelProxyErrorRef == "$ref:TunnelProxyError"

\* setReturns.
m_returns ==
  [RemoteProxy |->
     [Hello      |-> [server |-> "String", name |-> "String", version |-> "String",
                      apiVersion |-> "String"],
      Introspect |-> [methods |-> "Object", types |-> "Object", notifications |-> "Object"]],
   TunnelProxy |->
     [RegisterServer   |-> [tunnelProxyError |-> tunnelProxyErrorRef, slipEnabled |-> "Bool"],
      DisconnectClient |-> [tunnelProxyError |-> tunnelProxyErrorRef],
      Ping             |-> [timestamp |-> "UInt"],
      RegisterClient   |-> [tunnelProxyError |-> tunnelProxyErrorRef]]]

\* The Q_INVOKABLE methods of the handlers.
Invokable == [RemoteProxy |-> {"Hello", "Introspect"},
              TunnelProxy |-> {"RegisterServer", "DisconnectClient", "Ping", "RegisterClient"}]

Namespaces == DOMAIN m_params

\* registerHandler.
m_handlers == {"RemoteProxy", "TunnelProxy"}

\* Everything declared has a description.
HasMethod(handler, method) ==
  method \in DOMAIN m_params[handler] \cap DOMAIN m_returns[handler]

\* introspect, for methods.
IntrospectedMethods(handler) ==
  {method \in Invokable[handler] :
     method \in DOMAIN m_params[handler] \cap DOMAIN m_returns[handler]}

-----------------------------------------------------------------------------
(* JsonTypes.                                                              *)

TunnelProxyErrors ==
  {"NoError", "InvalidUuid", "InternalServerError", "ServerNotFound",
   "ForbiddenCall", "AlreadyRegistered", "NotRegistered", "UnknownSocketAddress"}

\* QVariant::canConvert looks at the type of a value only: any string may be a uuid or a
\* number.  Errors come as strings.
CanConvert(value, target) ==
  CASE value \in {"uuid", "text"} \cup TunnelProxyErrors -> target \in {"Uuid", "String", "Bool", "Int", "UInt"}
    [] value \in {"number", "true", "false"} -> target \in {"String", "Bool", "Int", "UInt"}
    [] OTHER -> FALSE

ValidateEnum(enumStrings, value) == value \in enumStrings

ValidateProperty(template, value) ==
  \/ template \in {"Variant", "Object"}
  \/ template \in {"Uuid", "String", "Bool", "Int", "UInt"} /\ CanConvert(value, template)

ValidateVariant(template, value) ==
  IF template = tunnelProxyErrorRef THEN ValidateEnum(TunnelProxyErrors, value)
                                    ELSE ValidateProperty(template, value)

ValidateMap_ExtraAllowed(template, map) ==
  \A key \in DOMAIN template : key \in DOMAIN map /\ ValidateVariant(template[key], map[key])

\* Every key of the template is there and fits, and there is no other.
ValidateMap(template, map) ==
  /\ \A key \in DOMAIN template : key \in DOMAIN map /\ ValidateVariant(template[key], map[key])
  /\ DOMAIN map \subseteq DOMAIN template

-----------------------------------------------------------------------------
(* Requests and what becomes of them.                                      *)

\* Parameters with the keys that some callable method declares.
Maps == UNION {UNION {[DOMAIN m_params[h][method] -> ParameterValues] : method \in Invokable[h]} :
                 h \in Namespaces}

\* A packet as processDataPacket takes it apart; text that is no JSON, has no id, or whose
\* method is not made of two words, is left with what is known of it.
Requests ==
  {[parses |-> FALSE]}
  \cup [parses : {TRUE}, id : {FALSE}]
  \cup [parses : {TRUE}, id : {TRUE}, namespace : {"none", "NoHandler"}]
  \cup [parses : {TRUE}, id : {TRUE}, namespace : Namespaces,
        method : {"NoMethod"} \cup UNION {DOMAIN m_params[h] : h \in Namespaces}, params : Maps]

NoRequest  == [parses |-> FALSE]
NoResponse == [status |-> "none"]

Init ==
  /\ request = NoRequest /\ response = NoResponse
  /\ type = "TypeNone" /\ uuid = "null"
  /\ killConnectionRequested = FALSE
  /\ slipEnabled = FALSE
  /\ killed = FALSE

\* sendErrorResponse and killConnection.
Refuse(r) ==
  /\ request' = r
  /\ response' = [status |-> "error"]
  /\ killed' = TRUE
  /\ UNCHANGED <<type, uuid, killConnectionRequested, slipEnabled>>

\* The checks of processDataPacket, in their order, before a method is invoked.
Acceptable(r) ==
  /\ r.parses
  /\ r.id
  /\ r.namespace \in m_handlers
  /\ HasMethod(r.namespace, r.method)
  /\ ValidateMap(m_params[r.namespace][r.method], r.params)

\* A response; then the connection is killed if that was requested, and else switched to
\* SLIP if that was.
Reply(r, data, kill, slipAfterResponse) ==
  /\ request' = r
  /\ response' = [status |-> "success", data |-> data]
  /\ killConnectionRequested' = (killConnectionRequested \/ kill)
  /\ killed' = (killed \/ killConnectionRequested')
  /\ slipEnabled' = (slipEnabled \/ (slipAfterResponse /\ ~killConnectionRequested'))

Calls(r, handler, method) == r.namespace = handler /\ r.method = method

Hello(r) ==
  /\ Calls(r, "RemoteProxy", "Hello")
  /\ Reply(r, [key \in {"server", "name", "version", "apiVersion"} |-> "text"], FALSE, FALSE)
  /\ UNCHANGED <<type, uuid>>

Introspect(r) ==
  /\ Calls(r, "RemoteProxy", "Introspect")
  /\ Reply(r, [key \in {"methods", "types", "notifications"} |-> "object"], FALSE, FALSE)
  /\ UNCHANGED <<type, uuid>>

Ping_Parsed(r) ==
  /\ Calls(r, "TunnelProxy", "Ping")
  /\ Reply(r, [time |-> r.params["timestamp"]], FALSE, FALSE)
  /\ UNCHANGED <<type, uuid>>

\* The timestamp goes back as it came.
Ping(r) ==
  /\ Calls(r, "TunnelProxy", "Ping")
  /\ Reply(r, [timestamp |-> r.params["timestamp"]], FALSE, FALSE)
  /\ UNCHANGED <<type, uuid>>

\* QVariant::toUuid.
ToUuid(value) == IF value = "uuid" THEN "uuid" ELSE "null"

\* The answers of TunnelProxyServer to a registration.  A killed connection may be gone.
Registrations(refusals) ==
  (IF killed THEN {"InternalServerError"} ELSE {})
  \cup (IF type = "TypeNone" THEN {"NoError"} \cup refusals ELSE {"AlreadyRegistered"})

Registered(newType, newUuid, error) ==
  IF error = "NoError" THEN type' = newType /\ uuid' = newUuid ELSE UNCHANGED <<type, uuid>>

RegisterServer_AlwaysSlip(r) ==
  /\ Calls(r, "TunnelProxy", "RegisterServer")
  /\ \E error \in IF ToUuid(r.params["serverUuid"]) = "null" THEN {"InvalidUuid"}
                  ELSE Registrations({"AlreadyRegistered"}) :
       /\ Registered("TypeServer", ToUuid(r.params["serverUuid"]), error)
       /\ Reply(r, [tunnelProxyError |-> error, slipEnabled |-> "true"],
                error = "AlreadyRegistered", error = "NoError")

\* A null uuid is answered, and the connection stays.
RegisterServer(r) ==
  /\ Calls(r, "TunnelProxy", "RegisterServer")
  /\ \E error \in IF ToUuid(r.params["serverUuid"]) = "null" THEN {"InvalidUuid"}
                  ELSE Registrations({"AlreadyRegistered"}) :
       /\ Registered("TypeServer", ToUuid(r.params["serverUuid"]), error)
       /\ Reply(r, [tunnelProxyError |-> error,
                    slipEnabled |-> IF error = "NoError" THEN "true" ELSE "false"],
                error = "AlreadyRegistered", error = "NoError")

RegisterClient(r) ==
  /\ Calls(r, "TunnelProxy", "RegisterClient")
  /\ \E error \in IF "null" \in {ToUuid(r.params["serverUuid"]), ToUuid(r.params["clientUuid"])}
                  THEN {"InvalidUuid"}
                  ELSE Registrations({"AlreadyRegistered", "ServerNotFound"}) :
       /\ Registered("TypeClient", ToUuid(r.params["clientUuid"]), error)
       /\ Reply(r, [tunnelProxyError |-> error],
                error \in {"AlreadyRegistered", "ServerNotFound"}, FALSE)

DisconnectClient(r) ==
  /\ Calls(r, "TunnelProxy", "DisconnectClient")
  /\ \E error \in (IF killed THEN {"InternalServerError"} ELSE {})
                  \cup IF type = "TypeServer" THEN {"NoError", "UnknownSocketAddress"}
                                              ELSE {"AlreadyRegistered"} :
       Reply(r, [tunnelProxyError |-> error], error = "AlreadyRegistered", FALSE)
  /\ UNCHANGED <<type, uuid>>

Invoke(r) ==
  \/ Hello(r) \/ Introspect(r) \/ Ping(r)
  \/ RegisterServer(r) \/ RegisterClient(r) \/ DisconnectClient(r)

\* processDataPacket, also for packets behind one that killed the connection.
ProcessDataPacket(r) == IF Acceptable(r) THEN Invoke(r) ELSE Refuse(r)

Next == \E r \in Requests : ProcessDataPacket(r)

Spec == Init /\ [][Next]_vars

-----------------------------------------------------------------------------

TypeOK ==
  /\ request \in Requests
  /\ response.status \in {"none", "error", "success"}
  /\ type \in {"TypeNone", "TypeServer", "TypeClient"}
  /\ uuid \in {"null", "uuid"}
  /\ killConnectionRequested \in BOOLEAN
  /\ slipEnabled \in BOOLEAN
  /\ killed \in BOOLEAN

Succeeded == response.status = "success"

\* The assertion of processDataPacket: what a handler returns fits what it declares,
\* whatever it was called with and however the call ended.
RepliesValid ==
  Succeeded => ValidateMap(m_returns[request.namespace][request.method], response.data)

\* A value that is of a declared type in the narrow sense.
OfType(template, value) ==
  \/ template = "Uuid" /\ value = "uuid"
  \/ template = "String" /\ value \in {"uuid", "text"}
  \/ template = "UInt" /\ value = "number"

\* Introspect tells the truth: a method it lists can be called as it is described, and no
\* other method, and no other set of parameters, is accepted.
IntrospectionTrue ==
  request.parses /\ request.id /\ request.namespace \in Namespaces =>
    LET listed == request.method \in IntrospectedMethods(request.namespace)
        params == m_params[request.namespace][request.method]
    IN /\ listed /\ DOMAIN request.params = DOMAIN params
            /\ (\A key \in DOMAIN params : OfType(params[key], request.params[key])) => Succeeded
       /\ Succeeded => listed /\ DOMAIN request.params = DOMAIN params

\* A server that is told that the connection speaks SLIP is registered, and the proxy
\* speaks it from then on or closes the connection; no other connection speaks it.
SlipAsAnnounced ==
  /\ slipEnabled => type = "TypeServer"
  /\ Succeeded /\ request.method = "RegisterServer" /\ response.data["slipEnabled"] = "true" =>
       type = "TypeServer" /\ (slipEnabled \/ killed)
=============================================================================
