---------------------------- MODULE JsonApiProofs ----------------------------
(***************************************************************************)
(* The theorems about JsonApi.  What a handler answers depends on what it  *)
(* declares and on the checks of processDataPacket; SLIP depends on what   *)
(* the connection was before.  So the first two invariants follow from the *)
(* last step alone, and only SlipAsAnnounced is about the past.            *)
(***************************************************************************)
EXTENDS JsonApi, TLAPS

\* The declarations name the same methods in all places: whatever has a return value
\* is invokable and has parameters.
LEMMA Declarations ==
  /\ Namespaces = m_handlers
  /\ \A handler \in m_handlers :
       /\ DOMAIN m_returns[handler] = Invokable[handler]
       /\ Invokable[handler] \subseteq DOMAIN m_params[handler]
BY DEF Namespaces, m_handlers, m_params, m_returns, Invokable, Nothing

\* What has a declared type is accepted by the validation.
LEMMA OfTypeIsValid ==
  ASSUME NEW template, NEW value, OfType(template, value)
  PROVE  ValidateVariant(template, value)
<1>1. template # tunnelProxyErrorRef
  BY DEF OfType, tunnelProxyErrorRef
<1>2. CanConvert(value, template)
  BY DEF OfType, CanConvert, TunnelProxyErrors
<1> QED
  BY <1>1, <1>2 DEF OfType, ValidateVariant, ValidateProperty

\* The methods of processDataPacket's checks are the listed ones, with exactly the
\* declared parameters.
LEMMA AcceptableIsListed ==
  ASSUME NEW r, Acceptable(r)
  PROVE  /\ r.method \in IntrospectedMethods(r.namespace)
         /\ DOMAIN r.params = DOMAIN m_params[r.namespace][r.method]
BY Declarations DEF Acceptable, HasMethod, IntrospectedMethods, ValidateMap

\* A listed method with parameters of the declared types passes the checks.
LEMMA ListedIsAcceptable ==
  ASSUME NEW r, r.parses, r.id, r.namespace \in Namespaces,
         r.method \in IntrospectedMethods(r.namespace),
         DOMAIN r.params = DOMAIN m_params[r.namespace][r.method],
         \A key \in DOMAIN m_params[r.namespace][r.method] :
           OfType(m_params[r.namespace][r.method][key], r.params[key])
  PROVE  Acceptable(r)
BY Declarations, OfTypeIsValid
   DEF Acceptable, HasMethod, IntrospectedMethods, ValidateMap

\* Every accepted call is answered with a response, for the request it came with.
LEMMA InvokedIsAnswered ==
  ASSUME NEW r, Invoke(r)
  PROVE  request' = r /\ response'.status = "success"
<1>1. \E data, kill, slip : Reply(r, data, kill, slip)
  BY DEF Invoke, Hello, Introspect, Ping, RegisterServer, RegisterClient, DisconnectClient
<1> QED
  BY <1>1 DEF Reply

\* An answer to a registration or to DisconnectClient is one of the declared errors.
LEMMA ErrorsDeclared ==
  ASSUME NEW error, error \in TunnelProxyErrors
  PROVE  /\ ValidateMap(m_returns["TunnelProxy"]["RegisterClient"], [tunnelProxyError |-> error])
         /\ ValidateMap(m_returns["TunnelProxy"]["DisconnectClient"], [tunnelProxyError |-> error])
         /\ \A slip \in {"true", "false"} :
              ValidateMap(m_returns["TunnelProxy"]["RegisterServer"],
                          [tunnelProxyError |-> error, slipEnabled |-> slip])
<1>1. ValidateVariant(tunnelProxyErrorRef, error)
  BY DEF ValidateVariant, ValidateEnum
<1>2. \A slip \in {"true", "false"} : ValidateVariant("Bool", slip)
  BY DEF ValidateVariant, ValidateProperty, CanConvert, TunnelProxyErrors, tunnelProxyErrorRef
<1>3. /\ m_returns["TunnelProxy"]["RegisterClient"] = [tunnelProxyError |-> tunnelProxyErrorRef]
      /\ m_returns["TunnelProxy"]["DisconnectClient"] = [tunnelProxyError |-> tunnelProxyErrorRef]
      /\ m_returns["TunnelProxy"]["RegisterServer"] =
           [tunnelProxyError |-> tunnelProxyErrorRef, slipEnabled |-> "Bool"]
  BY DEF m_returns
<1> QED
  BY <1>1, <1>2, <1>3 DEF ValidateMap

LEMMA RegistrationErrors ==
  ASSUME NEW refusals, refusals \subseteq TunnelProxyErrors
  PROVE  Registrations(refusals) \subseteq TunnelProxyErrors
BY DEF Registrations, TunnelProxyErrors

\* Values stay in their sets; the last request is one of those that are sent.
THEOREM TypeCorrect == Spec => []TypeOK
<1>1. ASSUME Init PROVE TypeOK
  BY <1>1 DEF Init, TypeOK, NoRequest, NoResponse, Requests
<1>2. ASSUME TypeOK, [Next]_vars PROVE TypeOK'
  <2>1. CASE UNCHANGED vars
    BY <1>2, <2>1 DEF vars, TypeOK
  <2>2. CASE Next
    <3>1. PICK r \in Requests : ProcessDataPacket(r)
      BY <2>2 DEF Next
    <3>2. CASE Refuse(r)
      BY <1>2, <3>1, <3>2 DEF TypeOK, Refuse
    <3>3. ASSUME NEW data, NEW kill, NEW slip,
                 Reply(r, data, kill, slip),
                 /\ type' \in {"TypeNone", "TypeServer", "TypeClient"}
                 /\ uuid' \in {"null", "uuid"}
          PROVE  TypeOK'
      BY <1>2, <3>1, <3>3 DEF TypeOK, Reply
    <3>4. CASE Hello(r) \/ Introspect(r) \/ Ping(r) \/ DisconnectClient(r)
      BY <1>2, <3>3, <3>4 DEF TypeOK, Hello, Introspect, Ping, DisconnectClient
    <3>5. ASSUME NEW newType \in {"TypeServer", "TypeClient"}, NEW value, NEW error,
                 Registered(newType, ToUuid(value), error)
          PROVE  /\ type' \in {"TypeNone", "TypeServer", "TypeClient"}
                 /\ uuid' \in {"null", "uuid"}
      BY <1>2, <3>5 DEF TypeOK, Registered, ToUuid
    <3>6. CASE RegisterServer(r)
      BY <3>3, <3>5, <3>6 DEF RegisterServer
    <3>7. CASE RegisterClient(r)
      <4>1. PICK error :
              /\ Registered("TypeClient", ToUuid(r.params["clientUuid"]), error)
              /\ Reply(r, [tunnelProxyError |-> error],
                       error \in {"AlreadyRegistered", "ServerNotFound"}, FALSE)
        BY <3>7 DEF RegisterClient
      <4>2. /\ type' \in {"TypeNone", "TypeServer", "TypeClient"}
            /\ uuid' \in {"null", "uuid"}
        BY <3>5, <4>1
      <4> QED
        BY <3>3, <4>1, <4>2, Zenon
    <3> QED
      BY <3>1, <3>2, <3>4, <3>6, <3>7 DEF ProcessDataPacket, Invoke
  <2> QED
    BY <1>2, <2>1, <2>2
<1> QED
  BY <1>1, <1>2, PTL DEF Spec

-----------------------------------------------------------------------------
(* RepliesValid: one case per method.                                      *)

LEMMA HelloValid ==
  ASSUME NEW r, Hello(r)
  PROVE  RepliesValid'
<1>1. /\ request' = r /\ r.namespace = "RemoteProxy" /\ r.method = "Hello"
      /\ response'.data = [key \in {"server", "name", "version", "apiVersion"} |-> "text"]
  BY DEF Hello, Calls, Reply
<1>2. m_returns["RemoteProxy"]["Hello"] =
        [server |-> "String", name |-> "String", version |-> "String", apiVersion |-> "String"]
  BY DEF m_returns
<1>3. ValidateVariant("String", "text")
  BY DEF ValidateVariant, ValidateProperty, CanConvert, TunnelProxyErrors, tunnelProxyErrorRef
<1>4. ValidateMap(m_returns["RemoteProxy"]["Hello"],
                  [key \in {"server", "name", "version", "apiVersion"} |-> "text"])
  BY <1>2, <1>3 DEF ValidateMap
<1> QED
  BY <1>1, <1>4 DEF RepliesValid

LEMMA IntrospectValid ==
  ASSUME NEW r, Introspect(r)
  PROVE  RepliesValid'
<1>1. /\ request' = r /\ r.namespace = "RemoteProxy" /\ r.method = "Introspect"
      /\ response'.data = [key \in {"methods", "types", "notifications"} |-> "object"]
  BY DEF Introspect, Calls, Reply
<1>2. m_returns["RemoteProxy"]["Introspect"] =
        [methods |-> "Object", types |-> "Object", notifications |-> "Object"]
  BY DEF m_returns
<1>3. ValidateVariant("Object", "object")
  BY DEF ValidateVariant, ValidateProperty, tunnelProxyErrorRef
<1>4. ValidateMap(m_returns["RemoteProxy"]["Introspect"],
                  [key \in {"methods", "types", "notifications"} |-> "object"])
  BY <1>2, <1>3 DEF ValidateMap
<1> QED
  BY <1>1, <1>4 DEF RepliesValid

\* The parameter of Ping was validated against the template of its own return value.
LEMMA PingValid ==
  ASSUME NEW r, Acceptable(r), Ping(r)
  PROVE  RepliesValid'
<1>1. /\ request' = r /\ r.namespace = "TunnelProxy" /\ r.method = "Ping"
      /\ response'.data = [timestamp |-> r.params["timestamp"]]
  BY DEF Ping, Calls, Reply
<1>2. /\ m_params["TunnelProxy"]["Ping"] = [timestamp |-> "UInt"]
      /\ m_returns["TunnelProxy"]["Ping"] = [timestamp |-> "UInt"]
  BY DEF m_params, m_returns
<1>3. ValidateVariant("UInt", r.params["timestamp"])
  BY <1>1, <1>2 DEF Acceptable, ValidateMap
<1>4. ValidateMap(m_returns["TunnelProxy"]["Ping"], [timestamp |-> r.params["timestamp"]])
  BY <1>2, <1>3 DEF ValidateMap
<1> QED
  BY <1>1, <1>4 DEF RepliesValid

LEMMA RegisterServerValid ==
  ASSUME NEW r, RegisterServer(r)
  PROVE  RepliesValid'
<1>1. PICK error \in IF ToUuid(r.params["serverUuid"]) = "null" THEN {"InvalidUuid"}
                     ELSE Registrations({"AlreadyRegistered"}) :
        Reply(r, [tunnelProxyError |-> error,
                  slipEnabled |-> IF error = "NoError" THEN "true" ELSE "false"],
              error = "AlreadyRegistered", error = "NoError")
  BY DEF RegisterServer
<1>2. error \in TunnelProxyErrors
  BY RegistrationErrors DEF TunnelProxyErrors
<1>3. /\ request' = r /\ r.namespace = "TunnelProxy" /\ r.method = "RegisterServer"
      /\ response'.data = [tunnelProxyError |-> error,
                           slipEnabled |-> IF error = "NoError" THEN "true" ELSE "false"]
  BY <1>1 DEF RegisterServer, Calls, Reply
<1> QED
  BY <1>2, <1>3, ErrorsDeclared DEF RepliesValid

LEMMA RegisterClientValid ==
  ASSUME NEW r, RegisterClient(r)
  PROVE  RepliesValid'
<1>1. PICK error \in IF "null" \in {ToUuid(r.params["serverUuid"]), ToUuid(r.params["clientUuid"])}
                     THEN {"InvalidUuid"}
                     ELSE Registrations({"AlreadyRegistered", "ServerNotFound"}) :
        Reply(r, [tunnelProxyError |-> error],
              error \in {"AlreadyRegistered", "ServerNotFound"}, FALSE)
  BY DEF RegisterClient
<1>2. error \in TunnelProxyErrors
  BY RegistrationErrors DEF TunnelProxyErrors
<1>3. /\ request' = r /\ r.namespace = "TunnelProxy" /\ r.method = "RegisterClient"
      /\ response'.data = [tunnelProxyError |-> error]
  BY <1>1 DEF RegisterClient, Calls, Reply
<1> QED
  BY <1>2, <1>3, ErrorsDeclared DEF RepliesValid

LEMMA DisconnectClientValid ==
  ASSUME NEW r, DisconnectClient(r)
  PROVE  RepliesValid'
<1>1. PICK error \in TunnelProxyErrors :
        Reply(r, [tunnelProxyError |-> error], error = "AlreadyRegistered", FALSE)
  BY DEF DisconnectClient, TunnelProxyErrors
<1>2. /\ request' = r /\ r.namespace = "TunnelProxy" /\ r.method = "DisconnectClient"
      /\ response'.data = [tunnelProxyError |-> error]
  BY <1>1 DEF DisconnectClient, Calls, Reply
<1> QED
  BY <1>2, ErrorsDeclared DEF RepliesValid

\* A packet that is refused gets no response that could be checked.
LEMMA RefusedIsNoSuccess ==
  ASSUME NEW r, Refuse(r)
  PROVE  request' = r /\ response'.status = "error"
BY DEF Refuse

LEMMA RepliesValidStep ==
  ASSUME RepliesValid, [Next]_vars
  PROVE  RepliesValid'
<1>1. CASE UNCHANGED vars
  BY <1>1 DEF vars, RepliesValid, Succeeded
<1>2. CASE Next
  <2>1. PICK r \in Requests : ProcessDataPacket(r)
    BY <1>2 DEF Next
  <2>2. CASE ~Acceptable(r)
    BY <2>1, <2>2, RefusedIsNoSuccess DEF ProcessDataPacket, RepliesValid, Succeeded
  <2>3. CASE Acceptable(r)
    BY <2>1, <2>3, HelloValid, IntrospectValid, PingValid, RegisterServerValid,
       RegisterClientValid, DisconnectClientValid DEF ProcessDataPacket, Invoke
  <2> QED
    BY <2>2, <2>3
<1> QED
  BY <1>1, <1>2

\* The assertion of JsonRpcServer::processDataPacket on what a handler returns never
\* fails, for requests of any kinds of values.
THEOREM ResponsesAsDeclared == Spec => []RepliesValid
<1>1. Init => RepliesValid
  BY DEF Init, RepliesValid, Succeeded, NoResponse
<1> QED
  BY <1>1, RepliesValidStep, PTL DEF Spec

-----------------------------------------------------------------------------
(* IntrospectionTrue.                                                      *)

LEMMA IntrospectionTrueStep ==
  ASSUME IntrospectionTrue, [Next]_vars
  PROVE  IntrospectionTrue'
<1>1. CASE UNCHANGED vars
  BY <1>1 DEF vars, IntrospectionTrue, Succeeded
<1>2. CASE Next
  <2>1. PICK r \in Requests : ProcessDataPacket(r)
    BY <1>2 DEF Next
  <2>2. CASE ~Acceptable(r)
    <3>1. request' = r /\ response'.status = "error"
      BY <2>1, <2>2, RefusedIsNoSuccess DEF ProcessDataPacket
    <3> QED
      BY <2>2, <3>1, ListedIsAcceptable DEF IntrospectionTrue, Succeeded
  <2>3. CASE Acceptable(r)
    <3>1. request' = r /\ response'.status = "success"
      BY <2>1, <2>3, InvokedIsAnswered DEF ProcessDataPacket
    <3> QED
      BY <2>3, <3>1, AcceptableIsListed DEF IntrospectionTrue, Succeeded
  <2> QED
    BY <2>2, <2>3
<1> QED
  BY <1>1, <1>2

\* What JsonHandler's introspection lists is what processDataPacket accepts: these
\* methods with these parameters and no others.
THEOREM IntrospectionTruthful == Spec => []IntrospectionTrue
<1>1. Init => IntrospectionTrue
  BY DEF Init, IntrospectionTrue, NoRequest
<1> QED
  BY <1>1, IntrospectionTrueStep, PTL DEF Spec

-----------------------------------------------------------------------------
(* SlipAsAnnounced.                                                        *)

\* What the last answer says of SLIP.
Announced(r, answer) ==
  answer.status = "success" /\ r.method = "RegisterServer" /\ answer.data["slipEnabled"] = "true"

\* The two flags of a connection, with what they follow from.
SlipInv ==
  /\ slipEnabled \in BOOLEAN /\ killed \in BOOLEAN /\ killConnectionRequested \in BOOLEAN
  /\ slipEnabled => type = "TypeServer"
  /\ Announced(request, response) => type = "TypeServer" /\ (slipEnabled \/ killed)

\* Calls that register nobody leave roles and SLIP alone.
LEMMA NoRegistration ==
  ASSUME SlipInv, NEW r, NEW data, NEW kill \in BOOLEAN,
         Reply(r, data, kill, FALSE), UNCHANGED <<type, uuid>>, r.method # "RegisterServer"
  PROVE  SlipInv'
BY DEF SlipInv, Announced, Reply

LEMMA RegisterServerAnnounces ==
  ASSUME SlipInv, NEW r, RegisterServer(r)
  PROVE  SlipInv'
<1>1. PICK error \in IF ToUuid(r.params["serverUuid"]) = "null" THEN {"InvalidUuid"}
                     ELSE Registrations({"AlreadyRegistered"}) :
        /\ Registered("TypeServer", ToUuid(r.params["serverUuid"]), error)
        /\ Reply(r, [tunnelProxyError |-> error,
                     slipEnabled |-> IF error = "NoError" THEN "true" ELSE "false"],
                 error = "AlreadyRegistered", error = "NoError")
  BY DEF RegisterServer
<1>2. CASE error = "NoError"
  BY <1>1, <1>2 DEF SlipInv, Announced, Reply, Registered
<1>3. CASE error # "NoError"
  BY <1>1, <1>3 DEF SlipInv, Announced, Reply, Registered
<1> QED
  BY <1>2, <1>3

\* Only a connection without a role becomes a client, and that speaks no SLIP.
LEMMA RegisterClientKeepsSlip ==
  ASSUME SlipInv, NEW r, RegisterClient(r)
  PROVE  SlipInv'
<1>1. PICK error \in IF "null" \in {ToUuid(r.params["serverUuid"]), ToUuid(r.params["clientUuid"])}
                     THEN {"InvalidUuid"}
                     ELSE Registrations({"AlreadyRegistered", "ServerNotFound"}) :
        /\ Registered("TypeClient", ToUuid(r.params["clientUuid"]), error)
        /\ Reply(r, [tunnelProxyError |-> error],
                 error \in {"AlreadyRegistered", "ServerNotFound"}, FALSE)
  BY DEF RegisterClient
<1>2. r.method = "RegisterClient"
  BY DEF RegisterClient, Calls
<1>3. CASE error = "NoError"
  <2>1. type = "TypeNone"
    BY <1>3 DEF Registrations
  <2> QED
    BY <1>1, <1>2, <1>3, <2>1 DEF SlipInv, Announced, Reply
<1>4. CASE error # "NoError"
  <2>1. UNCHANGED <<type, uuid>>
    BY <1>1, <1>4 DEF Registered
  <2>2. Reply(r, [tunnelProxyError |-> error],
              error \in {"AlreadyRegistered", "ServerNotFound"}, FALSE)
    BY <1>1
  <2> QED
    BY <1>2, <2>1, <2>2 DEF SlipInv, Announced, Reply
<1> QED
  BY <1>3, <1>4

LEMMA SlipInvStep ==
  ASSUME SlipInv, [Next]_vars
  PROVE  SlipInv'
<1>1. CASE UNCHANGED vars
  BY <1>1 DEF vars, SlipInv, Announced
<1>2. CASE Next
  <2>1. PICK r \in Requests : ProcessDataPacket(r)
    BY <1>2 DEF Next
  <2>2. CASE ~Acceptable(r)
    BY <2>1, <2>2 DEF ProcessDataPacket, Refuse, SlipInv, Announced
  <2>3. CASE Acceptable(r)
    <3>1. CASE Hello(r) \/ Introspect(r) \/ Ping(r)
      BY <3>1, NoRegistration DEF Hello, Introspect, Ping, Calls
    <3>2. CASE DisconnectClient(r)
      BY <3>2, NoRegistration DEF DisconnectClient, Calls
    <3>3. CASE RegisterServer(r)
      BY <3>3, RegisterServerAnnounces
    <3>4. CASE RegisterClient(r)
      BY <3>4, RegisterClientKeepsSlip
    <3> QED
      BY <2>1, <2>3, <3>1, <3>2, <3>3, <3>4 DEF ProcessDataPacket, Invoke
  <2> QED
    BY <2>2, <2>3
<1> QED
  BY <1>1, <1>2

\* enableSlipAfterResponse: whoever was told that the connection speaks SLIP is a server,
\* and the connection does or is closed; nobody else's connection does.
THEOREM SlipAnnounced == Spec => []SlipAsAnnounced
<1>1. ASSUME Init PROVE SlipInv
  <2>1. ~Announced(request, response)
    BY <1>1 DEF Init, Announced, NoResponse
  <2> QED
    BY <1>1, <2>1 DEF Init, SlipInv
<1>2. SlipInv => SlipAsAnnounced
  BY DEF SlipInv, Announced, SlipAsAnnounced, Succeeded
<1> QED
  BY <1>1, <1>2, SlipInvStep, PTL DEF Spec
=============================================================================
