--------------------------- MODULE ServerDownlink ---------------------------
(***************************************************************************)
(* The byte stream from the proxy to a server's library: JSON responses    *)
(* until the one to RegisterServer, SLIP frames from then on.  The library *)
(* (TunnelProxySocketServer::onConnectionDataAvailable) reads it in chunks *)
(* and takes each chunk as JSON or as SLIP by its own state: it changes to *)
(* SLIP when it has handled the response to RegisterServer.                *)
(*                                                                         *)
(* Abstractions.  The responses to Hello and RegisterServer stand for      *)
(* themselves, with parameters in an object of their own.  Notifications   *)
(* travel in frames with address 0; what the library does with a frame is  *)
(* left out.                                                               *)
(***************************************************************************)
EXTENDS SlipData, JsonPackets

CONSTANTS
  TunnelFrames,       \* the frames of tunnel data the proxy sends: address and data
  FragmentResponses,  \* may a response be split between two reads?
  CoalesceReads,      \* may a response be read together with what follows it?
  MaxSent             \* bound: how many responses and frames are sent

HelloResponse    == <<Open, 1, Open, 3, Close, 4, Close>>
RegisterResponse == <<Open, 2, Open, 3, Close, 4, Close>>
Notification     == <<Open, 5, Open, 3, Close, Close>>
Documents        == {HelloResponse, RegisterResponse, Notification}

VARIABLES
  sent,          \* what the proxy has sent
  wire,          \* the bytes not yet read by the library
  m_state,       \* TunnelProxySocketServer::m_state
  m_dataBuffer,  \* TunnelProxySocketServer::m_dataBuffer
  jsonBuffer,    \* JsonRpcClient::m_dataBuffer
  received       \* the JSON documents and tunnel frames the library has handled

vars == <<sent, wire, m_state, m_dataBuffer, jsonBuffer, received>>

json(doc) == [kind |-> "json", content |-> doc]
frame(f)  == [kind |-> "frame", content |-> f]

Init ==
  /\ sent = <<>>
  /\ wire = <<>>
  /\ m_state = "StateHello"
  /\ m_dataBuffer = <<>>
  /\ jsonBuffer = <<>>
  /\ received = <<>>

-----------------------------------------------------------------------------
(* The proxy.                                                              *)

Transmit(item, bytes) ==
  /\ Len(sent) < MaxSent
  /\ sent' = Append(sent, item)
  /\ wire' = wire \o bytes
  /\ UNCHANGED <<m_state, m_dataBuffer, jsonBuffer, received>>

\* sendResponse: to Hello, and to RegisterServer, which the library requests when it
\* has been answered Hello.
SendResponse ==
  \/ /\ sent = <<>>
     /\ Transmit(json(HelloResponse), Append(HelloResponse, Newline))
  \/ /\ sent = <<json(HelloResponse)>> /\ m_state = "StateRegister"
     /\ Transmit(json(RegisterResponse), Append(RegisterResponse, Newline))

\* SLIP is on behind the response to RegisterServer, whether it has arrived or not.
SlipEnabled == json(RegisterResponse) \in Range(sent)

\* sendNotification: a client has connected or disconnected.
SendNotification ==
  /\ SlipEnabled
  /\ Transmit(json(Notification),
       SerializeData(BuildFrame([address |-> 0, data |-> Append(Notification, Newline)])))

\* onClientDataAvailable: data of a tunnelled client.
SendTunnelData(f) ==
  /\ SlipEnabled
  /\ Transmit(frame(f), SerializeData(BuildFrame(f)))

-----------------------------------------------------------------------------
(* The library.                                                            *)

\* JsonRpcClient::processData: what is no JSON is dropped.
ProcessJson(r, data) ==
  LET split == SplitPackets(r.json \o data)
      docs  == [k \in DOMAIN split.packets |-> Document(split.packets[k])]
      valid == Only(docs, Documents)
  IN [r EXCEPT !.json = split.rest, !.items = @ \o [k \in DOMAIN valid |-> json(valid[k])]]

EndOfFrame_NotCleared(r) ==
  LET f == ParseFrame(DeserializeData(r.buffer)) IN
  IF r.buffer = <<>> \/ DeserializeData(r.buffer) = <<>> THEN r
  ELSE IF f.address = 0 THEN ProcessJson(r, f.data)
  ELSE [r EXCEPT !.items = Append(@, frame(f))]

\* The byte that ends a frame: the buffer is cleared whatever it held.
EndOfFrame(r) ==
  LET f == ParseFrame(DeserializeData(r.buffer))
      cleared == [r EXCEPT !.buffer = <<>>]
  IN
  IF DeserializeData(r.buffer) = <<>> THEN cleared
  ELSE IF f.address = 0 THEN ProcessJson(cleared, f.data)
  ELSE [cleared EXCEPT !.items = Append(@, frame(f))]

DecodeByte(r, byte) ==
  IF byte = ProtocolByteEnd THEN EndOfFrame(r) ELSE [r EXCEPT !.buffer = Append(@, byte)]

\* onHelloFinished and onServerRegistrationFinished.
StateAfter(items) ==
  IF json(RegisterResponse) \in Range(items) THEN "StateRunning"
  ELSE IF json(HelloResponse) \in Range(items) THEN "StateRegister"
  ELSE m_state

\* A read of n bytes: onConnectionDataAvailable.
Receive(n) ==
  LET now   == [buffer |-> m_dataBuffer, json |-> jsonBuffer, items |-> <<>>]
      read[k \in 0..n] == IF k = 0 THEN now ELSE DecodeByte(read[k - 1], wire[k])
      after == IF m_state = "StateRunning" THEN read[n]
               ELSE [ProcessJson(now, SubSeq(wire, 1, n)) EXCEPT !.buffer = <<>>]
  IN
  /\ m_state # "StateRunning" =>
       /\ FragmentResponses \/ \E i \in 1..n : wire[i] = Newline
       /\ CoalesceReads \/ \A i \in 1..(n - 1) : wire[i] # Newline
  /\ wire' = SubSeq(wire, n + 1, Len(wire))
  /\ m_dataBuffer' = after.buffer
  /\ jsonBuffer' = after.json
  /\ received' = received \o after.items
  /\ m_state' = StateAfter(after.items)
  /\ UNCHANGED sent

-----------------------------------------------------------------------------

Next ==
  \/ SendResponse
  \/ SendNotification
  \/ \E f \in TunnelFrames : SendTunnelData(f)
  \/ \E n \in 1..Len(wire) : Receive(n)

Spec == Init /\ [][Next]_vars

-----------------------------------------------------------------------------

\* What the library handles is what the proxy sent, in the order it was sent: no
\* tunnel data is taken for JSON, given to another socket, or handed on twice.
OnlySentArrives == IsPrefix(received, sent)

\* Once all bytes are read, everything the proxy sent has been handled ("Protocol
\* from now on SLIP" holds on both sides from the same byte on).
NothingLost == wire = <<>> => received = sent
=============================================================================
