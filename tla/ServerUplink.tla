---------------------------- MODULE ServerUplink ----------------------------
(***************************************************************************)
(* The byte stream from a server's library to the proxy: JSON requests     *)
(* until RegisterServer is answered, SLIP frames from then on.  The stream *)
(* socket delivers the bytes in order and in chunks of any size; the proxy *)
(* cuts packets out of them in TunnelProxyClient::processData, with one    *)
(* buffer for both encodings.                                              *)
(*                                                                         *)
(* Abstractions.  Two requests stand for all: Hello, which has no          *)
(* parameters, and RegisterServer, whose parameters are an object of their *)
(* own.  The size limit of the buffer, and whether a frame is for the      *)
(* JSON-RPC server or for a client, are left to TunnelProxyServer.         *)
(***************************************************************************)
EXTENDS SlipData, JsonPackets

CONSTANTS
  Frames,              \* the frames the server sends: address and data
  InconsistentFrames,  \* the faulty SLIP encodings it may send between them
  FragmentRequests,    \* may a request be split between two chunks?
  MaxSent              \* bound: how many requests and frames are sent

Hello          == <<Open, 1, Close>>
RegisterServer == <<Open, 2, Open, 3, Close, Close>>
Requests       == {Hello, RegisterServer}

VARIABLES
  sent,          \* what the server has sent: requests, frames and faulty encodings
  wire,          \* the bytes not yet read by the proxy
  m_dataBuffer,  \* TransportClient::m_dataBuffer
  m_slipEnabled, \* TransportClient::m_slipEnabled
  closing,       \* the proxy has closed the socket
  received       \* the requests and frames the proxy has handled

vars == <<sent, wire, m_dataBuffer, m_slipEnabled, closing, received>>

request(doc) == [kind |-> "request", content |-> doc]
frame(f)     == [kind |-> "frame", content |-> f]
faulty(code) == [kind |-> "faulty", content |-> code]

Init ==
  /\ sent = <<>>
  /\ wire = <<>>
  /\ m_dataBuffer = <<>>
  /\ m_slipEnabled = FALSE
  /\ closing = FALSE
  /\ received = <<>>

-----------------------------------------------------------------------------
(* The server.                                                             *)

Transmit(item, bytes) ==
  /\ Len(sent) < MaxSent
  /\ ~closing
  /\ sent' = Append(sent, item)
  /\ wire' = wire \o bytes
  /\ UNCHANGED <<m_dataBuffer, m_slipEnabled, closing, received>>

\* JsonRpcClient::sendRequest.  RegisterServer is the last request, as SLIP follows it.
SendRequest(doc) ==
  /\ request(RegisterServer) \notin Range(sent)
  /\ Transmit(request(doc), Append(doc, Newline))

\* TunnelProxySocket::writeData, and sendRequest over SLIP, once registered.
SendFrame(f) ==
  /\ m_slipEnabled
  /\ Transmit(frame(f), SerializeData(BuildFrame(f)))

\* A server that encodes a frame wrongly.
SendFaulty(code) ==
  /\ m_slipEnabled
  /\ Transmit(faulty(code), Append(code, ProtocolByteEnd))

-----------------------------------------------------------------------------
(* The proxy.                                                              *)

\* processData at the byte that ends a frame.  The data is decoded only to see
\* whether it can be, and what is passed on is the buffer as it was received.
EndOfFrame(d) ==
  IF d.buffer = <<>> \/ DeserializeData(d.buffer) = <<>> THEN d
  ELSE [buffer |-> <<>>, frames |-> Append(d.frames, ParseFrame(d.buffer))]

\* processData with SLIP, one byte.
DecodeByte(d, byte) ==
  IF byte = ProtocolByteEnd THEN EndOfFrame(d) ELSE [d EXCEPT !.buffer = Append(@, byte)]

\* Data with SLIP: its frames are handled in their order.
ReceiveFrames(chunk) ==
  LET read[k \in 0..Len(chunk)] ==
        IF k = 0 THEN [buffer |-> m_dataBuffer, frames |-> <<>>]
        ELSE DecodeByte(read[k - 1], chunk[k])
      decoded == read[Len(chunk)]
  IN
  /\ m_dataBuffer' = decoded.buffer
  /\ received' = received \o [k \in DOMAIN decoded.frames |-> frame(decoded.frames[k])]
  /\ UNCHANGED <<m_slipEnabled, closing>>

\* Data without SLIP: a packet that is no JSON closes the connection, the answer to
\* RegisterServer switches SLIP on.
ReceiveRequests(chunk) ==
  LET split == SplitPackets(m_dataBuffer \o chunk)
      docs  == [k \in DOMAIN split.packets |-> Document(split.packets[k])]
      valid == Only(docs, Requests)
  IN
  /\ m_dataBuffer' = split.rest
  /\ received' = received \o [k \in DOMAIN valid |-> request(valid[k])]
  /\ closing' = (Len(valid) < Len(docs))
  /\ m_slipEnabled' = (RegisterServer \in Range(valid))

\* A readyRead of n bytes.
Receive(n) ==
  /\ ~closing
  /\ wire' = SubSeq(wire, n + 1, Len(wire))
  /\ UNCHANGED sent
  /\ IF m_slipEnabled THEN ReceiveFrames(SubSeq(wire, 1, n))
     ELSE /\ FragmentRequests \/ wire[n] = Newline
          /\ ReceiveRequests(SubSeq(wire, 1, n))

-----------------------------------------------------------------------------

Next ==
  \/ \E doc \in Requests : SendRequest(doc)
  \/ \E f \in Frames : SendFrame(f)
  \/ \E code \in InconsistentFrames : SendFaulty(code)
  \/ \E n \in 1..Len(wire) : Receive(n)

Spec == Init /\ [][Next]_vars

-----------------------------------------------------------------------------

WellEncoded == {request(doc) : doc \in Requests} \cup {frame(f) : f \in Frames}

\* A server that sends nothing but well-formed requests is not disconnected, however
\* its bytes are cut into chunks ("Handle json packet fragmentation").
WellBehavedStays == ~closing

\* What the proxy handles is what the server sent, every frame with its address and data,
\* in the order it was sent and without gaps.
FramesIntact == IsPrefix(received, Only(sent, WellEncoded))

\* Once all bytes are read, every well-formed request and frame has been handled: a
\* faulty encoding is ignored by itself, and no request or frame with it.
NothingLost == wire = <<>> /\ ~closing => received = Only(sent, WellEncoded)

\* As long as the server has encoded everything well.
NothingLostWithoutFault == Range(sent) \subseteq WellEncoded => NothingLost
=============================================================================
