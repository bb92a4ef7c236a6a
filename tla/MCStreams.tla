------------------------------ MODULE MCStreams ------------------------------
(***************************************************************************)
(* Instances for TLC of what reads and writes streams of bytes: the stream *)
(* to the proxy, the stream to the library, the one to the monitor, and    *)
(* the SLIP codec by itself.  They share no state, so a behaviour is one   *)
(* of the four, by the value of "part".                                    *)
(***************************************************************************)
EXTENDS SlipData, JsonPackets

CONSTANTS
  Parts,               \* which parts are run
  Frames,              \* the frames the server sends
  InconsistentFrames,  \* the faulty encodings it sends
  TunnelFrames,        \* the frames of tunnel data the proxy sends
  FragmentRequests, FragmentResponses, CoalesceReads,
  Modes, CoalesceRequests, CutEnds,   \* of the monitor
  MaxUp, MaxDown,      \* bound: what is sent to the proxy, and to the library
  MaxLength,           \* bound: the length of the byte sequences for the codec
  MaxRequests, MaxPieces   \* bound: what is on its way between monitor and proxy

VARIABLES
  part,
  sent, wire, received, m_dataBuffer,
  m_slipEnabled, closing,             \* of the proxy
  m_state, jsonBuffer,                \* of the library
  mode, program, socket, shown,       \* of the monitor program
  m_clients, requests                 \* of the monitor server

\* An empty frame, one with data, and one for the JSON-RPC server.
PlainFrames ==
  {[address |-> 1, data |-> <<>>], [address |-> 258, data |-> <<65>>],
   [address |-> 0, data |-> <<Open, 1, Close, Newline>>]}

\* Protocol bytes in the address or in the data.
EscapedFrames ==
  {[address |-> ProtocolByteEnd, data |-> <<65>>],
   [address |-> 1, data |-> <<ProtocolByteEsc, 65>>]}

\* An escape byte before a byte that is never escaped.
FaultyCodes == {<<0, 1, ProtocolByteEsc, 65>>, <<ProtocolByteEsc, 65>>}

NoCodes == {}

\* Plain data and data that looks like JSON or like SLIP, on an address with one escaped
\* byte and on one with two.
MCTunnelFrames ==
  {[address |-> 1, data |-> <<Open, 65, Close, Newline>>],
   [address |-> ProtocolByteEnd, data |-> <<65, ProtocolByteEsc>>],
   [address |-> 256 * ProtocolByteEsc + ProtocolByteEnd, data |-> <<ProtocolByteTransposedEnd>>]}

\* Two bytes that mean nothing and those that SLIP is made of.
Bytes == {0, 65, ProtocolByteEnd, ProtocolByteEsc,
          ProtocolByteTransposedEnd, ProtocolByteTransposedEsc}

Up   == INSTANCE ServerUplink WITH MaxSent <- MaxUp
Down == INSTANCE ServerDownlink WITH MaxSent <- MaxDown
Monitor == INSTANCE MonitorSession

serverVars  == <<sent, received, m_slipEnabled, closing, m_state, jsonBuffer>>
monitorVars == <<mode, program, socket, shown, m_clients, requests>>
vars == <<part, wire, m_dataBuffer, serverVars, monitorVars>>

Init == part \in Parts /\ Up!Init /\ Down!Init /\ Monitor!Init

Uplink ==
  part = "uplink" /\ Up!Next /\ UNCHANGED <<part, m_state, jsonBuffer, monitorVars>>
Downlink ==
  part = "downlink" /\ Down!Next /\ UNCHANGED <<part, m_slipEnabled, closing, monitorVars>>
Monitoring ==
  part = "monitor" /\ Monitor!Next /\ UNCHANGED <<part, serverVars>>

\* Every short byte sequence.
Codec ==
  /\ part = "codec"
  /\ Len(wire) < MaxLength
  /\ \E byte \in Bytes : wire' = Append(wire, byte)
  /\ UNCHANGED <<part, m_dataBuffer, serverVars, monitorVars>>

Next == Uplink \/ Downlink \/ Monitoring \/ Codec
Spec == Init /\ [][Next]_vars

-----------------------------------------------------------------------------

\* TunnelProxyClient::processData: every frame handled is one the server sent, with its
\* address and data, and in its order, however the bytes are cut.
FramesIntact == part = "uplink" => Up!FramesIntact

\* TunnelProxyClient::processData: what is more, a server that sends nothing but well-formed
\* requests, each read whole, is not disconnected, and once all its bytes are read every
\* request and, if it encodes well, every frame has been handled.
UplinkIntact ==
  /\ FramesIntact
  /\ part = "uplink" => Up!WellBehavedStays /\ Up!NothingLostWithoutFault

\* TunnelProxySocketServer::onConnectionDataAvailable: what the library handles is what
\* the proxy sent, in its order: no tunnel data is taken for JSON or handed on twice.  Once
\* all bytes are read, everything has been handled.
DownlinkIntact == part = "downlink" => Down!OnlySentArrives /\ Down!NothingLost

\* MonitorClient::onReadyRead: however responses are cut or read together, the buffer of the
\* client begins where a response begins, so that a response that is dropped takes no part of
\* the next one with it; and what is shown or printed is one whole response, never parts of two.
OnlyWholeResponses == part = "monitor" => Monitor!OnlyWholeResponses

\* deserializeData undoes serializeData, with or without the end byte, which the receivers
\* cut off, and parseFrame undoes buildFrame.
RoundTrip ==
  \A address \in {1, 192, 219, 255, 256, 56540, 65534} :
    LET f    == [address |-> address, data |-> wire]
        code == SerializeData(BuildFrame(f))
    IN \A bytes \in {code, Front(code)} : ParseFrame(DeserializeData(bytes)) = f

\* Received data is decoded to what would be encoded like it, and to nothing if there is no
\* such data.  Only an escape byte in the end is overlooked.
DecodesOnlyEncodings ==
  LET decoded == DeserializeData(wire) IN
  ProtocolByteEnd \notin Range(wire) /\ decoded # <<>> =>
    \/ SerializeData(decoded) = Append(wire, ProtocolByteEnd)
    \/ /\ SerializeData(decoded) = Append(Front(wire), ProtocolByteEnd)
       /\ Last(wire) = ProtocolByteEsc

\* serializeData and deserializeData agree on every byte sequence, and the end byte occurs
\* in the end of an encoding only, so that receivers find the frames in the stream.
CodecAgrees ==
  part = "codec" =>
    /\ RoundTrip
    /\ DecodesOnlyEncodings
    /\ LET code == SerializeData(wire) IN
         \A i \in DOMAIN code : code[i] = ProtocolByteEnd <=> i = Len(code)
=============================================================================
