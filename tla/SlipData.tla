------------------------------ MODULE SlipData ------------------------------
(***************************************************************************)
(* SlipDataProcessor: the framing of the data between the proxy and a      *)
(* registered server.  A QByteArray is a sequence of bytes.  A null one,   *)
(* which deserializeData returns for inconsistent data, is empty, and it   *)
(* returns no other empty one: nothing but an append makes its result not  *)
(* null.  So the empty sequence stands for null.                           *)
(***************************************************************************)
EXTENDS Integers, Sequences, SequencesExt

ProtocolByteEnd           == 192
ProtocolByteEsc           == 219
ProtocolByteTransposedEnd == 220
ProtocolByteTransposedEsc == 221

\* What follows the escape byte in place of a protocol byte.
Transposed ==
  [byte \in {ProtocolByteEnd, ProtocolByteEsc} |->
    IF byte = ProtocolByteEnd THEN ProtocolByteTransposedEnd ELSE ProtocolByteTransposedEsc]

WriteByte(byte) ==
  IF byte \in DOMAIN Transposed THEN <<ProtocolByteEsc, Transposed[byte]>> ELSE <<byte>>

SerializeData(data) ==
  FlattenSeq([i \in DOMAIN data |-> WriteByte(data[i])]) \o <<ProtocolByteEnd>>

ReadByte_StaysEscaped(r, byte) ==
  LET original == {b \in DOMAIN Transposed : Transposed[b] = byte} IN
  IF r.at = "plain" /\ byte = ProtocolByteEsc THEN [r EXCEPT !.at = "escaped"]
  ELSE IF r.at = "plain" THEN [r EXCEPT !.data = Append(@, byte)]
  ELSE [r EXCEPT !.data = @ \o SetToSeq(original)]

\* One turn of the loop of deserializeData.  "ended" and "inconsistent" are its two
\* early exits, after which nothing is read.
ReadByte(r, byte) ==
  LET original == {b \in DOMAIN Transposed : Transposed[b] = byte} IN
  CASE r.at = "escaped" /\ original # {} ->
         [data |-> r.data \o SetToSeq(original), at |-> "plain"]
    [] r.at = "escaped" /\ original = {} -> [data |-> <<>>, at |-> "inconsistent"]
    [] r.at = "plain" /\ byte = ProtocolByteEsc -> [r EXCEPT !.at = "escaped"]
    [] r.at = "plain" /\ byte = ProtocolByteEnd -> [r EXCEPT !.at = "ended"]
    [] r.at = "plain" /\ byte \notin DOMAIN Transposed ->
         [data |-> Append(r.data, byte), at |-> "plain"]
    [] OTHER -> r

DeserializeData(data) ==
  LET read[n \in 0..Len(data)] ==
        IF n = 0 THEN [data |-> <<>>, at |-> "plain"] ELSE ReadByte(read[n - 1], data[n])
  IN read[Len(data)].data

\* A frame: the quint16 socket address, big endian, and the data.
BuildFrame(frame) == <<frame.address \div 256, frame.address % 256>> \o frame.data

\* A data stream read past its end leaves 0 in the address and is at its end.
ParseFrame(data) ==
  IF Len(data) < 2 THEN [address |-> 0, data |-> <<>>]
  ELSE [address |-> 256 * data[1] + data[2], data |-> SubSeq(data, 3, Len(data))]
=============================================================================
