---------------------------- MODULE JsonPackets ----------------------------
(***************************************************************************)
(* How JSON packets are cut out of a byte stream, by the proxy             *)
(* (TunnelProxyClient::processData without SLIP) and in the same way by    *)
(* the client library (JsonRpcClient::processData): never by parsing, only *)
(* by looking for braces and newlines.  A document is written in these     *)
(* bytes; any other byte stands for text without braces and newlines.      *)
(***************************************************************************)
EXTENDS Integers, Sequences, SequencesExt

Newline == 10
Open    == 123
Close   == 125

\* Where the data holds "}\n{": a packet ends at the brace, the next begins behind
\* the newline.
Cuts(data) ==
  {i \in 1..(Len(data) - 2) : SubSeq(data, i, i + 2) = <<Close, Newline, Open>>}

\* One turn of the loop: the packet before the first cut is taken out.
CutFirst(split) ==
  LET first == Min(Cuts(split.rest)) IN
  IF Cuts(split.rest) = {} THEN split
  ELSE [packets |-> Append(split.packets, SubSeq(split.rest, 1, first)),
        rest    |-> SubSeq(split.rest, first + 2, Len(split.rest))]

\* The loop, which ends when there is no cut.
CutAll(data) ==
  LET split[n \in 0..Len(data)] ==
        IF n = 0 THEN [packets |-> <<>>, rest |-> data] ELSE CutFirst(split[n - 1])
  IN split[Len(data)]

\* What is left behind the last cut is taken as a packet if it ends like one.
LooksComplete(data) ==
  IsSuffix(<<Close>>, data) \/ IsSuffix(<<Close, Newline>>, data)

SplitPackets_NotCut(data) ==
  IF LooksComplete(data) THEN [packets |-> <<data>>, rest |-> <<>>]
  ELSE [packets |-> <<>>, rest |-> data]

\* The packets in the buffered data, and what stays in the buffer.
SplitPackets(data) ==
  LET cut == CutAll(data) IN
  IF LooksComplete(cut.rest) THEN [packets |-> Append(cut.packets, cut.rest), rest |-> <<>>]
  ELSE cut

\* The elements of a sequence that are in a set.
Only(seq, S) == FlattenSeq([i \in DOMAIN seq |-> IF seq[i] \in S THEN <<seq[i]>> ELSE <<>>])

\* The document in a packet, as the JSON parser sees it: without whitespace.
Document(packet) == Only(packet, Range(packet) \ {Newline})
=============================================================================
