--------------------------- MODULE MonitorSession ---------------------------
(***************************************************************************)
(* The monitor program and the MonitorServer of the proxy: requests to     *)
(* refresh one way, statistics the other, over a local socket.             *)
(*                                                                         *)
(* A request is short and written at once.  A response is long: it comes   *)
(* in pieces, its last ones being the closing brace and the newline, and   *)
(* a read takes any number of pieces.  Its content does not matter.        *)
(***************************************************************************)
EXTENDS Naturals, SequencesExt, FiniteSetsExt

CONSTANTS
  Modes,             \* how the program may be started
  CoalesceRequests,  \* may the server be so slow that it reads two requests at once?
  CutEnds,           \* may a read end between the brace and the newline?
  MaxRequests,       \* bound: requests the server has not read
  MaxPieces          \* bound: pieces of responses that are not read, or kept

VARIABLES
  mode,          \* how the program was started
  program,       \* what has become of it
  socket,        \* the connection: "none", "pending" at the server, "open" or "closed"
  m_clients,     \* is the connection among the clients of the MonitorServer?
  requests,      \* how many requests the server has not read
  wire,          \* pieces the program has not read
  m_dataBuffer,  \* pieces the MonitorClient keeps
  shown          \* the pieces of the document dataReady was last emitted for

programVars == <<program, m_dataBuffer, shown>>
serverVars  == <<m_clients>>
vars == <<mode, socket, requests, wire, programVars, serverVars>>

ASSUME ModesAssumption == Modes \subseteq {"interactive", "nonInteractive", "json"}

\* sendMonitorData.
Response == <<"begin", "rest", "brace", "newline">>
Document == <<"begin", "rest", "brace">>

Pieces == {"begin", "rest", "brace", "newline"}

TypeOK ==
  /\ mode \in Modes
  /\ program \in {"starting", "running", "ended"}
  /\ socket \in {"none", "pending", "open", "closed"}
  /\ m_clients \in BOOLEAN
  /\ requests \in 0..MaxRequests
  /\ wire \in Seq(Pieces) /\ Len(wire) <= MaxPieces
  /\ m_dataBuffer \in Seq(Pieces) /\ Len(m_dataBuffer) <= MaxPieces
  /\ shown \in Seq(Pieces)

\* main() has found the socket file.
Init ==
  /\ mode \in Modes
  /\ program = "starting"
  /\ socket = "none"
  /\ m_clients = FALSE
  /\ requests = 0
  /\ wire = <<>>
  /\ m_dataBuffer = <<>>
  /\ shown = <<>>

Connection == socket \in {"pending", "open"}

-----------------------------------------------------------------------------
(* The program.                                                            *)

\* onConnected: the first request; the interactive monitor also starts its timer.
OnConnected ==
  /\ program = "starting"
  /\ program' = "running"
  /\ socket' = "pending"
  /\ requests' = 1
  /\ UNCHANGED <<mode, wire, m_dataBuffer, shown, serverVars>>

\* The refresh timer of the interactive monitor, every second.
Refresh ==
  /\ program = "running" /\ mode = "interactive"
  /\ Connection
  /\ requests < (IF CoalesceRequests THEN MaxRequests ELSE 1)
  /\ requests' = requests + 1
  /\ UNCHANGED <<mode, socket, wire, programVars, serverVars>>

\* The program ends, and the system closes its socket.
Exit ==
  /\ program' = "ended"
  /\ socket' = "closed"

Parses(buffer) == SelectSeq(buffer, LAMBDA piece : piece # "newline") = Document

ProcessBufferData_Unparsed(buffer) ==
  /\ shown' = SelectSeq(buffer, LAMBDA piece : piece # "newline")
  /\ IF mode = "interactive" THEN UNCHANGED <<program, socket>> ELSE Exit

\* processBufferData: what is not one document is dropped.  All but the interactive
\* monitor end with the first one.
ProcessBufferData(buffer) ==
  IF Parses(buffer)
  THEN /\ shown' = Document
       /\ IF mode = "interactive" THEN UNCHANGED <<program, socket>> ELSE Exit
  ELSE UNCHANGED <<shown, program, socket>>

\* Where the first response ends in what is read.
EndsAt(data) == {i \in 1..(Len(data) - 1) : data[i] = "brace" /\ data[i + 1] = "newline"}

OnReadyRead_DropsData(n) ==
  /\ program = "running"
  /\ CutEnds \/ wire[n] # "brace"
  /\ LET data == SubSeq(wire, 1, n)
     IN IF EndsAt(data) = {}
        THEN /\ m_dataBuffer' = data
             /\ UNCHANGED <<shown, program, socket>>
        ELSE /\ ProcessBufferData(m_dataBuffer \o SubSeq(data, 1, Min(EndsAt(data))))
             /\ m_dataBuffer' = SubSeq(data, Min(EndsAt(data)) + 2, n)
  /\ wire' = SubSeq(wire, n + 1, Len(wire))
  /\ UNCHANGED <<mode, requests, serverVars>>

OnReadyRead_KeepsNewline(n) ==
  /\ program = "running"
  /\ CutEnds \/ wire[n] # "brace"
  /\ LET data == SubSeq(wire, 1, n)
     IN IF EndsAt(data) = {}
        THEN /\ m_dataBuffer' = m_dataBuffer \o data
             /\ UNCHANGED <<shown, program, socket>>
        ELSE /\ ProcessBufferData(m_dataBuffer \o SubSeq(data, 1, Min(EndsAt(data))))
             /\ m_dataBuffer' = SubSeq(data, Min(EndsAt(data)) + 1, n)
  /\ Len(m_dataBuffer') <= MaxPieces
  /\ wire' = SubSeq(wire, n + 1, Len(wire))
  /\ UNCHANGED <<mode, requests, serverVars>>

\* onReadyRead: what lies behind that end is kept, and not looked at before more arrives.
OnReadyRead(n) ==
  /\ program = "running"
  /\ CutEnds \/ wire[n] # "brace"
  /\ LET data == SubSeq(wire, 1, n)
     IN IF EndsAt(data) = {}
        THEN /\ m_dataBuffer' = m_dataBuffer \o data
             /\ UNCHANGED <<shown, program, socket>>
        ELSE /\ ProcessBufferData(m_dataBuffer \o SubSeq(data, 1, Min(EndsAt(data))))
             /\ m_dataBuffer' = SubSeq(data, Min(EndsAt(data)) + 2, n)
  /\ Len(m_dataBuffer') <= MaxPieces
  /\ wire' = SubSeq(wire, n + 1, Len(wire))
  /\ UNCHANGED <<mode, requests, serverVars>>

\* Monitor::onDisconnected, behind the last data.  Only the interactive monitor has it.
OnDisconnected ==
  /\ program = "running" /\ socket = "closed"
  /\ wire = <<>>
  /\ mode = "interactive"
  /\ program' = "ended"
  /\ UNCHANGED <<mode, socket, requests, wire, m_dataBuffer, shown, serverVars>>

\* Escape in the terminal window.
EventLoopEscape ==
  /\ program = "running" /\ mode = "interactive"
  /\ Exit
  /\ UNCHANGED <<mode, requests, wire, m_dataBuffer, shown, serverVars>>

-----------------------------------------------------------------------------
(* The server.                                                             *)

OnMonitorConnected ==
  /\ socket = "pending"
  /\ socket' = "open"
  /\ m_clients' = TRUE
  /\ UNCHANGED <<mode, requests, wire, programVars>>

\* The server closes the connection; with data still to write it is disconnected later.
Closes ==
  /\ socket' = "closed"
  /\ m_clients' \in {m_clients, FALSE}

\* What is read is parsed as one request.
ProcessRequest(n) == n = 1

\* onMonitorReadyRead: an answer, or the end of the connection.
OnMonitorReadyRead(n) ==
  /\ socket = "open"
  /\ requests' = requests - n
  /\ IF ProcessRequest(n)
     THEN /\ Len(wire) + Len(Response) <= MaxPieces
          /\ wire' = wire \o Response
          /\ UNCHANGED <<socket, serverVars>>
     ELSE Closes /\ UNCHANGED wire
  /\ UNCHANGED <<mode, programVars>>

OnMonitorDisconnected_KeepsClient ==
  /\ m_clients /\ socket = "closed" /\ program = "ended"
  /\ m_clients' = FALSE
  /\ UNCHANGED <<mode, socket, requests, wire, programVars>>

OnMonitorDisconnected ==
  /\ m_clients /\ socket = "closed"
  /\ m_clients' = FALSE
  /\ UNCHANGED <<mode, socket, requests, wire, programVars>>

\* stopServer, with the connections it has not accepted yet.
StopServer ==
  /\ Connection
  /\ Closes
  /\ UNCHANGED <<mode, requests, wire, programVars>>

-----------------------------------------------------------------------------

Next ==
  \/ OnConnected
  \/ Refresh
  \/ \E n \in 1..Len(wire) : OnReadyRead(n)
  \/ OnDisconnected
  \/ EventLoopEscape
  \/ OnMonitorConnected
  \/ \E n \in 1..requests : OnMonitorReadyRead(n)
  \/ OnMonitorDisconnected
  \/ StopServer

\* Both event loops run, and the local socket delivers.
Fairness ==
  /\ WF_vars(OnConnected)
  /\ WF_vars(\E n \in 1..Len(wire) : OnReadyRead(n))
  /\ WF_vars(OnDisconnected)
  /\ WF_vars(OnMonitorConnected)
  /\ WF_vars(\E n \in 1..requests : OnMonitorReadyRead(n))
  /\ WF_vars(OnMonitorDisconnected)

Spec == Init /\ [][Next]_vars /\ Fairness

-----------------------------------------------------------------------------

\* Responses behind each other, from the start of the first to the end of the last.
Whole(pieces) ==
  /\ Len(pieces) % Len(Response) = 0
  /\ \A i \in DOMAIN pieces : pieces[i] = Response[((i - 1) % Len(Response)) + 1]

\* onReadyRead: the buffer begins where a response begins, and what is shown is a whole one.
\* MCStreams checks it.
OnlyWholeResponses == shown \in {<<>>, Document} /\ Whole(m_dataBuffer \o wire)

\* A monitor that asks once prints the answer and ends, unless the server closes first:
\* the pieces of a response come together in the buffer.
AskedOnceAnswered ==
  program = "running" /\ mode # "interactive" ~> program = "ended" \/ socket = "closed"

\* Both sides notice the end of the connection, whichever of them it comes from: the
\* server forgets the monitor, and the interactive monitor does not outlive its server,
\* also not one that closes because it read two requests at once.
EndNoticed ==
  socket = "closed" ~> ~m_clients /\ (mode = "interactive" => program = "ended")
=============================================================================
