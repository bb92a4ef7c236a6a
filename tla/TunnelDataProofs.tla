--------------------------- MODULE TunnelDataProofs ---------------------------
(***************************************************************************)
(* Proofs about TunnelData, for any number of clients, addresses, pieces   *)
(* of data and registrations of the server.                                *)
(***************************************************************************)
EXTENDS TunnelData, TLAPS

-----------------------------------------------------------------------------
(* The inductive invariant.                                                *)

\* The proxy has an address for a client.
Live(c) == socketAddress[c] # Reserved

\* The places that say that an address is, or was, a client's: the proxy, the library, and
\* what is under way between them.
Names(m, a, c) ==
  /\ m.address = a
  /\ \/ m.message = "data" /\ m.data.client = c
     \/ m.message = "ClientConnected" /\ m.client = c

Named(queue, a, c) == \E i \in DOMAIN queue : Names(queue[i], a, c)

Claims(a, c) ==
  \/ a # Reserved /\ socketAddress[c] = a
  \/ m_tunnelProxySockets[a] = c
  \/ Named(toServer, a, c)
  \/ Named(fromServer, a, c)

\* A client has one address for good, and never one of the reserved ones.
OneAddress ==
  \A c \in Clients : \A a \in Addresses : Claims(a, c) =>
    /\ a # 0 /\ a # Reserved
    /\ \A b \in Addresses : Claims(b, c) => a = b

\* The proxy has an address for one client at a time.
OneLive == \A c, d \in Clients : Live(c) /\ socketAddress[c] = socketAddress[d] => c = d

\* While a client has an address that was settled, nothing about it is about another client.
Exclusive ==
  \A c \in Clients \ early : Live(c) =>
    \A d \in Clients : Claims(socketAddress[c], d) => c = d

\* A client that has not come yet has left no trace.
Untouched ==
  \A c \in Clients : tunnel[c] = "none" =>
    /\ ~Live(c)
    /\ \A a \in Addresses : ~Claims(a, c)
    /\ fromClient[c] = <<>> /\ toClient[c] = <<>>
    /\ written[c] = 0 /\ received[c] = <<>>
    /\ answered[c] = 0 /\ delivered[c] = <<>>

\* Who has lost the other end has given up what belongs to it.
Ends ==
  /\ ~serverConnection => \A c \in Clients : ~Live(c)
  /\ ~running => \A a \in Addresses : m_tunnelProxySockets[a] = NoClient
  /\ \A c \in Clients : tunnel[c] = "open" => Live(c)
  /\ \A c \in Clients : Live(c) => tunnel[c] \in {"open", "closing"}

IsData(m, c) == m.message = "data" /\ m.data.client = c

\* The data of a client in a queue goes on where "low" ends, without gaps, and not beyond
\* "high".
Continues(queue, c, low, high) ==
  /\ \A i \in DOMAIN queue : IsData(queue[i], c) => queue[i].data.number \in (low + 1)..high
  /\ \A i, j \in DOMAIN queue :
       IsData(queue[i], c) /\ IsData(queue[j], c) /\ i < j
         => queue[i].data.number < queue[j].data.number
  /\ \A i \in DOMAIN queue : IsData(queue[i], c) =>
       \A n \in (low + 1)..(queue[i].data.number - 1) :
         \E j \in DOMAIN queue : j < i /\ IsData(queue[j], c) /\ queue[j].data.number = n

\* All of it is there.
Complete(queue, c, low, high) ==
  \A n \in (low + 1)..high :
    \E j \in DOMAIN queue : IsData(queue[j], c) /\ queue[j].data.number = n

Forwarded(c) == written[c] - Len(fromClient[c])
Arrived(c)   == Len(delivered[c]) + Len(toClient[c])

\* From the client to the server.
Uplink ==
  \A c \in Clients :
    /\ Len(received[c]) <= Forwarded(c)
    /\ InOrder(received[c], c)
    /\ \A i \in DOMAIN fromClient[c] : fromClient[c][i] = [client |-> c, number |-> Forwarded(c) + i]
    /\ running => Continues(toServer, c, Len(received[c]), Forwarded(c))
    /\ running /\ Live(c) => Complete(toServer, c, Len(received[c]), Forwarded(c))

\* And back, for a client whose address was settled: data written for one that has gone,
\* or is going, may be lost.
Downlink ==
  \A c \in Clients \ early :
    /\ Arrived(c) <= answered[c]
    /\ InOrder(delivered[c], c)
    /\ \A i \in DOMAIN toClient[c] :
         toClient[c][i] = [client |-> c, number |-> Len(delivered[c]) + i]
    /\ tunnel[c] = "open" => /\ Continues(fromServer, c, Arrived(c), answered[c])
                             /\ Complete(fromServer, c, Arrived(c), answered[c])

\* What the library is told about an address, and who has it, as far as the library will
\* know when it comes to position i: whom the last message about it names, or else the
\* client it has a socket for.
Tells(m, a)        == m.message # "data" /\ m.address = a
Connects(m, a, c)  == m.message = "ClientConnected" /\ m.address = a /\ m.client = c

HolderAt(queue, sockets, i, a, c) ==
  \/ /\ sockets[a] = c
     /\ \A k \in DOMAIN queue : k < i => ~Tells(queue[k], a)
  \/ \E j \in DOMAIN queue :
       /\ j < i /\ Connects(queue[j], a, c)
       /\ \A k \in DOMAIN queue : j < k /\ k < i => ~Tells(queue[k], a)

\* The library knows a client when its data arrives, and as long as the proxy does.
Known ==
  running =>
    /\ \A i \in DOMAIN toServer : \A c \in Clients :
         IsData(toServer[i], c) =>
           HolderAt(toServer, m_tunnelProxySockets, i, toServer[i].address, c)
    /\ \A c \in Clients :
         Live(c) => HolderAt(toServer, m_tunnelProxySockets, Len(toServer) + 1, socketAddress[c], c)

\* When the proxy is asked to disconnect a client, what was written for it before has
\* arrived or comes before the request.
AfterPromise(queue, c, a, low, promise) ==
  \A i \in DOMAIN queue : queue[i].message = "DisconnectClient" /\ queue[i].address = a =>
    /\ promise \in Nat
    /\ \A n \in (low + 1)..promise :
         \E j \in DOMAIN queue : j < i /\ IsData(queue[j], c) /\ queue[j].data.number = n

Promises ==
  \A c \in Clients \ early :
    /\ tunnel[c] = "open" =>
         AfterPromise(fromServer, c, socketAddress[c], Arrived(c), promised[c])
    /\ tunnel[c] = "closing" /\ Live(c) => promised[c] \in Nat /\ Arrived(c) >= promised[c]

IInv ==
  /\ TypeOK
  /\ OneAddress
  /\ OneLive
  /\ Exclusive
  /\ Untouched
  /\ Ends
  /\ Uplink
  /\ Downlink
  /\ Known
  /\ Promises

-----------------------------------------------------------------------------
(* Queues.                                                                 *)

\* A message is put behind the others.
LEMMA Grown ==
  ASSUME NEW S, NEW queue \in Seq(S), NEW m \in S
  PROVE  /\ Append(queue, m) \in Seq(S)
         /\ Len(queue) \in Nat
         /\ Len(Append(queue, m)) = Len(queue) + 1
         /\ DOMAIN queue = 1..Len(queue)
         /\ DOMAIN Append(queue, m) = 1..(Len(queue) + 1)
         /\ Append(queue, m)[Len(queue) + 1] = m
         /\ \A i \in DOMAIN queue :
              i \in Nat /\ i # Len(queue) + 1 /\ i < Len(queue) + 1
              /\ i \in DOMAIN Append(queue, m) /\ Append(queue, m)[i] = queue[i]
         /\ \A i \in DOMAIN Append(queue, m) : i \in DOMAIN queue \/ i = Len(queue) + 1
  OBVIOUS

\* The first message is taken.
LEMMA Shortened ==
  ASSUME NEW S, NEW queue \in Seq(S), queue # <<>>
  PROVE  /\ Head(queue) \in S
         /\ 1 \in DOMAIN queue /\ Head(queue) = queue[1]
         /\ Len(queue) \in Nat /\ DOMAIN queue = 1..Len(queue)
         /\ Tail(queue) \in Seq(S)
         /\ Len(Tail(queue)) = Len(queue) - 1
         /\ \A i \in DOMAIN Tail(queue) :
              i \in Nat /\ i >= 1 /\ i + 1 \in DOMAIN queue /\ Tail(queue)[i] = queue[i + 1]
         /\ \A i \in DOMAIN queue :
              /\ i \in Nat /\ i >= 1
              /\ i # 1 => i - 1 \in DOMAIN Tail(queue) /\ Tail(queue)[i - 1] = queue[i]
  OBVIOUS

\* Nothing is in an empty queue.
LEMMA EmptyQueue == \A S : <<>> \in Seq(S) /\ Len(<<>>) = 0 /\ DOMAIN <<>> = {}
  OBVIOUS

\* A message of something else is put behind the data of a client.
LEMMA OtherSent ==
  ASSUME NEW S, NEW queue \in Seq(S), NEW m \in S, NEW c, NEW low \in Nat, NEW high \in Nat,
         ~IsData(m, c)
  PROVE  /\ Continues(queue, c, low, high) => Continues(Append(queue, m), c, low, high)
         /\ Complete(queue, c, low, high) => Complete(Append(queue, m), c, low, high)
<1>. DEFINE longer == Append(queue, m)
<1>1. /\ \A i \in DOMAIN queue : i \in DOMAIN longer /\ longer[i] = queue[i]
      /\ \A i \in DOMAIN longer : IsData(longer[i], c) => i \in DOMAIN queue /\ longer[i] = queue[i]
  BY Grown
<1>. HIDE DEF longer
<1>. QED  BY SMTT(60), <1>1 DEF Continues, Complete

\* The next piece of data of the client is.
LEMMA NextSent ==
  ASSUME NEW S, NEW queue \in Seq(S), NEW m \in S, NEW c, NEW low \in Nat, NEW high \in Nat,
         low <= high, IsData(m, c), m.data.number = high + 1,
         Continues(queue, c, low, high), Complete(queue, c, low, high)
  PROVE  /\ Continues(Append(queue, m), c, low, high + 1)
         /\ Complete(Append(queue, m), c, low, high + 1)
<1>. DEFINE longer == Append(queue, m)
            last   == Len(queue) + 1
<1>1. /\ \A i \in DOMAIN queue :
           i \in Nat /\ i < last /\ i \in DOMAIN longer /\ longer[i] = queue[i]
      /\ \A i \in DOMAIN longer : i \in DOMAIN queue \/ i = last
      /\ last \in DOMAIN longer /\ longer[last] = m /\ last \in Nat
  BY Grown
<1>. HIDE DEF longer, last
<1>2. ASSUME NEW i \in DOMAIN longer, IsData(longer[i], c)
      PROVE  longer[i].data.number \in (low + 1)..(high + 1)
  <2>1. CASE i = last
    BY <1>1, <2>1
  <2>2. CASE i \in DOMAIN queue
    <3>1. queue[i].data.number \in (low + 1)..high
      BY <1>1, <1>2, <2>2 DEF Continues
    <3>. QED  BY <1>1, <2>2, <3>1
  <2>. QED  BY <1>1, <2>1, <2>2
<1>3. ASSUME NEW i \in DOMAIN longer, NEW j \in DOMAIN longer, i < j,
             IsData(longer[i], c), IsData(longer[j], c)
      PROVE  longer[i].data.number < longer[j].data.number
  <2>1. CASE j = last
    <3>1. i \in DOMAIN queue
      BY <1>1, <1>3, <2>1
    <3>2. queue[i].data.number \in (low + 1)..high
      BY <1>1, <1>3, <3>1 DEF Continues
    <3>. QED  BY <1>1, <2>1, <3>1, <3>2
  <2>2. CASE j \in DOMAIN queue
    <3>1. i \in DOMAIN queue
      BY <1>1, <1>3, <2>2
    <3>. QED  BY <1>1, <1>3, <2>2, <3>1 DEF Continues
  <2>. QED  BY <1>1, <2>1, <2>2
<1>4. ASSUME NEW i \in DOMAIN longer, IsData(longer[i], c),
             NEW n \in (low + 1)..(longer[i].data.number - 1)
      PROVE  \E j \in DOMAIN longer : j < i /\ IsData(longer[j], c) /\ longer[j].data.number = n
  <2>1. CASE i = last
    <3>1. n \in (low + 1)..high
      BY <1>1, <1>4, <2>1
    <3>2. PICK j \in DOMAIN queue : IsData(queue[j], c) /\ queue[j].data.number = n
      BY <3>1 DEF Complete
    <3>. QED  BY <1>1, <2>1, <3>2
  <2>2. CASE i \in DOMAIN queue
    <3>1. PICK j \in DOMAIN queue : j < i /\ IsData(queue[j], c) /\ queue[j].data.number = n
      BY <1>1, <1>4, <2>2 DEF Continues
    <3>. QED  BY <1>1, <3>1
  <2>. QED  BY <1>1, <2>1, <2>2
<1>5. ASSUME NEW n \in (low + 1)..(high + 1)
      PROVE  \E j \in DOMAIN longer : IsData(longer[j], c) /\ longer[j].data.number = n
  <2>1. CASE n = high + 1
    BY <1>1, <2>1
  <2>2. CASE n # high + 1
    <3>1. n \in (low + 1)..high
      BY <2>2
    <3>2. PICK j \in DOMAIN queue : IsData(queue[j], c) /\ queue[j].data.number = n
      BY <3>1 DEF Complete
    <3>. QED  BY <1>1, <3>2
  <2>. QED  BY <2>1, <2>2
<1>6. Continues(longer, c, low, high + 1)
  BY <1>2, <1>3, <1>4 DEF Continues
<1>7. Complete(longer, c, low, high + 1)
  BY <1>5 DEF Complete
<1>. QED  BY <1>6, <1>7 DEF longer

\* A message of something else is read.
LEMMA OtherRead ==
  ASSUME NEW S, NEW queue \in Seq(S), queue # <<>>, NEW c, NEW low \in Nat, NEW high \in Nat,
         ~IsData(Head(queue), c)
  PROVE  /\ Continues(queue, c, low, high) => Continues(Tail(queue), c, low, high)
         /\ Complete(queue, c, low, high) => Complete(Tail(queue), c, low, high)
<1>. DEFINE rest == Tail(queue)
<1>1. /\ \A i \in DOMAIN rest : i \in Nat /\ i + 1 \in DOMAIN queue /\ rest[i] = queue[i + 1]
      /\ \A i \in DOMAIN queue : i \in Nat /\ (IsData(queue[i], c) =>
           i - 1 \in DOMAIN rest /\ rest[i - 1] = queue[i])
  BY Shortened
<1>. HIDE DEF rest
<1>2. ASSUME Continues(queue, c, low, high) PROVE Continues(rest, c, low, high)
  <2>1. ASSUME NEW i \in DOMAIN rest, IsData(rest[i], c),
               NEW n \in (low + 1)..(rest[i].data.number - 1)
        PROVE  \E j \in DOMAIN rest : j < i /\ IsData(rest[j], c) /\ rest[j].data.number = n
    <3>1. PICK j \in DOMAIN queue : j < i + 1 /\ IsData(queue[j], c) /\ queue[j].data.number = n
      BY <1>1, <1>2, <2>1 DEF Continues
    <3>2. j - 1 \in DOMAIN rest /\ j - 1 < i /\ rest[j - 1] = queue[j]
      BY <1>1, <3>1
    <3>. QED  BY <3>1, <3>2
  <2>2. ASSUME NEW i \in DOMAIN rest, NEW j \in DOMAIN rest, i < j,
               IsData(rest[i], c), IsData(rest[j], c)
        PROVE  rest[i].data.number < rest[j].data.number
    <3>1. i + 1 \in DOMAIN queue /\ j + 1 \in DOMAIN queue /\ i + 1 < j + 1
      BY <1>1, <2>2
    <3>2. rest[i] = queue[i + 1] /\ rest[j] = queue[j + 1]
      BY <1>1
    <3>. QED  BY <1>2, <2>2, <3>1, <3>2 DEF Continues
  <2>. QED  BY <1>1, <1>2, <2>1, <2>2 DEF Continues
<1>3. ASSUME Complete(queue, c, low, high) PROVE Complete(rest, c, low, high)
  <2>. SUFFICES ASSUME NEW n \in (low + 1)..high
                PROVE  \E j \in DOMAIN rest : IsData(rest[j], c) /\ rest[j].data.number = n
    BY DEF Complete
  <2>1. PICK j \in DOMAIN queue : IsData(queue[j], c) /\ queue[j].data.number = n
    BY <1>3 DEF Complete
  <2>2. j - 1 \in DOMAIN rest /\ rest[j - 1] = queue[j]
    BY <1>1, <2>1
  <2>. QED  BY <2>1, <2>2
<1>. QED  BY <1>2, <1>3 DEF rest

\* Data of the client is read: it is the next one.
LEMMA NextRead ==
  ASSUME NEW S, NEW queue \in Seq(S), queue # <<>>, NEW c, NEW low \in Nat, NEW high \in Nat,
         IsData(Head(queue), c), Continues(queue, c, low, high)
  PROVE  /\ Head(queue).data.number = low + 1 /\ low + 1 <= high
         /\ Continues(Tail(queue), c, low + 1, high)
         /\ Complete(queue, c, low, high) => Complete(Tail(queue), c, low + 1, high)
<1>. DEFINE rest == Tail(queue)
<1>1. /\ \A i \in DOMAIN rest :
           i \in Nat /\ i >= 1 /\ i + 1 \in DOMAIN queue /\ rest[i] = queue[i + 1]
      /\ \A i \in DOMAIN queue : i \in Nat /\ i >= 1 /\ (i # 1 =>
           i - 1 \in DOMAIN rest /\ rest[i - 1] = queue[i])
      /\ 1 \in DOMAIN queue /\ Head(queue) = queue[1]
  BY Shortened
<1>. HIDE DEF rest
<1>2. queue[1].data.number \in (low + 1)..high
  BY <1>1 DEF Continues
<1>3. queue[1].data.number = low + 1
  <2>. SUFFICES ASSUME queue[1].data.number # low + 1 PROVE FALSE
    OBVIOUS
  <2>1. low + 1 \in (low + 1)..(queue[1].data.number - 1)
    BY <1>2
  <2>2. \E j \in DOMAIN queue : j < 1
    BY <1>1, <2>1 DEF Continues
  <2>. QED  BY <1>1, <2>2
<1>4. ASSUME NEW i \in DOMAIN rest, IsData(rest[i], c)
      PROVE  rest[i].data.number \in (low + 2)..high
  <2>1. i + 1 \in DOMAIN queue /\ rest[i] = queue[i + 1] /\ 1 < i + 1
    BY <1>1
  <2>2. queue[1].data.number < queue[i + 1].data.number
    BY <1>1, <1>4, <2>1 DEF Continues
  <2>3. queue[i + 1].data.number \in (low + 1)..high
    BY <1>4, <2>1 DEF Continues
  <2>. QED  BY <1>3, <2>1, <2>2, <2>3
<1>5. ASSUME NEW i \in DOMAIN rest, NEW j \in DOMAIN rest, i < j,
             IsData(rest[i], c), IsData(rest[j], c)
      PROVE  rest[i].data.number < rest[j].data.number
  BY SMTT(60), <1>1, <1>5 DEF Continues
<1>6. ASSUME NEW i \in DOMAIN rest, IsData(rest[i], c),
             NEW n \in (low + 2)..(rest[i].data.number - 1)
      PROVE  \E j \in DOMAIN rest : j < i /\ IsData(rest[j], c) /\ rest[j].data.number = n
  <2>1. rest[i] = queue[i + 1] /\ i + 1 \in DOMAIN queue /\ n \in (low + 1)..(queue[i + 1].data.number - 1)
    BY <1>1, <1>4, <1>6
  <2>2. PICK j \in DOMAIN queue : j < i + 1 /\ IsData(queue[j], c) /\ queue[j].data.number = n
    BY <1>6, <2>1 DEF Continues
  <2>3. j # 1
    BY <1>3, <2>2
  <2>4. j - 1 \in DOMAIN rest /\ j - 1 < i /\ rest[j - 1] = queue[j]
    <3>1. j \in Nat /\ i \in Nat /\ j - 1 \in DOMAIN rest /\ rest[j - 1] = queue[j]
      BY <1>1, <2>2, <2>3
    <3>2. j < i + 1
      BY <2>2
    <3>. QED  BY <3>1, <3>2
  <2>. QED  BY <2>2, <2>4
<1>7. ASSUME Complete(queue, c, low, high), NEW n \in (low + 2)..high
      PROVE  \E j \in DOMAIN rest : IsData(rest[j], c) /\ rest[j].data.number = n
  <2>1. PICK j \in DOMAIN queue : IsData(queue[j], c) /\ queue[j].data.number = n
    BY <1>7 DEF Complete
  <2>2. j # 1
    BY <1>3, <2>1
  <2>. QED  BY <1>1, <2>1, <2>2
<1>8. (low + 1) + 1 = low + 2
  OBVIOUS
<1>9. Continues(rest, c, low + 1, high)
  BY <1>4, <1>5, <1>6, <1>8 DEF Continues
<1>10. Complete(queue, c, low, high) => Complete(rest, c, low + 1, high)
  BY <1>7, <1>8 DEF Complete
<1>. QED  BY <1>1, <1>2, <1>3, <1>9, <1>10 DEF rest

\* The addresses and clients named by the messages of a longer queue,
LEMMA NamedGrown ==
  ASSUME NEW S, NEW queue \in Seq(S), NEW m \in S, NEW a, NEW c
  PROVE  Named(Append(queue, m), a, c) <=> Named(queue, a, c) \/ Names(m, a, c)
BY Grown DEF Named

\* of a shorter one,
LEMMA NamedShortened ==
  ASSUME NEW S, NEW queue \in Seq(S), queue # <<>>, NEW a, NEW c
  PROVE  /\ Named(Tail(queue), a, c) => Named(queue, a, c)
         /\ Names(Head(queue), a, c) => Named(queue, a, c)
BY Shortened DEF Named

\* and of an empty one.
LEMMA NotNamed == \A a, c : ~Named(<<>>, a, c)
BY DEF Named

\* Who has an address stays the same when a message follows,
LEMMA HolderKept ==
  ASSUME NEW S, NEW queue \in Seq(S), NEW m \in S, NEW sockets, NEW a, NEW c,
         NEW i \in Nat, i <= Len(queue) + 1, HolderAt(queue, sockets, i, a, c)
  PROVE  HolderAt(Append(queue, m), sockets, i, a, c)
<1>. DEFINE longer == Append(queue, m)
<1>1. /\ \A j \in DOMAIN queue : j \in DOMAIN longer /\ longer[j] = queue[j]
      /\ \A j \in DOMAIN longer : j < i => j \in DOMAIN queue
  BY Grown
<1>. HIDE DEF longer
<1>2. HolderAt(longer, sockets, i, a, c)
  BY <1>1 DEF HolderAt
<1>. QED  BY <1>2 DEF longer

\* also behind that message, if it is not about the address,
LEMMA HolderStays ==
  ASSUME NEW S, NEW queue \in Seq(S), NEW m \in S, NEW sockets, NEW a, NEW c,
         ~Tells(m, a), HolderAt(queue, sockets, Len(queue) + 1, a, c)
  PROVE  HolderAt(Append(queue, m), sockets, Len(Append(queue, m)) + 1, a, c)
<1>. DEFINE longer == Append(queue, m)
            last   == Len(queue) + 1
            next   == Len(longer) + 1
<1>1. /\ \A j \in DOMAIN queue : j \in Nat /\ j \in DOMAIN longer /\ longer[j] = queue[j] /\ j < last
      /\ \A j \in DOMAIN longer : j \in DOMAIN queue \/ j = last
      /\ longer[last] = m /\ last \in Nat /\ next = last + 1
  BY Grown
<1>2. HolderAt(queue, sockets, last, a, c)
  OBVIOUS
<1>. HIDE DEF longer, last, next
<1>3. \A k \in DOMAIN longer : Tells(longer[k], a) => k \in DOMAIN queue /\ longer[k] = queue[k]
  BY <1>1
<1>4. ASSUME sockets[a] = c, \A k \in DOMAIN queue : k < last => ~Tells(queue[k], a)
      PROVE  HolderAt(longer, sockets, next, a, c)
  BY <1>1, <1>3, <1>4 DEF HolderAt
<1>5. ASSUME NEW j \in DOMAIN queue, Connects(queue[j], a, c),
             \A k \in DOMAIN queue : j < k /\ k < last => ~Tells(queue[k], a)
      PROVE  HolderAt(longer, sockets, next, a, c)
  <2>1. j \in DOMAIN longer /\ j < next /\ Connects(longer[j], a, c)
    BY <1>1, <1>5
  <2>2. \A k \in DOMAIN longer : j < k /\ k < next => ~Tells(longer[k], a)
    BY <1>1, <1>3, <1>5
  <2>. QED  BY <2>1, <2>2 DEF HolderAt
<1>6. HolderAt(longer, sockets, next, a, c)
  BY <1>2, <1>4, <1>5 DEF HolderAt
<1>. QED  BY <1>6 DEF longer, next

\* and is the client the message names, if it is about a new one.
LEMMA HolderNamed ==
  ASSUME NEW S, NEW queue \in Seq(S), NEW m \in S, NEW sockets, NEW a, NEW c,
         Connects(m, a, c)
  PROVE  HolderAt(Append(queue, m), sockets, Len(Append(queue, m)) + 1, a, c)
<1>. DEFINE longer == Append(queue, m)
            last   == Len(queue) + 1
            next   == Len(longer) + 1
<1>1. /\ \A j \in DOMAIN longer : j \in Nat /\ j <= last
      /\ last \in DOMAIN longer /\ longer[last] = m /\ last \in Nat /\ next = last + 1
  BY Grown
<1>. HIDE DEF longer, last, next
<1>2. HolderAt(longer, sockets, next, a, c)
  BY <1>1 DEF HolderAt
<1>. QED  BY <1>2 DEF longer, next

\* When a message is taken the library keeps what it has learned, and learns from it.
LEMMA HolderRead ==
  ASSUME NEW S, NEW queue \in Seq(S), queue # <<>>, NEW old, NEW new, NEW a, NEW c,
         NEW i \in Nat, i >= 1, HolderAt(queue, old, i + 1, a, c),
         ~Tells(Head(queue), a) => new[a] = old[a],
         Connects(Head(queue), a, c) => new[a] = c
  PROVE  HolderAt(Tail(queue), new, i, a, c)
<1>. DEFINE rest == Tail(queue)
<1>1. /\ \A j \in DOMAIN queue :
           j \in Nat /\ j >= 1 /\ (j # 1 => j - 1 \in DOMAIN rest /\ rest[j - 1] = queue[j])
      /\ \A j \in DOMAIN rest :
           j \in Nat /\ j >= 1 /\ j + 1 \in DOMAIN queue /\ rest[j] = queue[j + 1]
      /\ Head(queue) = queue[1] /\ 1 \in DOMAIN queue
  BY Shortened
<1>. HIDE DEF rest
<1>2. ASSUME old[a] = c, \A k \in DOMAIN queue : k < i + 1 => ~Tells(queue[k], a)
      PROVE  HolderAt(rest, new, i, a, c)
  <2>1. new[a] = c
    BY <1>1, <1>2
  <2>2. \A k \in DOMAIN rest : k < i => ~Tells(rest[k], a)
    BY <1>1, <1>2
  <2>. QED  BY <2>1, <2>2 DEF HolderAt
<1>3. ASSUME NEW j \in DOMAIN queue, j < i + 1, Connects(queue[j], a, c),
             \A k \in DOMAIN queue : j < k /\ k < i + 1 => ~Tells(queue[k], a)
      PROVE  HolderAt(rest, new, i, a, c)
  <2>1. \A k \in DOMAIN rest : j < k + 1 /\ k < i => ~Tells(rest[k], a)
    BY <1>1, <1>3
  <2>2. CASE j = 1
    <3>1. new[a] = c
      BY <1>1, <1>3, <2>2
    <3>2. \A k \in DOMAIN rest : k < i => ~Tells(rest[k], a)
      BY <1>1, <2>1, <2>2
    <3>. QED  BY <3>1, <3>2 DEF HolderAt
  <2>3. CASE j # 1
    <3>1. j - 1 \in DOMAIN rest /\ rest[j - 1] = queue[j] /\ j - 1 < i
      BY <1>1, <1>3, <2>3
    <3>2. \A k \in DOMAIN rest : j - 1 < k /\ k < i => ~Tells(rest[k], a)
      BY <1>1, <2>1
    <3>. QED  BY <1>3, <3>1, <3>2 DEF HolderAt
  <2>. QED  BY <2>2, <2>3
<1>4. HolderAt(rest, new, i, a, c)
  BY <1>2, <1>3 DEF HolderAt
<1>. QED  BY <1>4 DEF rest

\* At the first message the library knows who has the address.
LEMMA HolderFirst ==
  ASSUME NEW S, NEW queue \in Seq(S), NEW sockets, NEW a, NEW c,
         HolderAt(queue, sockets, 1, a, c)
  PROVE  sockets[a] = c
<1>1. \A j \in DOMAIN queue : ~(j < 1)
  OBVIOUS
<1>. QED  BY <1>1 DEF HolderAt

\* A message that is no request to disconnect the client.
LEMMA PromiseKept ==
  ASSUME NEW S, NEW queue \in Seq(S), NEW m \in S, NEW c, NEW a, NEW low, NEW promise,
         AfterPromise(queue, c, a, low, promise),
         ~(m.message = "DisconnectClient" /\ m.address = a)
  PROVE  AfterPromise(Append(queue, m), c, a, low, promise)
<1>1. /\ \A j \in DOMAIN queue :
           j \in DOMAIN Append(queue, m) /\ Append(queue, m)[j] = queue[j]
      /\ \A j \in DOMAIN Append(queue, m) :
           j \in DOMAIN queue \/ Append(queue, m)[j] = m
  BY Grown
<1>. QED  BY <1>1 DEF AfterPromise

\* The first such request.
LEMMA PromiseMade ==
  ASSUME NEW S, NEW queue \in Seq(S), NEW m \in S, NEW c, NEW a, NEW low \in Nat,
         NEW promise \in Nat, AfterPromise(queue, c, a, low, NotAsked),
         Complete(queue, c, low, promise)
  PROVE  AfterPromise(Append(queue, m), c, a, low, promise)
<1>. DEFINE longer == Append(queue, m)
            last   == Len(queue) + 1
<1>1. /\ \A j \in DOMAIN queue : j \in DOMAIN longer /\ longer[j] = queue[j] /\ j < last
      /\ \A j \in DOMAIN longer : j \in DOMAIN queue \/ j = last
  BY Grown
<1>. HIDE DEF longer, last
<1>2. \A i \in DOMAIN queue : ~(queue[i].message = "DisconnectClient" /\ queue[i].address = a)
  BY DEF AfterPromise, NotAsked
<1>3. ASSUME NEW n \in (low + 1)..promise
      PROVE  \E j \in DOMAIN longer : j < last /\ IsData(longer[j], c) /\ longer[j].data.number = n
  <2>1. PICK j \in DOMAIN queue : IsData(queue[j], c) /\ queue[j].data.number = n
    BY <1>3 DEF Complete
  <2>. QED  BY <1>1, <2>1
<1>. QED  BY <1>1, <1>2, <1>3 DEF AfterPromise, longer

\* A message is taken that is no data of the client.
LEMMA PromiseOtherRead ==
  ASSUME NEW S, NEW queue \in Seq(S), queue # <<>>, NEW c, NEW a, NEW low \in Nat, NEW promise,
         AfterPromise(queue, c, a, low, promise), ~IsData(Head(queue), c)
  PROVE  AfterPromise(Tail(queue), c, a, low, promise)
<1>. DEFINE rest == Tail(queue)
<1>1. /\ \A i \in DOMAIN rest : i \in Nat /\ i + 1 \in DOMAIN queue /\ rest[i] = queue[i + 1]
      /\ \A i \in DOMAIN queue : i \in Nat /\ (IsData(queue[i], c) =>
           i - 1 \in DOMAIN rest /\ rest[i - 1] = queue[i])
  BY Shortened
<1>. HIDE DEF rest
<1>2. ASSUME NEW i \in DOMAIN rest, rest[i].message = "DisconnectClient", rest[i].address = a
      PROVE  /\ promise \in Nat
             /\ \A n \in (low + 1)..promise :
                  \E j \in DOMAIN rest : j < i /\ IsData(rest[j], c) /\ rest[j].data.number = n
  <2>1. promise \in Nat
    BY <1>1, <1>2 DEF AfterPromise
  <2>2. ASSUME NEW n \in (low + 1)..promise
        PROVE  \E j \in DOMAIN rest : j < i /\ IsData(rest[j], c) /\ rest[j].data.number = n
    <3>1. PICK j \in DOMAIN queue : j < i + 1 /\ IsData(queue[j], c) /\ queue[j].data.number = n
      BY <1>1, <1>2, <2>2 DEF AfterPromise
    <3>2. j - 1 \in DOMAIN rest /\ rest[j - 1] = queue[j] /\ j - 1 < i
      BY <1>1, <3>1
    <3>. QED  BY <3>1, <3>2
  <2>. QED  BY <2>1, <2>2
<1>. QED  BY <1>2 DEF AfterPromise, rest

\* The next data of the client is taken.
LEMMA PromiseNextRead ==
  ASSUME NEW S, NEW queue \in Seq(S), queue # <<>>, NEW c, NEW a, NEW low \in Nat, NEW promise,
         AfterPromise(queue, c, a, low, promise),
         IsData(Head(queue), c), Head(queue).data.number = low + 1
  PROVE  AfterPromise(Tail(queue), c, a, low + 1, promise)
<1>. DEFINE rest == Tail(queue)
<1>1. /\ \A i \in DOMAIN rest : i \in Nat /\ i + 1 \in DOMAIN queue /\ rest[i] = queue[i + 1]
      /\ \A i \in DOMAIN queue : i \in Nat /\ (i # 1 =>
           i - 1 \in DOMAIN rest /\ rest[i - 1] = queue[i])
      /\ Head(queue) = queue[1]
  BY Shortened
<1>. HIDE DEF rest
<1>2. ASSUME NEW i \in DOMAIN rest, rest[i].message = "DisconnectClient", rest[i].address = a
      PROVE  /\ promise \in Nat
             /\ \A n \in ((low + 1) + 1)..promise :
                  \E j \in DOMAIN rest : j < i /\ IsData(rest[j], c) /\ rest[j].data.number = n
  <2>1. promise \in Nat
    BY <1>1, <1>2 DEF AfterPromise
  <2>2. ASSUME NEW n \in ((low + 1) + 1)..promise
        PROVE  \E j \in DOMAIN rest : j < i /\ IsData(rest[j], c) /\ rest[j].data.number = n
    <3>0. n \in (low + 1)..promise /\ n # low + 1
      BY <2>1, <2>2
    <3>1. PICK j \in DOMAIN queue : j < i + 1 /\ IsData(queue[j], c) /\ queue[j].data.number = n
      BY <1>1, <1>2, <3>0 DEF AfterPromise
    <3>2. j # 1
      BY <1>1, <3>0, <3>1
    <3>3. j - 1 \in DOMAIN rest /\ rest[j - 1] = queue[j] /\ j - 1 < i
      BY <1>1, <3>1, <3>2
    <3>. QED  BY <3>1, <3>3
  <2>. QED  BY <2>1, <2>2
<1>. QED  BY <1>2 DEF AfterPromise, rest

\* The request is.
LEMMA PromiseDue ==
  ASSUME NEW S, NEW queue \in Seq(S), queue # <<>>, NEW c, NEW a, NEW low \in Nat, NEW promise,
         AfterPromise(queue, c, a, low, promise),
         Head(queue).message = "DisconnectClient", Head(queue).address = a
  PROVE  promise \in Nat /\ low >= promise
<1>1. 1 \in DOMAIN queue /\ Head(queue) = queue[1] /\ \A j \in DOMAIN queue : j \in Nat /\ j >= 1
  BY Shortened
<1>2. promise \in Nat
  BY <1>1 DEF AfterPromise
<1>3. \A n \in (low + 1)..promise : FALSE
  BY <1>1 DEF AfterPromise
<1>. QED  BY <1>2, <1>3

-----------------------------------------------------------------------------
(* The messages, and what the invariant says of one client.                *)

\* The messages, and the data they carry.
LEMMA MessageShapes ==
  /\ \A m \in ProxyMessages :
       /\ m.address \in Addresses
       /\ m.message \in {"data", "ClientConnected", "ClientDisconnected"}
       /\ m.message = "data" => m.data \in Data
       /\ m.message = "ClientConnected" => m.client \in Clients
  /\ \A m \in ServerMessages :
       /\ m.address \in Addresses
       /\ m.message \in {"data", "DisconnectClient"}
       /\ m.message = "data" => m.data \in Data
  /\ \A a \in Addresses :
       /\ \A d \in Data : [message |-> "data", address |-> a, data |-> d]
                            \in ProxyMessages \cap ServerMessages
       /\ \A c \in Clients : [message |-> "ClientConnected", address |-> a, client |-> c]
                               \in ProxyMessages
       /\ [message |-> "ClientDisconnected", address |-> a] \in ProxyMessages
       /\ [message |-> "DisconnectClient", address |-> a] \in ServerMessages
  /\ \A d \in Data : d.client \in Clients /\ d.number \in Nat
                     /\ d = [client |-> d.client, number |-> d.number]
  /\ \A c \in Clients, n \in Nat : [client |-> c, number |-> n] \in Data
<1>1. \A m \in ProxyMessages :
        /\ m.address \in Addresses
        /\ m.message \in {"data", "ClientConnected", "ClientDisconnected"}
        /\ m.message = "data" => m.data \in Data
        /\ m.message = "ClientConnected" => m.client \in Clients
  BY DEF ProxyMessages, Frames
<1>2. \A m \in ServerMessages :
        /\ m.address \in Addresses
        /\ m.message \in {"data", "DisconnectClient"}
        /\ m.message = "data" => m.data \in Data
  BY DEF ServerMessages, Frames
<1>3. ASSUME NEW a \in Addresses
      PROVE  /\ \A d \in Data : [message |-> "data", address |-> a, data |-> d]
                                  \in ProxyMessages \cap ServerMessages
             /\ \A c \in Clients : [message |-> "ClientConnected", address |-> a, client |-> c]
                                     \in ProxyMessages
             /\ [message |-> "ClientDisconnected", address |-> a] \in ProxyMessages
             /\ [message |-> "DisconnectClient", address |-> a] \in ServerMessages
  BY DEF ProxyMessages, ServerMessages, Frames
<1>4. /\ \A d \in Data : d.client \in Clients /\ d.number \in Nat
                         /\ d = [client |-> d.client, number |-> d.number]
      /\ \A c \in Clients, n \in Nat : [client |-> c, number |-> n] \in Data
  BY DEF Data
<1>. QED  BY <1>1, <1>2, <1>3, <1>4

\* The numbers of what a client wrote and got are numbers, in their order.
LEMMA Counts ==
  ASSUME IInv, NEW c \in Clients
  PROVE  /\ Len(received[c]) \in Nat /\ Forwarded(c) \in Nat /\ Len(received[c]) <= Forwarded(c)
         /\ Arrived(c) \in Nat /\ answered[c] \in Nat
         /\ c \notin early => Arrived(c) <= answered[c]
         /\ received[c] \in Seq(Data) /\ fromClient[c] \in Seq(Data)
         /\ delivered[c] \in Seq(Data) /\ toClient[c] \in Seq(Data)
         /\ written[c] \in Nat /\ Len(fromClient[c]) \in Nat
         /\ Len(delivered[c]) \in Nat /\ Len(toClient[c]) \in Nat
<1>1. /\ received[c] \in Seq(Data) /\ fromClient[c] \in Seq(Data)
      /\ delivered[c] \in Seq(Data) /\ toClient[c] \in Seq(Data)
      /\ written[c] \in Nat /\ answered[c] \in Nat
  BY DEF IInv, TypeOK
<1>2. Len(received[c]) <= Forwarded(c) /\ (c \notin early => Arrived(c) <= answered[c])
  BY DEF IInv, Uplink, Downlink
<1>3. /\ Len(received[c]) \in Nat /\ Len(fromClient[c]) \in Nat
      /\ Len(delivered[c]) \in Nat /\ Len(toClient[c]) \in Nat
  BY <1>1
<1>4. Forwarded(c) \in Nat
  BY <1>1, <1>2, <1>3 DEF Forwarded
<1>5. Arrived(c) \in Nat
  <2>1. \A x, y \in Nat : x + y \in Nat
    OBVIOUS
  <2>. QED  BY <1>3, <2>1, Zenon DEF Arrived
<1>. QED  BY <1>1, <1>2, <1>3, <1>4, <1>5

\* What a part of the invariant is about is not touched.
LEMMA Unaffected ==
  ASSUME IInv
  PROVE  /\ UNCHANGED <<running, socketAddress, toServer, fromClient, written, received>> => Uplink'
         /\ UNCHANGED <<early, tunnel, fromServer, toClient, answered, delivered>> => Downlink'
         /\ UNCHANGED <<running, socketAddress, toServer, m_tunnelProxySockets>> => Known'
         /\ UNCHANGED <<early, tunnel, socketAddress, fromServer, toClient, delivered, promised>>
              => Promises'
         /\ UNCHANGED <<tunnel, socketAddress, serverConnection, running, m_tunnelProxySockets>>
              => Ends'
<1>1. UNCHANGED <<running, socketAddress, toServer, fromClient, written, received>> => Uplink'
  BY DEF IInv, Uplink, Live, Forwarded
<1>2. UNCHANGED <<early, tunnel, fromServer, toClient, answered, delivered>> => Downlink'
  BY DEF IInv, Downlink, Arrived
<1>3. UNCHANGED <<running, socketAddress, toServer, m_tunnelProxySockets>> => Known'
  BY DEF IInv, Known, Live
<1>4. UNCHANGED <<early, tunnel, socketAddress, fromServer, toClient, delivered, promised>>
        => Promises'
  BY DEF IInv, Promises, Live, Arrived
<1>5. UNCHANGED <<tunnel, socketAddress, serverConnection, running, m_tunnelProxySockets>> => Ends'
  BY DEF IInv, Ends, Live
<1>. QED  BY <1>1, <1>2, <1>3, <1>4, <1>5

\* A step that gives no client an address.
LEMMA NoNewClaims ==
  ASSUME IInv,
         \A a \in Addresses, c \in Clients : Claims(a, c)' => Claims(a, c),
         \A c \in Clients : socketAddress'[c] # socketAddress[c] => socketAddress'[c] = Reserved,
         \A c \in Clients : tunnel[c] = "none" <=> tunnel'[c] = "none",
         early' = early,
         \A c \in Clients : tunnel[c] = "none" =>
           /\ socketAddress'[c] = socketAddress[c]
           /\ fromClient'[c] = fromClient[c] /\ toClient'[c] = toClient[c]
           /\ written'[c] = written[c] /\ received'[c] = received[c]
           /\ answered'[c] = answered[c] /\ delivered'[c] = delivered[c]
  PROVE  OneAddress' /\ OneLive' /\ Exclusive' /\ Untouched'
<1>1. OneAddress'
  BY DEF IInv, OneAddress, Addresses
<1>2. \A c \in Clients : Live(c)' => Live(c) /\ socketAddress'[c] = socketAddress[c]
  BY DEF Live
<1>3. OneLive'
  <2>1. \A c, d \in Clients : Live(c)' /\ socketAddress'[c] = socketAddress'[d] => Live(d)'
    BY DEF Live
  <2>. QED  BY <1>2, <2>1 DEF IInv, OneLive
<1>4. Exclusive'
  <2>1. \A c \in Clients : socketAddress[c] \in Addresses
    BY DEF IInv, TypeOK
  <2>. QED  BY <1>2, <2>1 DEF IInv, Exclusive
<1>5. Untouched'
  BY DEF IInv, Untouched, Live, Addresses
<1>. QED  BY <1>1, <1>3, <1>4, <1>5

-----------------------------------------------------------------------------
(* The clients.                                                            *)

\* A client writes the next piece of data.
LEMMA SendDataStep ==
  ASSUME IInv, NEW c \in Clients, SendData(c)
  PROVE  IInv'
<1>. DEFINE data == [client |-> c, number |-> written[c] + 1]
<1>1. /\ tunnel[c] = "open"
      /\ written' = [written EXCEPT ![c] = @ + 1]
      /\ fromClient' = [fromClient EXCEPT ![c] = Append(@, data)]
      /\ UNCHANGED <<proxyVars, libraryVars, toClient, toServer, fromServer, received, answered,
                     delivered, promised, early>>
  BY DEF SendData
<1>. HIDE DEF data
<1>2. data \in Data
  BY Counts, MessageShapes DEF data
<1>3. TypeOK'
  BY SMTT(60), <1>1, <1>2 DEF IInv, TypeOK, proxyVars, libraryVars
<1>4. \A a, d : Claims(a, d)' <=> Claims(a, d)
  BY <1>1 DEF Claims, proxyVars, libraryVars
<1>5. OneAddress' /\ OneLive' /\ Exclusive' /\ Untouched'
  BY <1>1, <1>4, NoNewClaims DEF proxyVars, libraryVars
<1>6. Ends' /\ Downlink' /\ Known' /\ Promises'
  BY <1>1, Unaffected DEF proxyVars, libraryVars
<1>7. Uplink'
  <2>1. \A d \in Clients : Forwarded(d)' = Forwarded(d)
    <3>1. ASSUME NEW d \in Clients, d # c PROVE Forwarded(d)' = Forwarded(d)
      BY <1>1, <3>1 DEF IInv, TypeOK, Forwarded
    <3>2. Len(fromClient'[c]) = Len(fromClient[c]) + 1 /\ written'[c] = written[c] + 1
      BY <1>1, <1>2, Counts DEF IInv, TypeOK
    <3>. QED  BY SMTT(40), <3>1, <3>2, Counts DEF Forwarded
  <2>2. \A i \in DOMAIN fromClient'[c] :
          fromClient'[c][i] = [client |-> c, number |-> Forwarded(c) + i]
    <3>1. fromClient'[c] = Append(fromClient[c], data) /\ fromClient[c] \in Seq(Data)
      BY <1>1 DEF IInv, TypeOK
    <3>2. Forwarded(c) + (Len(fromClient[c]) + 1) = written[c] + 1
      BY Counts DEF Forwarded
    <3>3. \A i \in DOMAIN fromClient[c] :
            fromClient[c][i] = [client |-> c, number |-> Forwarded(c) + i]
      BY DEF IInv, Uplink
    <3>4. /\ \A i \in DOMAIN fromClient[c] : fromClient'[c][i] = fromClient[c][i]
          /\ \A i \in DOMAIN fromClient'[c] :
               i \in DOMAIN fromClient[c] \/ i = Len(fromClient[c]) + 1
          /\ fromClient'[c][Len(fromClient[c]) + 1] = data
      BY <1>2, <3>1, Grown
    <3>. QED  BY <3>2, <3>3, <3>4 DEF data
  <2>3. \A d \in Clients : d # c => fromClient'[d] = fromClient[d]
    BY <1>1 DEF IInv, TypeOK
  <2>. QED  BY <1>1, <2>1, <2>2, <2>3 DEF IInv, Uplink, Live, proxyVars, libraryVars
<1>. QED  BY <1>3, <1>5, <1>6, <1>7 DEF IInv

\* A client reads the next piece: what has arrived stays the same.
LEMMA DataReadyStep ==
  ASSUME IInv, NEW c \in Clients, DataReady(c)
  PROVE  IInv'
<1>. DEFINE data == Head(toClient[c])
<1>1. /\ toClient[c] # <<>>
      /\ delivered' = [delivered EXCEPT ![c] = Append(@, data)]
      /\ toClient' = [toClient EXCEPT ![c] = Tail(@)]
      /\ UNCHANGED <<proxyVars, libraryVars, fromClient, toServer, fromServer, written, received,
                     answered, promised, early>>
  BY DEF DataReady
<1>2. /\ data \in Data /\ Tail(toClient[c]) \in Seq(Data)
      /\ 1 \in DOMAIN toClient[c] /\ data = toClient[c][1]
      /\ Len(Tail(toClient[c])) = Len(toClient[c]) - 1
      /\ \A i \in DOMAIN Tail(toClient[c]) :
           i \in Nat /\ i + 1 \in DOMAIN toClient[c] /\ Tail(toClient[c])[i] = toClient[c][i + 1]
  BY <1>1, Counts, Shortened
<1>3. /\ Append(delivered[c], data) \in Seq(Data)
      /\ Len(Append(delivered[c], data)) = Len(delivered[c]) + 1
      /\ \A i \in DOMAIN delivered[c] : Append(delivered[c], data)[i] = delivered[c][i]
      /\ \A i \in DOMAIN Append(delivered[c], data) :
           i \in DOMAIN delivered[c] \/ i = Len(delivered[c]) + 1
      /\ Append(delivered[c], data)[Len(delivered[c]) + 1] = data
  BY <1>2, Counts, Grown
<1>4. c \notin early => data = [client |-> c, number |-> Len(delivered[c]) + 1]
  BY <1>2 DEF IInv, Downlink
<1>. HIDE DEF data
<1>5. TypeOK'
  BY <1>1, <1>2, <1>3 DEF IInv, TypeOK, proxyVars, libraryVars
<1>6. \A a, d : Claims(a, d)' <=> Claims(a, d)
  BY <1>1 DEF Claims, proxyVars, libraryVars
<1>7. tunnel[c] # "none"
  BY <1>1 DEF IInv, Untouched
<1>8. OneAddress' /\ OneLive' /\ Exclusive' /\ Untouched'
  BY <1>1, <1>6, <1>7, NoNewClaims DEF proxyVars, libraryVars
<1>9. Ends' /\ Uplink' /\ Known'
  BY <1>1, Unaffected DEF proxyVars, libraryVars
<1>10. \A d \in Clients : d # c => toClient'[d] = toClient[d] /\ delivered'[d] = delivered[d]
  BY <1>1 DEF IInv, TypeOK
<1>11. toClient'[c] = Tail(toClient[c]) /\ delivered'[c] = Append(delivered[c], data)
  BY <1>1 DEF IInv, TypeOK
<1>12. \A d \in Clients : Arrived(d)' = Arrived(d)
  <2>1. \A d \in Clients : d # c => Arrived(d)' = Arrived(d)
    BY <1>10 DEF Arrived
  <2>2. \A x, y \in Nat : (x + 1) + (y - 1) = x + y
    OBVIOUS
  <2>3. Arrived(c)' = (Len(delivered[c]) + 1) + (Len(toClient[c]) - 1)
    BY <1>2, <1>3, <1>11, Zenon DEF Arrived
  <2>4. Len(delivered[c]) \in Nat /\ Len(toClient[c]) \in Nat
    BY Counts
  <2>5. Arrived(c)' = Arrived(c)
    BY <2>2, <2>3, <2>4, Zenon DEF Arrived
  <2>. QED  BY <2>1, <2>5
<1>13. Downlink'
  <2>1. c \notin early => InOrder(delivered'[c], c)
    BY <1>3, <1>4, <1>11 DEF IInv, Downlink, InOrder
  <2>2. ASSUME c \notin early
        PROVE  \A i \in DOMAIN toClient'[c] :
                 toClient'[c][i] = [client |-> c, number |-> Len(delivered'[c]) + i]
    <3>. SUFFICES ASSUME NEW i \in DOMAIN Tail(toClient[c])
                  PROVE  Tail(toClient[c])[i] = [client |-> c, number |-> (Len(delivered[c]) + 1) + i]
      BY <1>3, <1>11
    <3>1. toClient[c][i + 1] = [client |-> c, number |-> Len(delivered[c]) + (i + 1)]
      BY <1>2, <2>2 DEF IInv, Downlink
    <3>2. \A n, k \in Nat : n + (k + 1) = (n + 1) + k
      OBVIOUS
    <3>3. Len(delivered[c]) \in Nat /\ i \in Nat
      BY <1>2, Counts
    <3>. QED  BY <1>2, <3>1, <3>2, <3>3
  <2>3. ASSUME NEW d \in Clients, d \notin early
        PROVE  /\ InOrder(delivered'[d], d)
               /\ \A i \in DOMAIN toClient'[d] :
                    toClient'[d][i] = [client |-> d, number |-> Len(delivered'[d]) + i]
    BY <1>10, <2>1, <2>2, <2>3 DEF IInv, Downlink
  <2>. QED  BY <1>1, <1>12, <2>3 DEF IInv, Downlink, proxyVars
<1>14. Promises'
  BY <1>1, <1>12 DEF IInv, Promises, Live, proxyVars
<1>. QED  BY <1>5, <1>8, <1>9, <1>13, <1>14 DEF IInv

-----------------------------------------------------------------------------
(* The proxy.                                                              *)

\* The proxy's address of a client is one of the client's.
LEMMA LiveClaims ==
  ASSUME IInv, NEW c \in Clients, Live(c)
  PROVE  socketAddress[c] \in Addresses /\ Claims(socketAddress[c], c)
BY DEF IInv, TypeOK, Live, Claims

\* What the library knows, or will know, when one more message is put behind.
LEMMA KnownGrown ==
  ASSUME IInv, running, NEW m \in ProxyMessages, NEW queue, queue = Append(toServer, m)
  PROVE  /\ \A i \in DOMAIN toServer, d \in Clients : IsData(toServer[i], d) =>
              HolderAt(queue, m_tunnelProxySockets, i, toServer[i].address, d)
         /\ \A d \in Clients : Live(d) =>
              /\ HolderAt(queue, m_tunnelProxySockets, Len(toServer) + 1, socketAddress[d], d)
              /\ ~Tells(m, socketAddress[d]) =>
                   HolderAt(queue, m_tunnelProxySockets, Len(queue) + 1, socketAddress[d], d)
<1>1. toServer \in Seq(ProxyMessages)
  BY DEF IInv, TypeOK
<1>2. /\ \A i \in DOMAIN toServer : i \in Nat /\ i <= Len(toServer) + 1
      /\ Len(toServer) \in Nat /\ Len(toServer) + 1 \in Nat
  BY <1>1, Grown
<1>3. ASSUME NEW i \in DOMAIN toServer, NEW d \in Clients, IsData(toServer[i], d)
      PROVE  HolderAt(queue, m_tunnelProxySockets, i, toServer[i].address, d)
  <2>1. HolderAt(toServer, m_tunnelProxySockets, i, toServer[i].address, d)
    BY <1>3 DEF IInv, Known
  <2>. QED  BY <1>1, <1>2, <2>1, HolderKept
<1>4. ASSUME NEW d \in Clients, Live(d)
      PROVE  /\ HolderAt(queue, m_tunnelProxySockets, Len(toServer) + 1, socketAddress[d], d)
             /\ ~Tells(m, socketAddress[d]) =>
                  HolderAt(queue, m_tunnelProxySockets, Len(queue) + 1, socketAddress[d], d)
  <2>1. HolderAt(toServer, m_tunnelProxySockets, Len(toServer) + 1, socketAddress[d], d)
    BY <1>4 DEF IInv, Known
  <2>2. Len(toServer) + 1 <= Len(toServer) + 1
    BY <1>2
  <2>. QED  BY <1>1, <1>2, <2>1, <2>2, HolderKept, HolderStays
<1>. QED  BY <1>3, <1>4

\* The next data of a client is passed on under its address.
LEMMA ReceiveFromClientStep ==
  ASSUME IInv, NEW c \in Clients, ReceiveFromClient(c)
  PROVE  IInv'
<1>. DEFINE data == Head(fromClient[c])
            m    == [message |-> "data", address |-> socketAddress[c], data |-> data]
            last == Len(toServer) + 1
<1>1. /\ tunnel[c] = "open" /\ fromClient[c] # <<>>
      /\ toServer' = Append(toServer, m)
      /\ fromClient' = [fromClient EXCEPT ![c] = Tail(@)]
      /\ UNCHANGED <<proxyVars, libraryVars, toClient, fromServer, progressVars, early>>
  BY DEF ReceiveFromClient
<1>2. Live(c) /\ socketAddress[c] \in Addresses /\ Claims(socketAddress[c], c)
  BY <1>1, LiveClaims DEF IInv, Ends
<1>3. /\ data \in Data /\ Tail(fromClient[c]) \in Seq(Data)
      /\ 1 \in DOMAIN fromClient[c] /\ data = fromClient[c][1]
      /\ Len(Tail(fromClient[c])) = Len(fromClient[c]) - 1
      /\ \A i \in DOMAIN Tail(fromClient[c]) :
           i \in Nat /\ i + 1 \in DOMAIN fromClient[c] /\ Tail(fromClient[c])[i] = fromClient[c][i + 1]
  BY <1>1, Counts, Shortened
<1>4. data = [client |-> c, number |-> Forwarded(c) + 1]
  BY <1>3 DEF IInv, Uplink
<1>. HIDE DEF data
<1>5. m \in ProxyMessages /\ toServer \in Seq(ProxyMessages)
  BY <1>2, <1>3, MessageShapes DEF IInv, TypeOK
<1>6. m.message = "data" /\ m.address = socketAddress[c] /\ m.data.client = c
      /\ m.data.number = Forwarded(c) + 1
  BY <1>4
<1>. HIDE DEF m
<1>7. /\ toServer' \in Seq(ProxyMessages) /\ Len(toServer') = last /\ last \in Nat
      /\ Len(toServer) \in Nat /\ Len(toServer) + 1 = last
      /\ \A i \in DOMAIN toServer : i \in Nat /\ i < last /\ i \in DOMAIN toServer' /\ toServer'[i] = toServer[i]
      /\ \A i \in DOMAIN toServer' : i \in DOMAIN toServer \/ i = last
      /\ toServer'[last] = m
  BY <1>1, <1>5, Grown
<1>. HIDE DEF last
<1>8. TypeOK'
  BY <1>1, <1>3, <1>7 DEF IInv, TypeOK, proxyVars, libraryVars, progressVars
<1>9. \A a \in Addresses, d \in Clients : Claims(a, d)' => Claims(a, d)
  <2>1. \A a, d : Named(toServer', a, d) <=> Named(toServer, a, d) \/ Names(m, a, d)
    BY <1>1, <1>5, NamedGrown
  <2>2. \A a, d : Names(m, a, d) => a = socketAddress[c] /\ d = c
    BY <1>6 DEF Names
  <2>. QED  BY <1>1, <1>2, <2>1, <2>2 DEF Claims, proxyVars, libraryVars
<1>10. OneAddress' /\ OneLive' /\ Exclusive' /\ Untouched'
  BY <1>1, <1>9, NoNewClaims DEF proxyVars, progressVars
<1>11. Ends' /\ Downlink' /\ Promises'
  BY <1>1, Unaffected DEF proxyVars, libraryVars, progressVars
<1>12. /\ fromClient'[c] = Tail(fromClient[c])
       /\ \A d \in Clients : d # c => fromClient'[d] = fromClient[d]
  BY <1>1 DEF IInv, TypeOK
<1>13. /\ Forwarded(c)' = Forwarded(c) + 1
       /\ \A d \in Clients : d # c => Forwarded(d)' = Forwarded(d)
  <2>1. \A x, y \in Nat : x - (y - 1) = (x - y) + 1
    OBVIOUS
  <2>2. Forwarded(c)' = written[c] - (Len(fromClient[c]) - 1)
    BY <1>1, <1>3, <1>12, Zenon DEF Forwarded, progressVars
  <2>3. written[c] \in Nat /\ Len(fromClient[c]) \in Nat
    BY Counts
  <2>4. Forwarded(c)' = Forwarded(c) + 1
    BY <2>1, <2>2, <2>3, Zenon DEF Forwarded
  <2>. QED  BY <1>1, <1>12, <2>4 DEF Forwarded, progressVars
<1>14. Uplink'
  <2>1. \A i \in DOMAIN fromClient'[c] :
          fromClient'[c][i] = [client |-> c, number |-> Forwarded(c)' + i]
    <3>. SUFFICES ASSUME NEW i \in DOMAIN Tail(fromClient[c])
                  PROVE  Tail(fromClient[c])[i] = [client |-> c, number |-> (Forwarded(c) + 1) + i]
      BY <1>12, <1>13
    <3>1. fromClient[c][i + 1] = [client |-> c, number |-> Forwarded(c) + (i + 1)]
      BY <1>3 DEF IInv, Uplink
    <3>2. \A n, k \in Nat : n + (k + 1) = (n + 1) + k
      OBVIOUS
    <3>3. Forwarded(c) \in Nat /\ i \in Nat
      BY <1>3, Counts
    <3>. QED  BY <1>3, <3>1, <3>2, <3>3
  <2>2. Len(received[c]) <= Forwarded(c)'
    BY <1>13, Counts
  <2>3. ASSUME running
        PROVE  /\ Continues(toServer', c, Len(received[c]), Forwarded(c)')
               /\ Complete(toServer', c, Len(received[c]), Forwarded(c)')
    <3>1. /\ Continues(toServer, c, Len(received[c]), Forwarded(c))
          /\ Complete(toServer, c, Len(received[c]), Forwarded(c))
      BY <1>2, <2>3 DEF IInv, Uplink
    <3>2. IsData(m, c)
      BY <1>6 DEF IsData
    <3>. QED  BY <1>1, <1>5, <1>6, <1>13, <3>1, <3>2, Counts, NextSent
  <2>4. ASSUME running, NEW d \in Clients, d # c
        PROVE  /\ Continues(toServer', d, Len(received[d]), Forwarded(d))
               /\ Live(d) => Complete(toServer', d, Len(received[d]), Forwarded(d))
    <3>1. /\ Continues(toServer, d, Len(received[d]), Forwarded(d))
          /\ Live(d) => Complete(toServer, d, Len(received[d]), Forwarded(d))
      BY <2>4 DEF IInv, Uplink
    <3>2. ~IsData(m, d)
      BY <1>6, <2>4 DEF IsData
    <3>. QED  BY <1>1, <1>5, <3>1, <3>2, Counts, OtherSent
  <2>5. ASSUME NEW d \in Clients
        PROVE  /\ Len(received[d]) <= Forwarded(d)'
               /\ InOrder(received[d], d)
               /\ \A i \in DOMAIN fromClient'[d] :
                    fromClient'[d][i] = [client |-> d, number |-> Forwarded(d)' + i]
    BY <1>12, <1>13, <2>1, <2>2 DEF IInv, Uplink
  <2>6. ASSUME NEW d \in Clients, running
        PROVE  /\ Continues(toServer', d, Len(received[d]), Forwarded(d)')
               /\ Live(d) => Complete(toServer', d, Len(received[d]), Forwarded(d)')
    BY <1>13, <2>3, <2>4, <2>6
  <2>. QED  BY <1>1, <2>5, <2>6 DEF Uplink, Live, proxyVars, libraryVars, progressVars
<1>15. Known'
  <2>. SUFFICES ASSUME running PROVE Known'
    BY <1>1 DEF Known, libraryVars
  <2>1. ASSUME NEW i \in DOMAIN toServer', NEW d \in Clients, IsData(toServer'[i], d)
        PROVE  HolderAt(toServer', m_tunnelProxySockets, i, toServer'[i].address, d)
    <3>1. CASE i \in DOMAIN toServer
      BY <1>1, <1>5, <1>7, <2>1, <3>1, KnownGrown
    <3>2. CASE i = last
      <4>1. d = c
        BY <1>6, <1>7, <2>1, <3>2 DEF IsData
      <4>. QED  BY ZenonT(40), <1>1, <1>2, <1>5, <1>6, <1>7, <3>2, <4>1, KnownGrown
    <3>. QED  BY <1>7, <3>1, <3>2
  <2>2. \A d \in Clients : Live(d) =>
          HolderAt(toServer', m_tunnelProxySockets, Len(toServer') + 1, socketAddress[d], d)
    <3>1. \A a : ~Tells(m, a)
      BY <1>6 DEF Tells
    <3>. QED  BY <1>1, <1>5, <3>1, KnownGrown
  <2>. QED  BY <1>1, <2>1, <2>2 DEF Known, Live, proxyVars, libraryVars
<1>. QED  BY <1>8, <1>10, <1>11, <1>14, <1>15 DEF IInv

\* A free address is a proper one, and no other client's.
LEMMA FreeAddress ==
  ASSUME IInv, NEW counter, NEW a, IsFreeAddress(counter, a)
  PROVE  a # 0 /\ a # Reserved /\ \A d \in Clients : socketAddress[d] # a
<1>1. ~Taken(a)
  BY DEF IsFreeAddress
<1>2. DOMAIN socketAddress = Clients
  BY DEF IInv, TypeOK
<1>. QED  BY <1>1, <1>2 DEF Taken, Range

\* Nobody has a settled address.
LEMMA SettledFree ==
  ASSUME IInv, NEW a \in Addresses, Settled(a), \A d \in Clients : socketAddress[d] # a
  PROVE  \A d \in Clients : ~Claims(a, d)
<1>. SUFFICES ASSUME NEW d \in Clients PROVE ~Claims(a, d)
  OBVIOUS
<1>1. m_tunnelProxySockets[a] # d
  BY ConstantsAssumption DEF Settled
<1>2. ~Named(toServer, a, d) /\ ~Named(fromServer, a, d)
  BY DEF Settled, Named, Names
<1>. QED  BY <1>1, <1>2 DEF Claims

\* A new client gets a free address.  If it is a settled one nothing is left about it.
LEMMA RegisterClientStep ==
  ASSUME IInv, NEW c \in Clients, RegisterClient(c)
  PROVE  IInv'
<1>. USE ConstantsAssumption
<1>1. tunnel[c] = "none"
  BY DEF RegisterClient
<1>2. m_currentAddressCounter' \in Addresses
  <2>1. m_currentAddressCounter \in Nat /\ Reserved \in Nat
    BY DEF IInv, TypeOK, Addresses
  <2>2. \A n, r \in Nat : (n + 1) % (r + 1) \in 0..r
    OBVIOUS
  <2>. QED  BY <2>1, <2>2 DEF RegisterClient, Wrap, Addresses
<1>3. PICK k \in Addresses :
        /\ IsFreeAddress(m_currentAddressCounter', k)
        /\ socketAddress' = [socketAddress EXCEPT ![c] = k]
        /\ toServer' = Append(toServer, [message |-> "ClientConnected", address |-> k, client |-> c])
        /\ early' = IF Settled(k) THEN early ELSE early \cup {c}
  BY DEF RegisterClient
<1>. DEFINE m == [message |-> "ClientConnected", address |-> k, client |-> c]
            last == Len(toServer) + 1
<1>4. /\ serverConnection
      /\ socketAddress' = [socketAddress EXCEPT ![c] = k]
      /\ toServer' = Append(toServer, m)
      /\ tunnel' = [tunnel EXCEPT ![c] = "open"]
      /\ UNCHANGED <<serverConnection, registrations, libraryVars, fromClient, toClient, fromServer,
                     progressVars>>
  BY <1>3 DEF RegisterClient
<1>5. /\ \A a \in Addresses : ~Claims(a, c)
      /\ fromClient[c] = <<>> /\ toClient[c] = <<>>
      /\ written[c] = 0 /\ received[c] = <<>> /\ answered[c] = 0 /\ delivered[c] = <<>>
  BY <1>1 DEF IInv, Untouched
<1>6. k # 0 /\ k # Reserved /\ \A d \in Clients : socketAddress[d] # k
  BY <1>3, FreeAddress
<1>7. m \in ProxyMessages /\ toServer \in Seq(ProxyMessages)
      /\ m.message = "ClientConnected" /\ m.address = k /\ m.client = c
  BY MessageShapes DEF IInv, TypeOK
<1>. HIDE DEF m
<1>8. /\ toServer' \in Seq(ProxyMessages) /\ Len(toServer') = last /\ last \in Nat
      /\ Len(toServer) \in Nat
      /\ \A i \in DOMAIN toServer : i \in Nat /\ i < last /\ i \in DOMAIN toServer' /\ toServer'[i] = toServer[i]
      /\ \A i \in DOMAIN toServer' : i \in Nat /\ (i \in DOMAIN toServer \/ i = last)
      /\ toServer'[last] = m /\ last \in DOMAIN toServer'
  BY <1>4, <1>7, Grown
<1>. HIDE DEF last
<1>9. TypeOK'
  <2>1. early' \subseteq Clients
    BY <1>3 DEF IInv, TypeOK
  <2>. QED  BY <1>2, <1>4, <1>8, <2>1 DEF IInv, TypeOK, libraryVars, progressVars
<1>10. /\ socketAddress'[c] = k /\ tunnel'[c] = "open"
       /\ \A d \in Clients : d # c => socketAddress'[d] = socketAddress[d] /\ tunnel'[d] = tunnel[d]
  BY <1>4 DEF IInv, TypeOK
<1>11. \A a \in Addresses, d \in Clients : Claims(a, d)' <=> Claims(a, d) \/ (a = k /\ d = c)
  <2>1. \A a, d : Named(toServer', a, d) <=> Named(toServer, a, d) \/ Names(m, a, d)
    BY <1>4, <1>7, NamedGrown
  <2>2. \A a, d : Names(m, a, d) <=> a = k /\ d = c
    BY <1>7 DEF Names
  <2>3. socketAddress[c] = Reserved
    BY <1>1 DEF IInv, Untouched, Live
  <2>4. \A a \in Addresses, d \in Clients :
          a # Reserved /\ socketAddress'[d] = a <=>
            (a # Reserved /\ socketAddress[d] = a) \/ (a = k /\ d = c)
    <3>. SUFFICES ASSUME NEW a \in Addresses, NEW d \in Clients
                  PROVE  a # Reserved /\ socketAddress'[d] = a <=>
                           (a # Reserved /\ socketAddress[d] = a) \/ (a = k /\ d = c)
      OBVIOUS
    <3>1. CASE d = c
      BY <1>6, <1>10, <2>3, <3>1
    <3>2. CASE d # c
      BY <1>10, <3>2
    <3>. QED  BY <3>1, <3>2
  <2>5. m_tunnelProxySockets' = m_tunnelProxySockets /\ fromServer' = fromServer
    BY <1>4 DEF libraryVars
  <2>6. ASSUME NEW a \in Addresses, NEW d \in Clients
        PROVE  Claims(a, d)' <=> Claims(a, d) \/ (a = k /\ d = c)
    <3>1. Claims(a, d)' <=>
            \/ a # Reserved /\ socketAddress'[d] = a
            \/ m_tunnelProxySockets[a] = d
            \/ Named(toServer', a, d)
            \/ Named(fromServer, a, d)
      BY <2>5 DEF Claims
    <3>2. Named(toServer', a, d) <=> Named(toServer, a, d) \/ (a = k /\ d = c)
      BY <2>1, <2>2
    <3>3. a # Reserved /\ socketAddress'[d] = a <=>
            (a # Reserved /\ socketAddress[d] = a) \/ (a = k /\ d = c)
      BY <2>4
    <3>. QED  BY <3>1, <3>2, <3>3 DEF Claims
  <2>. QED  BY <2>6
<1>12. OneAddress'
  <2>. SUFFICES ASSUME NEW d \in Clients, NEW a \in Addresses, Claims(a, d)'
                PROVE  a # 0 /\ a # Reserved /\ \A b \in Addresses : Claims(b, d)' => a = b
    BY DEF OneAddress, Addresses
  <2>1. CASE d = c
    BY <1>5, <1>6, <1>11, <2>1
  <2>2. CASE d # c
    BY <1>11, <2>2 DEF IInv, OneAddress
  <2>. QED  BY <2>1, <2>2
<1>13. OneLive'
  <2>. SUFFICES ASSUME NEW d \in Clients, NEW e \in Clients, Live(d)',
                       socketAddress'[d] = socketAddress'[e]
                PROVE  d = e
    BY DEF OneLive
  <2>. QED  BY <1>6, <1>10 DEF IInv, OneLive, Live
<1>14. Exclusive'
  <2>. SUFFICES ASSUME NEW d \in Clients, d \notin early', Live(d)', NEW e \in Clients,
                       Claims(socketAddress[d], e)'
                PROVE  d = e
    BY DEF Exclusive
  <2>1. CASE d = c
    <3>1. Settled(k)
      BY <1>3, <2>1
    <3>2. ~Claims(k, e)
      BY <1>6, <3>1, SettledFree
    <3>. QED  BY <1>10, <1>11, <2>1, <3>2
  <2>2. CASE d # c
    <3>1. socketAddress'[d] = socketAddress[d] /\ Live(d) /\ d \notin early
      BY <1>3, <1>10, <2>2 DEF Live
    <3>2. socketAddress[d] \in Addresses /\ socketAddress[d] # k
      BY <1>6 DEF IInv, TypeOK
    <3>. QED  BY <1>11, <3>1, <3>2 DEF IInv, Exclusive
  <2>. QED  BY <2>1, <2>2
<1>15. Untouched'
  BY <1>4, <1>10, <1>11 DEF IInv, Untouched, Live, Addresses, libraryVars, progressVars
<1>16. Ends'
  BY <1>4, <1>6, <1>10 DEF IInv, Ends, Live, Addresses, libraryVars
<1>17. Uplink'
  <2>1. \A d \in Clients : Forwarded(d)' = Forwarded(d)
    BY <1>4 DEF Forwarded, progressVars
  <2>2. \A d \in Clients : ~IsData(m, d)
    BY <1>7 DEF IsData
  <2>3. ASSUME running, NEW d \in Clients
        PROVE  Continues(toServer', d, Len(received[d]), Forwarded(d))
    <3>1. Continues(toServer, d, Len(received[d]), Forwarded(d))
      BY <2>3 DEF IInv, Uplink
    <3>. QED  BY <1>4, <1>7, <2>2, <3>1, Counts, OtherSent
  <2>4. ASSUME running, NEW d \in Clients, Live(d)'
        PROVE  Complete(toServer', d, Len(received[d]), Forwarded(d))
    <3>1. CASE d = c
      <4>1. Forwarded(c) = 0 /\ Len(received[c]) = 0
        <5>1. Len(received[c]) = 0 /\ Len(fromClient[c]) = 0
          BY <1>5, EmptyQueue
        <5>2. written[c] - 0 = 0
          BY <1>5
        <5>. QED  BY <5>1, <5>2, Zenon DEF Forwarded
      <4>. QED  BY <3>1, <4>1 DEF Complete
    <3>2. CASE d # c
      <4>1. Complete(toServer, d, Len(received[d]), Forwarded(d))
        BY <1>10, <2>4, <3>2 DEF IInv, Uplink, Live
      <4>. QED  BY <1>4, <1>7, <2>2, <4>1, Counts, OtherSent
    <3>. QED  BY <3>1, <3>2
  <2>. QED  BY <1>4, <2>1, <2>3, <2>4 DEF IInv, Uplink, libraryVars, progressVars
<1>18. Downlink'
  <2>1. \A d \in Clients : Arrived(d)' = Arrived(d)
    BY <1>4 DEF Arrived, progressVars
  <2>2. /\ Continues(fromServer, c, Arrived(c), answered[c])
        /\ Complete(fromServer, c, Arrived(c), answered[c])
    <3>1. \A i \in DOMAIN fromServer : ~IsData(fromServer[i], c)
      <4>. SUFFICES ASSUME NEW i \in DOMAIN fromServer, IsData(fromServer[i], c) PROVE FALSE
        OBVIOUS
      <4>1. Names(fromServer[i], fromServer[i].address, c)
        BY DEF IsData, Names
      <4>2. fromServer[i].address \in Addresses
        BY MessageShapes DEF IInv, TypeOK
      <4>3. Claims(fromServer[i].address, c)
        BY <4>1 DEF Claims, Named
      <4>. QED  BY <1>5, <4>2, <4>3
    <3>2. Arrived(c) = 0
      BY <1>5, EmptyQueue DEF Arrived
    <3>. QED  BY <1>5, <3>1, <3>2 DEF Continues, Complete
  <2>3. \A d \in Clients : d \notin early' => d \notin early
    BY <1>3
  <2>. QED  BY <1>4, <1>10, <2>1, <2>2, <2>3 DEF IInv, Downlink, progressVars
<1>19. Known'
  <2>. SUFFICES ASSUME running PROVE Known'
    BY <1>4 DEF Known, libraryVars
  <2>1. ASSUME NEW i \in DOMAIN toServer', NEW d \in Clients, IsData(toServer'[i], d)
        PROVE  HolderAt(toServer', m_tunnelProxySockets, i, toServer'[i].address, d)
    <3>1. i \in DOMAIN toServer /\ toServer'[i] = toServer[i]
      BY <1>7, <1>8, <2>1 DEF IsData
    <3>. QED  BY <1>4, <1>7, <2>1, <3>1, KnownGrown
  <2>2. ASSUME NEW d \in Clients, Live(d)'
        PROVE  HolderAt(toServer', m_tunnelProxySockets, Len(toServer') + 1, socketAddress'[d], d)
    <3>1. CASE d = c
      <4>1. Connects(m, k, c)
        BY <1>7 DEF Connects
      <4>. QED  BY <1>4, <1>7, <1>10, <3>1, <4>1, HolderNamed
    <3>2. CASE d # c
      <4>1. socketAddress'[d] = socketAddress[d] /\ Live(d)
        BY <1>10, <2>2, <3>2 DEF Live
      <4>2. ~Tells(m, socketAddress[d])
        BY <1>6, <1>7 DEF Tells
      <4>. QED  BY <1>4, <1>7, <4>1, <4>2, KnownGrown
    <3>. QED  BY <3>1, <3>2
  <2>. QED  BY <1>4, <2>1, <2>2 DEF Known, libraryVars
<1>20. Promises'
  <2>. SUFFICES ASSUME NEW d \in Clients, d \notin early'
                PROVE  (/\ tunnel[d] = "open" =>
                             AfterPromise(fromServer, d, socketAddress[d], Arrived(d), promised[d])
                        /\ tunnel[d] = "closing" /\ Live(d) =>
                             promised[d] \in Nat /\ Arrived(d) >= promised[d])'
    BY DEF Promises
  <2>1. Arrived(d)' = Arrived(d)
    BY <1>4 DEF Arrived, progressVars
  <2>2. CASE d = c
    <3>1. Settled(k)
      BY <1>3, <2>2
    <3>2. AfterPromise(fromServer, c, k, Arrived(c), promised[c])
      BY <3>1 DEF AfterPromise, Settled
    <3>. QED  BY <1>4, <1>10, <2>1, <2>2, <3>2 DEF progressVars
  <2>3. CASE d # c
    <3>1. d \notin early
      BY <1>3
    <3>. QED  BY <1>4, <1>10, <2>1, <2>3, <3>1 DEF IInv, Promises, Live, progressVars
  <2>. QED  BY <2>2, <2>3
<1>. QED  BY <1>9, <1>12, <1>13, <1>14, <1>15, <1>17, <1>18, <1>19, <1>20, <1>16 DEF IInv

\* More may follow in the queue.
LEMMA Widened ==
  ASSUME NEW queue, NEW c, NEW low \in Nat, NEW high \in Nat, NEW higher \in Nat, high <= higher,
         Continues(queue, c, low, high)
  PROVE  Continues(queue, c, low, higher)
<1>1. \A n \in (low + 1)..high : n \in (low + 1)..higher
  OBVIOUS
<1>. QED  BY <1>1 DEF Continues

\* A client goes: its address may still be named, but is given to no other client.
LEMMA ClientDisconnectedStep ==
  ASSUME IInv, NEW c \in Clients, ClientDisconnected(c)
  PROVE  IInv'
<1>. DEFINE m == [message |-> "ClientDisconnected", address |-> socketAddress[c]]
<1>. USE ConstantsAssumption
<1>1. /\ tunnel[c] \in {"open", "closing"}
      /\ tunnel' = [tunnel EXCEPT ![c] = "closed"]
      /\ socketAddress' = [socketAddress EXCEPT ![c] = Reserved]
      /\ fromClient' = [fromClient EXCEPT ![c] = <<>>]
      /\ toClient' \in {toClient, [toClient EXCEPT ![c] = <<>>]}
      /\ toServer' = IF socketAddress[c] = Reserved THEN toServer ELSE Append(toServer, m)
      /\ UNCHANGED <<m_currentAddressCounter, serverConnection, registrations, libraryVars,
                     fromServer, progressVars, early>>
  BY DEF ClientDisconnected
<1>2. /\ tunnel'[c] = "closed" /\ socketAddress'[c] = Reserved /\ fromClient'[c] = <<>>
      /\ ~Live(c)'
      /\ \A d \in Clients : d # c =>
           /\ tunnel'[d] = tunnel[d] /\ socketAddress'[d] = socketAddress[d]
           /\ fromClient'[d] = fromClient[d] /\ toClient'[d] = toClient[d]
      /\ toClient'[c] \in {toClient[c], <<>>}
      /\ \A d \in Clients : Live(d)' => Live(d) /\ d # c
  BY <1>1 DEF IInv, TypeOK, Live
<1>3. m \in ProxyMessages /\ toServer \in Seq(ProxyMessages)
      /\ m.message = "ClientDisconnected" /\ m.address = socketAddress[c]
  <2>1. socketAddress[c] \in Addresses /\ toServer \in Seq(ProxyMessages)
    BY DEF IInv, TypeOK
  <2>. QED  BY <2>1, MessageShapes
<1>. HIDE DEF m
<1>4. TypeOK'
  <2>1. toServer' \in Seq(ProxyMessages)
    BY <1>1, <1>3, Grown
  <2>2. /\ fromClient' \in [Clients -> Seq(Data)] /\ toClient' \in [Clients -> Seq(Data)]
        /\ socketAddress' \in [Clients -> Addresses]
    <3>1. <<>> \in Seq(Data) /\ Reserved \in Addresses
      BY EmptyQueue DEF Addresses
    <3>2. /\ fromClient \in [Clients -> Seq(Data)] /\ toClient \in [Clients -> Seq(Data)]
          /\ socketAddress \in [Clients -> Addresses]
      BY DEF IInv, TypeOK
    <3>. QED  BY <1>1, <3>1, <3>2
  <2>3. tunnel' \in [Clients -> {"none", "open", "closing", "closed"}]
    BY <1>1 DEF IInv, TypeOK
  <2>. QED  BY <1>1, <2>1, <2>2, <2>3 DEF IInv, TypeOK, libraryVars, progressVars
<1>5. \A a \in Addresses, d \in Clients : Claims(a, d)' => Claims(a, d)
  <2>1. \A a, d : ~Names(m, a, d)
    BY <1>3 DEF Names
  <2>2. \A a, d : Named(toServer', a, d) => Named(toServer, a, d)
    BY <1>1, <1>3, <2>1, NamedGrown
  <2>3. \A a \in Addresses, d \in Clients :
          a # Reserved /\ socketAddress'[d] = a => socketAddress[d] = a
    BY <1>2
  <2>4. m_tunnelProxySockets' = m_tunnelProxySockets /\ fromServer' = fromServer
    BY <1>1 DEF libraryVars
  <2>. QED  BY <2>2, <2>3, <2>4 DEF Claims
<1>6. OneAddress' /\ OneLive' /\ Exclusive' /\ Untouched'
  <2>2. \A d \in Clients : tunnel[d] = "none" <=> tunnel'[d] = "none"
    BY <1>1, <1>2
  <2>3. \A d \in Clients : tunnel[d] = "none" => d # c
    BY <1>1
  <2>. QED  BY <1>1, <1>2, <1>5, <2>2, <2>3, NoNewClaims DEF progressVars
<1>7. Ends'
  BY <1>1, <1>2 DEF IInv, Ends, Live, libraryVars
<1>8. Uplink'
  <2>1. /\ Forwarded(c)' = written[c] /\ Forwarded(c) <= written[c]
        /\ \A d \in Clients : d # c => Forwarded(d)' = Forwarded(d)
    <3>1. Len(fromClient'[c]) = 0
      BY <1>2, EmptyQueue
    <3>2. \A x, y \in Nat : x - 0 = x /\ x - y <= x
      OBVIOUS
    <3>3. written[c] \in Nat /\ Len(fromClient[c]) \in Nat
      BY Counts
    <3>4. Forwarded(c)' = written[c] - 0
      BY <1>1, <3>1, Zenon DEF Forwarded, progressVars
    <3>. QED  BY <1>1, <1>2, <3>2, <3>3, <3>4 DEF Forwarded, progressVars
  <2>2. \A d \in Clients : ~IsData(m, d)
    BY <1>3 DEF IsData
  <2>3. ASSUME running, NEW d \in Clients
        PROVE  /\ Continues(toServer', d, Len(received[d]), Forwarded(d))
               /\ Live(d) => Complete(toServer', d, Len(received[d]), Forwarded(d))
    <3>1. /\ Continues(toServer, d, Len(received[d]), Forwarded(d))
          /\ Live(d) => Complete(toServer, d, Len(received[d]), Forwarded(d))
      BY <2>3 DEF IInv, Uplink
    <3>2. CASE socketAddress[c] = Reserved
      BY <1>1, <3>1, <3>2
    <3>3. CASE socketAddress[c] # Reserved
      <4>1. toServer' = Append(toServer, m)
        BY <1>1, <3>3
      <4>2. Len(received[d]) \in Nat /\ Forwarded(d) \in Nat
        BY Counts
      <4>. QED  BY <1>3, <2>2, <3>1, <4>1, <4>2, OtherSent
    <3>. QED  BY <3>2, <3>3
  <2>4. running => Continues(toServer', c, Len(received[c]), written[c])
    BY <2>1, <2>3, Counts, Widened
  <2>5. Len(received[c]) <= written[c]
    BY <2>1, Counts
  <2>6. ASSUME NEW d \in Clients
        PROVE  /\ Len(received[d]) <= Forwarded(d)'
               /\ InOrder(received[d], d)
               /\ \A i \in DOMAIN fromClient'[d] :
                    fromClient'[d][i] = [client |-> d, number |-> Forwarded(d)' + i]
    BY <1>2, <2>1, <2>5, EmptyQueue DEF IInv, Uplink
  <2>7. ASSUME NEW d \in Clients, running
        PROVE  /\ Continues(toServer', d, Len(received[d]), Forwarded(d)')
               /\ Live(d)' => Complete(toServer', d, Len(received[d]), Forwarded(d)')
    BY <1>2, <2>1, <2>3, <2>4, <2>7
  <2>. QED  BY <1>1, <2>6, <2>7 DEF Uplink, libraryVars, progressVars
<1>9. /\ \A d \in Clients : d # c => Arrived(d)' = Arrived(d)
      /\ Arrived(c)' <= Arrived(c)
  <2>1. Len(toClient'[c]) \in {Len(toClient[c]), 0}
    BY <1>2, EmptyQueue
  <2>2. \A x, y \in Nat : \A z \in {y, 0} : x + z <= x + y
    OBVIOUS
  <2>3. Len(delivered[c]) \in Nat /\ Len(toClient[c]) \in Nat
    BY Counts
  <2>4. Arrived(c)' = Len(delivered[c]) + Len(toClient'[c])
    BY <1>1 DEF Arrived, progressVars
  <2>. QED  BY <1>1, <1>2, <2>1, <2>2, <2>3, <2>4 DEF Arrived, progressVars
<1>10. Downlink'
  <2>1. c \notin early => Arrived(c)' <= answered[c]
    <3>1. Arrived(c)' \in Nat
      <4>1. Len(delivered[c]) \in Nat /\ Len(toClient'[c]) \in Nat
        BY <1>2, Counts, EmptyQueue
      <4>2. \A x, y \in Nat : x + y \in Nat
        OBVIOUS
      <4>3. Arrived(c)' = Len(delivered[c]) + Len(toClient'[c])
        BY <1>1 DEF Arrived, progressVars
      <4>. QED  BY <4>1, <4>2, <4>3
    <3>2. Arrived(c) \in Nat /\ answered[c] \in Nat /\ (c \notin early => Arrived(c) <= answered[c])
      BY Counts
    <3>3. \A x, y, z \in Nat : x <= y /\ y <= z => x <= z
      OBVIOUS
    <3>. QED  BY <1>9, <3>1, <3>2, <3>3, Zenon
  <2>2. ASSUME NEW d \in Clients, d \notin early
        PROVE  /\ InOrder(delivered[d], d)
               /\ \A i \in DOMAIN toClient'[d] :
                    toClient'[d][i] = [client |-> d, number |-> Len(delivered[d]) + i]
    BY <1>2, <2>2, EmptyQueue DEF IInv, Downlink
  <2>3. ASSUME NEW d \in Clients, d \notin early
        PROVE  Arrived(d)' <= answered[d]
    BY <1>9, <2>1, <2>3, Counts
  <2>. QED  BY <1>1, <1>2, <1>9, <2>2, <2>3 DEF IInv, Downlink, libraryVars, progressVars
<1>11. Known'
  <2>. SUFFICES ASSUME running PROVE Known'
    BY <1>1 DEF Known, libraryVars
  <2>1. CASE socketAddress[c] = Reserved
    BY <1>1, <1>2, <2>1 DEF IInv, Known, libraryVars
  <2>2. CASE socketAddress[c] # Reserved
    <3>. DEFINE last == Len(toServer) + 1
    <3>1. toServer' = Append(toServer, m) /\ Live(c)
      BY <1>1, <2>2 DEF Live
    <3>2. /\ \A i \in DOMAIN toServer : toServer'[i] = toServer[i]
          /\ \A i \in DOMAIN toServer' : i \in DOMAIN toServer \/ i = last
          /\ toServer'[last] = m
      BY <1>3, <3>1, Grown
    <3>. HIDE DEF last
    <3>3. ASSUME NEW i \in DOMAIN toServer', NEW d \in Clients, IsData(toServer'[i], d)
          PROVE  HolderAt(toServer', m_tunnelProxySockets, i, toServer'[i].address, d)
      <4>1. i \in DOMAIN toServer /\ toServer'[i] = toServer[i]
        BY <1>3, <3>2, <3>3 DEF IsData
      <4>. QED  BY <1>3, <3>1, <3>3, <4>1, KnownGrown
    <3>4. ASSUME NEW d \in Clients, Live(d)'
          PROVE  HolderAt(toServer', m_tunnelProxySockets, Len(toServer') + 1, socketAddress'[d], d)
      <4>1. Live(d) /\ d # c /\ socketAddress'[d] = socketAddress[d]
        BY <1>2, <3>4
      <4>2. socketAddress[d] # socketAddress[c]
        BY <4>1 DEF IInv, OneLive
      <4>3. ~Tells(m, socketAddress[d])
        BY <1>3, <4>2 DEF Tells
      <4>. QED  BY <1>3, <3>1, <4>1, <4>3, KnownGrown
    <3>. QED  BY <1>1, <3>3, <3>4 DEF Known, libraryVars
  <2>. QED  BY <2>1, <2>2
<1>12. Promises'
  BY <1>1, <1>2, <1>9 DEF IInv, Promises, progressVars
<1>. QED  BY <1>4, <1>6, <1>7, <1>8, <1>10, <1>11, <1>12 DEF IInv

\* The clients of a server that is lost lose their addresses, and are closed.
LEMMA ServerDisconnectedStep ==
  ASSUME IInv, ServerDisconnected
  PROVE  IInv'
<1>1. /\ serverConnection' = FALSE
      /\ fromServer' = <<>>
      /\ tunnel' = [c \in Clients |-> IF Live(c) /\ tunnel[c] = "open" THEN "closing" ELSE tunnel[c]]
      /\ socketAddress' = [c \in Clients |-> Reserved]
      /\ UNCHANGED <<m_currentAddressCounter, registrations, libraryVars, fromClient, toClient,
                     toServer, progressVars, early>>
  BY DEF ServerDisconnected, Kill, Live
<1>2. \A c \in Clients : /\ ~Live(c)' /\ tunnel'[c] # "open"
                         /\ tunnel[c] = "none" <=> tunnel'[c] = "none"
  BY <1>1 DEF IInv, Ends, Live
<1>3. TypeOK'
  <2>1. tunnel' \in [Clients -> {"none", "open", "closing", "closed"}]
    BY <1>1 DEF IInv, TypeOK
  <2>2. socketAddress' \in [Clients -> Addresses]
    BY <1>1, ConstantsAssumption DEF Addresses
  <2>. QED  BY <1>1, <2>1, <2>2, EmptyQueue DEF IInv, TypeOK, libraryVars, progressVars
<1>4. \A a \in Addresses, c \in Clients : Claims(a, c)' => Claims(a, c)
  BY <1>1, NotNamed DEF Claims, libraryVars
<1>5. \A c \in Clients : tunnel[c] = "none" => socketAddress'[c] = socketAddress[c]
  BY <1>1 DEF IInv, Untouched, Live
<1>6. OneAddress' /\ OneLive' /\ Exclusive' /\ Untouched'
  BY <1>1, <1>2, <1>4, <1>5, NoNewClaims DEF libraryVars, progressVars
<1>7. Ends'
  BY <1>1, <1>2 DEF IInv, Ends, libraryVars
<1>8. Uplink'
  BY <1>1, <1>2 DEF IInv, Uplink, Forwarded, libraryVars, progressVars
<1>9. Downlink'
  BY <1>1, <1>2 DEF IInv, Downlink, Arrived, progressVars
<1>10. Known'
  BY <1>1, <1>2 DEF IInv, Known, libraryVars
<1>11. Promises'
  BY <1>1, <1>2 DEF IInv, Promises
<1>. QED  BY <1>3, <1>6, <1>7, <1>8, <1>9, <1>10, <1>11 DEF IInv

\* The next registration starts from nothing: no address is in use.
LEMMA RegisterServerStep ==
  ASSUME IInv, RegisterServer
  PROVE  IInv'
<1>1. /\ ~serverConnection /\ ~running /\ registrations < MaxServers
      /\ registrations' = registrations + 1
      /\ serverConnection' = TRUE /\ running' = TRUE
      /\ m_currentAddressCounter' = 0
      /\ toServer' = <<>> /\ fromServer' = <<>>
      /\ UNCHANGED <<tunnel, socketAddress, m_tunnelProxySockets, m_echo, fromClient, toClient,
                     progressVars, early>>
  BY DEF RegisterServer
<1>2. /\ \A c \in Clients : ~Live(c) /\ ~Live(c)' /\ tunnel[c] # "open"
      /\ \A a \in Addresses : m_tunnelProxySockets[a] = NoClient
  BY <1>1 DEF IInv, Ends, Live
<1>3. TypeOK'
  <2>1. registrations' \in 1..MaxServers
    BY <1>1, ConstantsAssumption DEF IInv, TypeOK
  <2>2. 0 \in Addresses
    BY ConstantsAssumption DEF Addresses
  <2>. QED  BY <1>1, <2>1, <2>2, EmptyQueue DEF IInv, TypeOK, progressVars
<1>4. \A a \in Addresses, c \in Clients : ~Claims(a, c)'
  BY <1>1, <1>2, NotNamed, ConstantsAssumption DEF Claims, Live
<1>5. OneAddress' /\ OneLive' /\ Exclusive'
  BY <1>2, <1>4 DEF OneAddress, OneLive, Exclusive, Addresses
<1>6. Untouched'
  BY <1>1, <1>2, <1>4 DEF IInv, Untouched, Addresses, progressVars
<1>7. Ends'
  BY <1>1, <1>2 DEF Ends
<1>8. Uplink'
  BY <1>1, <1>2, EmptyQueue DEF IInv, Uplink, Continues, Forwarded, progressVars
<1>9. Downlink'
  BY <1>1, <1>2 DEF IInv, Downlink, Arrived, progressVars
<1>10. Known'
  BY <1>1, <1>2, EmptyQueue DEF Known
<1>11. Promises'
  BY <1>1, <1>2 DEF IInv, Promises
<1>. QED  BY <1>3, <1>5, <1>6, <1>7, <1>8, <1>9, <1>10, <1>11 DEF IInv

-----------------------------------------------------------------------------
(* The server.                                                             *)

\* The library forgets its clients with its connection.
LEMMA CleanUpStep ==
  ASSUME IInv, CleanUp
  PROVE  IInv'
<1>1. /\ running' = FALSE
      /\ m_tunnelProxySockets' = NoSockets
      /\ toServer' = <<>>
      /\ UNCHANGED <<proxyVars, m_echo, fromClient, toClient, fromServer, progressVars, early>>
  BY DEF CleanUp
<1>2. /\ m_tunnelProxySockets' \in [Addresses -> Clients \cup {NoClient}]
      /\ \A a \in Addresses : m_tunnelProxySockets'[a] = NoClient
      /\ 0 \in Addresses /\ Reserved \in Addresses
  BY <1>1, ConstantsAssumption DEF NoSockets, Addresses
<1>3. TypeOK'
  BY <1>1, <1>2, EmptyQueue DEF IInv, TypeOK, proxyVars, progressVars
<1>4. \A a \in Addresses, c \in Clients : Claims(a, c)' => Claims(a, c)
  BY <1>1, <1>2, NotNamed, ConstantsAssumption DEF Claims, proxyVars
<1>5. OneAddress' /\ OneLive' /\ Exclusive' /\ Untouched'
  BY <1>1, <1>4, NoNewClaims DEF proxyVars, progressVars
<1>6. Ends'
  BY <1>1, <1>2 DEF IInv, Ends, Live, proxyVars
<1>7. Uplink'
  BY <1>1 DEF IInv, Uplink, Forwarded, progressVars
<1>8. Downlink' /\ Promises'
  BY <1>1, Unaffected DEF proxyVars, progressVars
<1>9. Known'
  BY <1>1 DEF Known
<1>. QED  BY <1>3, <1>5, <1>6, <1>7, <1>8, <1>9 DEF IInv

\* A client of the library is one the proxy gave this address, and the one that has it now
\* unless that was not settled.
LEMMA SocketClaims ==
  ASSUME IInv, NEW a \in Addresses, m_tunnelProxySockets[a] # NoClient
  PROVE  LET c == m_tunnelProxySockets[a] IN
         /\ c \in Clients /\ Claims(a, c) /\ tunnel[c] # "none"
         /\ Live(c) => socketAddress[c] = a
         /\ \A d \in Clients : Live(d) /\ d \notin early /\ socketAddress[d] = a => d = c
<1>. DEFINE c == m_tunnelProxySockets[a]
<1>1. c \in Clients /\ Claims(a, c)
  BY DEF IInv, TypeOK, Claims
<1>. HIDE DEF c
<1>2. tunnel[c] # "none"
  BY <1>1 DEF IInv, Untouched
<1>3. Live(c) => socketAddress[c] = a
  BY <1>1, LiveClaims DEF IInv, OneAddress
<1>4. \A d \in Clients : Live(d) /\ d \notin early /\ socketAddress[d] = a => d = c
  BY <1>1 DEF IInv, Exclusive
<1>. QED  BY <1>1, <1>2, <1>3, <1>4 DEF c

\* Data written into a socket.
LEMMA WriteDataStep ==
  ASSUME IInv, NEW a \in Addresses, m_tunnelProxySockets[a] # NoClient, WriteData(a),
         UNCHANGED <<tunnel, socketAddress, toClient, delivered, promised, early>>
  PROVE  /\ answered' \in [Clients -> Nat] /\ fromServer' \in Seq(ServerMessages)
         /\ \A b \in Addresses, d \in Clients :
              Named(fromServer', b, d) => Claims(b, d)
         /\ \A d \in Clients : tunnel[d] = "none" => answered'[d] = answered[d]
         /\ Downlink' /\ Promises'
<1>. DEFINE c == m_tunnelProxySockets[a]
            m == [message |-> "data", address |-> a,
                  data |-> [client |-> c, number |-> answered[c] + 1]]
<1>1. c \in Clients /\ Claims(a, c) /\ tunnel[c] # "none"
  BY SocketClaims
<1>2. answered' = [answered EXCEPT ![c] = @ + 1] /\ fromServer' = Append(fromServer, m)
  BY DEF WriteData
<1>. HIDE DEF c
<1>3. m \in ServerMessages /\ fromServer \in Seq(ServerMessages)
      /\ m.message = "data" /\ m.address = a /\ m.data.client = c /\ m.data.number = answered[c] + 1
  <2>1. [client |-> c, number |-> answered[c] + 1] \in Data
    BY <1>1, Counts, MessageShapes
  <2>. QED  BY ZenonT(40), <2>1, MessageShapes DEF IInv, TypeOK
<1>. HIDE DEF m
<1>4. /\ answered'[c] = answered[c] + 1
      /\ \A d \in Clients : d # c => answered'[d] = answered[d]
      /\ answered' \in [Clients -> Nat]
  BY SMTT(40), <1>1, <1>2 DEF IInv, TypeOK
<1>5. fromServer' \in Seq(ServerMessages)
  BY <1>2, <1>3, Grown
<1>6. ASSUME NEW b \in Addresses, NEW d \in Clients, Named(fromServer', b, d)
      PROVE  Claims(b, d)
  <2>1. Named(fromServer, b, d) \/ Names(m, b, d)
    BY <1>2, <1>3, <1>6, NamedGrown
  <2>2. Names(m, b, d) => b = a /\ d = c
    BY <1>3 DEF Names
  <2>. QED  BY <1>1, <2>1, <2>2 DEF Claims
<1>7. \A d \in Clients : Arrived(d)' = Arrived(d)
  BY DEF Arrived
<1>8. Downlink'
  <2>1. ASSUME tunnel[c] = "open", c \notin early
        PROVE  /\ Continues(fromServer', c, Arrived(c), answered[c] + 1)
               /\ Complete(fromServer', c, Arrived(c), answered[c] + 1)
    <3>1. /\ Continues(fromServer, c, Arrived(c), answered[c])
          /\ Complete(fromServer, c, Arrived(c), answered[c])
      BY <1>1, <2>1 DEF IInv, Downlink
    <3>2. IsData(m, c)
      BY <1>3 DEF IsData
    <3>3. Arrived(c) \in Nat /\ answered[c] \in Nat /\ Arrived(c) <= answered[c]
      BY <1>1, <2>1, Counts
    <3>. QED  BY <1>2, <1>3, <3>1, <3>2, <3>3, NextSent
  <2>2. ASSUME NEW d \in Clients, d # c, tunnel[d] = "open", d \notin early
        PROVE  /\ Continues(fromServer', d, Arrived(d), answered[d])
               /\ Complete(fromServer', d, Arrived(d), answered[d])
    <3>1. /\ Continues(fromServer, d, Arrived(d), answered[d])
          /\ Complete(fromServer, d, Arrived(d), answered[d])
      BY <2>2 DEF IInv, Downlink
    <3>2. ~IsData(m, d)
      BY <1>3, <2>2 DEF IsData
    <3>3. Arrived(d) \in Nat /\ answered[d] \in Nat
      BY Counts
    <3>. QED  BY <1>2, <1>3, <3>1, <3>2, <3>3, OtherSent
  <2>3. ASSUME NEW d \in Clients, d \notin early
        PROVE  Arrived(d) <= answered'[d]
    <3>1. Arrived(d) \in Nat /\ answered[d] \in Nat /\ Arrived(d) <= answered[d]
      BY <2>3, Counts
    <3>. QED  BY <1>4, <3>1
  <2>4. ASSUME NEW d \in Clients, tunnel[d] = "open", d \notin early
        PROVE  /\ Continues(fromServer', d, Arrived(d), answered'[d])
               /\ Complete(fromServer', d, Arrived(d), answered'[d])
    BY <1>4, <2>1, <2>2, <2>4
  <2>5. ASSUME NEW d \in Clients, d \notin early
        PROVE  /\ InOrder(delivered[d], d)
               /\ \A i \in DOMAIN toClient[d] :
                    toClient[d][i] = [client |-> d, number |-> Len(delivered[d]) + i]
    BY <2>5 DEF IInv, Downlink
  <2>. QED  BY <1>7, <2>3, <2>4, <2>5 DEF Downlink
<1>9. Promises'
  <2>1. ASSUME NEW d \in Clients, tunnel[d] = "open", d \notin early
        PROVE  AfterPromise(fromServer', d, socketAddress[d], Arrived(d), promised[d])
    <3>1. AfterPromise(fromServer, d, socketAddress[d], Arrived(d), promised[d])
      BY <2>1 DEF IInv, Promises
    <3>. QED  BY <1>2, <1>3, <3>1, PromiseKept
  <2>. QED  BY <1>7, <2>1 DEF IInv, Promises, Live
<1>. QED  BY <1>1, <1>4, <1>5, <1>6, <1>8, <1>9

\* The application of the server writes for a client.
LEMMA ApplicationWritesStep ==
  ASSUME IInv, NEW a \in Addresses, ApplicationWrites(a)
  PROVE  IInv'
<1>1. /\ m_tunnelProxySockets[a] # NoClient
      /\ WriteData(a)
      /\ UNCHANGED <<proxyVars, libraryVars, fromClient, toClient, toServer, written, received,
                     delivered, promised, early>>
  BY DEF ApplicationWrites
<1>2. UNCHANGED <<tunnel, socketAddress, m_currentAddressCounter, serverConnection, registrations,
                  running, m_tunnelProxySockets, m_echo, fromClient, toClient, toServer, written,
                  received, delivered, promised, early>>
  BY <1>1 DEF proxyVars, libraryVars
<1>3. /\ answered' \in [Clients -> Nat] /\ fromServer' \in Seq(ServerMessages)
      /\ \A b \in Addresses, d \in Clients : Named(fromServer', b, d) => Claims(b, d)
      /\ \A d \in Clients : tunnel[d] = "none" => answered'[d] = answered[d]
      /\ Downlink' /\ Promises'
  BY <1>1, <1>2, WriteDataStep
<1>4. TypeOK'
  BY <1>2, <1>3 DEF IInv, TypeOK
<1>5. \A b \in Addresses, d \in Clients : Claims(b, d)' => Claims(b, d)
  BY <1>2, <1>3 DEF Claims
<1>6. OneAddress' /\ OneLive' /\ Exclusive' /\ Untouched'
  BY <1>2, <1>3, <1>5, NoNewClaims
<1>7. Ends' /\ Uplink' /\ Known'
  BY <1>2, Unaffected
<1>. QED  BY <1>3, <1>4, <1>6, <1>7 DEF IInv

\* The request to disconnect a client is put behind the data written for it.
LEMMA RequestSocketDisconnectStep ==
  ASSUME IInv, NEW a \in Addresses, RequestSocketDisconnect(a)
  PROVE  IInv'
<1>. DEFINE c == m_tunnelProxySockets[a]
            m == [message |-> "DisconnectClient", address |-> a]
<1>1. /\ m_tunnelProxySockets[a] # NoClient
      /\ promised[c] = NotAsked
      /\ promised' = [promised EXCEPT ![c] = answered[c]]
      /\ fromServer' = Append(fromServer, m)
      /\ UNCHANGED <<proxyVars, libraryVars, fromClient, toClient, toServer, written, received,
                     answered, delivered, early>>
  BY DEF RequestSocketDisconnect
<1>2. UNCHANGED <<tunnel, socketAddress, m_currentAddressCounter, serverConnection, registrations,
                  running, m_tunnelProxySockets, m_echo, fromClient, toClient, toServer, written,
                  received, answered, delivered, early>>
  BY <1>1 DEF proxyVars, libraryVars
<1>3. /\ c \in Clients
      /\ Live(c) => socketAddress[c] = a
      /\ \A d \in Clients : Live(d) /\ d \notin early /\ socketAddress[d] = a => d = c
  BY <1>1, SocketClaims
<1>. HIDE DEF c
<1>4. m \in ServerMessages /\ fromServer \in Seq(ServerMessages)
      /\ m.message = "DisconnectClient" /\ m.address = a
  BY MessageShapes DEF IInv, TypeOK
<1>. HIDE DEF m
<1>5. /\ promised'[c] = answered[c] /\ answered[c] \in Nat
      /\ \A d \in Clients : d # c => promised'[d] = promised[d]
      /\ promised' \in [Clients -> Nat \cup {NotAsked}]
  BY <1>1, <1>3 DEF IInv, TypeOK
<1>6. TypeOK'
  <2>1. fromServer' \in Seq(ServerMessages)
    BY <1>1, <1>4, Grown
  <2>. QED  BY <1>2, <1>5, <2>1 DEF IInv, TypeOK
<1>7. \A b \in Addresses, d \in Clients : Claims(b, d)' => Claims(b, d)
  <2>1. \A b, d : ~Names(m, b, d)
    BY <1>4 DEF Names
  <2>2. \A b, d : Named(fromServer', b, d) => Named(fromServer, b, d)
    BY <1>1, <1>4, <2>1, NamedGrown
  <2>. QED  BY <1>2, <2>2 DEF Claims
<1>8. OneAddress' /\ OneLive' /\ Exclusive' /\ Untouched'
  BY <1>2, <1>7, NoNewClaims
<1>9. Ends' /\ Uplink' /\ Known'
  BY <1>2, Unaffected
<1>10. \A d \in Clients : Arrived(d)' = Arrived(d)
  BY <1>2 DEF Arrived
<1>11. Downlink'
  <2>1. ASSUME NEW d \in Clients, tunnel[d] = "open", d \notin early
        PROVE  /\ Continues(fromServer', d, Arrived(d), answered[d])
               /\ Complete(fromServer', d, Arrived(d), answered[d])
    <3>1. /\ Continues(fromServer, d, Arrived(d), answered[d])
          /\ Complete(fromServer, d, Arrived(d), answered[d])
      BY <2>1 DEF IInv, Downlink
    <3>2. ~IsData(m, d)
      BY <1>4 DEF IsData
    <3>3. Arrived(d) \in Nat /\ answered[d] \in Nat
      BY Counts
    <3>. QED  BY <1>1, <1>4, <3>1, <3>2, <3>3, OtherSent
  <2>2. ASSUME NEW d \in Clients, d \notin early
        PROVE  /\ Arrived(d) <= answered[d] /\ InOrder(delivered[d], d)
               /\ \A i \in DOMAIN toClient[d] :
                    toClient[d][i] = [client |-> d, number |-> Len(delivered[d]) + i]
    BY <2>2 DEF IInv, Downlink
  <2>. QED  BY <1>2, <1>10, <2>1, <2>2 DEF Downlink
<1>12. Promises'
  <2>1. ASSUME tunnel[c] = "open", c \notin early
        PROVE  AfterPromise(fromServer', c, socketAddress[c], Arrived(c), answered[c])
    <3>1. AfterPromise(fromServer, c, socketAddress[c], Arrived(c), NotAsked)
      BY <1>1, <1>3, <2>1 DEF IInv, Promises
    <3>4. socketAddress[c] = a
      BY <1>3, <2>1 DEF IInv, Ends
    <3>2. Complete(fromServer, c, Arrived(c), answered[c])
      BY <1>3, <2>1 DEF IInv, Downlink
    <3>3. Arrived(c) \in Nat
      BY <1>3, Counts
    <3>. QED  BY <1>1, <1>4, <1>5, <3>1, <3>2, <3>3, <3>4, PromiseMade
  <2>2. ASSUME NEW d \in Clients, d # c, tunnel[d] = "open", d \notin early
        PROVE  AfterPromise(fromServer', d, socketAddress[d], Arrived(d), promised[d])
    <3>1. AfterPromise(fromServer, d, socketAddress[d], Arrived(d), promised[d])
      BY <2>2 DEF IInv, Promises
    <3>2. Live(d)
      BY <2>2 DEF IInv, Ends
    <3>3. socketAddress[d] # a
      BY <1>3, <2>2, <3>2
    <3>. QED  BY <1>1, <1>4, <3>1, <3>3, PromiseKept
  <2>3. ASSUME NEW d \in Clients, tunnel[d] = "closing", Live(d), d \notin early
        PROVE  promised'[d] \in Nat /\ Arrived(d) >= promised'[d]
    <3>1. promised[d] \in Nat /\ Arrived(d) >= promised[d]
      BY <2>3 DEF IInv, Promises
    <3>2. d # c
      BY <1>1, <3>1 DEF NotAsked
    <3>. QED  BY <1>5, <3>1, <3>2
  <2>4. ASSUME NEW d \in Clients, tunnel[d] = "open", d \notin early
        PROVE  AfterPromise(fromServer', d, socketAddress[d], Arrived(d), promised'[d])
    BY <1>5, <2>1, <2>2, <2>4
  <2>. QED  BY <1>2, <1>10, <2>3, <2>4 DEF Promises, Live
<1>. QED  BY <1>6, <1>8, <1>9, <1>11, <1>12 DEF IInv

\* The proxy passes data to the client that is named, or closes its connection.
LEMMA ReceiveFromServerStep ==
  ASSUME IInv, ReceiveFromServer
  PROVE  IInv'
<1>. DEFINE m == Head(fromServer)
<1>1. /\ fromServer # <<>>
      /\ IF m.message = "data" THEN SendTo(ClientAt(m.address), m.data) /\ UNCHANGED tunnel
         ELSE Kill(ClientAt(m.address))
      /\ fromServer' = Tail(fromServer)
      /\ UNCHANGED <<socketAddress, m_currentAddressCounter, serverConnection, registrations,
                     libraryVars, fromClient, toServer, progressVars, early>>
  BY DEF ReceiveFromServer
<1>2. UNCHANGED <<socketAddress, m_currentAddressCounter, serverConnection, registrations, running,
                  m_tunnelProxySockets, m_echo, fromClient, toServer, written, received, answered,
                  delivered, promised, early>>
  BY <1>1 DEF libraryVars, progressVars
<1>3. /\ fromServer \in Seq(ServerMessages) /\ m \in ServerMessages
      /\ fromServer' \in Seq(ServerMessages)
      /\ m.address \in Addresses /\ m.message \in {"data", "DisconnectClient"}
      /\ m.message = "data" => m.data \in Data
  <2>1. fromServer \in Seq(ServerMessages)
    BY DEF IInv, TypeOK
  <2>2. m \in ServerMessages /\ Tail(fromServer) \in Seq(ServerMessages)
    BY <1>1, <2>1, Shortened
  <2>. QED  BY <1>1, <2>1, <2>2, MessageShapes
<1>4. \A a, d : Named(fromServer', a, d) => Named(fromServer, a, d)
  BY <1>1, <1>3, NamedShortened
<1>5. \A a \in Addresses, d \in Clients : Claims(a, d)' => Claims(a, d)
  BY <1>2, <1>4 DEF Claims
<1>6. \A a, d : Names(m, a, d) => Named(fromServer, a, d)
  BY <1>1, <1>3, NamedShortened
<1>7. \A d \in Clients : d \in ClientAt(m.address) <=> Live(d) /\ socketAddress[d] = m.address
  BY DEF ClientAt, Live
<1>8. Uplink' /\ Known'
  BY <1>2, Unaffected
<1>9. CASE m.message = "data"
  <2>1. PICK c \in Clients : c = m.data.client /\ m.data \in Data
    BY <1>3, <1>9, MessageShapes
  <2>2. Claims(m.address, c)
    BY <1>6, <1>9, <2>1 DEF Names, Claims
  <2>3. /\ Live(c) => socketAddress[c] = m.address
        /\ \A d \in Clients : Live(d) /\ d \notin early /\ socketAddress[d] = m.address => d = c
    <3>1. Live(c) => socketAddress[c] = m.address
      BY <1>3, <2>1, <2>2, LiveClaims DEF IInv, OneAddress
    <3>2. \A d \in Clients : Live(d) /\ d \notin early /\ socketAddress[d] = m.address => d = c
      BY <2>1, <2>2 DEF IInv, Exclusive
    <3>. QED  BY <3>1, <3>2
  <2>4. \A d \in Clients : IsData(m, d) <=> d = c
    BY <1>9, <2>1 DEF IsData
  <2>. HIDE DEF m
  <2>5. \A d \in Clients \ early : tunnel[d] = "open" => (d \in ClientAt(m.address) <=> d = c)
    BY <1>7, <2>3 DEF IInv, Ends
  <2>6. /\ tunnel' = tunnel
        /\ toClient' = [d \in Clients |-> IF d \in ClientAt(m.address) /\ tunnel[d] = "open"
                                          THEN Append(toClient[d], m.data) ELSE toClient[d]]
    BY <1>1, <1>9 DEF SendTo
  <2>7. \A d \in Clients \ early :
          toClient'[d] = IF d = c /\ tunnel[c] = "open" THEN Append(toClient[c], m.data) ELSE toClient[d]
    BY <2>5, <2>6
  <2>8. TypeOK'
    <3>1. \A d \in Clients : Append(toClient[d], m.data) \in Seq(Data) /\ toClient[d] \in Seq(Data)
      BY <2>1, Counts, Grown
    <3>2. toClient' \in [Clients -> Seq(Data)]
      BY <2>6, <3>1
    <3>. QED  BY <1>2, <1>3, <2>6, <3>2 DEF IInv, TypeOK
  <2>9. tunnel[c] # "none"
    BY <1>3, <2>1, <2>2 DEF IInv, Untouched
  <2>10. /\ tunnel' = tunnel
         /\ \A d \in Clients : tunnel[d] = "none" => toClient'[d] = toClient[d]
    BY <2>6
  <2>11. OneAddress' /\ OneLive' /\ Exclusive' /\ Untouched'
    BY <1>2, <1>5, <2>10, NoNewClaims
  <2>12. Ends'
    BY <1>2, <2>6, Unaffected
  <2>13. \A d \in Clients \ early : d # c \/ tunnel[c] # "open" =>
           toClient'[d] = toClient[d] /\ Arrived(d)' = Arrived(d)
    BY <1>2, <2>7 DEF Arrived
  <2>14. ASSUME tunnel[c] = "open", c \notin early
         PROVE  /\ Arrived(c)' = Arrived(c) + 1 /\ Arrived(c) + 1 <= answered[c]
                /\ m.data.number = Arrived(c) + 1
                /\ Continues(fromServer', c, Arrived(c) + 1, answered[c])
                /\ Complete(fromServer', c, Arrived(c) + 1, answered[c])
                /\ AfterPromise(fromServer', c, socketAddress[c], Arrived(c) + 1, promised[c])
    <3>1. /\ Continues(fromServer, c, Arrived(c), answered[c])
          /\ Complete(fromServer, c, Arrived(c), answered[c])
          /\ AfterPromise(fromServer, c, socketAddress[c], Arrived(c), promised[c])
      BY <2>1, <2>14 DEF IInv, Downlink, Promises
    <3>2. IsData(m, c) /\ Arrived(c) \in Nat /\ answered[c] \in Nat
      BY <2>1, <2>4, Counts
    <3>3. /\ m.data.number = Arrived(c) + 1 /\ Arrived(c) + 1 <= answered[c]
          /\ Continues(fromServer', c, Arrived(c) + 1, answered[c])
          /\ Complete(fromServer', c, Arrived(c) + 1, answered[c])
      BY <1>1, <1>3, <3>1, <3>2, NextRead DEF m
    <3>4. AfterPromise(fromServer', c, socketAddress[c], Arrived(c) + 1, promised[c])
      BY <1>1, <1>3, <3>1, <3>2, <3>3, PromiseNextRead DEF m
    <3>5. Arrived(c)' = Arrived(c) + 1
      <4>1. Len(toClient'[c]) = Len(toClient[c]) + 1
        <5>1. toClient'[c] = Append(toClient[c], m.data)
          BY <2>7, <2>14
        <5>2. toClient[c] \in Seq(Data)
          BY Counts
        <5>. QED  BY <2>1, <5>1, <5>2, Grown
      <4>2. \A x, y \in Nat : x + (y + 1) = (x + y) + 1
        OBVIOUS
      <4>3. Len(delivered[c]) \in Nat /\ Len(toClient[c]) \in Nat
        BY <2>1, Counts
      <4>4. Arrived(c)' = Len(delivered[c]) + (Len(toClient[c]) + 1)
        BY <1>2, <4>1 DEF Arrived
      <4>. QED  BY <4>2, <4>3, <4>4, Zenon DEF Arrived
    <3>. QED  BY <3>3, <3>4, <3>5
  <2>15. ASSUME NEW d \in Clients, d # c, tunnel[d] = "open", d \notin early
         PROVE  /\ Continues(fromServer', d, Arrived(d), answered[d])
                /\ Complete(fromServer', d, Arrived(d), answered[d])
                /\ AfterPromise(fromServer', d, socketAddress[d], Arrived(d), promised[d])
    <3>1. /\ Continues(fromServer, d, Arrived(d), answered[d])
          /\ Complete(fromServer, d, Arrived(d), answered[d])
          /\ AfterPromise(fromServer, d, socketAddress[d], Arrived(d), promised[d])
      BY <2>15 DEF IInv, Downlink, Promises
    <3>2. ~IsData(m, d) /\ Arrived(d) \in Nat /\ answered[d] \in Nat
      BY <2>4, <2>15, Counts
    <3>3. /\ Continues(fromServer', d, Arrived(d), answered[d])
          /\ Complete(fromServer', d, Arrived(d), answered[d])
      BY <1>1, <1>3, <3>1, <3>2, OtherRead DEF m
    <3>4. AfterPromise(fromServer', d, socketAddress[d], Arrived(d), promised[d])
      BY <1>1, <1>3, <3>1, <3>2, PromiseOtherRead DEF m
    <3>. QED  BY <3>3, <3>4
  <2>16. ASSUME c \notin early
         PROVE  \A i \in DOMAIN toClient'[c] :
                  toClient'[c][i] = [client |-> c, number |-> Len(delivered[c]) + i]
    <3>1. \A i \in DOMAIN toClient[c] :
            toClient[c][i] = [client |-> c, number |-> Len(delivered[c]) + i]
      BY <2>1, <2>16 DEF IInv, Downlink
    <3>2. CASE tunnel[c] # "open"
      BY <2>1, <2>13, <2>16, <3>1, <3>2
    <3>3. CASE tunnel[c] = "open"
      <4>1. toClient'[c] = Append(toClient[c], m.data)
        BY <2>1, <2>7, <2>16, <3>3
      <4>2. /\ \A i \in DOMAIN toClient[c] : toClient'[c][i] = toClient[c][i]
            /\ \A i \in DOMAIN toClient'[c] : i \in DOMAIN toClient[c] \/ i = Len(toClient[c]) + 1
            /\ toClient'[c][Len(toClient[c]) + 1] = m.data
        BY <2>1, <4>1, Counts, Grown
      <4>3. m.data = [client |-> c, number |-> Arrived(c) + 1]
        BY <2>1, <2>14, <2>16, <3>3, MessageShapes
      <4>4. \A x, y \in Nat : x + (y + 1) = (x + y) + 1
        OBVIOUS
      <4>5. Len(delivered[c]) \in Nat /\ Len(toClient[c]) \in Nat
        BY <2>1, Counts
      <4>6. Arrived(c) + 1 = Len(delivered[c]) + (Len(toClient[c]) + 1)
        BY <4>4, <4>5, Zenon DEF Arrived
      <4>. QED  BY <3>1, <4>2, <4>3, <4>6
    <3>. QED  BY <3>2, <3>3
  <2>17. Downlink'
    <3>1. ASSUME NEW d \in Clients, d \notin early
          PROVE  /\ Arrived(d)' <= answered[d] /\ InOrder(delivered[d], d)
                 /\ \A i \in DOMAIN toClient'[d] :
                      toClient'[d][i] = [client |-> d, number |-> Len(delivered[d]) + i]
      <4>1. Arrived(d) <= answered[d] /\ InOrder(delivered[d], d)
            /\ \A i \in DOMAIN toClient[d] :
                 toClient[d][i] = [client |-> d, number |-> Len(delivered[d]) + i]
        BY <3>1 DEF IInv, Downlink
      <4>. QED  BY <2>13, <2>14, <2>16, <3>1, <4>1
    <3>2. ASSUME NEW d \in Clients, tunnel[d] = "open", d \notin early
          PROVE  /\ Continues(fromServer', d, Arrived(d)', answered[d])
                 /\ Complete(fromServer', d, Arrived(d)', answered[d])
      BY <2>13, <2>14, <2>15, <3>2
    <3>. QED  BY <1>2, <2>6, <3>1, <3>2 DEF Downlink
  <2>18. Promises'
    <3>1. ASSUME NEW d \in Clients, tunnel[d] = "open", d \notin early
          PROVE  AfterPromise(fromServer', d, socketAddress[d], Arrived(d)', promised[d])
      BY <2>13, <2>14, <2>15, <3>1
    <3>2. ASSUME NEW d \in Clients, tunnel[d] = "closing", Live(d), d \notin early
          PROVE  promised[d] \in Nat /\ Arrived(d)' >= promised[d]
      BY <2>13, <3>2 DEF IInv, Promises
    <3>. QED  BY <1>2, <2>6, <3>1, <3>2 DEF Promises, Live
  <2>. QED  BY <1>8, <2>8, <2>11, <2>17, <2>18, <2>12 DEF IInv
<1>10. CASE m.message = "DisconnectClient"
  <2>1. \A d \in Clients : ~IsData(m, d)
    BY <1>10 DEF IsData
  <2>2. /\ toClient' = toClient
        /\ tunnel' = [d \in Clients |-> IF d \in ClientAt(m.address) /\ tunnel[d] = "open"
                                        THEN "closing" ELSE tunnel[d]]
    BY <1>1, <1>10 DEF Kill
  <2>. HIDE DEF m
  <2>3. \A d \in Clients : /\ tunnel'[d] = "open" => tunnel[d] = "open" /\ d \notin ClientAt(m.address)
                           /\ tunnel'[d] = "closing" =>
                                tunnel[d] = "closing" \/ (tunnel[d] = "open" /\ d \in ClientAt(m.address))
                           /\ tunnel[d] = "none" <=> tunnel'[d] = "none"
                           /\ tunnel[d] \in {"open", "closing"} => tunnel'[d] \in {"open", "closing"}
    BY <2>2
  <2>4. TypeOK'
    <3>1. tunnel' \in [Clients -> {"none", "open", "closing", "closed"}]
      BY <2>2 DEF IInv, TypeOK
    <3>. QED  BY <1>2, <1>3, <2>2, <3>1 DEF IInv, TypeOK
  <2>5. OneAddress' /\ OneLive' /\ Exclusive' /\ Untouched'
    BY <1>2, <1>5, <2>2, <2>3, NoNewClaims
  <2>6. Ends'
    BY <1>2, <2>3 DEF IInv, Ends, Live
  <2>7. \A d \in Clients : Arrived(d)' = Arrived(d)
    BY <1>2, <2>2 DEF Arrived
  <2>8. ASSUME NEW d \in Clients, tunnel[d] = "open", d \notin early
        PROVE  /\ Continues(fromServer', d, Arrived(d), answered[d])
               /\ Complete(fromServer', d, Arrived(d), answered[d])
               /\ AfterPromise(fromServer', d, socketAddress[d], Arrived(d), promised[d])
               /\ d \in ClientAt(m.address) => promised[d] \in Nat /\ Arrived(d) >= promised[d]
    <3>1. /\ Continues(fromServer, d, Arrived(d), answered[d])
          /\ Complete(fromServer, d, Arrived(d), answered[d])
          /\ AfterPromise(fromServer, d, socketAddress[d], Arrived(d), promised[d])
      BY <2>8 DEF IInv, Downlink, Promises
    <3>2. ~IsData(m, d) /\ Arrived(d) \in Nat /\ answered[d] \in Nat
      BY <2>1, Counts
    <3>3. /\ Continues(fromServer', d, Arrived(d), answered[d])
          /\ Complete(fromServer', d, Arrived(d), answered[d])
      BY <1>1, <1>3, <3>1, <3>2, OtherRead DEF m
    <3>4. AfterPromise(fromServer', d, socketAddress[d], Arrived(d), promised[d])
      BY <1>1, <1>3, <3>1, <3>2, PromiseOtherRead DEF m
    <3>5. ASSUME d \in ClientAt(m.address) PROVE promised[d] \in Nat /\ Arrived(d) >= promised[d]
      <4>1. socketAddress[d] = m.address
        BY <1>7, <3>5
      <4>. QED  BY <1>1, <1>3, <1>10, <3>1, <3>2, <4>1, PromiseDue DEF m
    <3>. QED  BY <3>3, <3>4, <3>5
  <2>9. Downlink'
    <3>1. \A d \in Clients \ early :
            /\ Arrived(d) <= answered[d] /\ InOrder(delivered[d], d)
            /\ \A i \in DOMAIN toClient[d] :
                 toClient[d][i] = [client |-> d, number |-> Len(delivered[d]) + i]
      BY DEF IInv, Downlink
    <3>. QED  BY <1>2, <2>2, <2>3, <2>7, <2>8, <3>1 DEF Downlink
  <2>10. Promises'
    <3>1. \A d \in Clients \ early : tunnel[d] = "closing" /\ Live(d) =>
            promised[d] \in Nat /\ Arrived(d) >= promised[d]
      BY DEF IInv, Promises
    <3>. QED  BY <1>2, <2>3, <2>7, <2>8, <3>1 DEF Promises, Live
  <2>. QED  BY <1>8, <2>4, <2>5, <2>6, <2>9, <2>10 DEF IInv
<1>. QED  BY <1>3, <1>9, <1>10

\* The library takes data, which is the next of a client it knows, or learns of a client
\* or of its end.
LEMMA OnConnectionDataAvailableStep ==
  ASSUME IInv, OnConnectionDataAvailable
  PROVE  IInv'
<1>. DEFINE m == Head(toServer)
<1>. USE ConstantsAssumption
<1>1. /\ running /\ toServer # <<>>
      /\ toServer' = Tail(toServer)
      /\ UNCHANGED <<proxyVars, running, m_echo, fromClient, toClient, written, delivered, promised,
                     early>>
  BY DEF OnConnectionDataAvailable
<1>2. UNCHANGED <<tunnel, socketAddress, m_currentAddressCounter, serverConnection, registrations,
                  running, m_echo, fromClient, toClient, written, delivered, promised, early>>
  BY <1>1 DEF proxyVars
<1>3. /\ toServer \in Seq(ProxyMessages) /\ m \in ProxyMessages
      /\ toServer' \in Seq(ProxyMessages)
      /\ m.address \in Addresses
      /\ m.message \in {"data", "ClientConnected", "ClientDisconnected"}
      /\ m.message = "data" => m.data \in Data
      /\ m.message = "ClientConnected" => m.client \in Clients
  <2>1. toServer \in Seq(ProxyMessages)
    BY DEF IInv, TypeOK
  <2>2. m \in ProxyMessages /\ Tail(toServer) \in Seq(ProxyMessages)
    BY <1>1, <2>1, Shortened
  <2>. QED  BY <1>1, <2>1, <2>2, MessageShapes
<1>4. /\ m.message = "data" => OnFrame(m)
      /\ m.message = "ClientConnected" => OnTunnelProxyClientConnected(m)
      /\ m.message = "ClientDisconnected" => OnTunnelProxyClientDisconnected(m)
  BY <1>3 DEF OnConnectionDataAvailable
<1>5. /\ 1 \in DOMAIN toServer /\ m = toServer[1]
      /\ \A i \in DOMAIN toServer : i \in Nat /\ i >= 1
      /\ Len(toServer) \in Nat /\ Len(toServer') \in Nat /\ Len(toServer) = Len(toServer') + 1
      /\ \A i \in DOMAIN toServer' :
           i \in Nat /\ i >= 1 /\ i + 1 \in DOMAIN toServer /\ toServer'[i] = toServer[i + 1]
  <2>1. Len(toServer) \in Nat /\ Len(toServer') = Len(toServer) - 1 /\ Len(toServer') \in Nat
    BY <1>1, <1>3, Shortened
  <2>. QED  BY <1>1, <1>3, <2>1, Shortened
<1>6. \A a, d : /\ Named(toServer', a, d) => Named(toServer, a, d)
                /\ Names(m, a, d) => Named(toServer, a, d)
  BY <1>1, <1>3, NamedShortened
<1>. HIDE DEF m
<1>7. ASSUME \A a \in Addresses : ~Tells(m, a) => m_tunnelProxySockets'[a] = m_tunnelProxySockets[a],
             \A a \in Addresses, d \in Clients : Connects(m, a, d) => m_tunnelProxySockets'[a] = d
      PROVE  Known'
  <2>1. ASSUME NEW i \in DOMAIN toServer', NEW d \in Clients, IsData(toServer'[i], d)
        PROVE  HolderAt(toServer', m_tunnelProxySockets', i, toServer'[i].address, d)
    <3>1. IsData(toServer[i + 1], d) /\ i + 1 \in DOMAIN toServer /\ i \in Nat /\ i >= 1
          /\ toServer'[i].address = toServer[i + 1].address
      BY <1>5, <2>1
    <3>2. HolderAt(toServer, m_tunnelProxySockets, i + 1, toServer'[i].address, d)
      BY <1>1, <3>1 DEF IInv, Known
    <3>3. toServer'[i].address \in Addresses
      BY <1>3, <2>1, MessageShapes
    <3>4. /\ ~Tells(m, toServer'[i].address) =>
               m_tunnelProxySockets'[toServer'[i].address] = m_tunnelProxySockets[toServer'[i].address]
          /\ Connects(m, toServer'[i].address, d) => m_tunnelProxySockets'[toServer'[i].address] = d
      BY <1>7, <3>3
    <3>. QED  BY <1>1, <1>3, <3>1, <3>2, <3>4, HolderRead DEF m
  <2>2. ASSUME NEW d \in Clients, Live(d)
        PROVE  HolderAt(toServer', m_tunnelProxySockets', Len(toServer') + 1, socketAddress[d], d)
    <3>1. HolderAt(toServer, m_tunnelProxySockets, (Len(toServer') + 1) + 1, socketAddress[d], d)
      BY <1>1, <1>5, <2>2 DEF IInv, Known
    <3>2. socketAddress[d] \in Addresses
      BY DEF IInv, TypeOK
    <3>3. /\ ~Tells(m, socketAddress[d]) =>
               m_tunnelProxySockets'[socketAddress[d]] = m_tunnelProxySockets[socketAddress[d]]
          /\ Connects(m, socketAddress[d], d) => m_tunnelProxySockets'[socketAddress[d]] = d
      BY <1>7, <3>2
    <3>4. Len(toServer') + 1 \in Nat /\ Len(toServer') + 1 >= 1
      BY <1>5
    <3>. QED  BY <1>1, <1>3, <3>1, <3>3, <3>4, HolderRead DEF m
  <2>. QED  BY <1>2, <2>1, <2>2 DEF Known, Live
<1>8. ASSUME UNCHANGED <<received>>, \A d \in Clients : ~IsData(m, d)
      PROVE  Uplink'
  <2>1. \A d \in Clients : Forwarded(d)' = Forwarded(d)
    BY <1>2 DEF Forwarded
  <2>2. ASSUME NEW d \in Clients
        PROVE  /\ Continues(toServer', d, Len(received[d]), Forwarded(d))
               /\ Live(d) => Complete(toServer', d, Len(received[d]), Forwarded(d))
    <3>1. /\ Continues(toServer, d, Len(received[d]), Forwarded(d))
          /\ Live(d) => Complete(toServer, d, Len(received[d]), Forwarded(d))
      BY <1>1 DEF IInv, Uplink
    <3>2. Len(received[d]) \in Nat /\ Forwarded(d) \in Nat
      BY Counts
    <3>. QED  BY <1>1, <1>3, <1>8, <3>1, <3>2, OtherRead DEF m
  <2>. QED  BY <1>2, <1>8, <2>1, <2>2 DEF IInv, Uplink, Live
<1>9. CASE m.message = "data"
  <2>1. PICK c \in Clients : c = m.data.client /\ m.data \in Data
    BY <1>3, <1>9, MessageShapes
  <2>2. \A d \in Clients : IsData(m, d) <=> d = c
    BY <1>9, <2>1 DEF IsData
  <2>3. m_tunnelProxySockets[m.address] = c
    <3>1. HolderAt(toServer, m_tunnelProxySockets, 1, m.address, c)
      BY <1>1, <1>5, <2>2 DEF IInv, Known
    <3>. QED  BY <1>3, <3>1, HolderFirst
  <2>4. c # NoClient
    OBVIOUS
  <2>5. /\ received' = [received EXCEPT ![c] = Append(@, m.data)]
        /\ WriteData(m.address) \/ UNCHANGED <<answered, fromServer>>
        /\ UNCHANGED m_tunnelProxySockets
    BY <1>4, <1>9, <2>3, <2>4 DEF OnFrame
  <2>6. /\ answered' \in [Clients -> Nat] /\ fromServer' \in Seq(ServerMessages)
        /\ \A b \in Addresses, d \in Clients : Named(fromServer', b, d) => Claims(b, d)
        /\ \A d \in Clients : tunnel[d] = "none" => answered'[d] = answered[d]
        /\ Downlink' /\ Promises'
    <3>1. CASE WriteData(m.address)
      BY <1>2, <1>3, <2>3, <2>4, <3>1, WriteDataStep
    <3>2. CASE UNCHANGED <<answered, fromServer>>
      <4>1. Downlink' /\ Promises'
        BY <1>2, <3>2, Unaffected
      <4>. QED  BY <3>2, <4>1 DEF IInv, TypeOK, Claims
    <3>. QED  BY <2>5, <3>1, <3>2
  <2>7. received'[c] = Append(received[c], m.data)
        /\ \A d \in Clients : d # c => received'[d] = received[d]
    BY <2>5 DEF IInv, TypeOK
  <2>8. TypeOK'
    <3>1. Append(received[c], m.data) \in Seq(Data)
      BY <2>1, Counts, Grown
    <3>2. received' \in [Clients -> Seq(Data)]
      BY <2>5, <3>1 DEF IInv, TypeOK
    <3>. QED  BY <1>2, <1>3, <2>5, <2>6, <3>2 DEF IInv, TypeOK
  <2>9. \A a \in Addresses, d \in Clients : Claims(a, d)' => Claims(a, d)
    BY <1>2, <1>6, <2>5, <2>6 DEF Claims
  <2>10. tunnel[c] # "none"
    BY <1>3, <2>3, <2>4, SocketClaims
  <2>11. OneAddress' /\ OneLive' /\ Exclusive' /\ Untouched'
    BY <1>2, <2>6, <2>7, <2>9, <2>10, NoNewClaims
  <2>12. Ends'
    BY <1>2, <2>5, Unaffected
  <2>13. Known'
    <3>1. \A a, d : ~Connects(m, a, d)
      BY <1>9 DEF Connects
    <3>. QED  BY <1>7, <2>5, <3>1
  <2>14. /\ m.data.number = Len(received[c]) + 1 /\ Len(received[c]) + 1 <= Forwarded(c)
         /\ Continues(toServer', c, Len(received[c]) + 1, Forwarded(c))
         /\ Live(c) => Complete(toServer', c, Len(received[c]) + 1, Forwarded(c))
    <3>1. /\ Continues(toServer, c, Len(received[c]), Forwarded(c))
          /\ Live(c) => Complete(toServer, c, Len(received[c]), Forwarded(c))
      BY <1>1 DEF IInv, Uplink
    <3>2. IsData(m, c) /\ Len(received[c]) \in Nat /\ Forwarded(c) \in Nat
      BY <2>2, Counts
    <3>. QED  BY <1>1, <1>3, <3>1, <3>2, NextRead DEF m
  <2>15. ASSUME NEW d \in Clients, d # c
         PROVE  /\ Continues(toServer', d, Len(received[d]), Forwarded(d))
                /\ Live(d) => Complete(toServer', d, Len(received[d]), Forwarded(d))
    <3>1. /\ Continues(toServer, d, Len(received[d]), Forwarded(d))
          /\ Live(d) => Complete(toServer, d, Len(received[d]), Forwarded(d))
      BY <1>1 DEF IInv, Uplink
    <3>2. ~IsData(m, d) /\ Len(received[d]) \in Nat /\ Forwarded(d) \in Nat
      BY <2>2, <2>15, Counts
    <3>. QED  BY <1>1, <1>3, <3>1, <3>2, OtherRead DEF m
  <2>16. Uplink'
    <3>1. \A d \in Clients : Forwarded(d)' = Forwarded(d)
      BY <1>2 DEF Forwarded
    <3>2. /\ Len(received'[c]) = Len(received[c]) + 1
          /\ \A i \in DOMAIN received[c] : received'[c][i] = received[c][i]
          /\ \A i \in DOMAIN received'[c] : i \in DOMAIN received[c] \/ i = Len(received[c]) + 1
          /\ received'[c][Len(received[c]) + 1] = m.data
      <4>1. received[c] \in Seq(Data)
        BY Counts
      <4>. QED  BY <2>1, <2>7, <4>1, Grown
    <3>3. InOrder(received'[c], c)
      <4>1. m.data = [client |-> c, number |-> Len(received[c]) + 1]
        BY <2>1, <2>14, MessageShapes
      <4>. QED  BY <3>2, <4>1 DEF IInv, Uplink, InOrder
    <3>4. ASSUME NEW d \in Clients
          PROVE  /\ Len(received'[d]) <= Forwarded(d) /\ InOrder(received'[d], d)
                 /\ \A i \in DOMAIN fromClient[d] :
                      fromClient[d][i] = [client |-> d, number |-> Forwarded(d) + i]
      BY <2>7, <2>14, <3>2, <3>3 DEF IInv, Uplink
    <3>5. ASSUME NEW d \in Clients
          PROVE  /\ Continues(toServer', d, Len(received'[d]), Forwarded(d))
                 /\ Live(d) => Complete(toServer', d, Len(received'[d]), Forwarded(d))
      BY <2>7, <2>14, <2>15, <3>2
    <3>. QED  BY <1>2, <3>1, <3>4, <3>5 DEF Uplink, Live
  <2>. QED  BY <2>6, <2>8, <2>11, <2>12, <2>13, <2>16 DEF IInv
<1>10. CASE m.message = "ClientConnected"
  <2>1. PICK c \in Clients : c = m.client
    BY <1>3, <1>10
  <2>2. /\ m_tunnelProxySockets' = [m_tunnelProxySockets EXCEPT ![m.address] = c]
        /\ UNCHANGED <<received, answered, fromServer>>
    BY <1>4, <1>10, <2>1 DEF OnTunnelProxyClientConnected
  <2>3. Claims(m.address, c)
    BY <1>6, <1>10, <2>1 DEF Names, Claims
  <2>4. m.address # 0 /\ m.address # Reserved
    BY <1>3, <2>3 DEF IInv, OneAddress
  <2>5. /\ m_tunnelProxySockets'[m.address] = c
        /\ \A a \in Addresses : a # m.address => m_tunnelProxySockets'[a] = m_tunnelProxySockets[a]
        /\ m_tunnelProxySockets' \in [Addresses -> Clients \cup {NoClient}]
    BY <1>3, <2>2 DEF IInv, TypeOK
  <2>6. TypeOK'
    <3>1. m_tunnelProxySockets'[0] = NoClient /\ m_tunnelProxySockets'[Reserved] = NoClient
      BY <2>4, <2>5 DEF IInv, TypeOK, Addresses
    <3>. QED  BY <1>2, <1>3, <2>2, <2>5, <3>1 DEF IInv, TypeOK
  <2>7. \A a \in Addresses, d \in Clients : Claims(a, d)' => Claims(a, d)
    BY <1>2, <1>6, <2>2, <2>3, <2>5 DEF Claims
  <2>8. OneAddress' /\ OneLive' /\ Exclusive' /\ Untouched'
    BY <1>2, <2>2, <2>7, NoNewClaims
  <2>9. Ends'
    BY <1>1, <1>2 DEF IInv, Ends, Live
  <2>10. Uplink'
    BY <1>8, <1>10, <2>2 DEF IsData
  <2>11. Downlink' /\ Promises'
    BY <1>2, <2>2, Unaffected
  <2>12. Known'
    <3>1. \A a : ~Tells(m, a) => a # m.address
      BY <1>10 DEF Tells
    <3>2. \A a, d : Connects(m, a, d) => a = m.address /\ d = c
      BY <2>1 DEF Connects
    <3>. QED  BY <1>7, <2>5, <3>1, <3>2
  <2>. QED  BY <2>6, <2>8, <2>9, <2>10, <2>11, <2>12 DEF IInv
<1>11. CASE m.message = "ClientDisconnected"
  <2>1. /\ m_tunnelProxySockets' = [m_tunnelProxySockets EXCEPT ![m.address] = NoClient]
        /\ UNCHANGED <<received, answered, fromServer>>
    BY <1>4, <1>11 DEF OnTunnelProxyClientDisconnected
  <2>2. /\ m_tunnelProxySockets'[m.address] = NoClient
        /\ \A a \in Addresses : a # m.address => m_tunnelProxySockets'[a] = m_tunnelProxySockets[a]
        /\ m_tunnelProxySockets' \in [Addresses -> Clients \cup {NoClient}]
    BY <1>3, <2>1 DEF IInv, TypeOK
  <2>3. TypeOK'
    <3>1. m_tunnelProxySockets'[0] = NoClient /\ m_tunnelProxySockets'[Reserved] = NoClient
      <4>1. 0 \in Addresses /\ Reserved \in Addresses
        BY ConstantsAssumption DEF Addresses
      <4>2. m_tunnelProxySockets[0] = NoClient /\ m_tunnelProxySockets[Reserved] = NoClient
        BY DEF IInv, TypeOK
      <4>. QED  BY <2>2, <4>1, <4>2
    <3>. QED  BY <1>2, <1>3, <2>1, <2>2, <3>1 DEF IInv, TypeOK
  <2>4. \A a \in Addresses, d \in Clients : Claims(a, d)' => Claims(a, d)
    BY <1>2, <1>6, <2>1, <2>2 DEF Claims
  <2>5. OneAddress' /\ OneLive' /\ Exclusive' /\ Untouched'
    BY <1>2, <2>1, <2>4, NoNewClaims
  <2>6. Ends'
    BY <1>1, <1>2 DEF IInv, Ends, Live
  <2>7. Uplink'
    BY <1>8, <1>11, <2>1 DEF IsData
  <2>8. Downlink' /\ Promises'
    BY <1>2, <2>1, Unaffected
  <2>9. Known'
    <3>1. \A a : ~Tells(m, a) => a # m.address
      BY <1>11 DEF Tells
    <3>2. \A a, d : ~Connects(m, a, d)
      BY <1>11 DEF Connects
    <3>. QED  BY <1>7, <2>2, <3>1, <3>2
  <2>. QED  BY <2>3, <2>5, <2>6, <2>7, <2>8, <2>9 DEF IInv
<1>. QED  BY <1>3, <1>9, <1>10, <1>11

-----------------------------------------------------------------------------

\* At first no client has come, and nothing is under way.
LEMMA InitEstablishes ==
  ASSUME Init
  PROVE  IInv
<1>. USE ConstantsAssumption DEF Init
<1>1. /\ 0 \in Addresses /\ Reserved \in Addresses /\ 1 \in 1..MaxServers
      /\ \A S : <<>> \in Seq(S) /\ Len(<<>>) = 0 /\ DOMAIN <<>> = {}
  BY EmptyQueue DEF Addresses
<1>2. \A c \in Clients : Forwarded(c) = 0 /\ Arrived(c) = 0 /\ ~Live(c)
  <2>1. \A c \in Clients : Len(fromClient[c]) = 0 /\ Len(toClient[c]) = 0 /\ Len(delivered[c]) = 0
    BY <1>1
  <2>. QED  BY <2>1 DEF Forwarded, Arrived, Live
<1>3. TypeOK
  BY <1>1 DEF TypeOK, NoSockets, NotAsked
<1>4. \A a \in Addresses, c \in Clients : ~Claims(a, c)
  BY <1>1, NotNamed DEF Claims, NoSockets
<1>5. OneAddress /\ OneLive /\ Exclusive
  BY <1>2, <1>4 DEF OneAddress, OneLive, Exclusive
<1>6. Untouched
  BY <1>2, <1>4 DEF Untouched
<1>7. Ends
  BY <1>2 DEF Ends
<1>8. Uplink
  BY <1>1, <1>2 DEF Uplink, Continues, InOrder
<1>9. Downlink
  BY <1>1, <1>2 DEF Downlink, InOrder
<1>10. Known
  BY <1>1, <1>2 DEF Known
<1>11. Promises
  BY <1>2 DEF Promises
<1>. QED  BY <1>3, <1>5, <1>6, <1>7, <1>8, <1>9, <1>10, <1>11 DEF IInv

\* Every step keeps the invariant.
THEOREM InvStep == IInv /\ [Next]_vars => IInv'
<1>. SUFFICES ASSUME IInv, [Next]_vars PROVE IInv'
  OBVIOUS
<1>1. ASSUME NEW c \in Clients, RegisterClient(c) PROVE IInv'
  BY <1>1, RegisterClientStep
<1>2. ASSUME NEW c \in Clients, ReceiveFromClient(c) PROVE IInv'
  BY <1>2, ReceiveFromClientStep
<1>3. ASSUME NEW c \in Clients, ClientDisconnected(c) PROVE IInv'
  BY <1>3, ClientDisconnectedStep
<1>4. ASSUME NEW c \in Clients, SendData(c) PROVE IInv'
  BY <1>4, SendDataStep
<1>5. ASSUME NEW c \in Clients, DataReady(c) PROVE IInv'
  BY <1>5, DataReadyStep
<1>6. CASE ReceiveFromServer
  BY <1>6, ReceiveFromServerStep
<1>7. CASE ServerDisconnected
  BY <1>7, ServerDisconnectedStep
<1>8. CASE RegisterServer
  BY <1>8, RegisterServerStep
<1>9. CASE OnConnectionDataAvailable
  BY <1>9, OnConnectionDataAvailableStep
<1>10. ASSUME NEW a \in Addresses, ApplicationWrites(a) PROVE IInv'
  BY <1>10, ApplicationWritesStep
<1>11. ASSUME NEW a \in Addresses, RequestSocketDisconnect(a) PROVE IInv'
  BY <1>11, RequestSocketDisconnectStep
<1>12. CASE CleanUp
  BY <1>12, CleanUpStep
<1>13. CASE UNCHANGED vars
  <2>1. UNCHANGED <<tunnel, socketAddress, m_currentAddressCounter, serverConnection, registrations,
                    running, m_tunnelProxySockets, m_echo, fromClient, toClient, toServer,
                    fromServer, written, received, answered, delivered, promised, early>>
    BY <1>13 DEF vars, proxyVars, libraryVars, networkVars, progressVars
  <2>2. TypeOK'
    BY <2>1 DEF IInv, TypeOK
  <2>3. \A a, c : Claims(a, c)' <=> Claims(a, c)
    BY <2>1 DEF Claims
  <2>4. OneAddress' /\ OneLive' /\ Exclusive' /\ Untouched'
    BY <2>1, <2>3, NoNewClaims
  <2>5. Ends' /\ Uplink' /\ Downlink' /\ Known' /\ Promises'
    BY <2>1, Unaffected
  <2>. QED  BY <2>2, <2>4, <2>5 DEF IInv
<1>. QED  BY <1>1, <1>2, <1>3, <1>4, <1>5, <1>6, <1>7, <1>8, <1>9, <1>10, <1>11, <1>12, <1>13
          DEF Next

\* The invariant holds, however many clients come and go, and whatever addresses they are
\* given again.
THEOREM Invariance == Spec => []IInv
<1>1. Init => IInv
  BY InitEstablishes
<1>2. IInv /\ [Next]_vars => IInv'
  BY InvStep
<1>. QED  BY <1>1, <1>2, PTL DEF Spec

-----------------------------------------------------------------------------
(* What follows.                                                           *)

\* Every variable keeps its type, and the library has sockets for addresses of clients only.
THEOREM TypeCorrect == Spec => []TypeOK
<1>1. IInv => TypeOK
  BY DEF IInv
<1>. QED  BY <1>1, Invariance, PTL

\* Each side of a tunnel gets what the other side wrote into this tunnel, in order and
\* without gaps, whatever is lost, closed, given again or registered again meanwhile.  Only
\* a client whose address was not settled when it got it may be given data for another one.
THEOREM DataOfPeer == Spec => []OnlyPeerData
<1>1. IInv => OnlyPeerData
  BY DEF IInv, Uplink, Downlink, OnlyPeerData
<1>. QED  BY <1>1, Invariance, PTL

\* While both stay connected nothing is lost on the way, except to a client whose address
\* was not settled.
THEOREM NothingLost == Spec => []AllForwarded
<1>1. IInv => AllForwarded
  <2>. SUFFICES ASSUME IInv, NEW c \in Clients, running, tunnel[c] = "open",
                       socketAddress[c] # Reserved, toServer = <<>>, fromServer = <<>>,
                       fromClient[c] = <<>>, toClient[c] = <<>>
                PROVE  /\ Len(received[c]) = written[c]
                       /\ c \notin early => Len(delivered[c]) = answered[c]
    BY DEF AllForwarded
  <2>1. \A low, high \in Nat : Complete(<<>>, c, low, high) => high <= low
    <3>1. ASSUME NEW low \in Nat, NEW high \in Nat, Complete(<<>>, c, low, high), high > low
          PROVE  FALSE
      <4>1. high \in (low + 1)..high
        BY <3>1
      <4>. QED  BY <3>1, <4>1, EmptyQueue DEF Complete
    <3>. QED  BY <3>1
  <2>2. Len(fromClient[c]) = 0 /\ Len(toClient[c]) = 0
    BY EmptyQueue
  <2>3. Len(received[c]) = written[c]
    <3>1. Complete(toServer, c, Len(received[c]), Forwarded(c))
      BY DEF IInv, Uplink, Live
    <3>2. /\ Len(received[c]) \in Nat /\ Forwarded(c) \in Nat /\ Len(received[c]) <= Forwarded(c)
          /\ written[c] \in Nat
      BY Counts
    <3>3. Forwarded(c) = written[c]
      BY <2>2, <3>2 DEF Forwarded
    <3>. QED  BY <2>1, <3>1, <3>2, <3>3
  <2>4. ASSUME c \notin early PROVE Len(delivered[c]) = answered[c]
    <3>1. Complete(fromServer, c, Arrived(c), answered[c])
      BY <2>4 DEF IInv, Downlink
    <3>2. /\ Arrived(c) \in Nat /\ answered[c] \in Nat /\ Arrived(c) <= answered[c]
          /\ Len(delivered[c]) \in Nat
      BY <2>4, Counts
    <3>3. Arrived(c) = Len(delivered[c])
      BY <2>2, <3>2 DEF Arrived
    <3>. QED  BY <2>1, <3>1, <3>2, <3>3
  <2>. QED  BY <2>3, <2>4
<1>. QED  BY <1>1, Invariance, PTL

\* A connection the server asks to close is closed behind the data written before.
THEOREM ClosedBehindData == Spec => []WrittenBeforeDisconnect
<1>1. IInv => WrittenBeforeDisconnect
  BY DEF IInv, Promises, WrittenBeforeDisconnect, Live, Arrived
<1>. QED  BY <1>1, Invariance, PTL
=============================================================================
