------------------------- MODULE ServerSessionProofs -------------------------
(***************************************************************************)
(* Proofs about what a registered server and the proxy owe each other, for *)
(* every latency, length of the queues and number of addresses.            *)
(***************************************************************************)
EXTENDS MCServerSession, SequenceTheorems, FiniteSetTheorems, TLAPS

-----------------------------------------------------------------------------
(* The timers.  A period of silence has a bound: a ping leaves at the      *)
(* latest when the timer of the library is due, reaches the proxy after    *)
(* one latency, and its response restarts the library's timer one latency  *)
(* later.                                                                  *)

K == Timers!KeepAliveInterval
I == Timers!InactiveInterval

\* A ping and its response arrive before the next ping is due.
ShortLatency == 2 * MaxLatency < K

\* A host that can be reached has not been silent.
NotSilent == alive => silent = 0

\* The proxy's timer outlasts what is under way to it, or the library's timer and a ping;
\* unless the library had put off its next ping because of something it read.
TimerOutlasts ==
  alive =>
    /\ up # <<>> => \/ inactive + Head(up).age >= MaxLatency + 1
                    \/ heard - Head(up).age <= K
    /\ up = <<>> => \/ inactive >= keepAlive + MaxLatency + 1
                    \/ heard + keepAlive <= K

\* A response is sent when the proxy's timer is restarted.
ResponsesAreFresh ==
  alive => \A i \in DOMAIN down :
             down[i].kind = "response" => inactive + down[i].age >= I

\* What is under way from a host that was cut off was sent before.
SentBeforeCutOff ==
  open /\ ~alive => /\ silent + inactive <= I + MaxLatency
                    /\ \A i \in DOMAIN up : silent <= up[i].age

\* The library's timer has run no longer than its last ping is unfinished.
PingsAreRecent ==
  alive => /\ \A i \in DOMAIN up :
                up[i].kind = "ping" => keepAlive + up[i].age >= K
           /\ \A i \in DOMAIN down :
                down[i].kind = "response" => keepAlive + MaxLatency + down[i].age >= K

\* OnePing, direction by direction.
PingsAreFew ==
  alive => /\ \A i, j \in DOMAIN up : up[i].kind = "ping" /\ up[j].kind = "ping" => i = j
           /\ \A i, j \in DOMAIN down :
                down[i].kind = "response" /\ down[j].kind = "response" => i = j
           /\ \A i \in DOMAIN up, j \in DOMAIN down :
                ~(up[i].kind = "ping" /\ down[j].kind = "response")

\* What holds whatever the latency.
SilenceInv == Timers!TypeOK /\ NotSilent /\ SentBeforeCutOff

\* What needs a short latency.
PingInv == SilenceInv /\ PingsAreRecent /\ PingsAreFew

\* What bounds, under a short latency, when a server that can be reached is dropped.
TimerInv ==
  /\ SilenceInv
  /\ Timers!IdleServerStays
  /\ TimerOutlasts
  /\ ResponsesAreFresh

-----------------------------------------------------------------------------
(* The session.  All requests have one id, so a reply finds its response   *)
(* only while no more than one request is unanswered; and a message is     *)
(* taken for a response by its id alone, so the notifications must not     *)
(* have it.                                                                *)

OneAtATime == MaxPending <= 1
IdsApart   == FirstNotificationId > 0

\* The types of what the two sides of the session keep and send.
Calls    == Session!Calls
Messages == Session!Messages

\* Notifications and responses can be told apart by their id, and notifications name an
\* address.
Apart(m) ==
  /\ m.id = 0 <=> m.notification = "none"
  /\ m.notification # "none" => m.socketAddress \in SocketAddresses
ToldApart == \A i \in DOMAIN toLibrary : Apart(toLibrary[i])

IsAbout(m, a) == m.notification # "none" /\ m.socketAddress = a

\* The last notification about an address in a queue says whether the proxy has a client
\* there, and where there is none the library has a socket if it has.
EndsWithTruth(queue, a, itsSockets, itsClients) ==
  /\ \A i \in DOMAIN queue :
       IsAbout(queue[i], a) /\ (\A j \in DOMAIN queue : j > i => ~IsAbout(queue[j], a))
         => (queue[i].notification = "ClientConnected" <=> a \in itsClients)
  /\ (\A i \in DOMAIN queue : ~IsAbout(queue[i], a))
       => (a \in itsSockets <=> a \in itsClients)

LastWord == \A a \in SocketAddresses : EndsWithTruth(toLibrary, a, sockets, clients)

AgreementInv == Session!TypeOK /\ ToldApart /\ LastWord

Pending(request) == 0 \in DOMAIN m_replies /\ m_replies[0] = request

\* A connection that is down has nothing under way, and no server at its end.
DownIsQuiet ==
  m_state = "disconnected" =>
    toProxy = <<>> /\ toLibrary = <<>> /\ registered = FALSE /\ clients = {}

ResponsesIn(queue) == {i \in DOMAIN queue : queue[i].notification = "none"}

\* At most one request is under way or answered by what is, and it is the one the library
\* has a reply for.
OneRequest ==
  /\ Len(toProxy) <= 1
  /\ toProxy # <<>> => Pending(Head(toProxy).request) /\ ResponsesIn(toLibrary) = {}
  /\ \A i \in ResponsesIn(toLibrary) : Pending(toLibrary[i].answers)
  /\ \A i, j \in ResponsesIn(toLibrary) : i = j

RepliesInv == AgreementInv /\ DownIsQuiet /\ OneRequest /\ Session!RepliesMatch

\* A sequence of messages that grew by one and one that lost its head.
LEMMA Grown ==
  ASSUME NEW S, NEW queue \in Seq(S), NEW m \in S
  PROVE  /\ Append(queue, m) \in Seq(S)
         /\ Append(queue, m) # <<>>
         /\ Len(Append(queue, m)) = Len(queue) + 1
         /\ DOMAIN Append(queue, m) = 1..(Len(queue) + 1)
         /\ Append(queue, m)[Len(queue) + 1] = m
         /\ \A i \in DOMAIN queue :
              i \in 1..Len(queue) /\ i \in DOMAIN Append(queue, m) /\ Append(queue, m)[i] = queue[i]
         /\ queue # <<>> => Head(Append(queue, m)) = Head(queue)
         /\ queue = <<>> => Head(Append(queue, m)) = m
  OBVIOUS

\* A queue whose head is taken.
LEMMA Shortened ==
  ASSUME NEW S, NEW queue \in Seq(S), queue # <<>>
  PROVE  /\ Head(queue) \in S
         /\ 1 \in DOMAIN queue /\ Head(queue) = queue[1]
         /\ Tail(queue) \in Seq(S)
         /\ Len(Tail(queue)) = Len(queue) - 1
         /\ \A i \in DOMAIN Tail(queue) :
              i \in Nat /\ i >= 1 /\ i + 1 \in DOMAIN queue /\ Tail(queue)[i] = queue[i + 1]
         /\ \A i \in DOMAIN queue : i # 1 => i - 1 \in DOMAIN Tail(queue)
         /\ Tail(queue) # <<>> => Head(Tail(queue)) = queue[2] /\ 2 \in DOMAIN queue
  OBVIOUS

\* While nothing is due, a message ages by one and stays a message.
LEMMA OlderQueue ==
  ASSUME NEW queue \in Seq(Timers!Messages), ~Timers!Due(queue)
  PROVE  /\ Timers!Older(queue) \in Seq(Timers!Messages)
         /\ Len(Timers!Older(queue)) = Len(queue)
         /\ DOMAIN Timers!Older(queue) = DOMAIN queue
         /\ \A i \in DOMAIN queue : /\ Timers!Older(queue)[i].kind = queue[i].kind
                                    /\ Timers!Older(queue)[i].age = queue[i].age + 1
                                    /\ queue[i].age \in Nat
<1>. DEFINE older == Timers!Older(queue)
<1>1. older = [i \in 1..Len(queue) |-> [queue[i] EXCEPT !.age = @ + 1]]
  BY DEF Timers!Older
<1>2. ASSUME NEW i \in 1..Len(queue)
      PROVE  /\ older[i] \in Timers!Messages
             /\ older[i].kind = queue[i].kind
             /\ older[i].age = queue[i].age + 1
             /\ queue[i].age \in Nat
  <2>1. queue[i] \in Timers!Messages
    OBVIOUS
  <2>2. queue[i].age # MaxLatency
    BY DEF Timers!Due
  <2>3. queue[i].kind \in Timers!Kinds /\ queue[i].age \in 0..MaxLatency
    BY <2>1 DEF Timers!Messages
  <2>4. older[i] = [queue[i] EXCEPT !.age = queue[i].age + 1]
    BY <1>1
  <2>5. older[i] = [kind |-> queue[i].kind, age |-> queue[i].age + 1]
    BY <2>1, <2>4 DEF Timers!Messages
  <2>6. queue[i].age + 1 \in 0..MaxLatency
    BY <2>2, <2>3, TimeAssumption
  <2>. QED  BY <2>3, <2>5, <2>6 DEF Timers!Messages
<1>3. older \in Seq(Timers!Messages) /\ Len(older) = Len(queue) /\ DOMAIN older = 1..Len(queue)
  BY <1>1, <1>2
<1>. QED  BY <1>2, <1>3

\* A message under way has its age and its kind.
LEMMA QueuedMessage ==
  ASSUME NEW queue \in Seq(Timers!Messages), NEW i \in DOMAIN queue
  PROVE  queue[i].age \in 0..MaxLatency /\ queue[i].kind \in Timers!Kinds
<1>. queue[i] \in Timers!Messages
  OBVIOUS
<1>. QED  BY DEF Timers!Messages

\* The message a side sends.
LEMMA SentMessage ==
  ASSUME NEW kind \in Timers!Kinds
  PROVE  /\ Timers!Sent(kind) \in Timers!Messages
         /\ Timers!Sent(kind).kind = kind
         /\ Timers!Sent(kind).age = 0
  BY TimeAssumption DEF Timers!Sent, Timers!Messages

\* The two intervals, in units of time.
LEMMA Intervals == K = 3 * TenSeconds /\ I = 6 * TenSeconds /\ K \in Nat /\ I \in Nat /\ K > 0
  BY TimeAssumption DEF K, I, Timers!KeepAliveInterval, Timers!InactiveInterval

-----------------------------------------------------------------------------
(* The timers and the messages are of their type, and silence is bounded:  *)
(* this holds whatever the latency.                                        *)

\* At first nothing is silent for longer than the latency.
LEMMA SilenceInit == Init => SilenceInv
<1>1. Timers!KeepAliveInterval = K /\ Timers!InactiveInterval = I
      /\ Timers!LongAgo = K + MaxLatency + 1
  BY DEF K, I, Timers!LongAgo, Timers!PutsOff
<1>2. <<>> \in Seq(Timers!Messages) /\ Len(<<>>) = 0
  OBVIOUS
<1>3. Init => Timers!TypeOK
  BY <1>1, <1>2, Intervals, TimeAssumption DEF Init, Timers!Init, Timers!TypeOK
<1>4. Init => NotSilent /\ SentBeforeCutOff
  BY DEF Init, Timers!Init, NotSilent, SentBeforeCutOff
<1>. QED  BY <1>3, <1>4 DEF SilenceInv

\* Every step of the clock, the timers and the two ends keeps it.
LEMMA SilenceStep == SilenceInv /\ [Timers!Next]_timerVars => SilenceInv'
<1>. SUFFICES ASSUME SilenceInv, [Timers!Next]_timerVars PROVE SilenceInv'
  OBVIOUS
<1>. DEFINE Kept == SilenceInv'
<1>t. Timers!TypeOK /\ NotSilent /\ SentBeforeCutOff
  BY DEF SilenceInv
<1>k. Timers!KeepAliveInterval = K /\ Timers!InactiveInterval = I
      /\ Timers!LongAgo = K + MaxLatency + 1
  BY DEF K, I, Timers!LongAgo, Timers!PutsOff
<1>q. up \in Seq(Timers!Messages) /\ down \in Seq(Timers!Messages)
  BY <1>t DEF Timers!TypeOK
<1>n. inactive \in 0..I /\ keepAlive \in 0..K /\ silent \in 0..(I + MaxLatency + 1)
      /\ heard \in 0..(K + MaxLatency + 1)
  BY <1>t, <1>k DEF Timers!TypeOK
<1>1. ASSUME Timers!Tick PROVE Kept
  <2>1. /\ open /\ inactive > 0 /\ ~Timers!Due(up) /\ inactive' = inactive - 1
        /\ up' = Timers!Older(up) /\ alive' = alive /\ open' = open
    BY <1>1 DEF Timers!Tick
  <2>2. /\ alive => /\ keepAlive > 0 /\ ~Timers!Due(down) /\ keepAlive' = keepAlive - 1
                    /\ down' = Timers!Older(down) /\ silent' = silent
                    /\ heard' = IF heard = K + MaxLatency + 1 THEN heard ELSE heard + 1
        /\ ~alive => /\ silent' = silent + 1 /\ keepAlive' = keepAlive /\ down' = down
                     /\ heard' = heard
    BY <1>1, <1>k DEF Timers!Tick
  <2>3. /\ up' \in Seq(Timers!Messages) /\ Len(up') = Len(up) /\ DOMAIN up' = DOMAIN up
        /\ \A i \in DOMAIN up : up'[i].age = up[i].age + 1 /\ up[i].age \in Nat
    BY <1>q, <2>1, OlderQueue
  <2>4. down' \in Seq(Timers!Messages) /\ Len(down') = Len(down)
    BY <1>q, <2>2, OlderQueue
  <2>5. silent' \in 0..(I + MaxLatency + 1)
    BY <1>t, <1>n, <2>1, <2>2, Intervals, TimeAssumption DEF NotSilent, SentBeforeCutOff
  <2>9. inactive' \in 0..I /\ keepAlive' \in 0..K /\ heard' \in 0..(K + MaxLatency + 1)
    BY <1>n, <2>1, <2>2, Intervals, TimeAssumption
  <2>10. Len(up') <= MaxQueue /\ Len(down') <= MaxQueue
    BY <1>t, <2>3, <2>4 DEF Timers!TypeOK
  <2>11. open' \in BOOLEAN /\ alive' \in BOOLEAN
    BY <1>t, <2>1 DEF Timers!TypeOK
  <2>6. Timers!TypeOK'
    BY <1>k, <2>3, <2>4, <2>5, <2>9, <2>10, <2>11 DEF Timers!TypeOK
  <2>7. NotSilent'
    BY <1>t, <2>1, <2>2 DEF NotSilent
  <2>8. SentBeforeCutOff'
    BY SMTT(60), <1>t, <1>n, <2>1, <2>2, <2>3, Intervals, TimeAssumption DEF SentBeforeCutOff
  <2>. QED  BY <2>6, <2>7, <2>8 DEF SilenceInv
<1>2. ASSUME Timers!KeepAliveTimeout PROVE Kept
  <2>1. /\ alive /\ Len(up) < MaxQueue /\ up' = Append(up, Timers!Sent("ping"))
        /\ keepAlive' = K /\ UNCHANGED <<alive, silent, open, inactive, down, heard>>
    BY <1>2, <1>k DEF Timers!KeepAliveTimeout
  <2>2. up' \in Seq(Timers!Messages) /\ Len(up') = Len(up) + 1
    BY <1>q, <2>1, SentMessage, Grown DEF Timers!Kinds
  <2>. QED
    BY <1>t, <1>n, <1>k, <1>q, <2>1, <2>2, TimeAssumption, Intervals
    DEF SilenceInv, Timers!TypeOK, NotSilent, SentBeforeCutOff
<1>3. ASSUME Timers!LibraryReceives PROVE Kept
  <2>1. /\ alive /\ down # <<>> /\ down' = Tail(down)
        /\ keepAlive' = K /\ UNCHANGED <<alive, silent, open, inactive, up>>
        /\ heard' = heard \/ heard' = 0
    BY <1>3, <1>k DEF Timers!LibraryReceives, Timers!Received
  <2>2. down' \in Seq(Timers!Messages) /\ Len(down') = Len(down) - 1
    BY <1>q, <2>1, Shortened
  <2>. QED
    BY <1>t, <1>n, <1>k, <1>q, <2>1, <2>2, TimeAssumption, Intervals
    DEF SilenceInv, Timers!TypeOK, NotSilent, SentBeforeCutOff
<1>4. ASSUME Timers!LibrarySends PROVE Kept
  <2>1. /\ alive /\ Len(up) < MaxQueue /\ up' = Append(up, Timers!Sent("data"))
        /\ UNCHANGED <<alive, silent, open, keepAlive, inactive, down, heard>>
    BY <1>4 DEF Timers!LibrarySends
  <2>2. up' \in Seq(Timers!Messages) /\ Len(up') = Len(up) + 1
    BY <1>q, <2>1, SentMessage, Grown DEF Timers!Kinds
  <2>. QED
    BY <1>t, <1>n, <1>k, <1>q, <2>1, <2>2, TimeAssumption, Intervals
    DEF SilenceInv, Timers!TypeOK, NotSilent, SentBeforeCutOff
<1>5. ASSUME Timers!ProxySends PROVE Kept
  <2>1. /\ Len(down) < MaxQueue
        /\ down' = Append(down, Timers!Sent("data"))
        /\ UNCHANGED <<alive, silent, open, keepAlive, inactive, up, heard>>
    BY <1>5 DEF Timers!ProxySends
  <2>2. down' \in Seq(Timers!Messages) /\ Len(down') = Len(down) + 1
    BY <1>q, <2>1, SentMessage, Grown DEF Timers!Kinds
  <2>. QED
    BY <1>t, <1>n, <1>k, <1>q, <2>1, <2>2, TimeAssumption, Intervals
    DEF SilenceInv, Timers!TypeOK, NotSilent, SentBeforeCutOff
<1>6. ASSUME Timers!ProxyReceives PROVE Kept
  <2>1. /\ open /\ up # <<>> /\ up' = Tail(up) /\ inactive' = I
        /\ UNCHANGED <<alive, silent, open, keepAlive, heard>>
        /\ \/ Len(down) < MaxQueue /\ down' = Append(down, Timers!Sent("response"))
           \/ down' = down
    BY <1>6, <1>k DEF Timers!ProxyReceives, Timers!ActivityRestarts
  <2>2. /\ up' \in Seq(Timers!Messages) /\ Len(up') = Len(up) - 1
        /\ 1 \in DOMAIN up /\ up[1] \in Timers!Messages
        /\ \A i \in DOMAIN up' : i + 1 \in DOMAIN up /\ up'[i] = up[i + 1]
    BY <1>q, <2>1, Shortened
  <2>9. Timers!Sent("response") \in Timers!Messages /\ Len(down) <= MaxQueue
    BY <1>t, SentMessage DEF Timers!Kinds, Timers!TypeOK
  <2>10. ASSUME Len(down) < MaxQueue, down' = Append(down, Timers!Sent("response"))
        PROVE  down' \in Seq(Timers!Messages) /\ Len(down') <= MaxQueue
    <3>1. down' \in Seq(Timers!Messages) /\ Len(down') = Len(down) + 1
      BY <1>q, <2>9, <2>10, Grown
    <3>2. Len(down) \in Nat
      BY <1>q
    <3>. QED  BY <2>10, <3>1, <3>2, TimeAssumption
  <2>3. down' \in Seq(Timers!Messages) /\ Len(down') <= MaxQueue
    BY <1>q, <2>1, <2>9, <2>10
  <2>4. up[1].age \in 0..MaxLatency
    BY <2>2 DEF Timers!Messages
  <2>5. Timers!TypeOK' /\ NotSilent'
    BY <1>t, <1>n, <1>k, <2>1, <2>2, <2>3, TimeAssumption, Intervals
    DEF Timers!TypeOK, NotSilent
  <2>6. ASSUME ~alive PROVE silent + I <= I + MaxLatency
    <3>1. silent <= up[1].age
      BY <1>t, <2>1, <2>2, <2>6 DEF SentBeforeCutOff
    <3>. QED  BY <1>n, <2>4, <3>1, TimeAssumption, Intervals
  <2>7. ASSUME ~alive PROVE \A i \in DOMAIN up' : silent <= up'[i].age
    BY <1>t, <2>1, <2>2, <2>7 DEF SentBeforeCutOff
  <2>8. SentBeforeCutOff'
    BY <2>1, <2>6, <2>7 DEF SentBeforeCutOff
  <2>. QED  BY <2>5, <2>8 DEF SilenceInv
<1>7. ASSUME Timers!InactiveTimeout PROVE Kept
  BY <1>7, <1>t DEF Timers!InactiveTimeout, SilenceInv, Timers!TypeOK, NotSilent, SentBeforeCutOff
<1>8. ASSUME Timers!CutOff PROVE Kept
  <2>1. /\ alive /\ alive' = FALSE /\ down' = <<>>
        /\ UNCHANGED <<silent, open, keepAlive, inactive, up, heard>>
    BY <1>8 DEF Timers!CutOff
  <2>2. silent = 0
    BY <1>t, <2>1 DEF NotSilent
  <2>3. \A i \in DOMAIN up : up[i].age \in 0..MaxLatency
    BY <1>q, QueuedMessage
  <2>5. <<>> \in Seq(Timers!Messages) /\ Len(<<>>) = 0
    OBVIOUS
  <2>6. down' \in Seq(Timers!Messages) /\ Len(down') <= MaxQueue
    BY <2>1, <2>5, TimeAssumption
  <2>4. Timers!TypeOK' /\ NotSilent'
    BY <1>t, <2>1, <2>6 DEF Timers!TypeOK, NotSilent
  <2>. QED
    BY SMTT(60), <1>n, <2>1, <2>2, <2>3, <2>4, TimeAssumption, Intervals DEF SilenceInv, SentBeforeCutOff
<1>9. ASSUME UNCHANGED timerVars PROVE Kept
  BY <1>9, <1>t DEF timerVars, SilenceInv, Timers!TypeOK, NotSilent, SentBeforeCutOff
<1>. QED
  BY <1>1, <1>2, <1>3, <1>4, <1>5, <1>6, <1>7, <1>8, <1>9 DEF Timers!Next

-----------------------------------------------------------------------------
(* With a short latency at most one ping is unfinished.                    *)

\* At first no ping is under way.
LEMMA PingInit == Init => PingInv
<1>1. Init => up = <<>> /\ down = <<>>
  BY DEF Init, Timers!Init
<1>2. DOMAIN <<>> = {}
  OBVIOUS
<1>. QED  BY <1>1, <1>2, SilenceInit DEF PingInv, PingsAreRecent, PingsAreFew

\* Every step keeps what the distance of pings rests on.
LEMMA PingStep ==
  ASSUME ShortLatency
  PROVE  PingInv /\ [Timers!Next]_timerVars => PingInv'
<1>. SUFFICES ASSUME PingInv, [Timers!Next]_timerVars, alive'
              PROVE  (PingsAreRecent /\ PingsAreFew)'
  BY SilenceStep DEF PingInv, PingsAreRecent, PingsAreFew
<1>. DEFINE Kept == (PingsAreRecent /\ PingsAreFew)'
<1>t. SilenceInv /\ PingsAreRecent /\ PingsAreFew
  BY DEF PingInv
<1>k. Timers!KeepAliveInterval = K /\ Timers!InactiveInterval = I
  BY DEF K, I
<1>q. up \in Seq(Timers!Messages) /\ down \in Seq(Timers!Messages)
  BY <1>t DEF SilenceInv, Timers!TypeOK
<1>n. keepAlive \in 0..K /\ MaxLatency \in Nat /\ K \in Nat /\ 2 * MaxLatency < K
  BY <1>t, <1>k, Intervals, TimeAssumption DEF SilenceInv, Timers!TypeOK, ShortLatency
<1>u. \A i \in DOMAIN up : up[i].age \in 0..MaxLatency
  BY <1>q, QueuedMessage
<1>d. \A i \in DOMAIN down : down[i].age \in 0..MaxLatency
  BY <1>q, QueuedMessage
<1>1. ASSUME Timers!Tick PROVE Kept
  <2>1. /\ alive /\ ~Timers!Due(up) /\ up' = Timers!Older(up)
        /\ ~Timers!Due(down) /\ keepAlive' = keepAlive - 1 /\ down' = Timers!Older(down)
    BY <1>1 DEF Timers!Tick
  <2>2. /\ DOMAIN up' = DOMAIN up
        /\ \A i \in DOMAIN up : up'[i].kind = up[i].kind /\ up'[i].age = up[i].age + 1
    BY <1>q, <2>1, OlderQueue
  <2>3. /\ DOMAIN down' = DOMAIN down
        /\ \A i \in DOMAIN down :
             down'[i].kind = down[i].kind /\ down'[i].age = down[i].age + 1
    BY <1>q, <2>1, OlderQueue
  <2>. QED
    BY <1>t, <1>n, <1>u, <1>d, <2>1, <2>2, <2>3 DEF PingsAreRecent, PingsAreFew
<1>2. ASSUME Timers!KeepAliveTimeout PROVE Kept
  <2>1. /\ alive /\ keepAlive = 0 /\ keepAlive' = K /\ down' = down
        /\ up' = Append(up, Timers!Sent("ping"))
    BY <1>2, <1>k DEF Timers!KeepAliveTimeout
  <2>2. /\ \A i \in DOMAIN up : up[i].kind # "ping"
        /\ \A i \in DOMAIN down : down[i].kind # "response"
    BY <1>t, <1>n, <1>u, <1>d, <2>1 DEF PingsAreRecent
  <2>3. /\ DOMAIN up' = 1..(Len(up) + 1)
        /\ up'[Len(up) + 1].age = 0
        /\ \A i \in DOMAIN up : up'[i] = up[i]
        /\ DOMAIN up = 1..Len(up)
    BY <1>q, <2>1, SentMessage, Grown DEF Timers!Kinds
  <2>4. \A i \in DOMAIN up' : up'[i].kind = "ping" => i = Len(up) + 1
    BY <1>q, <2>2, <2>3
  <2>. QED  BY <1>n, <2>1, <2>2, <2>3, <2>4 DEF PingsAreRecent, PingsAreFew
<1>3. ASSUME NEW m \in Timers!Messages, m.kind # "ping",
             alive, down' = down, keepAlive' \in Nat, keepAlive' >= keepAlive,
             up' = Append(up, m)
      PROVE  Kept
  <2>1. /\ DOMAIN up' = 1..(Len(up) + 1)
        /\ up'[Len(up) + 1] = m
        /\ \A i \in DOMAIN up : up'[i] = up[i]
        /\ DOMAIN up = 1..Len(up)
    BY <1>q, <1>3, Grown
  <2>2. \A i \in DOMAIN up' : up'[i].kind = "ping" => i \in DOMAIN up /\ up'[i] = up[i]
    BY <1>q, <1>3, <2>1
  <2>. QED
    BY SMTT(40), <1>t, <1>n, <1>u, <1>d, <1>3, <2>2 DEF PingsAreRecent, PingsAreFew
<1>4. ASSUME Timers!LibraryReceives PROVE Kept
  <2>1. /\ alive /\ down # <<>> /\ down' = Tail(down) /\ keepAlive' = K /\ up' = up
    BY <1>4, <1>k DEF Timers!LibraryReceives, Timers!Received
  <2>2. \A i \in DOMAIN down' :
          /\ i \in Nat /\ i + 1 \in DOMAIN down /\ down'[i] = down[i + 1]
          /\ down'[i].age \in Nat
    BY <1>q, <1>d, <2>1, Shortened
  <2>3. PingsAreRecent'
    BY <1>n, <1>u, <2>1, <2>2 DEF PingsAreRecent
  <2>4. PingsAreFew'
    BY <1>t, <2>1, <2>2 DEF PingsAreFew
  <2>. QED  BY <2>3, <2>4
<1>5. ASSUME Timers!LibrarySends PROVE Kept
  <2>1. /\ Timers!Sent("data") \in Timers!Messages /\ Timers!Sent("data").kind # "ping"
    BY SentMessage DEF Timers!Kinds
  <2>. QED  BY <1>3, <1>5, <1>n, <2>1 DEF Timers!LibrarySends
<1>6. ASSUME Timers!ProxySends PROVE Kept
  <2>1. down' = Append(down, Timers!Sent("data"))
    BY <1>6 DEF Timers!ProxySends
  <2>2. alive /\ up' = up /\ keepAlive' = keepAlive
    BY <1>6 DEF Timers!ProxySends
  <2>3. /\ DOMAIN down' = 1..(Len(down) + 1) /\ DOMAIN down = 1..Len(down)
        /\ down'[Len(down) + 1].kind = "data"
        /\ \A i \in DOMAIN down : down'[i] = down[i]
    BY <1>q, <2>1, SentMessage, Grown DEF Timers!Kinds
  <2>4. \A i \in DOMAIN down' :
          down'[i].kind = "response" => i \in DOMAIN down /\ down'[i] = down[i]
    BY <1>q, <2>3
  <2>. QED
    BY <1>t, <1>n, <1>u, <1>d, <2>2, <2>4 DEF PingsAreRecent, PingsAreFew
<1>7. ASSUME Timers!ProxyReceives PROVE Kept
  <2>1. /\ alive /\ up # <<>> /\ up' = Tail(up) /\ keepAlive' = keepAlive
        /\ IF Head(up).kind = "ping"
           THEN down' = Append(down, Timers!Sent("response"))
           ELSE down' = down
    BY <1>7 DEF Timers!ProxyReceives
  <2>2. /\ 1 \in DOMAIN up /\ Head(up) = up[1]
        /\ \A i \in DOMAIN up' :
             i \in Nat /\ i >= 1 /\ i + 1 \in DOMAIN up /\ up'[i] = up[i + 1]
    BY <1>q, <2>1, Shortened
  <2>3. CASE up[1].kind # "ping"
    <3>1. down' = down
      BY <2>1, <2>2, <2>3
    <3>. QED  BY <1>t, <1>n, <1>u, <1>d, <2>1, <2>2, <3>1 DEF PingsAreRecent, PingsAreFew
  <2>4. CASE up[1].kind = "ping"
    <3>1. \A i \in DOMAIN up' : up'[i].kind # "ping"
      BY <1>t, <2>1, <2>2, <2>4 DEF PingsAreFew
    <3>2. \A i \in DOMAIN down : down[i].kind # "response"
      BY <1>t, <2>1, <2>2, <2>4 DEF PingsAreFew
    <3>3. /\ DOMAIN down' = 1..(Len(down) + 1) /\ DOMAIN down = 1..Len(down)
          /\ down'[Len(down) + 1].age = 0
          /\ \A i \in DOMAIN down : down'[i] = down[i]
      BY <1>q, <2>1, <2>2, <2>4, SentMessage, Grown DEF Timers!Kinds
    <3>4. \A i \in DOMAIN down' : down'[i].kind = "response" => i = Len(down) + 1
      BY <1>q, <3>2, <3>3
    <3>5. keepAlive + MaxLatency >= K
      BY <1>t, <1>n, <1>u, <2>1, <2>2, <2>4 DEF PingsAreRecent
    <3>. QED  BY SMTT(40), <1>n, <2>1, <3>1, <3>3, <3>4, <3>5 DEF PingsAreRecent, PingsAreFew
  <2>. QED  BY <2>3, <2>4
<1>8. ASSUME Timers!InactiveTimeout PROVE Kept
  BY <1>8, <1>t DEF Timers!InactiveTimeout, PingsAreRecent, PingsAreFew
<1>9. ASSUME Timers!CutOff PROVE Kept
  BY <1>9 DEF Timers!CutOff
<1>10. ASSUME UNCHANGED timerVars PROVE Kept
  BY <1>10, <1>t DEF timerVars, PingsAreRecent, PingsAreFew
<1>. QED
  BY <1>1, <1>2, <1>4, <1>5, <1>6, <1>7, <1>8, <1>9, <1>10 DEF Timers!Next

-----------------------------------------------------------------------------
(* With a short latency, a server that can be reached stays, unless what   *)
(* the library was sent put off its ping.                                  *)

\* The invariant of the timers holds at first.
LEMMA TimerInit == ASSUME ShortLatency PROVE Init => TimerInv
<1>1. Init => /\ up = <<>> /\ down = <<>> /\ open = TRUE /\ keepAlive = K
              /\ inactive \in 0..I /\ I - inactive <= MaxLatency
  BY DEF Init, Timers!Init, K, I
<1>2. DOMAIN <<>> = {}
  OBVIOUS
<1>3. ASSUME Init PROVE TimerOutlasts
  BY <1>1, <1>3, Intervals, TimeAssumption DEF ShortLatency, TimerOutlasts
<1>. QED
  BY <1>1, <1>2, <1>3, SilenceInit
  DEF TimerInv, ResponsesAreFresh, Timers!IdleServerStays

\* And is kept by every step, when messages take less than half the interval.
LEMMA TimerStep ==
  ASSUME ShortLatency
  PROVE  TimerInv /\ [Timers!Next]_timerVars => TimerInv'
<1>. DEFINE Parts == /\ Timers!IdleServerStays
                     /\ TimerOutlasts
                     /\ ResponsesAreFresh
            Kept == Parts'
<1>. SUFFICES ASSUME TimerInv, [Timers!Next]_timerVars PROVE Kept
  BY SilenceStep DEF TimerInv
<1>t. SilenceInv /\ Parts
  BY DEF TimerInv
<1>k. Timers!KeepAliveInterval = K /\ Timers!InactiveInterval = I
      /\ Timers!PutsOff = K + MaxLatency /\ Timers!LongAgo = K + MaxLatency + 1
  BY DEF K, I, Timers!LongAgo, Timers!PutsOff
<1>q. up \in Seq(Timers!Messages) /\ down \in Seq(Timers!Messages)
  BY <1>t DEF SilenceInv, Timers!TypeOK
<1>n. /\ keepAlive \in 0..K /\ inactive \in 0..I /\ MaxLatency \in Nat
      /\ heard \in 0..(K + MaxLatency + 1)
      /\ K \in Nat /\ I \in Nat /\ I = 2 * K /\ 2 * MaxLatency < K
  BY <1>t, <1>k, Intervals, TimeAssumption DEF SilenceInv, Timers!TypeOK, ShortLatency
<1>u. \A i \in DOMAIN up : up[i].age \in 0..MaxLatency
  BY <1>q, QueuedMessage
<1>d. \A i \in DOMAIN down : down[i].age \in 0..MaxLatency
  BY <1>q, QueuedMessage
<1>h. up # <<>> => 1 \in DOMAIN up /\ Head(up) = up[1] /\ Head(up).age \in 0..MaxLatency
  BY <1>q, <1>u, Shortened
\* a connection that is open needs no excuse for being closed
<1>o. ASSUME open' PROVE Timers!IdleServerStays'
  BY <1>o DEF Timers!IdleServerStays
<1>1. ASSUME Timers!Tick PROVE Kept
  <2>1. /\ alive' = alive /\ open' /\ inactive > 0 /\ inactive' = inactive - 1
        /\ ~Timers!Due(up) /\ up' = Timers!Older(up)
        /\ alive => /\ keepAlive > 0 /\ keepAlive' = keepAlive - 1
                    /\ ~Timers!Due(down) /\ down' = Timers!Older(down)
                    /\ heard' = IF heard = K + MaxLatency + 1 THEN heard ELSE heard + 1
        /\ ~alive => down' = down
    BY <1>1, <1>k DEF Timers!Tick
  <2>2. /\ up' \in Seq(Timers!Messages)
        /\ Len(up') = Len(up) /\ DOMAIN up' = DOMAIN up
        /\ \A i \in DOMAIN up : up'[i].age = up[i].age + 1
    BY <1>q, <2>1, OlderQueue
  <2>3. alive => /\ DOMAIN down' = DOMAIN down
                 /\ \A i \in DOMAIN down :
                      down'[i].kind = down[i].kind /\ down'[i].age = down[i].age + 1
    BY <1>q, <2>1, OlderQueue
  <2>4. up' # <<>> => up # <<>> /\ Head(up').age = Head(up).age + 1
    BY <1>q, <1>h, <2>2, Shortened
  <2>5. up' = <<>> => up = <<>>
    BY <1>q, <2>2
  <2>6. TimerOutlasts'
    BY <1>t, <1>n, <1>h, <2>1, <2>4, <2>5 DEF TimerOutlasts
  <2>7. ResponsesAreFresh'
    BY <1>t, <1>n, <1>d, <2>1, <2>3 DEF ResponsesAreFresh
  <2>. QED  BY <1>o, <2>1, <2>6, <2>7
\* a message sent behind the others
<1>2. ASSUME NEW m \in Timers!Messages, m.age = 0, alive, up' = Append(up, m), heard' = heard
      PROVE  /\ up' # <<>>
             /\ \/ inactive + Head(up').age >= MaxLatency + 1
                \/ heard' - Head(up').age <= K
  <2>1. /\ up' # <<>>
        /\ up # <<>> => Head(up') = Head(up)
        /\ up = <<>> => Head(up') = m
    BY <1>q, <1>2, Grown
  <2>. QED  BY <1>t, <1>n, <1>h, <1>2, <2>1 DEF TimerOutlasts
<1>3. ASSUME Timers!KeepAliveTimeout PROVE Kept
  <2>1. /\ alive /\ open' /\ UNCHANGED <<alive, silent, inactive, down, heard>>
        /\ up' = Append(up, Timers!Sent("ping"))
    BY <1>3 DEF Timers!KeepAliveTimeout
  <2>2. TimerOutlasts'
    BY <1>2, <2>1, SentMessage DEF Timers!Kinds, TimerOutlasts
  <2>. QED  BY <1>o, <1>t, <2>1, <2>2 DEF ResponsesAreFresh
<1>4. ASSUME Timers!LibraryReceives PROVE Kept
  <2>1. /\ alive /\ open' /\ down # <<>> /\ down' = Tail(down) /\ keepAlive' = K
        /\ UNCHANGED <<alive, silent, inactive, up>>
        /\ heard' = IF Head(down).kind = "response" THEN heard ELSE 0
    BY <1>4, <1>k DEF Timers!LibraryReceives, Timers!Received
  <2>2. /\ 1 \in DOMAIN down /\ Head(down) = down[1]
        /\ \A i \in DOMAIN down' : i + 1 \in DOMAIN down /\ down'[i] = down[i + 1]
    BY <1>q, <2>1, Shortened
  <2>3. ResponsesAreFresh'
    BY <1>t, <2>1, <2>2 DEF ResponsesAreFresh
  <2>4. TimerOutlasts'
    <3>1. CASE Head(down).kind = "response"
      <4>1. inactive + down[1].age >= I /\ down[1].age \in 0..MaxLatency /\ heard' = heard
        BY <1>t, <1>d, <2>1, <2>2, <3>1 DEF ResponsesAreFresh
      <4>. QED  BY <1>t, <1>n, <1>h, <2>1, <4>1 DEF TimerOutlasts
    <3>2. CASE Head(down).kind # "response"
      BY <1>n, <1>h, <2>1, <3>2 DEF TimerOutlasts
    <3>. QED  BY <3>1, <3>2
  <2>. QED  BY <1>o, <2>1, <2>3, <2>4
<1>5. ASSUME Timers!LibrarySends PROVE Kept
  <2>1. /\ alive /\ open' /\ UNCHANGED <<alive, silent, keepAlive, inactive, down, heard>>
        /\ up' = Append(up, Timers!Sent("data"))
    BY <1>5 DEF Timers!LibrarySends
  <2>2. TimerOutlasts'
    BY <1>2, <2>1, SentMessage DEF Timers!Kinds, TimerOutlasts
  <2>. QED  BY <1>o, <1>t, <2>1, <2>2 DEF ResponsesAreFresh
<1>6. ASSUME Timers!ProxySends PROVE Kept
  <2>1. /\ open' /\ UNCHANGED <<alive, silent, keepAlive, inactive, up, heard>>
        /\ down' = Append(down, Timers!Sent("data"))
    BY <1>6 DEF Timers!ProxySends
  <2>2. /\ DOMAIN down' = 1..(Len(down) + 1) /\ DOMAIN down = 1..Len(down)
        /\ down'[Len(down) + 1].kind = "data"
        /\ \A i \in DOMAIN down : down'[i] = down[i]
    BY <1>q, <2>1, SentMessage, Grown DEF Timers!Kinds
  <2>3. \A i \in DOMAIN down' :
          down'[i].kind = "data" \/ (i \in DOMAIN down /\ down'[i] = down[i])
    BY <1>q, <2>2
  <2>. QED
    BY <1>o, <1>t, <2>1, <2>3 DEF TimerOutlasts, ResponsesAreFresh
<1>7. ASSUME Timers!ProxyReceives PROVE Kept
  <2>1. /\ open' /\ up # <<>> /\ up' = Tail(up) /\ inactive' = I
        /\ UNCHANGED <<alive, silent, keepAlive, heard>>
        /\ \/ down' = Append(down, Timers!Sent("response"))
           \/ down' = down
    BY <1>7, <1>k DEF Timers!ProxyReceives, Timers!ActivityRestarts
  <2>2. \A i \in DOMAIN down' :
          \/ i \in DOMAIN down /\ down'[i] = down[i]
          \/ down'[i].kind = "response" /\ down'[i].age = 0
    <3>1. CASE down' = down
      BY <3>1
    <3>2. CASE down' = Append(down, Timers!Sent("response"))
      <4>1. /\ DOMAIN down' = 1..(Len(down) + 1) /\ DOMAIN down = 1..Len(down)
            /\ down'[Len(down) + 1].kind = "response"
            /\ down'[Len(down) + 1].age = 0
            /\ \A i \in DOMAIN down : down'[i] = down[i]
        BY <1>q, <3>2, SentMessage, Grown DEF Timers!Kinds
      <4>. QED  BY <1>q, <4>1
    <3>. QED  BY <2>1, <3>1, <3>2
  <2>3. up' # <<>> => Head(up').age \in Nat
    BY <1>q, <1>u, <2>1, Shortened
  <2>4. TimerOutlasts'
    BY <1>n, <2>1, <2>3 DEF TimerOutlasts
  <2>5. ResponsesAreFresh'
    BY <1>t, <1>n, <1>d, <2>1, <2>2 DEF ResponsesAreFresh
  <2>. QED  BY <1>o, <2>1, <2>4, <2>5
<1>8. ASSUME Timers!InactiveTimeout PROVE Kept
  <2>1. /\ inactive = 0
        /\ UNCHANGED <<alive, silent, keepAlive, inactive, up, down, heard>>
    BY <1>8 DEF Timers!InactiveTimeout
  \* the timer only runs out on a host that can be reached if its ping was put off
  <2>2. alive => heard <= K + MaxLatency
    BY <1>t, <1>n, <1>h, <2>1 DEF TimerOutlasts
  <2>. QED
    BY <1>t, <1>k, <2>1, <2>2 DEF Timers!IdleServerStays, TimerOutlasts, ResponsesAreFresh
<1>9. ASSUME Timers!CutOff PROVE Kept
  <2>1. alive' = FALSE /\ down' = <<>> /\ DOMAIN <<>> = {}
    BY <1>9 DEF Timers!CutOff
  <2>. QED
    BY <2>1 DEF Timers!IdleServerStays, TimerOutlasts, ResponsesAreFresh
<1>10. ASSUME UNCHANGED timerVars PROVE Kept
  BY <1>10, <1>t
  DEF timerVars, Timers!IdleServerStays, TimerOutlasts, ResponsesAreFresh
<1>. QED
  BY <1>1, <1>3, <1>4, <1>5, <1>6, <1>7, <1>8, <1>9, <1>10 DEF Timers!Next

\* A step of the session is one of the timers, or leaves them alone.
LEMMA TimersStep == [Next]_vars => [Timers!Next]_timerVars
  BY DEF Next, vars, InSession, OnTime

\* TunnelProxyClient::m_inactiveTimer: for every latency two of which fit into the interval
\* of the pings, however many messages are under way and whatever the application answers:
\* a server that can be reached is dropped only after the library, within that interval and
\* one latency, read something it had not asked for, and one that cannot be reached is
\* dropped at the latest a minute after its last message.
THEOREM TimeoutsAreJustified ==
  ASSUME ShortLatency
  PROVE  Spec => []TimeoutsJustified
<1>1. Init => TimerInv
  BY TimerInit
<1>2. TimerInv /\ [Next]_vars => TimerInv'
  BY TimerStep, TimersStep
<1>3. TimerInv => TimeoutsJustified
  <2>. SUFFICES ASSUME TimerInv, open PROVE silent <= Timers!InactiveInterval + MaxLatency
    BY DEF TimeoutsJustified, TimerInv, Timers!DeadServerGone
  <2>1. NotSilent /\ SentBeforeCutOff /\ inactive \in 0..I /\ silent \in Nat
    BY Intervals, TimeAssumption DEF TimerInv, SilenceInv, Timers!TypeOK, I
  <2>. QED
    BY <2>1, Intervals, TimeAssumption DEF NotSilent, SentBeforeCutOff, I
<1>. QED  BY <1>1, <1>2, <1>3, PTL DEF Spec

\* The other half of it needs nothing: whatever the latency, a server that cannot be
\* reached is dropped.
THEOREM SilenceEnds == Spec => []Timers!DeadServerGone
<1>1. SilenceInv /\ [Next]_vars => SilenceInv'
  BY SilenceStep, TimersStep
<1>2. SilenceInv => Timers!DeadServerGone
  <2>. SUFFICES ASSUME SilenceInv, open PROVE silent <= Timers!InactiveInterval + MaxLatency
    BY DEF Timers!DeadServerGone
  <2>1. NotSilent /\ SentBeforeCutOff /\ inactive \in 0..I /\ silent \in Nat
    BY Intervals, TimeAssumption DEF SilenceInv, Timers!TypeOK, I
  <2>. QED
    BY <2>1, Intervals, TimeAssumption DEF NotSilent, SentBeforeCutOff, I
<1>. QED  BY <1>1, <1>2, SilenceInit, PTL DEF Spec

\* TunnelProxySocketServer::m_keepAliveTimer: under the same bound of the latency, whatever
\* the application does, at most one ping is unanswered.
THEOREM PingsOneAtATime ==
  ASSUME ShortLatency
  PROVE  Spec => []OnePing
<1>1. PingInv /\ [Next]_vars => PingInv'
  BY PingStep, TimersStep
<1>2. PingInv => OnePing
  BY DEF PingInv, PingsAreFew, OnePing, Timers!OnePing, Timers!Unfinished
<1>. QED  BY <1>1, <1>2, PingInit, PTL DEF Spec

-----------------------------------------------------------------------------
(* The session: the types, and the ids.                                    *)

\* The messages and calls there are.
LEMMA Shapes ==
  /\ Session!Hello \in Session!Requests
  /\ Session!RegisterServer \in Session!Requests
  /\ Session!Ping \in Session!Requests
  /\ \A a \in SocketAddresses : Session!DisconnectClient(a) \in Session!Requests
  /\ \A request \in Session!Requests : [id |-> 0, request |-> request] \in Calls
  /\ \A call \in Calls : call.id = 0 /\ call.request \in Session!Requests
  /\ Session!NoReply \in
       [request : Session!Requests \cup {Session!NoRequest}, message : Messages]
<1>1. 0 \in 0..MaxNotificationId
  BY SessionAssumption
<1>. QED
  BY <1>1
  DEF Session!Requests, Session!Hello, Session!RegisterServer, Session!Ping,
      Session!DisconnectClient, Calls, Messages, Session!Calls, Session!Messages,
      Session!m_commandId, Session!NoReply, Session!Response

\* A response has the command id of its request, which is always the same.
LEMMA ResponseShape ==
  ASSUME NEW request \in Session!Requests
  PROVE  /\ Session!Response(0, request) \in Messages
         /\ Session!Response(0, request).id = 0
         /\ Session!Response(0, request).notification = "none"
         /\ Session!Response(0, request).answers = request
  BY SessionAssumption DEF Session!Response, Messages, Session!Messages

\* A notification announces a client or its end, at an address.
LEMMA NotificationShape ==
  ASSUME NEW id \in 0..MaxNotificationId, NEW name \in Session!Notifications,
         NEW a \in SocketAddresses
  PROVE  /\ Session!Notification(id, name, a) \in Messages
         /\ Session!Notification(id, name, a).id = id
         /\ Session!Notification(id, name, a).notification = name
         /\ Session!Notification(id, name, a).socketAddress = a
         /\ name \in {"ClientConnected", "ClientDisconnected"}
  BY DEF Session!Notification, Session!Notifications, Messages, Session!Messages

\* What a request does to the pending replies and to what is under way.
LEMMA Called ==
  ASSUME NEW replies, DOMAIN replies \subseteq {0},
         toProxy \in Seq(Calls), NEW request \in Session!Requests,
         Session!Call(replies, request)
  PROVE  /\ DOMAIN m_replies' = {0} /\ m_replies'[0] = request
         /\ toProxy' = Append(toProxy, [id |-> 0, request |-> request])
         /\ toProxy' \in Seq(Calls)
<1>1. [id |-> 0, request |-> request] \in Calls
  BY Shapes
<1>. QED  BY <1>1 DEF Session!Call, Session!m_commandId

\* What the slot behind a reply does.
LEMMA SlotDone ==
  ASSUME NEW request, NEW replies, Session!ReplyFinished(request, replies)
  PROVE  \/ m_state' = "register" /\ Session!Call(replies, Session!RegisterServer)
         \/ m_state' \in {"running", m_state} /\ m_replies' = replies /\ toProxy' = toProxy
<1>1. CASE request = Session!Hello
  BY <1>1 DEF Session!ReplyFinished
<1>2. CASE request # Session!Hello
  <2>1. CASE request = Session!RegisterServer
    BY <1>2, <2>1 DEF Session!ReplyFinished
  <2>2. CASE request # Session!RegisterServer
    BY <1>2, <2>2 DEF Session!ReplyFinished
  <2>. QED  BY <2>1, <2>2
<1>. QED  BY <1>1, <1>2

\* What ProcessDataPacket does with a message, by its id.
LEMMA Packet ==
  ASSUME Session!TypeOK, Session!ProcessDataPacket
  PROVE  /\ toLibrary # <<>> /\ toLibrary' = Tail(toLibrary)
         /\ Head(toLibrary) \in Messages /\ Head(toLibrary) = toLibrary[1]
         /\ 1 \in DOMAIN toLibrary
         /\ UNCHANGED <<registered, clients, m_notificationId>>
         /\ \/ /\ Head(toLibrary).id = 0 /\ 0 \in DOMAIN m_replies
               /\ finished' = [request |-> m_replies[0], message |-> Head(toLibrary)]
               /\ sockets' = sockets
               /\ \/ /\ m_state' = "register"
                     /\ DOMAIN m_replies' = {0}
                     /\ m_replies'[0] = Session!RegisterServer
                     /\ toProxy' = Append(toProxy, [id |-> 0, request |-> Session!RegisterServer])
                  \/ /\ m_state' \in {"running", m_state}
                     /\ DOMAIN m_replies' = {}
                     /\ toProxy' = toProxy
            \/ /\ Head(toLibrary).id \notin DOMAIN m_replies
               /\ Session!OnNotification(Head(toLibrary))
               /\ UNCHANGED <<m_state, m_replies, finished, toProxy>>
<1>. DEFINE message == Head(toLibrary)
            without == Session!Without(m_replies, 0)
<1>1. /\ toLibrary \in Seq(Messages) /\ toProxy \in Seq(Calls) /\ DOMAIN m_replies \subseteq {0}
  BY DEF Session!TypeOK, Session!m_commandId, Messages, Calls
<1>2. /\ toLibrary # <<>> /\ toLibrary' = Tail(toLibrary)
      /\ UNCHANGED <<registered, clients, m_notificationId>>
  BY DEF Session!ProcessDataPacket, Session!proxyVars
<1>3. message \in Messages /\ message = toLibrary[1] /\ 1 \in DOMAIN toLibrary
  BY <1>1, <1>2, Shortened
<1>4. CASE message.id \in DOMAIN m_replies
  <2>1. message.id = 0
    BY <1>1, <1>4
  <2>2. /\ finished' = [request |-> m_replies[0], message |-> message]
        /\ sockets' = sockets
        /\ Session!ReplyFinished(m_replies[0], without)
    BY <1>4, <2>1 DEF Session!ProcessDataPacket
  <2>3. DOMAIN without = {}
    BY <1>1 DEF Session!Without
  <2>4. CASE m_state' = "register" /\ Session!Call(without, Session!RegisterServer)
    BY <1>1, <1>2, <1>3, <1>4, <2>1, <2>2, <2>3, <2>4, Called, Shapes
  <2>5. CASE m_state' \in {"running", m_state} /\ m_replies' = without /\ toProxy' = toProxy
    BY <1>2, <1>3, <1>4, <2>1, <2>2, <2>3, <2>5
  <2>. QED  BY <2>2, <2>4, <2>5, SlotDone
<1>5. CASE message.id \notin DOMAIN m_replies
  BY <1>2, <1>3, <1>5 DEF Session!ProcessDataPacket
<1>. QED  BY <1>4, <1>5

-----------------------------------------------------------------------------
(* The sockets of the library follow the clients of the proxy.             *)

\* A message about another address, or none, changes nothing.
LEMMA OtherSent ==
  ASSUME NEW queue \in Seq(Messages), NEW m \in Messages, NEW a, NEW S, NEW C, NEW D,
         EndsWithTruth(queue, a, S, C), ~IsAbout(m, a), a \in C <=> a \in D
  PROVE  EndsWithTruth(Append(queue, m), a, S, D)
<1>1. /\ DOMAIN Append(queue, m) = 1..(Len(queue) + 1) /\ DOMAIN queue = 1..Len(queue)
      /\ Append(queue, m)[Len(queue) + 1] = m
      /\ \A i \in DOMAIN queue : Append(queue, m)[i] = queue[i]
  BY Grown
<1>2. /\ \A i \in DOMAIN Append(queue, m) :
           IsAbout(Append(queue, m)[i], a) => i \in DOMAIN queue /\ Append(queue, m)[i] = queue[i]
      /\ \A i \in DOMAIN queue : i \in DOMAIN Append(queue, m)
  BY <1>1
<1>. QED  BY <1>1, <1>2 DEF EndsWithTruth

\* A message about the address is the last word about it.
LEMMA AboutSent ==
  ASSUME NEW queue \in Seq(Messages), NEW m \in Messages, NEW a, NEW S, NEW D,
         IsAbout(m, a), m.notification = "ClientConnected" <=> a \in D
  PROVE  EndsWithTruth(Append(queue, m), a, S, D)
<1>1. /\ DOMAIN Append(queue, m) = 1..(Len(queue) + 1) /\ DOMAIN queue = 1..Len(queue)
      /\ Append(queue, m)[Len(queue) + 1] = m
  BY Grown
<1>2. \A i \in DOMAIN Append(queue, m) :
        i = Len(queue) + 1 \/ Len(queue) + 1 > i
  BY <1>1
<1>. QED  BY <1>1, <1>2 DEF EndsWithTruth

\* Reading a message about another address, or about none.
LEMMA OtherRead ==
  ASSUME NEW queue \in Seq(Messages), queue # <<>>, NEW a, NEW S, NEW T, NEW C,
         EndsWithTruth(queue, a, S, C), ~IsAbout(Head(queue), a), a \in S <=> a \in T
  PROVE  EndsWithTruth(Tail(queue), a, T, C)
<1>1. /\ Head(queue) = queue[1]
      /\ \A i \in DOMAIN Tail(queue) :
           i \in Nat /\ i >= 1 /\ i + 1 \in DOMAIN queue /\ Tail(queue)[i] = queue[i + 1]
      /\ \A i \in DOMAIN queue : i \in Nat /\ (i # 1 => i - 1 \in DOMAIN Tail(queue))
  BY Shortened
<1>2. ASSUME NEW i \in DOMAIN Tail(queue), IsAbout(Tail(queue)[i], a),
             \A j \in DOMAIN Tail(queue) : j > i => ~IsAbout(Tail(queue)[j], a)
      PROVE  Tail(queue)[i].notification = "ClientConnected" <=> a \in C
  <2>1. ASSUME NEW j \in DOMAIN queue, j > i + 1 PROVE ~IsAbout(queue[j], a)
    <3>1. j - 1 \in DOMAIN Tail(queue) /\ j - 1 > i /\ Tail(queue)[j - 1] = queue[j]
      BY <1>1, <2>1
    <3>. QED  BY <1>2, <3>1
  <2>. QED  BY <1>1, <1>2, <2>1 DEF EndsWithTruth
<1>3. ASSUME \A i \in DOMAIN Tail(queue) : ~IsAbout(Tail(queue)[i], a)
      PROVE  a \in T <=> a \in C
  <2>1. ASSUME NEW j \in DOMAIN queue PROVE ~IsAbout(queue[j], a)
    <3>1. CASE j = 1
      BY <1>1, <3>1
    <3>2. CASE j # 1
      <4>1. j - 1 \in DOMAIN Tail(queue) /\ Tail(queue)[j - 1] = queue[j]
        BY <1>1, <3>2
      <4>. QED  BY <1>3, <4>1
    <3>. QED  BY <3>1, <3>2
  <2>. QED  BY <2>1 DEF EndsWithTruth
<1>. QED  BY <1>2, <1>3 DEF EndsWithTruth

\* Reading a message about the address and doing what it says.
LEMMA AboutRead ==
  ASSUME NEW queue \in Seq(Messages), queue # <<>>, NEW a, NEW S, NEW T, NEW C,
         EndsWithTruth(queue, a, S, C), IsAbout(Head(queue), a),
         Head(queue).notification = "ClientConnected" <=> a \in T
  PROVE  EndsWithTruth(Tail(queue), a, T, C)
<1>1. /\ Head(queue) = queue[1] /\ 1 \in DOMAIN queue
      /\ \A i \in DOMAIN Tail(queue) :
           i \in Nat /\ i >= 1 /\ i + 1 \in DOMAIN queue /\ Tail(queue)[i] = queue[i + 1]
      /\ \A i \in DOMAIN queue : i \in Nat /\ (i # 1 => i - 1 \in DOMAIN Tail(queue))
  BY Shortened
<1>2. ASSUME NEW i \in DOMAIN Tail(queue), IsAbout(Tail(queue)[i], a),
             \A j \in DOMAIN Tail(queue) : j > i => ~IsAbout(Tail(queue)[j], a)
      PROVE  Tail(queue)[i].notification = "ClientConnected" <=> a \in C
  <2>1. ASSUME NEW j \in DOMAIN queue, j > i + 1 PROVE ~IsAbout(queue[j], a)
    <3>1. j - 1 \in DOMAIN Tail(queue) /\ j - 1 > i /\ Tail(queue)[j - 1] = queue[j]
      BY <1>1, <2>1
    <3>. QED  BY <1>2, <3>1
  <2>. QED  BY <1>1, <1>2, <2>1 DEF EndsWithTruth
<1>3. ASSUME \A i \in DOMAIN Tail(queue) : ~IsAbout(Tail(queue)[i], a)
      PROVE  a \in T <=> a \in C
  <2>1. ASSUME NEW j \in DOMAIN queue, j > 1 PROVE ~IsAbout(queue[j], a)
    <3>1. j - 1 \in DOMAIN Tail(queue) /\ Tail(queue)[j - 1] = queue[j]
      BY <1>1, <2>1
    <3>. QED  BY <1>3, <3>1
  <2>. QED  BY <1>1, <2>1 DEF EndsWithTruth
<1>. QED  BY <1>2, <1>3 DEF EndsWithTruth

\* At first the library and the proxy know no client.
LEMMA AgreementInit == Init => AgreementInv
<1>. SUFFICES ASSUME Init PROVE AgreementInv
  OBVIOUS
<1>1. /\ m_state = "disconnected" /\ m_replies = <<>> /\ sockets = {}
      /\ finished = Session!NoReply /\ registered = FALSE /\ clients = {}
      /\ m_notificationId = FirstNotificationId /\ toProxy = <<>> /\ toLibrary = <<>>
  BY DEF Init, Session!Init
<1>2. <<>> \in Seq(Calls) /\ <<>> \in Seq(Messages) /\ DOMAIN <<>> = {}
  OBVIOUS
<1>3. toProxy \in Seq(Calls) /\ toLibrary \in Seq(Messages)
  BY <1>1, <1>2
<1>4. Session!TypeOK
  <2>1. DOMAIN m_replies = {} /\ m_state \in {"disconnected", "initializing", "register", "running"}
    BY <1>1, <1>2
  <2>2. m_notificationId \in FirstNotificationId..MaxNotificationId
    BY <1>1, SessionAssumption
  <2>3. finished \in [request : Session!Requests \cup {Session!NoRequest}, message : Messages]
    BY <1>1, Shapes
  <2>4. registered \in BOOLEAN /\ clients = {} /\ sockets = {}
    BY <1>1
  <2>. QED  BY <1>3, <2>1, <2>2, <2>3, <2>4 DEF Session!TypeOK, Calls, Messages
<1>. QED
  BY <1>1, <1>2, <1>4 DEF AgreementInv, ToldApart, LastWord, EndsWithTruth

\* The proxy sends a notification, and counts it.
LEMMA Announced ==
  ASSUME IdsApart, AgreementInv, NEW name \in Session!Notifications, NEW b \in SocketAddresses,
         m_notificationId < MaxNotificationId,
         m_notificationId' = m_notificationId + 1,
         sockets' = sockets, clients' \subseteq SocketAddresses,
         \A a \in SocketAddresses \ {b} : a \in clients <=> a \in clients',
         name = "ClientConnected" <=> b \in clients',
         NEW queue, queue = Session!SendNotification(toLibrary, name, b)
  PROVE  /\ queue \in Seq(Messages)
         /\ m_notificationId' \in FirstNotificationId..MaxNotificationId
         /\ \A i \in DOMAIN queue : Apart(queue[i])
         /\ \A a \in SocketAddresses : EndsWithTruth(queue, a, sockets', clients')
<1>. DEFINE m == Session!Notification(m_notificationId, name, b)
<1>1. toLibrary \in Seq(Messages) /\ m_notificationId \in FirstNotificationId..MaxNotificationId
  BY DEF AgreementInv, Session!TypeOK, Messages
<1>2. m_notificationId \in 0..MaxNotificationId /\ m_notificationId > 0
  BY <1>1, SessionAssumption DEF IdsApart
<1>3. /\ m \in Messages /\ m.id > 0 /\ m.notification = name /\ m.socketAddress = b
      /\ name # "none"
  BY <1>2, NotificationShape DEF Session!Notifications
<1>4. queue = Append(toLibrary, m)
  BY DEF Session!SendNotification
<1>. HIDE DEF m
<1>5. queue \in Seq(Messages)
  BY <1>1, <1>3, <1>4
<1>6. m_notificationId' \in FirstNotificationId..MaxNotificationId
  BY <1>1, SessionAssumption
<1>7. \A i \in DOMAIN queue : Apart(queue[i])
  <2>1. /\ DOMAIN queue = 1..(Len(toLibrary) + 1) /\ DOMAIN toLibrary = 1..Len(toLibrary)
        /\ queue[Len(toLibrary) + 1] = m
        /\ \A i \in DOMAIN toLibrary : queue[i] = toLibrary[i]
    BY <1>1, <1>3, <1>4, Grown
  <2>2. Apart(m)
    BY <1>3 DEF Apart
  <2>. QED  BY <1>1, <2>1, <2>2 DEF AgreementInv, ToldApart
<1>8. ASSUME NEW a \in SocketAddresses PROVE EndsWithTruth(queue, a, sockets, clients')
  <2>1. EndsWithTruth(toLibrary, a, sockets, clients)
    BY DEF AgreementInv, LastWord
  <2>2. CASE a = b
    BY <1>1, <1>3, <1>4, <2>2, AboutSent DEF IsAbout
  <2>3. CASE a # b
    <3>1. ~IsAbout(m, a) /\ (a \in clients <=> a \in clients')
      BY <1>3, <2>3 DEF IsAbout
    <3>. QED  BY <1>1, <1>3, <1>4, <2>1, <3>1, OtherSent
  <2>. QED  BY <2>2, <2>3
<1>. QED  BY <1>5, <1>6, <1>7, <1>8

\* The proxy sends a response.
LEMMA Answered ==
  ASSUME NEW queue \in Seq(Messages), NEW call \in Calls, NEW S, NEW C,
         \A i \in DOMAIN queue : Apart(queue[i]),
         \A a \in SocketAddresses : EndsWithTruth(queue, a, S, C),
         NEW longer, longer = Session!SendResponse(queue, call)
  PROVE  /\ longer \in Seq(Messages)
         /\ \A i \in DOMAIN longer : Apart(longer[i])
         /\ \A a \in SocketAddresses : EndsWithTruth(longer, a, S, C)
<1>. DEFINE m == Session!Response(0, call.request)
<1>1. m \in Messages /\ m.id = 0 /\ m.notification = "none"
  BY Shapes, ResponseShape
<1>2. longer = Append(queue, m)
  BY Shapes DEF Session!SendResponse
<1>. HIDE DEF m
<1>3. longer \in Seq(Messages)
  BY <1>1, <1>2
<1>4. \A i \in DOMAIN longer : Apart(longer[i])
  <2>1. /\ DOMAIN longer = 1..(Len(queue) + 1) /\ DOMAIN queue = 1..Len(queue)
        /\ longer[Len(queue) + 1] = m
        /\ \A i \in DOMAIN queue : longer[i] = queue[i]
    BY <1>1, <1>2, Grown
  <2>2. Apart(m)
    BY <1>1 DEF Apart
  <2>. QED  BY <2>1, <2>2
<1>5. ASSUME NEW a \in SocketAddresses PROVE EndsWithTruth(longer, a, S, C)
  <2>1. ~IsAbout(m, a)
    BY <1>1 DEF IsAbout
  <2>. QED  BY <1>1, <1>2, <2>1, OtherSent
<1>. QED  BY <1>3, <1>4, <1>5

\* Every step keeps the agreement of sockets and clients.
LEMMA AgreementStep ==
  ASSUME IdsApart
  PROVE  AgreementInv /\ [Session!Next]_sessionVars => AgreementInv'
<1>. SUFFICES ASSUME AgreementInv, [Session!Next]_sessionVars PROVE AgreementInv'
  OBVIOUS
<1>. DEFINE Kept == AgreementInv'
<1>t. Session!TypeOK /\ ToldApart /\ LastWord
  BY DEF AgreementInv
<1>q. /\ toProxy \in Seq(Calls) /\ toLibrary \in Seq(Messages)
      /\ DOMAIN m_replies \subseteq {0}
      /\ \A id \in DOMAIN m_replies : m_replies[id] \in Session!Requests
  BY <1>t DEF Session!TypeOK, Session!m_commandId, Calls, Messages
<1>1. ASSUME NEW request \in Session!Requests, Session!Call(m_replies, request),
             m_state' \in {"initializing", m_state},
             UNCHANGED <<sockets, finished, registered, clients, m_notificationId, toLibrary>>
      PROVE  Kept
  <2>1. /\ DOMAIN m_replies' = {0} /\ m_replies'[0] = request /\ toProxy' \in Seq(Calls)
    BY <1>1, <1>q, Called
  <2>2. Session!TypeOK'
    BY <1>1, <1>t, <1>q, <2>1 DEF Session!TypeOK, Session!m_commandId, Calls, Messages
  <2>. QED  BY <1>1, <1>t, <2>2 DEF AgreementInv, ToldApart, LastWord
<1>2. ASSUME Session!Connected PROVE Kept
  BY <1>1, <1>2, Shapes DEF Session!Connected, Session!proxyVars
<1>3. ASSUME NEW request \in Session!Requests, Session!Asks(request) PROVE Kept
  BY <1>1, <1>3 DEF Session!Asks, Session!proxyVars
<1>4. ASSUME \E a \in sockets : Session!Asks(Session!DisconnectClient(a)) PROVE Kept
  BY <1>3, <1>4, <1>t, Shapes DEF Session!TypeOK
<1>5. ASSUME Session!ProcessDataPacket PROVE Kept
  <2>. DEFINE message == Head(toLibrary)
  <2>1. /\ toLibrary # <<>> /\ toLibrary' = Tail(toLibrary)
        /\ message \in Messages /\ message = toLibrary[1] /\ 1 \in DOMAIN toLibrary
        /\ UNCHANGED <<registered, clients, m_notificationId>>
    BY <1>5, <1>t, Packet
  <2>2. message.id = 0 <=> message.notification = "none"
    BY <1>t, <2>1 DEF ToldApart, Apart
  <2>3. /\ toLibrary' \in Seq(Messages)
        /\ \A i \in DOMAIN toLibrary' : i + 1 \in DOMAIN toLibrary /\ toLibrary'[i] = toLibrary[i + 1]
    BY <1>q, <2>1, Shortened
  <2>4. ToldApart'
    BY <1>t, <2>3 DEF ToldApart
  <2>5. CASE /\ message.id = 0 /\ 0 \in DOMAIN m_replies
             /\ finished' = [request |-> m_replies[0], message |-> message]
             /\ sockets' = sockets
             /\ \/ /\ m_state' = "register"
                   /\ DOMAIN m_replies' = {0}
                   /\ m_replies'[0] = Session!RegisterServer
                   /\ toProxy' = Append(toProxy, [id |-> 0, request |-> Session!RegisterServer])
                \/ /\ m_state' \in {"running", m_state}
                   /\ DOMAIN m_replies' = {}
                   /\ toProxy' = toProxy
    <3>1. toProxy' \in Seq(Calls)
      <4>1. [id |-> 0, request |-> Session!RegisterServer] \in Calls
        BY Shapes
      <4>2. \/ toProxy' = Append(toProxy, [id |-> 0, request |-> Session!RegisterServer])
            \/ toProxy' = toProxy
        BY <2>5, Zenon
      <4>. QED  BY <1>q, <4>1, <4>2
    <3>2. /\ DOMAIN m_replies' \subseteq {0}
          /\ \A id \in DOMAIN m_replies' : m_replies'[id] \in Session!Requests
      BY <2>5, Shapes
    <3>3. finished' \in [request : Session!Requests \cup {Session!NoRequest}, message : Messages]
      BY <1>q, <2>1, <2>5
    <3>4. Session!TypeOK'
      BY <1>t, <2>1, <2>3, <2>5, <3>1, <3>2, <3>3
      DEF Session!TypeOK, Session!m_commandId, Calls, Messages
    <3>5. ASSUME NEW a \in SocketAddresses PROVE EndsWithTruth(toLibrary', a, sockets', clients')
      <4>1. ~IsAbout(message, a) /\ EndsWithTruth(toLibrary, a, sockets, clients)
        BY <1>t, <2>2, <2>5 DEF IsAbout, LastWord
      <4>2. EndsWithTruth(Tail(toLibrary), a, sockets, clients)
        BY <1>q, <2>1, <4>1, OtherRead
      <4>. QED  BY <2>1, <2>5, <4>2
    <3>. QED  BY <2>4, <3>4, <3>5 DEF AgreementInv, LastWord
  <2>6. CASE /\ message.id \notin DOMAIN m_replies
             /\ Session!OnNotification(message)
             /\ UNCHANGED <<m_state, m_replies, finished, toProxy>>
    <3>1. CASE message.notification = "none"
      <4>1. sockets' = sockets
        BY <2>6, <3>1 DEF Session!OnNotification
      <4>2. Session!TypeOK'
        BY <1>t, <2>1, <2>3, <2>6, <4>1 DEF Session!TypeOK, Messages
      <4>3. ASSUME NEW a \in SocketAddresses PROVE EndsWithTruth(toLibrary', a, sockets', clients')
        <5>1. ~IsAbout(message, a) /\ EndsWithTruth(toLibrary, a, sockets, clients)
          BY <1>t, <3>1 DEF IsAbout, LastWord
        <5>2. EndsWithTruth(Tail(toLibrary), a, sockets, clients)
          BY <1>q, <2>1, <5>1, OtherRead
        <5>. QED  BY <2>1, <4>1, <5>2
      <4>. QED  BY <2>4, <4>2, <4>3 DEF AgreementInv, LastWord
    <3>2. CASE message.notification # "none"
      <4>1. message.notification \in {"ClientConnected", "ClientDisconnected"}
        BY <2>1, <3>2 DEF Messages, Session!Messages, Session!Notifications
      <4>2. sockets' = IF message.notification = "ClientConnected"
                       THEN sockets \cup {message.socketAddress}
                       ELSE sockets \ {message.socketAddress}
        BY <2>6, <4>1 DEF Session!OnNotification
      \* the proxy names an address in each notification
      <4>3. sockets' \subseteq SocketAddresses
        BY <1>t, <2>1, <3>2, <4>2 DEF Session!TypeOK, ToldApart, Apart
      <4>4. Session!TypeOK'
        BY <1>t, <2>1, <2>3, <2>6, <4>3 DEF Session!TypeOK, Messages
      <4>5. ASSUME NEW a \in SocketAddresses PROVE EndsWithTruth(toLibrary', a, sockets', clients')
        <5>1. EndsWithTruth(toLibrary, a, sockets, clients)
          BY <1>t DEF LastWord
        <5>2. CASE IsAbout(message, a)
          <6>1. message.notification = "ClientConnected" <=> a \in sockets'
            BY <4>1, <4>2, <5>2 DEF IsAbout
          <6>2. EndsWithTruth(Tail(toLibrary), a, sockets', clients)
            BY <1>q, <2>1, <5>1, <5>2, <6>1, AboutRead
          <6>. QED  BY <2>1, <6>2
        <5>3. CASE ~IsAbout(message, a)
          <6>1. a \in sockets <=> a \in sockets'
            BY <3>2, <4>2, <5>3 DEF IsAbout
          <6>2. EndsWithTruth(Tail(toLibrary), a, sockets', clients)
            BY <1>q, <2>1, <5>1, <5>3, <6>1, OtherRead
          <6>. QED  BY <2>1, <6>2
        <5>. QED  BY <5>2, <5>3
      <4>. QED  BY <2>4, <4>4, <4>5 DEF AgreementInv, LastWord
    <3>. QED  BY <3>1, <3>2
  <2>. QED  BY <1>5, <1>t, <2>5, <2>6, Packet
<1>6. ASSUME Session!HandleRequest PROVE Kept
  <2>. DEFINE call == Head(toProxy)
              a == call.request.socketAddress
  <2>1. /\ toProxy # <<>> /\ toProxy' = Tail(toProxy)
        /\ UNCHANGED <<m_state, m_replies, sockets, finished>>
    BY <1>6 DEF Session!HandleRequest, Session!libraryVars
  <2>2. call \in Calls /\ toProxy' \in Seq(Calls)
    BY <1>q, <2>1, Shortened
  <2>3. CASE /\ toLibrary' = Session!SendResponse(toLibrary, call)
             /\ registered' = (registered \/ call.request = Session!RegisterServer)
             /\ UNCHANGED <<clients, m_notificationId>>
    <3>1. /\ toLibrary' \in Seq(Messages)
          /\ \A i \in DOMAIN toLibrary' : Apart(toLibrary'[i])
          /\ \A b \in SocketAddresses : EndsWithTruth(toLibrary', b, sockets, clients)
      BY <1>t, <1>q, <2>2, <2>3, Answered DEF ToldApart, LastWord
    <3>2. registered' \in BOOLEAN
      BY <2>3
    <3>3. Session!TypeOK'
      BY <1>t, <2>1, <2>2, <2>3, <3>1, <3>2 DEF Session!TypeOK, Calls, Messages
    <3>. QED  BY <2>1, <2>3, <3>1, <3>3 DEF AgreementInv, ToldApart, LastWord
  <2>4. CASE /\ call.request.method = "DisconnectClient"
             /\ a \in clients
             /\ m_notificationId < MaxNotificationId
             /\ clients' = clients \ {a}
             /\ toLibrary' = Session!SendResponse(
                  Session!SendNotification(toLibrary, "ClientDisconnected", a), call)
             /\ m_notificationId' = m_notificationId + 1
             /\ UNCHANGED registered
    <3>. DEFINE told == Session!SendNotification(toLibrary, "ClientDisconnected", a)
    <3>1. a \in SocketAddresses /\ clients' \subseteq SocketAddresses
      BY <1>t, <2>4 DEF Session!TypeOK
    <3>2. /\ told \in Seq(Messages)
          /\ m_notificationId' \in FirstNotificationId..MaxNotificationId
          /\ \A i \in DOMAIN told : Apart(told[i])
          /\ \A b \in SocketAddresses : EndsWithTruth(told, b, sockets', clients')
      BY <2>1, <2>4, <3>1, Announced DEF Session!Notifications
    <3>5. toLibrary' = Session!SendResponse(told, call)
      BY <2>4
    <3>. HIDE DEF told, call
    <3>3. /\ toLibrary' \in Seq(Messages)
          /\ \A i \in DOMAIN toLibrary' : Apart(toLibrary'[i])
          /\ \A b \in SocketAddresses : EndsWithTruth(toLibrary', b, sockets', clients')
      BY <2>2, <3>2, <3>5, Answered
    <3>. USE DEF call
    <3>4. Session!TypeOK'
      BY <1>t, <2>1, <2>2, <2>4, <3>1, <3>2, <3>3 DEF Session!TypeOK, Calls, Messages
    <3>. QED  BY <3>3, <3>4 DEF AgreementInv, ToldApart, LastWord
  <2>. QED  BY <1>6, <2>3, <2>4 DEF Session!HandleRequest
<1>7. ASSUME NEW b \in SocketAddresses, NEW name \in Session!Notifications,
             Session!Announce(name, b), clients' \subseteq SocketAddresses,
             \A a \in SocketAddresses \ {b} : a \in clients <=> a \in clients',
             name = "ClientConnected" <=> b \in clients'
      PROVE  Kept
  <2>1. /\ m_notificationId < MaxNotificationId
        /\ toLibrary' = Session!SendNotification(toLibrary, name, b)
        /\ m_notificationId' = m_notificationId + 1
        /\ UNCHANGED <<m_state, m_replies, sockets, finished, registered, toProxy>>
    BY <1>7 DEF Session!Announce, Session!libraryVars
  <2>2. /\ toLibrary' \in Seq(Messages)
        /\ m_notificationId' \in FirstNotificationId..MaxNotificationId
        /\ \A i \in DOMAIN toLibrary' : Apart(toLibrary'[i])
        /\ \A a \in SocketAddresses : EndsWithTruth(toLibrary', a, sockets', clients')
    BY <1>7, <2>1, Announced
  <2>3. Session!TypeOK'
    BY <1>t, <1>7, <2>1, <2>2 DEF Session!TypeOK, Calls, Messages
  <2>. QED  BY <2>2, <2>3 DEF AgreementInv, ToldApart, LastWord
<1>8. ASSUME NEW b \in SocketAddresses, Session!ClientConnected(b) PROVE Kept
  <2>1. Session!Announce("ClientConnected", b) /\ clients' = clients \cup {b}
    BY <1>8 DEF Session!ClientConnected
  <2>. QED  BY <1>7, <1>t, <2>1 DEF Session!Notifications, Session!TypeOK
<1>9. ASSUME NEW b \in SocketAddresses, Session!ClientDisconnected(b) PROVE Kept
  <2>1. Session!Announce("ClientDisconnected", b) /\ clients' = clients \ {b}
    BY <1>9 DEF Session!ClientDisconnected
  <2>. QED  BY <1>7, <1>t, <2>1 DEF Session!Notifications, Session!TypeOK
<1>10. ASSUME Session!ConnectionLost PROVE Kept
  <2>1. /\ m_state' = "disconnected" /\ m_replies' = <<>> /\ sockets' = {}
        /\ finished' = Session!NoReply /\ registered' = FALSE /\ clients' = {}
        /\ toProxy' = <<>> /\ toLibrary' = <<>> /\ m_notificationId' = m_notificationId
    BY <1>10 DEF Session!ConnectionLost
  <2>2. <<>> \in Seq(Calls) /\ <<>> \in Seq(Messages) /\ DOMAIN <<>> = {}
    OBVIOUS
  <2>3. /\ toProxy' \in Seq(Calls) /\ toLibrary' \in Seq(Messages)
        /\ DOMAIN m_replies' = {} /\ DOMAIN toLibrary' = {}
    BY <2>1, <2>2
  <2>4. finished' \in [request : Session!Requests \cup {Session!NoRequest}, message : Messages]
    BY <2>1, Shapes
  <2>5. Session!TypeOK'
    BY <1>t, <2>1, <2>3, <2>4 DEF Session!TypeOK, Calls, Messages
  <2>. QED  BY <2>1, <2>3, <2>5 DEF AgreementInv, ToldApart, LastWord, EndsWithTruth
<1>11. ASSUME UNCHANGED sessionVars PROVE Kept
  BY <1>11, <1>t DEF sessionVars, AgreementInv, Session!TypeOK, ToldApart, LastWord
<1>. QED
  BY <1>2, <1>3, <1>4, <1>5, <1>6, <1>8, <1>9, <1>10, <1>11, Shapes DEF Session!Next

\* A step of the composition is one of the session, or leaves it alone.
LEMMA SessionStep == [Next]_vars => [Session!Next]_sessionVars
  BY DEF Next, vars, InSession, OnTime

\* TunnelProxySocketServer: for any number of requests under way, of addresses and of
\* notifications, as long as no notification has the id of the requests: once the library
\* has read everything, its sockets are the clients the proxy has for it.
THEOREM SocketsFollowClients ==
  ASSUME IdsApart
  PROVE  Spec => []SocketsAgree
<1>1. AgreementInv /\ [Next]_vars => AgreementInv'
  BY AgreementStep, SessionStep
<1>2. AgreementInv => SocketsAgree
  <2>. SUFFICES ASSUME AgreementInv, toLibrary = <<>> PROVE sockets = clients
    BY DEF SocketsAgree, Session!SocketsAgree
  <2>1. DOMAIN toLibrary = {}
    OBVIOUS
  <2>2. \A a \in SocketAddresses : a \in sockets <=> a \in clients
    BY <2>1 DEF AgreementInv, LastWord, EndsWithTruth
  <2>. QED  BY <2>2 DEF AgreementInv, Session!TypeOK
<1>. QED  BY <1>1, <1>2, AgreementInit, PTL DEF Spec

-----------------------------------------------------------------------------
(* While one request is unanswered at a time, a reply finishes with the    *)
(* response to its own request.                                            *)

\* The responses under way when a message is put behind the others.
LEMMA OneSent ==
  ASSUME NEW queue \in Seq(Messages), NEW m \in Messages
  PROVE  /\ m.notification # "none" => ResponsesIn(Append(queue, m)) = ResponsesIn(queue)
         /\ m.notification = "none" =>
              ResponsesIn(Append(queue, m)) = ResponsesIn(queue) \cup {Len(queue) + 1}
         /\ \A i \in ResponsesIn(queue) : Append(queue, m)[i] = queue[i]
         /\ Append(queue, m)[Len(queue) + 1] = m
<1>1. /\ DOMAIN Append(queue, m) = 1..(Len(queue) + 1) /\ DOMAIN queue = 1..Len(queue)
      /\ Append(queue, m)[Len(queue) + 1] = m
      /\ \A i \in DOMAIN queue : Append(queue, m)[i] = queue[i]
      /\ Len(queue) \in Nat
  BY Grown
<1>2. 1..(Len(queue) + 1) = 1..Len(queue) \cup {Len(queue) + 1}
  BY <1>1
<1>3. Len(queue) + 1 \notin 1..Len(queue)
  BY <1>1
<1>. QED  BY <1>1, <1>2, <1>3 DEF ResponsesIn

\* When a request may be sent, and only one at a time, no other one is under way.
LEMMA NothingWaits ==
  ASSUME OneAtATime, Session!TypeOK, Session!Waiting < MaxPending
  PROVE  toProxy = <<>> /\ ResponsesIn(toLibrary) = {}
<1>1. toProxy \in Seq(Calls) /\ toLibrary \in Seq(Messages)
  BY DEF Session!TypeOK, Calls, Messages
<1>2. DOMAIN toLibrary = 1..Len(toLibrary) /\ Len(toLibrary) \in Nat
  BY <1>1
<1>3. IsFiniteSet(Session!Responses)
  <2>1. IsFiniteSet(1..Len(toLibrary))
    BY <1>2, FS_Interval
  <2>. QED  BY <1>2, <2>1, FS_Subset DEF Session!Responses
<1>4. Len(toProxy) = 0 /\ Cardinality(Session!Responses) = 0
  <2>. DEFINE n == Cardinality(Session!Responses)
  <2>1. n \in Nat
    BY <1>3, FS_CardinalityType
  <2>2. Session!Waiting = Len(toProxy) + n
    BY Zenon DEF Session!Waiting, Session!Cardinality, Cardinality
  <2>. HIDE DEF n
  <2>3. Len(toProxy) = 0 /\ n = 0
    BY <1>1, <2>1, <2>2, SessionAssumption DEF OneAtATime
  <2>. QED  BY <2>3 DEF n
<1>5. Session!Responses = {}
  BY <1>3, <1>4, FS_EmptySet
<1>. QED  BY <1>1, <1>4, <1>5 DEF Session!Responses, ResponsesIn

\* At first nothing has been asked.
LEMMA RepliesInit == Init => RepliesInv
<1>. SUFFICES ASSUME Init PROVE DownIsQuiet /\ OneRequest /\ Session!RepliesMatch
  BY AgreementInit DEF RepliesInv
<1>1. /\ registered = FALSE /\ clients = {} /\ finished = Session!NoReply
      /\ toProxy = <<>> /\ toLibrary = <<>>
  BY DEF Init, Session!Init
<1>2. Len(<<>>) = 0 /\ DOMAIN <<>> = {}
  OBVIOUS
<1>. QED
  BY <1>1, <1>2
  DEF DownIsQuiet, OneRequest, ResponsesIn, Session!RepliesMatch, Session!NoReply,
      Session!Response, Session!NoRequest

\* Every step keeps the matching of requests and responses.
LEMMA RepliesStep ==
  ASSUME IdsApart, OneAtATime
  PROVE  RepliesInv /\ [Session!Next]_sessionVars => RepliesInv'
<1>. DEFINE Kept == (DownIsQuiet /\ OneRequest /\ Session!RepliesMatch)'
<1>. SUFFICES ASSUME RepliesInv, [Session!Next]_sessionVars PROVE Kept
  BY AgreementStep DEF RepliesInv
<1>t. /\ AgreementInv /\ Session!TypeOK /\ ToldApart
      /\ DownIsQuiet /\ OneRequest /\ Session!RepliesMatch
  BY DEF RepliesInv, AgreementInv
<1>q. /\ toProxy \in Seq(Calls) /\ toLibrary \in Seq(Messages)
      /\ DOMAIN m_replies \subseteq {0}
      /\ m_notificationId \in 0..MaxNotificationId
  BY <1>t, SessionAssumption DEF Session!TypeOK, Session!m_commandId, Calls, Messages
<1>1. ASSUME NEW request \in Session!Requests, Session!Call(m_replies, request),
             toProxy = <<>>, ResponsesIn(toLibrary) = {}, m_state' # "disconnected",
             UNCHANGED <<sockets, finished, registered, clients, m_notificationId, toLibrary>>
      PROVE  Kept
  <2>. DEFINE call == [id |-> 0, request |-> request]
  <2>1. /\ DOMAIN m_replies' = {0} /\ m_replies'[0] = request
        /\ toProxy' = Append(toProxy, call)
    BY <1>1, <1>q, Called
  <2>2. Len(toProxy') = 1 /\ Head(toProxy') = call
    <3>1. call \in Calls
      BY Shapes
    <3>. QED  BY <1>1, <1>q, <2>1, <3>1, Grown
  <2>3. Head(toProxy').request = request
    BY <2>2
  <2>. HIDE DEF call
  <2>. QED
    BY <1>1, <1>t, <2>1, <2>2, <2>3
    DEF DownIsQuiet, OneRequest, Pending, ResponsesIn, Session!RepliesMatch
<1>2. ASSUME Session!Connected PROVE Kept
  <2>1. /\ toProxy = <<>> /\ toLibrary = <<>> /\ DOMAIN <<>> = {}
        /\ m_state' # "disconnected" /\ Session!Call(m_replies, Session!Hello)
        /\ UNCHANGED <<sockets, finished, registered, clients, m_notificationId, toLibrary>>
    BY <1>2, <1>t DEF Session!Connected, DownIsQuiet, Session!proxyVars
  <2>2. ResponsesIn(toLibrary) = {}
    BY <2>1 DEF ResponsesIn
  <2>. QED  BY <1>1, <2>1, <2>2, Shapes
<1>3. ASSUME NEW request \in Session!Requests, Session!Asks(request) PROVE Kept
  <2>1. /\ Session!Waiting < MaxPending /\ m_state' # "disconnected"
        /\ Session!Call(m_replies, request)
        /\ UNCHANGED <<sockets, finished, registered, clients, m_notificationId, toLibrary>>
    BY <1>3 DEF Session!Asks, Session!proxyVars
  <2>2. toProxy = <<>> /\ ResponsesIn(toLibrary) = {}
    BY <1>t, <2>1, NothingWaits
  <2>. QED  BY <1>1, <2>1, <2>2
<1>4. ASSUME \E a \in sockets : Session!Asks(Session!DisconnectClient(a)) PROVE Kept
  BY <1>3, <1>4, <1>t, Shapes DEF Session!TypeOK
<1>5. ASSUME Session!ProcessDataPacket PROVE Kept
  <2>. DEFINE message == Head(toLibrary)
  <2>1. /\ toLibrary # <<>> /\ toLibrary' = Tail(toLibrary)
        /\ message \in Messages /\ message = toLibrary[1] /\ 1 \in DOMAIN toLibrary
        /\ UNCHANGED <<registered, clients, m_notificationId>>
    BY <1>5, <1>t, Packet
  <2>2. message.id = 0 <=> message.notification = "none"
    BY <1>t, <2>1 DEF ToldApart, Apart
  <2>3. \A i \in ResponsesIn(toLibrary') :
          /\ i \in Nat /\ i >= 1 /\ i + 1 \in ResponsesIn(toLibrary)
          /\ toLibrary'[i] = toLibrary[i + 1]
    BY <1>q, <2>1, Shortened DEF ResponsesIn
  <2>4. m_state # "disconnected"
    BY <1>t, <2>1 DEF DownIsQuiet
  <2>5. ASSUME message.notification = "none"
        PROVE  /\ toProxy = <<>> /\ ResponsesIn(toLibrary') = {}
               /\ Pending(message.answers)
    <3>1. 1 \in ResponsesIn(toLibrary)
      BY <2>1, <2>5 DEF ResponsesIn
    <3>2. \A i \in ResponsesIn(toLibrary') : FALSE
      BY <1>t, <2>3, <3>1 DEF OneRequest
    <3>. QED  BY <1>t, <2>1, <3>1, <3>2 DEF OneRequest
  <2>6. CASE /\ message.id = 0 /\ 0 \in DOMAIN m_replies
             /\ finished' = [request |-> m_replies[0], message |-> message]
             /\ sockets' = sockets
             /\ \/ /\ m_state' = "register"
                   /\ DOMAIN m_replies' = {0}
                   /\ m_replies'[0] = Session!RegisterServer
                   /\ toProxy' = Append(toProxy, [id |-> 0, request |-> Session!RegisterServer])
                \/ /\ m_state' \in {"running", m_state}
                   /\ DOMAIN m_replies' = {}
                   /\ toProxy' = toProxy
    <3>1. /\ toProxy = <<>> /\ ResponsesIn(toLibrary') = {} /\ Pending(message.answers)
      BY <2>2, <2>5, <2>6
    <3>2. Session!RepliesMatch'
      BY <2>6, <3>1 DEF Pending, Session!RepliesMatch
    <3>3. DownIsQuiet'
      BY <2>4, <2>6 DEF DownIsQuiet
    <3>4. CASE /\ m_replies'[0] = Session!RegisterServer /\ DOMAIN m_replies' = {0}
               /\ toProxy' = Append(toProxy, [id |-> 0, request |-> Session!RegisterServer])
      <4>. DEFINE call == [id |-> 0, request |-> Session!RegisterServer]
      <4>1. call \in Calls /\ call.request = Session!RegisterServer
        BY Shapes
      <4>. HIDE DEF call
      <4>2. toProxy' = Append(toProxy, call)
        BY <3>4 DEF call
      <4>3. Len(toProxy') = 1 /\ Head(toProxy') = call
        BY <1>q, <3>1, <4>1, <4>2, Grown
      <4>4. OneRequest'
        BY <3>1, <3>4, <4>1, <4>3 DEF OneRequest, Pending
      <4>. QED  BY <3>2, <3>3, <4>4
    <3>5. CASE toProxy' = toProxy
      <4>1. toProxy' = <<>> /\ Len(<<>>) = 0
        BY <3>1, <3>5
      <4>2. OneRequest'
        BY <3>1, <4>1 DEF OneRequest
      <4>. QED  BY <3>2, <3>3, <4>2
    <3>. QED  BY <2>6, <3>4, <3>5, Zenon
  <2>7. CASE /\ message.id \notin DOMAIN m_replies
             /\ Session!OnNotification(message)
             /\ UNCHANGED <<m_state, m_replies, finished, toProxy>>
    <3>1. message.notification # "none"
      BY <2>2, <2>5, <2>7 DEF Pending
    <3>2. toProxy # <<>> => ResponsesIn(toLibrary') = {}
      BY <1>t, <2>3 DEF OneRequest
    <3>3. OneRequest'
      BY <1>t, <2>3, <2>7, <3>2 DEF OneRequest, Pending
    <3>. QED
      BY <1>t, <2>4, <2>7, <3>3 DEF DownIsQuiet, Session!RepliesMatch
  <2>. QED  BY <1>5, <1>t, <2>6, <2>7, Packet
<1>6. ASSUME Session!HandleRequest PROVE Kept
  <2>. DEFINE call == Head(toProxy)
              response == Session!Response(0, call.request)
  <2>1. /\ toProxy # <<>> /\ toProxy' = Tail(toProxy)
        /\ UNCHANGED <<m_state, m_replies, sockets, finished>>
    BY <1>6 DEF Session!HandleRequest, Session!libraryVars
  <2>2. call \in Calls /\ call.id = 0 /\ call.request \in Session!Requests
    BY <1>q, <2>1, Shortened, Shapes
  <2>3. toProxy' = <<>>
    BY <1>t, <1>q, <2>1 DEF OneRequest
  <2>4. Pending(call.request) /\ ResponsesIn(toLibrary) = {} /\ m_state # "disconnected"
    BY <1>t, <2>1 DEF OneRequest, DownIsQuiet
  <2>5. response \in Messages /\ response.notification = "none" /\ response.answers = call.request
    BY <2>2, ResponseShape
  <2>. HIDE DEF response
  <2>6. PICK queue \in Seq(Messages) :
          ResponsesIn(queue) = {} /\ toLibrary' = Append(queue, response)
    <3>1. CASE toLibrary' = Session!SendResponse(toLibrary, call)
      BY <1>q, <2>2, <2>4, <3>1 DEF Session!SendResponse, response
    <3>2. CASE /\ call.request.socketAddress \in clients
               /\ toLibrary' = Session!SendResponse(
                    Session!SendNotification(toLibrary, "ClientDisconnected",
                                             call.request.socketAddress), call)
      <4>. DEFINE m == Session!Notification(m_notificationId, "ClientDisconnected",
                                            call.request.socketAddress)
      <4>1. m \in Messages /\ m.notification # "none"
        BY <1>t, <1>q, <3>2, NotificationShape DEF Session!TypeOK, Session!Notifications
      <4>. HIDE DEF m
      <4>2. toLibrary' = Append(Append(toLibrary, m), response)
        BY <2>2, <3>2 DEF Session!SendResponse, Session!SendNotification, m, response
      <4>3. Append(toLibrary, m) \in Seq(Messages) /\ ResponsesIn(Append(toLibrary, m)) = {}
        BY <1>q, <2>4, <4>1, OneSent, Grown
      <4>. QED  BY <4>2, <4>3
    <3>. QED  BY <1>6, <3>1, <3>2 DEF Session!HandleRequest
  <2>7. ResponsesIn(toLibrary') = {Len(queue) + 1} /\ toLibrary'[Len(queue) + 1] = response
    BY <2>5, <2>6, OneSent
  <2>8. OneRequest'
    <3>1. /\ 0 \in DOMAIN m_replies' /\ m_replies'[0] = response.answers
          /\ Len(toProxy') = 0
      BY <2>1, <2>3, <2>4, <2>5 DEF Pending
    <3>. QED  BY <2>3, <2>7, <3>1 DEF OneRequest, Pending
  <2>. QED  BY <1>t, <2>1, <2>4, <2>8 DEF DownIsQuiet, Session!RepliesMatch
<1>7. ASSUME NEW b \in SocketAddresses, NEW name \in Session!Notifications,
             Session!Announce(name, b), m_state # "disconnected"
      PROVE  Kept
  <2>. DEFINE m == Session!Notification(m_notificationId, name, b)
  <2>1. /\ toLibrary' = Append(toLibrary, m)
        /\ UNCHANGED <<m_state, m_replies, sockets, finished, registered, toProxy>>
    BY <1>7 DEF Session!Announce, Session!SendNotification, Session!libraryVars
  <2>2. m \in Messages /\ m.notification # "none"
    BY <1>q, NotificationShape
  <2>. HIDE DEF m
  <2>3. /\ ResponsesIn(toLibrary') = ResponsesIn(toLibrary)
        /\ \A i \in ResponsesIn(toLibrary) : toLibrary'[i] = toLibrary[i]
    BY <1>q, <2>1, <2>2, OneSent
  <2>4. OneRequest'
    BY <1>t, <2>1, <2>3 DEF OneRequest, Pending
  <2>. QED  BY <1>t, <1>7, <2>1, <2>4 DEF DownIsQuiet, Session!RepliesMatch
<1>8. ASSUME NEW b \in SocketAddresses, Session!ClientConnected(b) PROVE Kept
  <2>1. Session!Announce("ClientConnected", b) /\ registered
    BY <1>8 DEF Session!ClientConnected
  <2>. QED  BY <1>7, <1>t, <2>1 DEF Session!Notifications, DownIsQuiet
<1>9. ASSUME NEW b \in SocketAddresses, Session!ClientDisconnected(b) PROVE Kept
  <2>1. Session!Announce("ClientDisconnected", b) /\ clients # {}
    BY <1>9 DEF Session!ClientDisconnected
  <2>. QED  BY <1>7, <1>t, <2>1 DEF Session!Notifications, DownIsQuiet
<1>10. ASSUME Session!ConnectionLost PROVE Kept
  <2>1. /\ registered' = FALSE /\ clients' = {} /\ finished' = Session!NoReply
        /\ toProxy' = <<>> /\ toLibrary' = <<>>
    BY <1>10 DEF Session!ConnectionLost
  <2>2. Len(<<>>) = 0 /\ DOMAIN <<>> = {}
    OBVIOUS
  <2>. QED
    BY <2>1, <2>2
    DEF DownIsQuiet, OneRequest, ResponsesIn, Session!RepliesMatch, Session!NoReply,
        Session!Response, Session!NoRequest
<1>11. ASSUME UNCHANGED sessionVars PROVE Kept
  BY <1>11, <1>t
  DEF sessionVars, DownIsQuiet, OneRequest, ResponsesIn, Pending, Session!RepliesMatch
<1>. QED
  BY <1>2, <1>3, <1>4, <1>5, <1>6, <1>8, <1>9, <1>10, <1>11, Shapes DEF Session!Next

\* JsonRpcClient::processDataPacket: as long as the library has one request under way at a
\* time and no notification has the id of the requests, a reply finishes with the response
\* to its own request.
THEOREM RepliesMatchRequests ==
  ASSUME IdsApart, OneAtATime
  PROVE  Spec => []RepliesMatch
<1>1. RepliesInv /\ [Next]_vars => RepliesInv'
  BY RepliesStep, SessionStep
<1>2. RepliesInv => RepliesMatch
  BY DEF RepliesInv, RepliesMatch
<1>. QED  BY <1>1, <1>2, RepliesInit, PTL DEF Spec
=============================================================================
