---------------------------- MODULE StreamsProofs ----------------------------
(***************************************************************************)
(* The theorems about the streams of bytes: the SLIP codec, how JSON       *)
(* packets are cut out of a stream, the stream to the proxy, the one to    *)
(* the library, and that of the monitor.                                   *)
(*                                                                         *)
(* Data, addresses and streams are of any length.  The loops of the code   *)
(* run over a byte array from left to right.  So a byte, or an item, at    *)
(* the end is one turn of the loop more, and what holds of the loops is an *)
(* induction over sequences that grow at their end.                        *)
(***************************************************************************)
EXTENDS MCStreams, FiniteSetTheorems, SequenceTheorems, WellFoundedInduction, TLAPS

-----------------------------------------------------------------------------
(* Induction over numbers and sequences.  The set with the property stands *)
(* for the predicate of an induction theorem.                              *)

\* Every set of numbers has a least one, as the intervals from 0 are well founded.
LEMMA LeastNatural ==
  ASSUME NEW T \in SUBSET Nat, T # {}
  PROVE  \E m \in T : \A k \in T : m <= k
<1> DEFINE Below(n) == 0..n
           D == {Below(n) : n \in T}
<1>1. D \subseteq FiniteSubsetsOf(Nat)
  <2>1. ASSUME NEW n \in T PROVE Below(n) \in FiniteSubsetsOf(Nat)
    BY FS_Interval, 0 \in Int, n \in Int DEF FiniteSubsetsOf
  <2> QED
    BY <2>1
<1>2. PICK x \in D : \A y \in D : <<y, x>> \notin StrictSubsetOrdering(Nat)
  <2>1. IsWellFoundedOn(StrictSubsetOrdering(Nat), FiniteSubsetsOf(Nat))
    BY FS_StrictSubsetOrderingWellFounded
  <2>2. D # {}
    OBVIOUS
  <2> HIDE DEF D
  <2> QED
    BY <1>1, <2>1, <2>2, WFMin
<1>3. PICK m \in T : x = Below(m)
  OBVIOUS
<1>4. ASSUME NEW k \in T, k < m PROVE FALSE
  <2>1. Below(k) \subseteq Below(m) /\ Below(k) # Below(m)
    <3>1. m \in Below(m) /\ m \notin Below(k)
      BY <1>4
    <3>2. Below(k) \subseteq Below(m)
      BY <1>4
    <3> QED
      BY <3>1, <3>2
  <2>2. <<Below(k), Below(m)>> \in StrictSubsetOrdering(Nat)
    BY <2>1 DEF StrictSubsetOrdering
  <2> QED
    BY <1>2, <1>3, <2>2
<1> QED
  BY <1>4

\* A set that holds 0, and with each number the next, holds them all.
LEMMA Induction ==
  ASSUME NEW T, 0 \in T, \A n \in Nat : n \in T => n + 1 \in T
  PROVE  Nat \subseteq T
<1>1. SUFFICES ASSUME Nat \ T # {} PROVE FALSE
  OBVIOUS
<1>2. PICK m \in Nat \ T : \A k \in Nat \ T : m <= k
  BY <1>1, LeastNatural
<1>3. m - 1 \in Nat /\ m - 1 \in T
  BY <1>2
<1> QED
  BY <1>2, <1>3

\* A set that holds the empty sequence, and with each sequence those with one element
\* more, holds them all.
LEMMA SequenceInduction ==
  ASSUME NEW S, NEW T, <<>> \in T, \A s \in Seq(S), x \in S : s \in T => Append(s, x) \in T
  PROVE  Seq(S) \subseteq T
<1> DEFINE N == {n \in Nat : \A s \in Seq(S) : Len(s) = n => s \in T}
<1>1. 0 \in N
  <2>1. \A s \in Seq(S) : Len(s) = 0 => s = <<>>
    OBVIOUS
  <2> QED
    BY <2>1
<1>2. ASSUME NEW n \in Nat, n \in N PROVE n + 1 \in N
  <2>1. ASSUME NEW s \in Seq(S), Len(s) = n + 1 PROVE s \in T
    <3> DEFINE front == SubSeq(s, 1, n)
    <3>1. \A i \in 1..n : s[i] \in S
      BY <2>1
    <3>2. front \in Seq(S) /\ Len(front) = n /\ \A i \in 1..n : front[i] = s[i]
      <4>1. 1 \in Int /\ n \in Int /\ (1 <= n \/ n = 0)
        OBVIOUS
      <4> QED
        BY <3>1, <4>1, SubSeqProperties
    <3>3. s[n + 1] \in S
      BY <2>1
    <3> HIDE DEF front
    <3>4. s = Append(front, s[n + 1])
      <4>1. Append(front, s[n + 1]) \in Seq(S) /\ Len(Append(front, s[n + 1])) = n + 1
        BY <3>2, <3>3
      <4>2. \A i \in 1..(n + 1) : Append(front, s[n + 1])[i] = s[i]
        BY <3>2, <3>3
      <4> QED
        BY <2>1, <4>1, <4>2, SeqEqual
    <3>5. front \in T
      BY <1>2, <3>2
    <3> QED
      BY <3>2, <3>3, <3>4, <3>5
  <2> QED
    BY <2>1
<1>3. Nat \subseteq N
  <2> HIDE DEF N
  <2> QED
    BY <1>1, <1>2, Induction
<1>4. \A s \in Seq(S) : Len(s) \in Nat /\ Len(s) \in N
  BY <1>3
<1> QED
  BY <1>4

-----------------------------------------------------------------------------
(* Loops, as functions from the number of turns to what they have come to. *)

\* f is what n turns come to, which begin with first and each of which is a function.
Course(S, first, n, turn, f) ==
  f \in [0..n -> S] /\ f[0] = first /\ \A k \in 1..n : f[k] = turn[k][f[k - 1]]

\* A loop of n turns on S has a course.
LEMMA CourseExists ==
  ASSUME NEW S, NEW first \in S, NEW n \in Nat, NEW turn \in [1..n -> [S -> S]]
  PROVE  \E f : Course(S, first, n, turn, f)
<1> USE DEF Course
<1> DEFINE T == {m \in Nat : m <= n => \E f : Course(S, first, m, turn, f)}
<1>1. 0 \in T
  <2> DEFINE f == [k \in 0..0 |-> first]
  <2>1. Course(S, first, 0, turn, f)
    OBVIOUS
  <2> QED
    BY <2>1
<1>2. ASSUME NEW m \in Nat, m \in T PROVE m + 1 \in T
  <2> SUFFICES ASSUME m + 1 <= n PROVE \E g : Course(S, first, m + 1, turn, g)
    OBVIOUS
  <2>1. PICK f : Course(S, first, m, turn, f)
    BY <1>2
  <2> DEFINE g == [k \in 0..(m + 1) |-> IF k = m + 1 THEN turn[m + 1][f[m]] ELSE f[k]]
  <2>2. m + 1 \in 1..n /\ f[m] \in S /\ turn[m + 1] \in [S -> S]
    BY <2>1
  <2>3. turn[m + 1][f[m]] \in S
    BY <2>2
  <2>4. g \in [0..(m + 1) -> S] /\ g[0] = first
    BY <2>1, <2>3
  <2>5. ASSUME NEW k \in 1..(m + 1) PROVE g[k] = turn[k][g[k - 1]]
    <3>1. CASE k = m + 1
      BY <3>1
    <3>2. CASE k \in 1..m
      BY <2>1, <3>2
    <3>3. k = m + 1 \/ k \in 1..m
      OBVIOUS
    <3> HIDE DEF g
    <3> QED
      BY <3>1, <3>2, <3>3
  <2> QED
    BY <2>4, <2>5
<1>3. n \in T
  <2> HIDE DEF T
  <2> QED
    BY <1>1, <1>2, Induction
<1> QED
  BY <1>3

\* Two courses that begin alike and go on alike are the same.
SameTurns(f, g, n) == f[0] = g[0] /\ \A k \in 1..n : f[k - 1] = g[k - 1] => f[k] = g[k]

LEMMA CoursesAgree ==
  ASSUME NEW n \in Nat, NEW f, NEW g, SameTurns(f, g, n)
  PROVE  \A k \in 0..n : f[k] = g[k]
<1> USE DEF SameTurns
<1> DEFINE T == {m \in Nat : m <= n => f[m] = g[m]}
<1>1. 0 \in T
  OBVIOUS
<1>2. ASSUME NEW m \in Nat, m \in T PROVE m + 1 \in T
  <2>1. m + 1 <= n => m + 1 \in 1..n /\ (m + 1) - 1 = m
    OBVIOUS
  <2> QED
    BY <1>2, <2>1
<1>3. Nat \subseteq T
  <2> HIDE DEF T
  <2> QED
    BY <1>1, <1>2, Induction
<1> QED
  BY <1>3

-----------------------------------------------------------------------------
(* FlattenSeq, with which serializeData is written.                        *)

\* f holds what the first sequences come to.
Flattened(seqs, f) ==
  f = [i \in 1..Len(seqs) |-> IF i = 1 THEN seqs[i] ELSE f[i - 1] \o seqs[i]]

LEMMA FlattenedExists ==
  ASSUME NEW S, NEW seqs \in Seq(Seq(S))
  PROVE  /\ \E f : Flattened(seqs, f)
         /\ \A f : Flattened(seqs, f) => \A i \in 1..Len(seqs) : f[i] \in Seq(S)
<1> DEFINE n == Len(seqs)
           turn == [k \in 1..n |-> [s \in Seq(S) |-> s \o seqs[k]]]
<1>1. n \in Nat /\ \A k \in 1..n : seqs[k] \in Seq(S)
  OBVIOUS
<1> HIDE DEF n
<1>2. turn \in [1..n -> [Seq(S) -> Seq(S)]]
  <2>1. \A k \in 1..n, s \in Seq(S) : s \o seqs[k] \in Seq(S)
    BY <1>1, ConcatProperties
  <2> QED
    BY <2>1
<1>3. <<>> \in Seq(S)
  OBVIOUS
<1>4. PICK g \in [0..n -> Seq(S)] : g[0] = <<>> /\ \A k \in 1..n : g[k] = turn[k][g[k - 1]]
  <2> DEFINE R == Seq(S)
  <2>1. <<>> \in R /\ n \in Nat /\ turn \in [1..n -> [R -> R]]
    BY <1>1, <1>2, <1>3
  <2> HIDE DEF turn, R
  <2>2. \E g : Course(R, <<>>, n, turn, g)
    BY ONLY <2>1, CourseExists
  <2> QED
    BY <2>2 DEF R, Course
<1>5. ASSUME NEW k \in 1..n PROVE g[k] = g[k - 1] \o seqs[k]
  <2>1. k - 1 \in 0..n
    BY <1>1
  <2>2. g[k - 1] \in Seq(S)
    BY <2>1
  <2>3. turn[k][g[k - 1]] = g[k - 1] \o seqs[k]
    BY <2>2
  <2> QED
    BY <1>4, <2>3
<1> DEFINE f == [i \in 1..n |-> g[i]]
<1>6. f = [i \in 1..n |-> IF i = 1 THEN seqs[i] ELSE f[i - 1] \o seqs[i]]
  <2>1. ASSUME NEW i \in 1..n PROVE f[i] = IF i = 1 THEN seqs[i] ELSE f[i - 1] \o seqs[i]
    <3>1. CASE i = 1
      <4>1. f[1] = <<>> \o seqs[1] /\ seqs[1] \in Seq(S)
        <5>1. 1 \in 1..n /\ 1 - 1 = 0 /\ f[1] = g[1]
          BY <1>1, <3>1
        <5>2. g[1] = g[1 - 1] \o seqs[1]
          BY <1>5, <5>1
        <5> QED
          BY <1>1, <1>4, <5>1, <5>2
      <4>2. <<>> \o seqs[1] = seqs[1]
        BY <4>1, ConcatEmptySeq
      <4> QED
        BY <3>1, <4>1, <4>2
    <3>2. CASE i # 1
      <4>1. f[i] = g[i] /\ f[i - 1] = g[i - 1]
        BY <1>1, <3>2
      <4> HIDE DEF f
      <4> QED
        BY <1>5, <3>2, <4>1
    <3> QED
      BY <3>1, <3>2
  <2>2. f = [i \in 1..n |-> f[i]]
    OBVIOUS
  <2> HIDE DEF f
  <2> QED
    BY <2>1, <2>2
<1>7. ASSUME NEW h, Flattened(seqs, h) PROVE \A i \in 1..n : h[i] \in Seq(S)
  <2> DEFINE T == {m \in Nat : m \in 1..n => h[m] \in Seq(S)}
  <2>0. \A i \in 1..n : h[i] = IF i = 1 THEN seqs[i] ELSE h[i - 1] \o seqs[i]
    BY <1>7 DEF Flattened, n
  <2>1. 0 \in T
    OBVIOUS
  <2>2. ASSUME NEW m \in Nat, m \in T PROVE m + 1 \in T
    <3>1. CASE m + 1 \in 1..n /\ m = 0
      BY SMTT(60), <1>1, <2>0, <3>1
    <3>2. CASE m + 1 \in 1..n /\ m # 0
      <4>1. m \in 1..n /\ h[m] \in Seq(S) /\ seqs[m + 1] \in Seq(S)
        BY <1>1, <2>2, <3>2
      <4>2. h[m + 1] = h[(m + 1) - 1] \o seqs[m + 1] /\ (m + 1) - 1 = m
        <5>1. m + 1 # 1 /\ (m + 1) - 1 = m
          BY <3>2
        <5> QED
          BY <2>0, <3>2, <5>1
      <4>3. h[m] \o seqs[m + 1] \in Seq(S)
        BY <4>1, ConcatProperties
      <4>4. h[m + 1] \in Seq(S)
        BY <4>2, <4>3
      <4> QED
        BY <4>4
    <3> QED
      BY <3>1, <3>2
  <2>3. Nat \subseteq T
    <3> HIDE DEF T
    <3> QED
      BY <2>1, <2>2, Induction
  <2> QED
    BY <1>1, <2>3
<1> QED
  BY <1>6, <1>7 DEF Flattened, n

\* One sequence more is one concatenation more.
LEMMA FlattenFacts ==
  ASSUME NEW S, NEW seqs \in Seq(Seq(S)), NEW next \in Seq(S)
  PROVE  /\ FlattenSeq(seqs) \in Seq(S)
         /\ FlattenSeq(Append(seqs, next)) = FlattenSeq(seqs) \o next
<1> DEFINE n == Len(seqs)
           more == Append(seqs, next)
<1>1. /\ n \in Nat /\ more \in Seq(Seq(S)) /\ Len(more) = n + 1 /\ more[n + 1] = next
      /\ \A i \in 1..n : more[i] = seqs[i] /\ seqs[i] \in Seq(S)
  OBVIOUS
<1> HIDE DEF more
<1> DEFINE f == CHOOSE f : Flattened(seqs, f)
           g == CHOOSE g : Flattened(more, g)
<1>2. Flattened(seqs, f) /\ \A i \in 1..n : f[i] \in Seq(S)
  BY FlattenedExists
<1>3. Flattened(more, g) /\ \A i \in 1..(n + 1) : g[i] \in Seq(S)
  BY <1>1, FlattenedExists
<1>4. FlattenSeq(seqs) = IF n = 0 THEN seqs ELSE f[n]
  BY DEF FlattenSeq, Flattened
<1>5. FlattenSeq(more) = g[n + 1]
  BY <1>1 DEF FlattenSeq, Flattened
<1> HIDE DEF f, g
<1>6. \A i \in 1..n : f[i] = IF i = 1 THEN seqs[i] ELSE f[i - 1] \o seqs[i]
  BY <1>2 DEF Flattened
<1>7. \A i \in 1..(n + 1) : g[i] = IF i = 1 THEN more[i] ELSE g[i - 1] \o more[i]
  BY <1>1, <1>3 DEF Flattened
<1>8. CASE n = 0
  <2>1. seqs = <<>> /\ FlattenSeq(seqs) = <<>>
    BY <1>4, <1>8
  <2>2. FlattenSeq(more) = next
    BY <1>1, <1>5, <1>7, <1>8
  <2>3. <<>> \o next = next /\ <<>> \in Seq(S)
    BY ConcatEmptySeq
  <2> QED
    BY <2>1, <2>2, <2>3 DEF more
<1>9. CASE n # 0
  <2>1. f[n] = g[n]
    <3> DEFINE a == [k \in 0..(n - 1) |-> f[k + 1]]
               b == [k \in 0..(n - 1) |-> g[k + 1]]
    <3>1. a[0] = b[0] /\ n - 1 \in Nat
      BY <1>1, <1>6, <1>7, <1>9
    <3>2. ASSUME NEW k \in 1..(n - 1), a[k - 1] = b[k - 1] PROVE a[k] = b[k]
      <4>1. f[k] = g[k] /\ k + 1 \in 1..n /\ k + 1 # 1
        <5>1. k - 1 \in 0..(n - 1) /\ (k - 1) + 1 = k
          BY <1>1
        <5>2. a[k - 1] = f[k] /\ b[k - 1] = g[k]
          BY <5>1
        <5> QED
          BY <1>1, <3>2, <5>2
      <4>2. /\ f[k + 1] = f[(k + 1) - 1] \o seqs[k + 1]
            /\ g[k + 1] = g[(k + 1) - 1] \o more[k + 1]
            /\ (k + 1) - 1 = k /\ more[k + 1] = seqs[k + 1]
        <5>1. k + 1 \in 1..(n + 1) /\ (k + 1) - 1 = k
          BY <1>1
        <5> QED
          BY <1>1, <1>6, <1>7, <4>1, <5>1
      <4>3. a[k] = f[k + 1] /\ b[k] = g[k + 1]
        BY SMTT(60), <1>1
      <4> HIDE DEF a, b
      <4> QED
        BY <4>1, <4>2, <4>3
    <3>3. a[n - 1] = f[n] /\ b[n - 1] = g[n] /\ n - 1 \in 0..(n - 1)
      BY <1>1, <1>9
    <3> HIDE DEF a, b
    <3>4. SameTurns(a, b, n - 1) /\ n - 1 \in Nat
      BY <3>1, <3>2 DEF SameTurns
    <3>5. \A k \in 0..(n - 1) : a[k] = b[k]
      BY ONLY <3>4, CoursesAgree, Zenon
    <3> QED
      BY <3>3, <3>5
  <2>2. FlattenSeq(more) = g[n] \o next
    <3>1. (n + 1) - 1 = n /\ n + 1 # 1 /\ n + 1 \in 1..(n + 1)
      BY <1>1, <1>9
    <3>2. g[n + 1] = g[(n + 1) - 1] \o more[n + 1]
      BY <1>7, <3>1
    <3> QED
      BY <1>1, <1>5, <3>1, <3>2
  <2>3. FlattenSeq(seqs) = f[n] /\ f[n] \in Seq(S)
    BY <1>1, <1>2, <1>4, <1>9
  <2> QED
    BY <2>1, <2>2, <2>3 DEF more
<1> QED
  BY <1>8, <1>9

-----------------------------------------------------------------------------
(* The two functions of the codec, byte by byte.                           *)

Byte == 0..255

\* Protocol bytes and what they become are different bytes, in pairs.
LEMMA TransposedFacts ==
  /\ DOMAIN Transposed = {ProtocolByteEnd, ProtocolByteEsc}
  /\ Transposed[ProtocolByteEnd] = ProtocolByteTransposedEnd
  /\ Transposed[ProtocolByteEsc] = ProtocolByteTransposedEsc
BY DEF Transposed, ProtocolByteEnd, ProtocolByteEsc, ProtocolByteTransposedEnd,
       ProtocolByteTransposedEsc

LEMMA ProtocolBytes ==
  /\ ProtocolByteEnd \in Byte /\ ProtocolByteEsc \in Byte /\ ProtocolByteEsc # ProtocolByteEnd
  /\ ProtocolByteEnd \in DOMAIN Transposed /\ ProtocolByteEsc \in DOMAIN Transposed
BY TransposedFacts DEF Byte, ProtocolByteEnd, ProtocolByteEsc

\* serializeData before it adds the end byte.
Body(data) == FlattenSeq([i \in DOMAIN data |-> WriteByte(data[i])])

LEMMA WriteByteFacts ==
  ASSUME NEW byte \in Byte
  PROVE  /\ byte \in DOMAIN Transposed =>
              WriteByte(byte) = <<ProtocolByteEsc, Transposed[byte]>> /\ Transposed[byte] \in Byte
         /\ byte \notin DOMAIN Transposed => WriteByte(byte) = <<byte>>
         /\ WriteByte(byte) \in Seq(Byte)
         /\ \A i \in DOMAIN WriteByte(byte) : WriteByte(byte)[i] # ProtocolByteEnd
<1>1. CASE byte \in DOMAIN Transposed
  <2>1. Transposed[byte] \in Byte /\ Transposed[byte] # ProtocolByteEnd
    BY <1>1, TransposedFacts
       DEF Byte, ProtocolByteEnd, ProtocolByteTransposedEnd, ProtocolByteTransposedEsc
  <2>2. ProtocolByteEsc \in Byte /\ ProtocolByteEsc # ProtocolByteEnd
    BY DEF Byte, ProtocolByteEsc, ProtocolByteEnd
  <2>3. WriteByte(byte) = <<ProtocolByteEsc, Transposed[byte]>>
    BY <1>1 DEF WriteByte
  <2> QED
    BY <1>1, <2>1, <2>2, <2>3
<1>2. CASE byte \notin DOMAIN Transposed
  <2>1. WriteByte(byte) = <<byte>> /\ byte # ProtocolByteEnd
    BY <1>2, TransposedFacts DEF WriteByte
  <2> QED
    BY <1>2, <2>1
<1> QED
  BY <1>1, <1>2

LEMMA BodyFacts ==
  /\ Body(<<>>) = <<>>
  /\ \A data \in Seq(Byte) : Body(data) \in Seq(Byte)
  /\ \A data \in Seq(Byte), byte \in Byte :
       Body(Append(data, byte)) = Body(data) \o WriteByte(byte)
<1> DEFINE Codes(data) == [i \in DOMAIN data |-> WriteByte(data[i])]
<1>1. Body(<<>>) = <<>>
  <2>1. Codes(<<>>) = <<>>
    OBVIOUS
  <2> QED
    BY <2>1 DEF Body, FlattenSeq
<1>2. ASSUME NEW data \in Seq(Byte)
      PROVE  Codes(data) \in Seq(Seq(Byte)) /\ Len(Codes(data)) = Len(data)
  <2>1. \A i \in 1..Len(data) : data[i] \in Byte /\ WriteByte(data[i]) \in Seq(Byte)
    BY WriteByteFacts
  <2>2. Codes(data) \in [1..Len(data) -> Seq(Byte)]
    BY <2>1
  <2> HIDE DEF Codes
  <2> QED
    BY <2>2
<1>3. ASSUME NEW data \in Seq(Byte), NEW byte \in Byte
      PROVE  Codes(Append(data, byte)) = Append(Codes(data), WriteByte(byte))
  <2>1. /\ Append(data, byte) \in Seq(Byte) /\ Len(Append(data, byte)) = Len(data) + 1
        /\ \A i \in 1..Len(data) : Append(data, byte)[i] = data[i]
        /\ Append(data, byte)[Len(data) + 1] = byte
    OBVIOUS
  <2> DEFINE more == Append(data, byte)
  <2>2. /\ \A i \in 1..Len(data) : Codes(more)[i] = WriteByte(data[i])
        /\ Codes(more)[Len(data) + 1] = WriteByte(byte)
        /\ \A i \in 1..Len(data) : Codes(data)[i] = WriteByte(data[i])
    BY <2>1
  <2>3. /\ Codes(more) \in Seq(Seq(Byte)) /\ Len(Codes(more)) = Len(data) + 1
        /\ Codes(data) \in Seq(Seq(Byte)) /\ Len(Codes(data)) = Len(data)
    BY <1>2, <2>1
  <2>4. WriteByte(byte) \in Seq(Byte)
    BY WriteByteFacts
  <2> HIDE DEF Codes, more
  <2>5. /\ Append(Codes(data), WriteByte(byte)) \in Seq(Seq(Byte))
        /\ Len(Append(Codes(data), WriteByte(byte))) = Len(data) + 1
        /\ \A i \in 1..(Len(data) + 1) : Append(Codes(data), WriteByte(byte))[i] = Codes(more)[i]
    BY <2>2, <2>3, <2>4
  <2> QED
    BY <2>3, <2>5, SeqEqual DEF more
<1> HIDE DEF Codes
<1>4. ASSUME NEW data \in Seq(Byte), NEW byte \in Byte
      PROVE  /\ FlattenSeq(Codes(data)) \in Seq(Byte)
             /\ FlattenSeq(Codes(Append(data, byte))) = FlattenSeq(Codes(data)) \o WriteByte(byte)
  <2>1. Codes(data) \in Seq(Seq(Byte)) /\ WriteByte(byte) \in Seq(Byte)
    BY <1>2, WriteByteFacts
  <2> QED
    BY <1>3, <2>1, FlattenFacts
<1>5. \A data \in Seq(Byte) : FlattenSeq(Codes(data)) \in Seq(Byte)
  <2>1. 0 \in Byte
    BY DEF Byte
  <2> QED
    BY <1>4, <2>1
<1> QED
  BY <1>1, <1>4, <1>5 DEF Body, Codes

\* The loop of deserializeData.
Start == [data |-> <<>>, at |-> "plain"]

Reads(data, read) ==
  read = [n \in 0..Len(data) |-> IF n = 0 THEN Start ELSE ReadByte(read[n - 1], data[n])]

Read(data) == (CHOOSE read : Reads(data, read))[Len(data)]

Readings == [data : Seq(Byte), at : {"plain", "escaped", "ended", "inconsistent"}]

\* The byte that is restored from its transposed one.
LEMMA OriginalFacts ==
  ASSUME NEW byte
  PROVE  LET original == {b \in DOMAIN Transposed : Transposed[b] = byte} IN
         /\ \A b \in original : b \in Byte /\ SetToSeq(original) = <<b>>
         /\ SetToSeq(original) \in Seq(Byte) \/ original = {}
<1> DEFINE original == {b \in DOMAIN Transposed : Transposed[b] = byte}
<1>1. ASSUME NEW b \in original PROVE b \in Byte /\ original = {b}
  BY TransposedFacts DEF Byte, ProtocolByteEnd, ProtocolByteEsc, ProtocolByteTransposedEnd,
     ProtocolByteTransposedEsc
<1> HIDE DEF original
<1>2. ASSUME NEW b PROVE SetToSeq({b}) = <<b>>
  <2>1. Cardinality({b}) = 1
    BY FS_Singleton
  <2>2. SetToSeq({b}) = CHOOSE f \in [1..1 -> {b}] : IsInjective(f)
    BY <2>1 DEF SetToSeq
  <2>3. <<b>> \in [1..1 -> {b}] /\ \A f \in [1..1 -> {b}] : f = <<b>>
    <3>1. ASSUME NEW f \in [1..1 -> {b}] PROVE f = <<b>>
      <4>1. f \in Seq({b}) /\ Len(f) = 1 /\ f[1] = b
        <5>1. f \in Seq({b}) /\ Len(f) = 1
          <6>1. f \in Seq({b}) /\ DOMAIN f = 1..1
            BY SeqDef, 1 \in Nat
          <6> QED
            BY <6>1
        <5>2. f[1] = b
          OBVIOUS
        <5> QED
          BY <5>1, <5>2
      <4> QED
        BY <4>1
    <3> QED
      BY <3>1
  <2>4. IsInjective(<<b>>)
    BY DEF IsInjective
  <2> QED
    BY <2>2, <2>3, <2>4
<1>3. ASSUME NEW b \in original PROVE b \in Byte /\ SetToSeq(original) = <<b>>
  BY <1>1, <1>2
<1>4. SetToSeq(original) \in Seq(Byte) \/ original = {}
  <2>1. SUFFICES ASSUME NEW b \in original PROVE SetToSeq(original) \in Seq(Byte)
    OBVIOUS
  <2>2. b \in Byte /\ SetToSeq(original) = <<b>>
    BY <1>3
  <2> QED
    BY <2>2
<1> QED
  BY <1>3, <1>4 DEF original

LEMMA ReadByteFacts ==
  ASSUME NEW r \in Readings, NEW byte \in Byte
  PROVE  ReadByte(r, byte) \in Readings
<1> DEFINE original == {b \in DOMAIN Transposed : Transposed[b] = byte}
<1>1. CASE r.at = "escaped" /\ original # {}
  <2>1. PICK b \in original : b \in Byte /\ SetToSeq(original) = <<b>>
    BY <1>1, OriginalFacts
  <2>2. ReadByte(r, byte) = [data |-> r.data \o <<b>>, at |-> "plain"]
    BY <1>1, <2>1 DEF ReadByte
  <2> QED
    BY <2>1, <2>2 DEF Readings
<1>2. CASE ~(r.at = "escaped" /\ original # {})
  BY <1>2 DEF ReadByte, Readings
<1> QED
  BY <1>1, <1>2

\* One byte more is one turn of the loop more.
LEMMA ReadFacts ==
  /\ \A data : DeserializeData(data) = Read(data).data
  /\ Read(<<>>) = Start
  /\ \A data \in Seq(Byte) : Read(data) \in Readings
  /\ \A data \in Seq(Byte), byte \in Byte :
       Read(Append(data, byte)) = ReadByte(Read(data), byte)
<1>1. \A data : DeserializeData(data) = Read(data).data
  BY DEF DeserializeData, Read, Reads, Start
<1>2. ASSUME NEW data \in Seq(Byte) PROVE \E read : Reads(data, read)
  <2> DEFINE n == Len(data)
             turn == [k \in 1..n |-> [r \in Readings |-> ReadByte(r, data[k])]]
  <2>1. n \in Nat /\ \A k \in 1..n : data[k] \in Byte
    OBVIOUS
  <2> HIDE DEF n
  <2>2. turn \in [1..n -> [Readings -> Readings]]
    BY <2>1, ReadByteFacts
  <2>3. Start \in Readings
    BY DEF Start, Readings
  <2>4. PICK g : Course(Readings, Start, n, turn, g)
    <3> HIDE DEF turn
    <3> QED
      BY <2>1, <2>2, <2>3, CourseExists
  <2>5. ASSUME NEW k \in 0..n
        PROVE  g[k] = IF k = 0 THEN Start ELSE ReadByte(g[k - 1], data[k])
    <3>1. CASE k = 0
      BY <2>4, <3>1 DEF Course
    <3>2. CASE k # 0
      <4>1. k \in 1..n /\ k - 1 \in 0..n
        BY <2>1, <3>2
      <4>2. g[k - 1] \in Readings /\ g[k] = turn[k][g[k - 1]]
        <5> HIDE DEF turn
        <5> QED
          BY <2>4, <4>1 DEF Course
      <4>3. turn[k][g[k - 1]] = ReadByte(g[k - 1], data[k])
        BY <4>1, <4>2
      <4> QED
        BY <3>2, <4>2, <4>3
    <3> QED
      BY <3>1, <3>2
  <2>6. g = [k \in 0..n |-> g[k]]
    BY <2>4 DEF Course
  <2> QED
    BY <2>5, <2>6 DEF Reads, n
<1>3. ASSUME NEW data \in Seq(Byte), NEW read, Reads(data, read)
      PROVE  \A k \in 0..Len(data) : read[k] \in Readings
  <2>1. /\ Len(data) \in Nat /\ \A k \in 1..Len(data) : data[k] \in Byte
        /\ \A k \in 0..Len(data) : read[k] = IF k = 0 THEN Start ELSE ReadByte(read[k - 1], data[k])
    BY <1>3 DEF Reads
  <2> DEFINE T == {m \in Nat : m \in 0..Len(data) => read[m] \in Readings}
  <2>2. 0 \in T
    <3>1. read[0] = Start
      BY <2>1
    <3>2. Start \in Readings
      BY DEF Start, Readings
    <3> QED
      BY <3>1, <3>2
  <2>3. ASSUME NEW m \in Nat, m \in T PROVE m + 1 \in T
    <3> SUFFICES ASSUME m + 1 \in 0..Len(data) PROVE read[m + 1] \in Readings
      OBVIOUS
    <3>1. m \in 0..Len(data) /\ m + 1 \in 1..Len(data) /\ (m + 1) - 1 = m /\ m + 1 # 0
      BY <2>1
    <3>2. read[m + 1] = ReadByte(read[(m + 1) - 1], data[m + 1])
      BY <2>1, <3>1
    <3> QED
      BY <2>1, <2>3, <3>1, <3>2, ReadByteFacts
  <2>4. Nat \subseteq T
    <3> HIDE DEF T
    <3> QED
      BY <2>2, <2>3, Induction
  <2> QED
    BY <2>1, <2>4
<1>4. ASSUME NEW data \in Seq(Byte) PROVE Reads(data, CHOOSE read : Reads(data, read))
  BY <1>2
<1>5. ASSUME NEW data \in Seq(Byte) PROVE Read(data) \in Readings
  BY <1>3, <1>4 DEF Read
<1>6. Read(<<>>) = Start
  <2>1. <<>> \in Seq(Byte) /\ Len(<<>>) = 0
    OBVIOUS
  <2>2. PICK read : Reads(<<>>, read) /\ Read(<<>>) = read[0]
    BY <1>4, <2>1 DEF Read
  <2> QED
    BY <2>1, <2>2 DEF Reads
<1>7. ASSUME NEW data \in Seq(Byte), NEW byte \in Byte
      PROVE  Read(Append(data, byte)) = ReadByte(Read(data), byte)
  <2> DEFINE n == Len(data)
             more == Append(data, byte)
  <2>1. /\ n \in Nat /\ more \in Seq(Byte) /\ Len(more) = n + 1
        /\ more[n + 1] = byte /\ \A k \in 1..n : more[k] = data[k]
    OBVIOUS
  <2>2. PICK f : Reads(data, f) /\ Read(data) = f[n]
    BY <1>4 DEF Read
  <2> HIDE DEF more
  <2>3. PICK g : Reads(more, g) /\ Read(more) = g[n + 1]
    BY <1>4, <2>1 DEF Read
  <2>4. \A k \in 0..n : f[k] = IF k = 0 THEN Start ELSE ReadByte(f[k - 1], data[k])
    BY <2>2 DEF Reads
  <2>5. \A k \in 0..(n + 1) : g[k] = IF k = 0 THEN Start ELSE ReadByte(g[k - 1], more[k])
    BY <2>1, <2>3 DEF Reads
  <2>6. f[0] = g[0]
    BY <2>1, <2>4, <2>5
  <2>7. ASSUME NEW k \in 1..n, f[k - 1] = g[k - 1] PROVE f[k] = g[k]
    <3>1. k \in 0..n /\ k \in 0..(n + 1) /\ k # 0
      BY <2>1
    <3> QED
      BY <2>1, <2>4, <2>5, <2>7, <3>1
  <2>8. f[n] = g[n]
    <3>1. n \in Nat /\ n \in 0..n
      BY <2>1
    <3> HIDE DEF n
    <3>2. SameTurns(f, g, n)
      BY <2>6, <2>7 DEF SameTurns
    <3>3. \A k \in 0..n : f[k] = g[k]
      BY ONLY <3>1, <3>2, CoursesAgree, Zenon
    <3> QED
      BY <3>1, <3>3
  <2>9. g[n + 1] = ReadByte(g[(n + 1) - 1], more[n + 1]) /\ (n + 1) - 1 = n
    <3>1. n + 1 \in 0..(n + 1) /\ n + 1 # 0 /\ (n + 1) - 1 = n
      BY <2>1
    <3> QED
      BY <2>5, <3>1
  <2> QED
    BY <2>1, <2>2, <2>3, <2>8, <2>9 DEF more
<1> QED
  BY <1>1, <1>5, <1>6, <1>7

\* What the code of a byte is read as.
LEMMA CodeIsRead ==
  ASSUME NEW code \in Seq(Byte), NEW data \in Seq(Byte), NEW byte \in Byte,
         Read(code) = [data |-> data, at |-> "plain"]
  PROVE  Read(code \o WriteByte(byte)) = [data |-> Append(data, byte), at |-> "plain"]
<1>1. CASE byte \in DOMAIN Transposed
  <2> DEFINE transposed == Transposed[byte]
             escaped == Append(code, ProtocolByteEsc)
  <2>1. transposed \in Byte /\ WriteByte(byte) = <<ProtocolByteEsc, transposed>>
    BY <1>1, WriteByteFacts
  <2>2. ProtocolByteEsc \in Byte /\ escaped \in Seq(Byte)
    BY DEF Byte, ProtocolByteEsc
  <2>3. code \o WriteByte(byte) = Append(escaped, transposed)
    BY <2>1, <2>2
  <2>4. Read(escaped) = [data |-> data, at |-> "escaped"]
    <3>1. Read(escaped) = ReadByte([data |-> data, at |-> "plain"], ProtocolByteEsc)
      BY <2>2, ReadFacts
    <3>2. ReadByte([data |-> data, at |-> "plain"], ProtocolByteEsc)
            = [data |-> data, at |-> "escaped"]
      BY ProtocolBytes DEF ReadByte
    <3> QED
      BY <3>1, <3>2
  <2> HIDE DEF escaped
  <2>5. Read(code \o WriteByte(byte)) = ReadByte([data |-> data, at |-> "escaped"], transposed)
    BY <2>1, <2>2, <2>3, <2>4, ReadFacts
  <2> DEFINE original == {b \in DOMAIN Transposed : Transposed[b] = transposed}
  <2>6. byte \in original
    BY <1>1
  <2>7. SetToSeq(original) = <<byte>>
    BY <2>6, OriginalFacts
  <2>8. ReadByte([data |-> data, at |-> "escaped"], transposed)
          = [data |-> data \o SetToSeq(original), at |-> "plain"]
    BY <2>6 DEF ReadByte
  <2>9. data \o <<byte>> = Append(data, byte)
    OBVIOUS
  <2> QED
    BY <2>5, <2>7, <2>8, <2>9
<1>2. CASE byte \notin DOMAIN Transposed
  <2>1. code \o WriteByte(byte) = Append(code, byte)
    <3>1. WriteByte(byte) = <<byte>>
      BY <1>2, WriteByteFacts
    <3>2. code \o <<byte>> = Append(code, byte)
      OBVIOUS
    <3> QED
      BY <3>1, <3>2
  <2>2. byte # ProtocolByteEsc /\ byte # ProtocolByteEnd
    BY <1>2, TransposedFacts
  <2>3. Read(Append(code, byte)) = ReadByte([data |-> data, at |-> "plain"], byte)
    BY ReadFacts
  <2>4. ReadByte([data |-> data, at |-> "plain"], byte) = [data |-> Append(data, byte), at |-> "plain"]
    BY <1>2, <2>2 DEF ReadByte
  <2> QED
    BY <2>1, <2>3, <2>4
<1> QED
  BY <1>1, <1>2

LEMMA BodyIsRead ==
  ASSUME NEW data \in Seq(Byte)
  PROVE  Read(Body(data)) = [data |-> data, at |-> "plain"]
<1> DEFINE T == {d \in Seq(Byte) : Read(Body(d)) = [data |-> d, at |-> "plain"]}
<1>1. <<>> \in T
  BY BodyFacts, ReadFacts DEF Start
<1>2. ASSUME NEW d \in Seq(Byte), NEW byte \in Byte, d \in T PROVE Append(d, byte) \in T
  <2>1. Append(d, byte) \in Seq(Byte) /\ Body(d) \in Seq(Byte)
    BY BodyFacts
  <2>2. Read(Body(d) \o WriteByte(byte)) = [data |-> Append(d, byte), at |-> "plain"]
    BY <1>2, <2>1, CodeIsRead
  <2> QED
    BY <2>1, <2>2, BodyFacts
<1>3. Seq(Byte) \subseteq T
  <2> HIDE DEF T
  <2> QED
    BY <1>1, <1>2, SequenceInduction
<1> QED
  BY <1>3

\* serializeData adds the end byte, and no other byte of the code is one.
LEMMA EndIsLast ==
  ASSUME NEW data \in Seq(Byte)
  PROVE  /\ SerializeData(data) = Append(Body(data), ProtocolByteEnd)
         /\ \A i \in DOMAIN Body(data) : Body(data)[i] # ProtocolByteEnd
<1> DEFINE T == {d \in Seq(Byte) : \A i \in DOMAIN Body(d) : Body(d)[i] # ProtocolByteEnd}
<1>1. <<>> \in T
  BY BodyFacts
<1>2. ASSUME NEW d \in Seq(Byte), NEW byte \in Byte, d \in T PROVE Append(d, byte) \in T
  <2>1. /\ Body(d) \in Seq(Byte) /\ WriteByte(byte) \in Seq(Byte)
        /\ \A i \in DOMAIN WriteByte(byte) : WriteByte(byte)[i] # ProtocolByteEnd
        /\ Body(Append(d, byte)) = Body(d) \o WriteByte(byte)
    BY BodyFacts, WriteByteFacts
  <2>2. \A i \in DOMAIN (Body(d) \o WriteByte(byte)) :
          (Body(d) \o WriteByte(byte))[i] # ProtocolByteEnd
    BY <1>2, <2>1, ConcatProperties
  <2>3. Append(d, byte) \in Seq(Byte)
    OBVIOUS
  <2> QED
    BY <2>1, <2>2, <2>3
<1>3. Seq(Byte) \subseteq T
  <2> HIDE DEF T
  <2> QED
    BY <1>1, <1>2, SequenceInduction
<1>4. SerializeData(data) = Body(data) \o <<ProtocolByteEnd>>
  BY DEF SerializeData, Body
<1>5. Body(data) \o <<ProtocolByteEnd>> = Append(Body(data), ProtocolByteEnd)
  <2>1. Body(data) \in Seq(Byte) /\ ProtocolByteEnd \in Byte
    BY BodyFacts, ProtocolBytes
  <2> QED
    BY <2>1
<1> QED
  BY <1>3, <1>4, <1>5

-----------------------------------------------------------------------------
(* The other way round.                                                    *)

\* What was read of data without end bytes.
ReadOf(data, r) ==
  /\ r.at \in {"plain", "escaped", "inconsistent"}
  /\ r.at = "plain" => data = Body(r.data)
  /\ r.at = "escaped" => data = Append(Body(r.data), ProtocolByteEsc)
  /\ r.at = "inconsistent" => r.data = <<>>

LEMMA ReadByteOf ==
  ASSUME NEW data \in Seq(Byte), NEW r \in Readings, ReadOf(data, r),
         NEW byte \in Byte, byte # ProtocolByteEnd
  PROVE  ReadOf(Append(data, byte), ReadByte(r, byte))
<1> DEFINE original == {b \in DOMAIN Transposed : Transposed[b] = byte}
<1>1. CASE r.at = "escaped" /\ original # {}
  <2>1. PICK b \in original : b \in Byte /\ SetToSeq(original) = <<b>>
    BY <1>1, OriginalFacts
  <2>2. b \in DOMAIN Transposed /\ Transposed[b] = byte
    OBVIOUS
  <2>3. ReadByte(r, byte) = [data |-> r.data \o <<b>>, at |-> "plain"]
    BY <1>1, <2>1 DEF ReadByte
  <2>4. r.data \in Seq(Byte) /\ r.data \o <<b>> = Append(r.data, b)
    <3>1. r.data \in Seq(Byte)
      BY DEF Readings
    <3> QED
      BY <2>1, <3>1
  <2>5. Body(Append(r.data, b)) = Body(r.data) \o <<ProtocolByteEsc, byte>>
    BY <2>1, <2>2, <2>4, BodyFacts, WriteByteFacts
  <2>6. Append(data, byte) = Append(Append(Body(r.data), ProtocolByteEsc), byte)
    BY <1>1 DEF ReadOf
  <2>7. Append(Append(Body(r.data), ProtocolByteEsc), byte)
          = Body(r.data) \o <<ProtocolByteEsc, byte>>
    <3>1. Body(r.data) \in Seq(Byte) /\ ProtocolByteEsc \in Byte
      BY <2>4, BodyFacts, ProtocolBytes
    <3> QED
      BY <3>1
  <2>8. ReadByte(r, byte) = [data |-> Append(r.data, b), at |-> "plain"]
    BY <2>3, <2>4
  <2>9. Append(data, byte) = Body(Append(r.data, b))
    BY <2>5, <2>6, <2>7
  <2> QED
    BY <2>8, <2>9 DEF ReadOf
<1>2. CASE r.at = "escaped" /\ original = {}
  <2>1. ReadByte(r, byte) = [data |-> <<>>, at |-> "inconsistent"]
    BY <1>2 DEF ReadByte
  <2> QED
    BY <2>1 DEF ReadOf
<1>3. CASE r.at = "plain" /\ byte = ProtocolByteEsc
  <2>1. ReadByte(r, byte) = [r EXCEPT !.at = "escaped"]
    BY <1>3, ProtocolBytes DEF ReadByte
  <2>2. ReadByte(r, byte).at = "escaped" /\ ReadByte(r, byte).data = r.data
    BY <2>1 DEF Readings
  <2> QED
    BY <1>3, <2>2 DEF ReadOf
<1>4. CASE r.at = "plain" /\ byte # ProtocolByteEsc
  <2>1. byte \notin DOMAIN Transposed
    BY <1>4, TransposedFacts
  <2>2. ReadByte(r, byte) = [data |-> Append(r.data, byte), at |-> "plain"]
    BY <1>4, <2>1 DEF ReadByte
  <2>3. r.data \in Seq(Byte) /\ Body(r.data) \in Seq(Byte)
    BY BodyFacts DEF Readings
  <2>4. Body(Append(r.data, byte)) = Body(r.data) \o <<byte>>
    BY <2>1, <2>3, BodyFacts, WriteByteFacts
  <2>5. Body(r.data) \o <<byte>> = Append(Body(r.data), byte)
    BY <2>3
  <2> QED
    BY <1>4, <2>2, <2>4, <2>5 DEF ReadOf
<1>5. CASE r.at = "inconsistent"
  <2>1. ReadByte(r, byte) = r
    BY <1>5 DEF ReadByte
  <2> QED
    BY <1>5, <2>1 DEF ReadOf
<1> QED
  BY <1>1, <1>2, <1>3, <1>4, <1>5 DEF ReadOf

LEMMA ReadIsOf ==
  ASSUME NEW data \in Seq(Byte), ProtocolByteEnd \notin Range(data)
  PROVE  ReadOf(data, Read(data))
<1> DEFINE T == {d \in Seq(Byte) : ProtocolByteEnd \notin Range(d) => ReadOf(d, Read(d))}
<1>1. <<>> \in T
  BY BodyFacts, ReadFacts DEF Start, ReadOf
<1>2. ASSUME NEW d \in Seq(Byte), NEW byte \in Byte, d \in T PROVE Append(d, byte) \in T
  <2> SUFFICES ASSUME ProtocolByteEnd \notin Range(Append(d, byte))
               PROVE  ReadOf(Append(d, byte), Read(Append(d, byte)))
    OBVIOUS
  <2>1. ProtocolByteEnd \notin Range(d) /\ byte # ProtocolByteEnd
    <3>1. /\ Len(d) \in Nat /\ DOMAIN d = 1..Len(d) /\ DOMAIN Append(d, byte) = 1..(Len(d) + 1)
          /\ \A i \in 1..Len(d) : Append(d, byte)[i] = d[i]
          /\ Append(d, byte)[Len(d) + 1] = byte
      OBVIOUS
    <3> QED
      BY <3>1 DEF Range
  <2>2. ReadOf(d, Read(d)) /\ Read(d) \in Readings
    BY <1>2, <2>1, ReadFacts
  <2>3. Read(Append(d, byte)) = ReadByte(Read(d), byte)
    BY ReadFacts
  <2> QED
    BY <2>1, <2>2, <2>3, ReadByteOf
<1>3. Seq(Byte) \subseteq T
  <2> HIDE DEF T
  <2> QED
    BY <1>1, <1>2, SequenceInduction
<1> QED
  BY <1>3

-----------------------------------------------------------------------------
(* The theorems.                                                           *)

\* deserializeData undoes serializeData, whatever the bytes, with the end byte and without
\* it, as the receivers cut it off.
THEOREM DecodesWhatWasEncoded ==
  ASSUME NEW data \in Seq(Byte)
  PROVE  /\ DeserializeData(SerializeData(data)) = data
         /\ DeserializeData(Front(SerializeData(data))) = data
<1>1. /\ SerializeData(data) = Append(Body(data), ProtocolByteEnd)
      /\ Body(data) \in Seq(Byte) /\ ProtocolByteEnd \in Byte
  BY EndIsLast, BodyFacts, ProtocolBytes
<1>2. Read(Body(data)) = [data |-> data, at |-> "plain"]
  BY BodyIsRead
<1>3. Read(SerializeData(data)) = ReadByte([data |-> data, at |-> "plain"], ProtocolByteEnd)
  BY <1>1, <1>2, ReadFacts
<1>4. ReadByte([data |-> data, at |-> "plain"], ProtocolByteEnd)
        = [data |-> data, at |-> "ended"]
  BY ProtocolBytes DEF ReadByte
<1>5. Front(SerializeData(data)) = Body(data)
  <2>1. /\ Len(SerializeData(data)) = Len(Body(data)) + 1
        /\ \A i \in 1..Len(Body(data)) : SerializeData(data)[i] = Body(data)[i]
    BY <1>1
  <2>2. Front(SerializeData(data)) = SubSeq(SerializeData(data), 1, Len(Body(data)))
    BY <1>1, <2>1 DEF Front
  <2>3. /\ SubSeq(SerializeData(data), 1, Len(Body(data))) \in Seq(Byte)
        /\ Len(SubSeq(SerializeData(data), 1, Len(Body(data)))) = Len(Body(data))
        /\ \A i \in 1..Len(Body(data)) :
             SubSeq(SerializeData(data), 1, Len(Body(data)))[i] = Body(data)[i]
    <3>1. /\ 1 \in Int /\ Len(Body(data)) \in Int /\ (1 <= Len(Body(data)) \/ Len(Body(data)) = 0)
          /\ \A i \in 1..Len(Body(data)) : SerializeData(data)[i] \in Byte
      BY <1>1, <2>1
    <3> QED
      BY <2>1, <3>1, SubSeqProperties
  <2> QED
    BY <1>1, <2>2, <2>3, SeqEqual
<1> QED
  BY <1>2, <1>3, <1>4, <1>5, ReadFacts

\* Data without an end byte is decoded to what would be encoded like it, up to an escape
\* byte in its end, or to nothing.
THEOREM EncodesWhatWasDecoded ==
  ASSUME NEW data \in Seq(Byte), ProtocolByteEnd \notin Range(data), DeserializeData(data) # <<>>
  PROVE  LET code == SerializeData(DeserializeData(data)) IN
         \/ code = Append(data, ProtocolByteEnd)
         \/ code = Append(Front(data), ProtocolByteEnd) /\ Last(data) = ProtocolByteEsc
<1> DEFINE r == Read(data)
<1>1. r \in Readings /\ ReadOf(data, r) /\ DeserializeData(data) = r.data
  BY ReadIsOf, ReadFacts
<1> HIDE DEF r
<1>2. r.data \in Seq(Byte) /\ SerializeData(r.data) = Append(Body(r.data), ProtocolByteEnd)
  <2>1. r.data \in Seq(Byte)
    BY <1>1 DEF Readings
  <2> QED
    BY <2>1, EndIsLast
<1>3. CASE r.at = "plain"
  BY <1>1, <1>2, <1>3 DEF ReadOf
<1>4. CASE r.at = "escaped"
  <2>1. data = Append(Body(r.data), ProtocolByteEsc) /\ Body(r.data) \in Seq(Byte)
    BY <1>1, <1>2, <1>4, BodyFacts DEF ReadOf
  <2>2. /\ Len(data) = Len(Body(r.data)) + 1 /\ data[Len(data)] = ProtocolByteEsc
        /\ \A i \in 1..Len(Body(r.data)) : data[i] = Body(r.data)[i] /\ data[i] \in Byte
    BY <2>1
  <2>3. Front(data) = Body(r.data)
    <3> DEFINE n == Len(Body(r.data))
    <3>1. n \in Nat /\ Front(data) = SubSeq(data, 1, n)
      BY <2>1, <2>2 DEF Front
    <3>2. 1 \in Int /\ n \in Int /\ (1 <= n \/ n = 0)
      BY <3>1
    <3> HIDE DEF n
    <3>3. /\ SubSeq(data, 1, n) \in Seq(Byte) /\ Len(SubSeq(data, 1, n)) = n
          /\ \A i \in 1..n : SubSeq(data, 1, n)[i] = data[i]
      <4>1. \A i \in 1..n : data[i] \in Byte
        BY <2>2 DEF n
      <4> QED
        BY <3>2, <4>1, SubSeqProperties
    <3> QED
      BY <2>1, <2>2, <3>1, <3>3, SeqEqual DEF n
  <2>4. Last(data) = ProtocolByteEsc
    BY <2>2 DEF Last
  <2> QED
    BY <1>1, <1>2, <2>3, <2>4
<1> QED
  BY <1>1, <1>3, <1>4 DEF ReadOf

\* Two bytes and what is left behind them.
LEMMA TwoBytesAhead ==
  ASSUME NEW high \in Byte, NEW low \in Byte, NEW data \in Seq(Byte),
         NEW built, built = <<high, low>> \o data
  PROVE  /\ built \in Seq(Byte) /\ Len(built) >= 2
         /\ built[1] = high /\ built[2] = low
         /\ SubSeq(built, 3, Len(built)) = data
<1> DEFINE begin == <<high, low>>
<1>0. begin \in Seq(Byte) /\ Len(data) \in Nat
  OBVIOUS
<1>1. Len(begin) = 2 /\ begin[1] = high /\ begin[2] = low /\ built = begin \o data
  OBVIOUS
<1> HIDE DEF begin
<1>2. /\ built \in Seq(Byte) /\ Len(built) = Len(begin) + Len(data)
      /\ \A i \in 1..(Len(begin) + Len(data)) :
           built[i] = IF i <= Len(begin) THEN begin[i] ELSE data[i - Len(begin)]
  <2>1. built = begin \o data
    BY <1>1
  <2> QED
    BY <1>0, <2>1, ConcatProperties
<1>3. /\ Len(built) = 2 + Len(data)
      /\ \A i \in 1..(2 + Len(data)) : built[i] = IF i <= 2 THEN begin[i] ELSE data[i - 2]
  <2>1. \A n : n = Len(begin) => \A i \in 1..(n + Len(data)) :
          built[i] = IF i <= n THEN begin[i] ELSE data[i - n]
    BY <1>2
  <2> QED
    BY <1>1, <1>2, <2>1, Zenon
<1>4. built[1] = high /\ built[2] = low
  <2>1. 1 \in 1..(2 + Len(data)) /\ 2 \in 1..(2 + Len(data))
    BY <1>0
  <2> QED
    BY <1>1, <1>3, <2>1
<1>5. SubSeq(built, 3, Len(built)) = data
  <2> DEFINE rest == SubSeq(built, 3, Len(built))
  <2>1. 3 \in Int /\ Len(built) \in Int /\ \A i \in 3..Len(built) : built[i] \in Byte
    BY <1>0, <1>2, <1>3
  <2>2. rest \in Seq(Byte) /\ Len(rest) = IF 3 <= Len(built) THEN Len(built) - 3 + 1 ELSE 0
    BY <2>1, SubSeqProperties
  <2>3. \A i \in 1..(Len(built) - 3 + 1) : rest[i] = built[3 + i - 1]
    BY <2>1, SubSeqProperties
  <2> HIDE DEF rest
  <2>4. Len(rest) = Len(data)
    BY <1>0, <1>3, <2>2
  <2>5. ASSUME NEW i \in 1..Len(rest) PROVE rest[i] = data[i]
    <3>1. /\ i \in 1..(Len(built) - 3 + 1) /\ 3 + i - 1 = 2 + i /\ (2 + i) - 2 = i
          /\ 2 + i \in 1..(2 + Len(data)) /\ ~(2 + i <= 2)
      BY <1>0, <1>3, <2>4
    <3>2. rest[i] = built[3 + i - 1] /\ built[2 + i] = data[(2 + i) - 2]
      BY <1>3, <2>3, <3>1
    <3> QED
      BY <3>1, <3>2
  <2>6. rest = data
    BY <2>2, <2>4, <2>5, SeqEqual
  <2> QED
    BY <2>6 DEF rest
<1>6. Len(built) >= 2
  BY <1>0, <1>3
<1> QED
  BY <1>2, <1>4, <1>5, <1>6

\* The values of a quint16, the type of a socket address.
Address == {a \in Nat : a < 256 * 256}

\* A quint16 is its two bytes, the high one first.
LEMMA AddressBytes ==
  ASSUME NEW a \in Address
  PROVE  a \div 256 \in Byte /\ a % 256 \in Byte /\ 256 * (a \div 256) + (a % 256) = a
<1>1. a \in Int /\ 0 <= a /\ a < 256 * 256
  BY DEF Address
<1>2. /\ a \div 256 \in Int /\ a % 256 \in Int /\ 0 <= a % 256 /\ a % 256 < 256
      /\ a = 256 * (a \div 256) + (a % 256)
  BY <1>1
<1>3. 0 <= a \div 256 /\ a \div 256 < 256
  BY <1>1, <1>2
<1>4. a \div 256 \in Byte /\ a % 256 \in Byte
  <2>1. ASSUME NEW b \in Int, 0 <= b, b < 256 PROVE b \in Byte
    BY <2>1 DEF Byte
  <2> QED
    BY <1>2, <1>3, <2>1
<1> QED
  BY <1>2, <1>4, Zenon

\* parseFrame undoes buildFrame for every address of 16 bits and all data.
THEOREM ParsesWhatWasBuilt ==
  ASSUME NEW f \in [address : Address, data : Seq(Byte)]
  PROVE  BuildFrame(f) \in Seq(Byte) /\ ParseFrame(BuildFrame(f)) = f
<1>1. f.address \in Address /\ f.data \in Seq(Byte)
  OBVIOUS
<1>2. PICK high \in Byte : high = f.address \div 256
  BY <1>1, AddressBytes
<1>3. PICK low \in Byte : low = f.address % 256
  BY <1>1, AddressBytes
<1>4. 256 * high + low = f.address
  <2>1. 256 * (f.address \div 256) + (f.address % 256) = f.address
    BY <1>1, AddressBytes
  <2> QED
    BY <1>2, <1>3, <2>1, Zenon
<1>5. PICK built : built = <<high, low>> \o f.data
  OBVIOUS
<1>6. BuildFrame(f) = built
  BY <1>2, <1>3, <1>5 DEF BuildFrame
<1>7. /\ built \in Seq(Byte) /\ Len(built) >= 2
      /\ built[1] = high /\ built[2] = low
      /\ SubSeq(built, 3, Len(built)) = f.data
  BY <1>1, <1>5, TwoBytesAhead
<1>8. ParseFrame(built) = [address |-> f.address, data |-> f.data]
  <2>1. ~(Len(built) < 2) /\ 256 * built[1] + built[2] = f.address
    BY <1>4, <1>7
  <2> QED
    BY <1>7, <2>1 DEF ParseFrame
<1>9. f = [address |-> f.address, data |-> f.data]
  OBVIOUS
<1> QED
  BY <1>6, <1>7, <1>8, <1>9

\* SlipDataProcessor: both directions of the codec, and the end byte, for byte sequences of
\* any length.
THEOREM CodecCorrect == Spec => []CodecAgrees
<1> DEFINE Inv == part = "codec" => wire \in Seq(Bytes)
<1>1. Init => Inv
  BY DEF Init, Up!Init
<1>2. Inv /\ [Next]_vars => Inv'
  BY DEF Next, Uplink, Downlink, Monitoring, Codec, vars
<1>3. Inv => CodecAgrees
  <2> SUFFICES ASSUME wire \in Seq(Bytes) PROVE
        /\ RoundTrip
        /\ DecodesOnlyEncodings
        /\ \A i \in DOMAIN SerializeData(wire) :
             SerializeData(wire)[i] = ProtocolByteEnd <=> i = Len(SerializeData(wire))
    BY DEF CodecAgrees
  <2>1. wire \in Seq(Byte)
    <3>1. Bytes \subseteq Byte
      BY DEF Bytes, Byte, ProtocolByteEnd, ProtocolByteEsc, ProtocolByteTransposedEnd,
             ProtocolByteTransposedEsc
    <3> QED
      BY <3>1
  <2>2. RoundTrip
    <3> SUFFICES ASSUME NEW address \in {1, 192, 219, 255, 256, 56540, 65534} PROVE
          LET f    == [address |-> address, data |-> wire]
              code == SerializeData(BuildFrame(f))
          IN \A bytes \in {code, Front(code)} : ParseFrame(DeserializeData(bytes)) = f
      BY DEF RoundTrip
    <3>1. address \in Address
      BY DEF Address
    <3> DEFINE f == [address |-> address, data |-> wire]
    <3>2. BuildFrame(f) \in Seq(Byte) /\ ParseFrame(BuildFrame(f)) = f
      <4>1. f \in [address : Address, data : Seq(Byte)]
        BY <2>1, <3>1
      <4> HIDE DEF f
      <4> QED
        BY <4>1, ParsesWhatWasBuilt
    <3> HIDE DEF f
    <3>3. /\ DeserializeData(SerializeData(BuildFrame(f))) = BuildFrame(f)
          /\ DeserializeData(Front(SerializeData(BuildFrame(f)))) = BuildFrame(f)
      BY <3>2, DecodesWhatWasEncoded
    <3> QED
      BY <3>2, <3>3 DEF f
  <2>3. DecodesOnlyEncodings
    BY <2>1, EncodesWhatWasDecoded DEF DecodesOnlyEncodings
  <2>4. ASSUME NEW i \in DOMAIN SerializeData(wire)
        PROVE  SerializeData(wire)[i] = ProtocolByteEnd <=> i = Len(SerializeData(wire))
    <3>1. /\ SerializeData(wire) = Append(Body(wire), ProtocolByteEnd)
          /\ Body(wire) \in Seq(Byte) /\ ProtocolByteEnd \in Byte
          /\ \A k \in DOMAIN Body(wire) : Body(wire)[k] # ProtocolByteEnd
      BY <2>1, EndIsLast, BodyFacts, ProtocolBytes
    <3> QED
      BY <3>1
  <2> QED
    BY <2>2, <2>3, <2>4
<1> QED
  BY <1>1, <1>2, <1>3, PTL DEF Spec

-----------------------------------------------------------------------------
(* What is written to a stream, one item behind the other.                 *)

\* The codes of the items.
Laid(code, items) == FlattenSeq([i \in DOMAIN items |-> code[items[i]]])

\* Every item has a code.
Encodes(code, Items, S) == \A x \in Items : code[x] \in Seq(S)

LEMMA LaidGrows ==
  ASSUME NEW S, NEW Items, NEW code, Encodes(code, Items, S),
         NEW items \in Seq(Items)
  PROVE  /\ Laid(code, <<>>) = <<>>
         /\ Laid(code, items) \in Seq(S)
         /\ \A x \in Items : Laid(code, Append(items, x)) = Laid(code, items) \o code[x]
<1> USE DEF Encodes
<1> DEFINE Codes(s) == [i \in DOMAIN s |-> code[s[i]]]
<1>1. Laid(code, <<>>) = <<>>
  <2>1. Codes(<<>>) = <<>>
    OBVIOUS
  <2> QED
    BY <2>1 DEF Laid, FlattenSeq
<1>2. ASSUME NEW s \in Seq(Items) PROVE Codes(s) \in Seq(Seq(S)) /\ Len(Codes(s)) = Len(s)
  <2>1. \A i \in 1..Len(s) : s[i] \in Items /\ code[s[i]] \in Seq(S)
    OBVIOUS
  <2>2. Codes(s) \in [1..Len(s) -> Seq(S)]
    BY <2>1
  <2> HIDE DEF Codes
  <2> QED
    BY <2>2
<1>3. ASSUME NEW x \in Items PROVE Codes(Append(items, x)) = Append(Codes(items), code[x])
  <2> DEFINE more == Append(items, x)
  <2>1. /\ more \in Seq(Items) /\ Len(more) = Len(items) + 1 /\ DOMAIN more = 1..(Len(items) + 1)
        /\ \A i \in 1..Len(items) : more[i] = items[i]
        /\ more[Len(items) + 1] = x /\ Len(items) \in Nat
    OBVIOUS
  <2> HIDE DEF more
  <2>2. /\ \A i \in 1..Len(items) : Codes(more)[i] = code[items[i]]
        /\ Codes(more)[Len(items) + 1] = code[x]
        /\ \A i \in 1..Len(items) : Codes(items)[i] = code[items[i]]
    BY <2>1
  <2>3. /\ Codes(more) \in Seq(Seq(S)) /\ Len(Codes(more)) = Len(items) + 1
        /\ Codes(items) \in Seq(Seq(S)) /\ Len(Codes(items)) = Len(items)
    BY <1>2, <2>1
  <2>4. code[x] \in Seq(S)
    OBVIOUS
  <2> HIDE DEF Codes
  <2>5. /\ Append(Codes(items), code[x]) \in Seq(Seq(S))
        /\ Len(Append(Codes(items), code[x])) = Len(items) + 1
        /\ \A i \in 1..(Len(items) + 1) : Append(Codes(items), code[x])[i] = Codes(more)[i]
    BY <2>2, <2>3, <2>4
  <2> QED
    BY <2>3, <2>5, SeqEqual DEF more
<1>4. Codes(items) \in Seq(Seq(S))
  BY <1>2
<1> HIDE DEF Codes
<1>5. <<>> \in Seq(S)
  OBVIOUS
<1>6. FlattenSeq(Codes(items)) \in Seq(S)
  BY <1>4, <1>5, FlattenFacts
<1>7. ASSUME NEW x \in Items
      PROVE  FlattenSeq(Codes(Append(items, x))) = FlattenSeq(Codes(items)) \o code[x]
  <2>1. code[x] \in Seq(S)
    OBVIOUS
  <2> QED
    BY <1>3, <1>4, <2>1, FlattenFacts
<1> QED
  BY <1>1, <1>6, <1>7 DEF Laid, Codes

\* The codes of two sequences of items, and the code of the first item.
LEMMA LaidConcat ==
  ASSUME NEW S, NEW Items, NEW code, Encodes(code, Items, S),
         NEW some \in Seq(Items), NEW items \in Seq(Items)
  PROVE  Laid(code, some \o items) = Laid(code, some) \o Laid(code, items)
<1> DEFINE T == {s \in Seq(Items) : Laid(code, some \o s) = Laid(code, some) \o Laid(code, s)}
<1>0. \A s \in Seq(Items) : Laid(code, s) \in Seq(S)
  BY LaidGrows
<1>1. <<>> \in T
  <2>1. some \o <<>> = some /\ <<>> \in Seq(Items)
    BY ConcatEmptySeq
  <2>2. Laid(code, <<>>) = <<>>
    BY LaidGrows
  <2>3. Laid(code, some) \o <<>> = Laid(code, some)
    BY <1>0, ConcatEmptySeq
  <2> QED
    BY <2>1, <2>2, <2>3
<1>2. ASSUME NEW s \in Seq(Items), NEW x \in Items, s \in T PROVE Append(s, x) \in T
  <2>1. /\ Append(s, x) \in Seq(Items) /\ some \o s \in Seq(Items)
        /\ some \o Append(s, x) = Append(some \o s, x)
    OBVIOUS
  <2>2. Laid(code, Append(some \o s, x)) = Laid(code, some \o s) \o code[x]
    <3> DEFINE u == some \o s
    <3>1. u \in Seq(Items)
      BY <2>1
    <3> HIDE DEF u
    <3>2. Laid(code, Append(u, x)) = Laid(code, u) \o code[x]
      BY ONLY Encodes(code, Items, S), <3>1, x \in Items, LaidGrows
    <3> QED
      BY <3>2 DEF u
  <2>3. Laid(code, Append(s, x)) = Laid(code, s) \o code[x]
    BY ONLY Encodes(code, Items, S), s \in Seq(Items), x \in Items, LaidGrows
  <2>4. (Laid(code, some) \o Laid(code, s)) \o code[x]
          = Laid(code, some) \o (Laid(code, s) \o code[x])
    <3> DEFINE u == Laid(code, some)
               v == Laid(code, s)
               w == code[x]
    <3>1. u \in Seq(S) /\ v \in Seq(S) /\ w \in Seq(S)
      BY <1>0 DEF Encodes
    <3> HIDE DEF u, v, w
    <3>2. (u \o v) \o w = u \o (v \o w)
      BY ONLY <3>1
    <3> QED
      BY <3>2 DEF u, v, w
  <2>5. Laid(code, some \o s) = Laid(code, some) \o Laid(code, s)
    BY <1>2
  <2> QED
    BY <2>1, <2>2, <2>3, <2>4, <2>5
<1>3. Seq(Items) \subseteq T
  <2> HIDE DEF T
  <2> QED
    BY <1>1, <1>2, SequenceInduction
<1> QED
  BY <1>3

\* A sequence that is not empty is its head and its tail.
LEMMA HeadAndTail ==
  ASSUME NEW S, NEW s \in Seq(S), s # <<>>
  PROVE  Head(s) \in S /\ Tail(s) \in Seq(S) /\ s = <<Head(s)>> \o Tail(s)
<1>1. /\ Head(s) \in S /\ Tail(s) \in Seq(S) /\ Len(Tail(s)) = Len(s) - 1 /\ Len(s) >= 1
      /\ Len(s) \in Nat
      /\ \A i \in 1..Len(Tail(s)) : Tail(s)[i] = s[i + 1]
      /\ Head(s) = s[1] /\ <<Head(s)>> \in Seq(S)
  BY HeadTailProperties
<1> DEFINE t == <<Head(s)>> \o Tail(s)
<1>2. t \in Seq(S) /\ Len(t) = Len(s)
  BY <1>1
<1>3. ASSUME NEW i \in 1..Len(s) PROVE s[i] = t[i]
  <2>1. CASE i = 1
    BY <1>1, <2>1
  <2>2. CASE i # 1
    <3>1. i - 1 \in 1..Len(Tail(s)) /\ (i - 1) + 1 = i
      BY <1>1, <2>2
    <3>2. t[i] = Tail(s)[i - 1]
      BY <1>1, <2>2
    <3>3. Tail(s)[i - 1] = s[(i - 1) + 1]
      BY <1>1, <3>1
    <3> QED
      BY <3>1, <3>2, <3>3
  <2> QED
    BY <2>1, <2>2
<1> HIDE DEF t
<1>4. s = t
  BY <1>2, <1>3, SeqEqual
<1> QED
  BY <1>1, <1>4 DEF t

LEMMA LaidHead ==
  ASSUME NEW S, NEW Items, NEW code, Encodes(code, Items, S), NEW items \in Seq(Items), items # <<>>
  PROVE  Laid(code, items) = code[Head(items)] \o Laid(code, Tail(items))
<1> DEFINE x == Head(items)
           rest == Tail(items)
           one == <<x>>
           none == <<>>
<1>1. x \in Items /\ rest \in Seq(Items) /\ items = one \o rest
  BY HeadAndTail
<1>2. one \in Seq(Items) /\ none \in Seq(Items) /\ one = Append(none, x)
  BY <1>1
<1> HIDE DEF x, rest, one, none
<1>3. Laid(code, one \o rest) = Laid(code, one) \o Laid(code, rest)
  <2>1. \A s, t \in Seq(Items) : Laid(code, s \o t) = Laid(code, s) \o Laid(code, t)
    BY ONLY Encodes(code, Items, S), LaidConcat
  <2> QED
    BY <1>1, <1>2, <2>1
<1>4. Laid(code, Append(none, x)) = Laid(code, none) \o code[x] /\ Laid(code, <<>>) = <<>>
  BY ONLY Encodes(code, Items, S), <1>1, <1>2, LaidGrows
<1>5. <<>> \o code[x] = code[x]
  BY <1>1, ConcatEmptySeq DEF Encodes
<1>6. Laid(code, one) = code[x]
  BY <1>2, <1>4, <1>5 DEF none
<1> QED
  BY <1>1, <1>3, <1>6 DEF x, rest

\* All of this in one.
LEMMA LaidFacts ==
  ASSUME NEW S, NEW Items, NEW code, Encodes(code, Items, S)
  PROVE  /\ Laid(code, <<>>) = <<>>
         /\ \A items \in Seq(Items) : Laid(code, items) \in Seq(S)
         /\ \A items \in Seq(Items), x \in Items :
              Laid(code, Append(items, x)) = Laid(code, items) \o code[x]
         /\ \A some, items \in Seq(Items) :
              Laid(code, some \o items) = Laid(code, some) \o Laid(code, items)
         /\ \A items \in Seq(Items) : items # <<>> =>
              Laid(code, items) = code[Head(items)] \o Laid(code, Tail(items))
<1>1. Laid(code, <<>>) = <<>>
  <2>1. <<>> \in Seq(Items)
    OBVIOUS
  <2> QED
    BY ONLY Encodes(code, Items, S), <2>1, LaidGrows
<1>2. \A items \in Seq(Items) : Laid(code, items) \in Seq(S)
  BY ONLY Encodes(code, Items, S), LaidGrows
<1>3. \A items \in Seq(Items), x \in Items :
        Laid(code, Append(items, x)) = Laid(code, items) \o code[x]
  BY ONLY Encodes(code, Items, S), LaidGrows
<1>4. \A some, items \in Seq(Items) :
        Laid(code, some \o items) = Laid(code, some) \o Laid(code, items)
  BY ONLY Encodes(code, Items, S), LaidConcat
<1>5. \A items \in Seq(Items) : items # <<>> =>
        Laid(code, items) = code[Head(items)] \o Laid(code, Tail(items))
  BY ONLY Encodes(code, Items, S), LaidHead
<1> QED
  BY <1>1, <1>2, <1>3, <1>4, <1>5

-----------------------------------------------------------------------------
(* Codes that end in a byte which they have nowhere else.                  *)

Free(end, data) == \A i \in DOMAIN data : data[i] # end

\* Such a code is found in what follows it.
LEMMA Cancel ==
  ASSUME NEW S, NEW end \in S, NEW b \in Seq(S), NEW c \in Seq(S), NEW v \in Seq(S),
         NEW w \in Seq(S), Free(end, b), Free(end, c), Append(b, end) \o v = Append(c, end) \o w
  PROVE  b = c /\ v = w
<1> DEFINE left == Append(b, end) \o v
           right == Append(c, end) \o w
<1>1. /\ Len(b) \in Nat /\ Len(c) \in Nat
      /\ left[Len(b) + 1] = end /\ right[Len(c) + 1] = end
      /\ \A i \in 1..Len(b) : left[i] = b[i] /\ b[i] # end
      /\ \A i \in 1..Len(c) : right[i] = c[i] /\ c[i] # end
  <2>1. /\ Append(b, end) \in Seq(S) /\ Len(Append(b, end)) = Len(b) + 1
        /\ Append(b, end)[Len(b) + 1] = end
        /\ \A i \in 1..Len(b) : Append(b, end)[i] = b[i] /\ b[i] # end
    BY DEF Free
  <2>2. /\ Append(c, end) \in Seq(S) /\ Len(Append(c, end)) = Len(c) + 1
        /\ Append(c, end)[Len(c) + 1] = end
        /\ \A i \in 1..Len(c) : Append(c, end)[i] = c[i] /\ c[i] # end
    BY DEF Free
  <2> DEFINE x == Append(b, end)
             y == Append(c, end)
  <2>3. /\ x \in Seq(S) /\ Len(x) = Len(b) + 1 /\ left = x \o v
        /\ y \in Seq(S) /\ Len(y) = Len(c) + 1 /\ right = y \o w
        /\ Len(b) \in Nat /\ Len(c) \in Nat
    BY <2>1, <2>2
  <2> HIDE DEF x, y, left, right
  <2>4. \A i \in 1..(Len(b) + 1) : left[i] = x[i]
    BY <2>3
  <2>5. \A i \in 1..(Len(c) + 1) : right[i] = y[i]
    BY <2>3
  <2>6. /\ x[Len(b) + 1] = end /\ \A i \in 1..Len(b) : x[i] = b[i] /\ b[i] # end
        /\ y[Len(c) + 1] = end /\ \A i \in 1..Len(c) : y[i] = c[i] /\ c[i] # end
    BY <2>1, <2>2 DEF x, y
  <2> QED
    BY <2>3, <2>4, <2>5, <2>6
<1>2. left = right
  OBVIOUS
<1> HIDE DEF left, right
<1>3. Len(b) = Len(c)
  <2>1. ~(Len(b) < Len(c))
    <3>1. Len(b) < Len(c) => Len(b) + 1 \in 1..Len(c)
      BY <1>1
    <3> QED
      BY <1>1, <1>2, <3>1
  <2>2. ~(Len(c) < Len(b))
    <3>1. Len(c) < Len(b) => Len(c) + 1 \in 1..Len(b)
      BY <1>1
    <3> QED
      BY <1>1, <1>2, <3>1
  <2> QED
    BY <1>1, <2>1, <2>2
<1>4. b = c
  BY <1>1, <1>2, <1>3, SeqEqual
<1>5. Append(b, end) \in Seq(S)
  OBVIOUS
<1> QED
  BY <1>4, <1>5, ConcatSimplifications

\* Each code is a body and the end byte.
Ended(end, body, code, Items, S) ==
  \A x \in Items :
    body[x] \in Seq(S) /\ Free(end, body[x]) /\ code[x] \in Seq(S) /\ code[x] = Append(body[x], end)

\* What is pending is in the buffer and behind it on the wire, the next byte first.
Coming(end, body, code, Items, S, buffer, byte, wait, pending) ==
  /\ end \in S /\ Ended(end, body, code, Items, S)
  /\ buffer \in Seq(S) /\ Free(end, buffer) /\ byte \in S /\ wait \in Seq(S)
  /\ pending \in Seq(Items) /\ buffer \o (<<byte>> \o wait) = Laid(code, pending)

\* The next byte of what was written: it goes on with the code it is in, or ends the first.
LEMMA NextByte ==
  ASSUME NEW S, NEW end, NEW Items, NEW code, NEW body, NEW buffer, NEW byte, NEW wait,
         NEW pending, Coming(end, body, code, Items, S, buffer, byte, wait, pending)
  PROVE  /\ byte # end => /\ Append(buffer, byte) \in Seq(S) /\ Free(end, Append(buffer, byte))
                          /\ Append(buffer, byte) \o wait = Laid(code, pending)
         /\ byte = end => /\ pending # <<>> /\ buffer = body[Head(pending)]
                          /\ wait = Laid(code, Tail(pending))
<1> USE DEF Coming
<1>e. Encodes(code, Items, S)
  BY DEF Ended, Encodes
<1>0. Append(buffer, byte) \in Seq(S) /\ Append(buffer, byte) = buffer \o <<byte>> /\ <<byte>> \in Seq(S)
  OBVIOUS
<1>1. Append(buffer, byte) \o wait = Laid(code, pending)
  <2>1. (buffer \o <<byte>>) \o wait = buffer \o (<<byte>> \o wait)
    BY <1>0, ConcatAssociative
  <2> QED
    BY <1>0, <2>1
<1>2. ASSUME byte # end PROVE Free(end, Append(buffer, byte))
  BY <1>2 DEF Free
<1>3. ASSUME byte = end PROVE pending # <<>>
  <2>1. SUFFICES ASSUME pending = <<>> PROVE FALSE
    OBVIOUS
  <2>2. Laid(code, pending) = <<>>
    <3>1. <<>> \in Seq(Items)
      OBVIOUS
    <3> QED
      BY ONLY <1>e, <2>1, <3>1, LaidGrows
  <2> QED
    BY <1>0, <1>1, <2>2, ConcatSimplifications
<1>4. ASSUME byte = end PROVE buffer = body[Head(pending)] /\ wait = Laid(code, Tail(pending))
  <2>1. Head(pending) \in Items /\ Tail(pending) \in Seq(Items) /\ pending = <<Head(pending)>> \o Tail(pending)
    BY <1>3, <1>4, HeadAndTail
  <2>3. Laid(code, pending) = code[Head(pending)] \o Laid(code, Tail(pending))
    BY ONLY <1>e, <1>3, <1>4, pending \in Seq(Items), LaidHead
  <2>4. Laid(code, Tail(pending)) \in Seq(S)
    BY ONLY <1>e, <2>1, LaidGrows
  <2> DEFINE first == body[Head(pending)]
             left == Laid(code, Tail(pending))
  <2>5. first \in Seq(S) /\ Free(end, first) /\ left \in Seq(S)
        /\ Append(buffer, end) \o wait = Append(first, end) \o left
    BY <1>1, <1>4, <2>1, <2>3, <2>4 DEF Ended
  <2> HIDE DEF first, left
  <2> QED
    BY <2>5, Cancel DEF first, left
<1> QED
  BY <1>0, <1>1, <1>2, <1>3, <1>4

LEMMA ConcatAppend ==
  ASSUME NEW S, NEW t \in Seq(S), NEW u \in Seq(S), NEW x \in S
  PROVE  /\ Append(u, x) \in Seq(S) /\ Append(u, x) # <<>>
         /\ Append(t \o u, x) = t \o Append(u, x)
<1> DEFINE one == <<x>>
           tu == t \o u
<1>1. one \in Seq(S) /\ tu \in Seq(S)
  OBVIOUS
<1>2. Append(tu, x) = tu \o one /\ Append(u, x) = u \o one
  BY <1>1, AppendIsConcat
<1>3. Append(u, x) \in Seq(S) /\ Append(u, x) # <<>>
  BY AppendProperties
<1> HIDE DEF one
<1>4. (t \o u) \o one = t \o (u \o one)
  BY <1>1, ConcatAssociative
<1> QED
  BY <1>2, <1>3, <1>4

\* The parts of a concatenation.
LEMMA PrefixAndRest ==
  ASSUME NEW S, NEW u \in Seq(S), NEW v \in Seq(S)
  PROVE  /\ SubSeq(u \o v, 1, Len(u)) = u
         /\ SubSeq(u \o v, Len(u) + 1, Len(u \o v)) = v
<1> DEFINE w == u \o v
           n == Len(u)
           k == Len(v)
<1>1. /\ n \in Nat /\ k \in Nat /\ w \in Seq(S) /\ Len(w) = n + k
      /\ \A i \in 1..n : w[i] = u[i] /\ u[i] \in S
      /\ \A i \in 1..k : w[n + i] = v[i] /\ v[i] \in S
  <2>1. n \in Nat /\ k \in Nat /\ w \in Seq(S) /\ Len(w) = n + k
    OBVIOUS
  <2>2. \A i \in 1..n : w[i] = u[i] /\ u[i] \in S
    BY <2>1, ConcatProperties
  <2>3. ASSUME NEW i \in 1..k PROVE w[n + i] = v[i] /\ v[i] \in S
    <3>1. n + i \in 1..(n + k) /\ ~(n + i <= n) /\ (n + i) - n = i
      BY <2>1
    <3> QED
      BY <2>1, <3>1, ConcatProperties
  <2> QED
    BY <2>1, <2>2, <2>3
<1> HIDE DEF w
<1>2. SubSeq(w, 1, n) = u
  <2>1. /\ SubSeq(w, 1, n) \in Seq(S) /\ Len(SubSeq(w, 1, n)) = n
        /\ \A i \in 1..n : SubSeq(w, 1, n)[i] = w[i]
    <3>1. 1 \in Int /\ n \in Int /\ (1 <= n \/ n = 0) /\ \A i \in 1..n : w[i] \in S
      BY <1>1
    <3> HIDE DEF n
    <3> QED
      BY <3>1, SubSeqProperties
  <2> QED
    BY <1>1, <2>1, SeqEqual
<1>3. SubSeq(w, n + 1, n + k) = v
  <2> DEFINE s == SubSeq(w, n + 1, n + k)
  <2>1. s \in Seq(S) /\ Len(s) = k /\ \A i \in 1..k : s[i] = w[n + i]
    <3>1. /\ n + 1 \in Int /\ n + k \in Int /\ (n + k) - (n + 1) + 1 = k
          /\ \A i \in (n + 1)..(n + k) : i - n \in 1..k /\ n + (i - n) = i
          /\ \A i \in Int : (n + 1) + i - 1 = n + i
          /\ (n + 1 <= n + k \/ k = 0)
      BY <1>1
    <3>2. \A i \in (n + 1)..(n + k) : w[i] \in S
      BY <1>1, <3>1
    <3>3. /\ s \in Seq(S)
          /\ Len(s) = IF n + 1 <= n + k THEN (n + k) - (n + 1) + 1 ELSE 0
          /\ \A i \in 1..((n + k) - (n + 1) + 1) : s[i] = w[(n + 1) + i - 1]
      BY ONLY <3>1, <3>2, SubSeqProperties
    <3> HIDE DEF s
    <3> QED
      BY <1>1, <3>1, <3>3
  <2> HIDE DEF s
  <2>2. s = v
    BY <1>1, <2>1, SeqEqual
  <2> QED
    BY <2>2 DEF s
<1> QED
  BY <1>1, <1>2, <1>3 DEF w

\* Where an end byte is, the codes of some items end.
CutsAtEnds(code, Items, end, s) ==
  \A k \in 1..Len(Laid(code, s)) : Laid(code, s)[k] = end =>
    \E taken \in Seq(Items), left \in Seq(Items) :
      taken # <<>> /\ s = taken \o left /\ k = Len(Laid(code, taken))

LEMMA CutInGrown ==
  ASSUME NEW S, NEW end \in S, NEW Items, NEW code, NEW body, Ended(end, body, code, Items, S),
         NEW s \in Seq(Items), CutsAtEnds(code, Items, end, s), NEW x \in Items
  PROVE  CutsAtEnds(code, Items, end, Append(s, x))
<1> DEFINE more == Append(s, x)
           w == Laid(code, s)
           b == body[x]
           c == Append(b, end)
<1>e. Encodes(code, Items, S)
  BY DEF Ended, Encodes
<1>1. /\ more \in Seq(Items) /\ more # <<>> /\ more \o <<>> = more /\ <<>> \in Seq(Items)
      /\ \A t \in Seq(Items), u \in Seq(Items) :
           s = t \o u => more = t \o Append(u, x) /\ Append(u, x) \in Seq(Items)
  <2>1. more \in Seq(Items) /\ more # <<>> /\ <<>> \in Seq(Items)
    BY AppendProperties, EmptySeq
  <2>2. more \o <<>> = more
    BY <2>1, ConcatEmptySeq
  <2>3. ASSUME NEW t \in Seq(Items), NEW u \in Seq(Items), s = t \o u
        PROVE  more = t \o Append(u, x) /\ Append(u, x) \in Seq(Items)
    <3>1. Append(u, x) \in Seq(Items) /\ Append(t \o u, x) = t \o Append(u, x)
      BY ONLY t \in Seq(Items), u \in Seq(Items), x \in Items
    <3> QED
      BY <2>3, <3>1
  <2> QED
    BY <2>1, <2>2, <2>3
<1>2. w \in Seq(S) /\ Laid(code, more) = w \o c
  <2>1. w \in Seq(S) /\ Laid(code, more) = w \o code[x]
    BY ONLY <1>e, s \in Seq(Items), x \in Items, LaidGrows
  <2> QED
    BY <2>1 DEF Ended
<1>3. /\ b \in Seq(S) /\ c \in Seq(S) /\ Len(c) = Len(b) + 1
      /\ \A i \in 1..Len(b) : c[i] # end
  <2>1. b \in Seq(S) /\ \A i \in 1..Len(b) : b[i] # end
    BY DEF Ended, Free
  <2> HIDE DEF b
  <2> QED
    BY <2>1
<1>4. Len(b) \in Nat /\ Len(w) \in Nat
  BY <1>2, <1>3
<1> HIDE DEF more, w, b, c
<1>5. /\ Len(w \o c) = Len(w) + Len(c)
      /\ \A i \in 1..Len(w) : (w \o c)[i] = w[i]
      /\ \A i \in 1..(Len(w) + Len(c)) : i > Len(w) => (w \o c)[i] = c[i - Len(w)]
  <2>1. /\ Len(w \o c) = Len(w) + Len(c)
        /\ \A i \in 1..(Len(w) + Len(c)) :
             (w \o c)[i] = IF i <= Len(w) THEN w[i] ELSE c[i - Len(w)]
    BY <1>2, <1>3, ConcatProperties
  <2> QED
    BY <1>3, <1>4, <2>1
<1> SUFFICES ASSUME NEW k \in 1..Len(Laid(code, more)), Laid(code, more)[k] = end
             PROVE  \E taken \in Seq(Items), left \in Seq(Items) :
                      taken # <<>> /\ more = taken \o left /\ k = Len(Laid(code, taken))
  BY DEF CutsAtEnds, more
<1>6. CASE k <= Len(w)
  <2>1. k \in 1..Len(w) /\ w[k] = end
    BY <1>2, <1>4, <1>5, <1>6
  <2>2. PICK taken \in Seq(Items), left \in Seq(Items) :
          taken # <<>> /\ s = taken \o left /\ k = Len(Laid(code, taken))
    BY <2>1 DEF CutsAtEnds, w
  <2> QED
    BY <1>1, <2>2
<1>7. CASE k > Len(w)
  <2> DEFINE i == k - Len(w)
  <2>1. i \in 1..Len(c) /\ c[i] = end
    BY <1>2, <1>3, <1>4, <1>5, <1>7
  <2> HIDE DEF i
  <2>2. i = Len(c)
    BY <1>3, <1>4, <2>1
  <2>3. k = Len(Laid(code, more))
    BY <1>2, <1>3, <1>4, <1>5, <2>2 DEF i
  <2> QED
    BY <1>1, <2>3
<1> QED
  <2>1. k <= Len(w) \/ k > Len(w)
    BY <1>2, <1>3, <1>4, <1>5
  <2> QED
    BY <1>6, <1>7, <2>1

\* The byte at n of what was written ends a code.
EndsAt(end, body, code, Items, S, pending, n) ==
  /\ end \in S /\ Ended(end, body, code, Items, S) /\ pending \in Seq(Items)
  /\ n \in 1..Len(Laid(code, pending)) /\ Laid(code, pending)[n] = end

\* The bytes up to n are the codes of the items taken, and behind them those of the others.
CutIn(code, Items, pending, n, taken, left) ==
  /\ taken \in Seq(Items) /\ left \in Seq(Items)
  /\ taken # <<>> /\ pending = taken \o left
  /\ SubSeq(Laid(code, pending), 1, n) = Laid(code, taken)
  /\ SubSeq(Laid(code, pending), n + 1, Len(Laid(code, pending))) = Laid(code, left)

\* Bytes read up to an end byte are the codes of some items.
LEMMA CutAtEnd ==
  ASSUME NEW S, NEW end, NEW Items, NEW code, NEW body, NEW pending, NEW n,
         EndsAt(end, body, code, Items, S, pending, n)
  PROVE  \E taken, left : CutIn(code, Items, pending, n, taken, left)
<1>0. /\ end \in S /\ Ended(end, body, code, Items, S) /\ pending \in Seq(Items)
      /\ n \in 1..Len(Laid(code, pending)) /\ Laid(code, pending)[n] = end
  BY DEF EndsAt
<1>e. Encodes(code, Items, S)
  BY <1>0 DEF Ended, Encodes
<1> DEFINE T == {s \in Seq(Items) : CutsAtEnds(code, Items, end, s)}
<1>1. <<>> \in T
  <2>1. <<>> \in Seq(Items)
    OBVIOUS
  <2>2. Laid(code, <<>>) = <<>>
    BY ONLY <1>e, <2>1, LaidGrows
  <2> QED
    BY <2>1, <2>2 DEF CutsAtEnds
<1>2. ASSUME NEW s \in Seq(Items), NEW x \in Items, s \in T PROVE Append(s, x) \in T
  <2>1. CutsAtEnds(code, Items, end, Append(s, x))
    BY <1>0, <1>2, CutInGrown
  <2> QED
    BY <2>1
<1>3. Seq(Items) \subseteq T
  <2> HIDE DEF T
  <2> QED
    BY <1>1, <1>2, SequenceInduction
<1>4. CutsAtEnds(code, Items, end, pending)
  BY <1>0, <1>3
<1> HIDE DEF T
<1>5. PICK taken \in Seq(Items), left \in Seq(Items) :
        taken # <<>> /\ pending = taken \o left /\ n = Len(Laid(code, taken))
  BY <1>0, <1>4 DEF CutsAtEnds
<1> DEFINE w == Laid(code, pending)
           u == Laid(code, taken)
           v == Laid(code, left)
<1>6. w = u \o v /\ u \in Seq(S) /\ v \in Seq(S) /\ n = Len(u)
  BY <1>e, <1>5, LaidFacts
<1> HIDE DEF w, u, v
<1>7. SubSeq(w, 1, n) = u /\ SubSeq(w, n + 1, Len(w)) = v
  BY <1>6, PrefixAndRest
<1> QED
  BY <1>5, <1>7 DEF w, u, v, CutIn

-----------------------------------------------------------------------------
(* The elements of a sequence that are in a set.                           *)

\* Only is the concatenation of codes of one element or none.
LEMMA OnlyGrows ==
  ASSUME NEW S, NEW K
  PROVE  /\ Only(<<>>, K) = <<>>
         /\ \A s \in Seq(S) : Only(s, K) \in Seq(S)
         /\ \A s \in Seq(S), x \in S :
              Only(Append(s, x), K) = IF x \in K THEN Append(Only(s, K), x) ELSE Only(s, K)
         /\ \A s, t \in Seq(S) : Only(s \o t, K) = Only(s, K) \o Only(t, K)
<1>0. PICK code : code = [x \in S |-> IF x \in K THEN <<x>> ELSE <<>>]
  OBVIOUS
<1>1. Encodes(code, S, S)
  BY <1>0 DEF Encodes
<1>2. ASSUME NEW s \in Seq(S) PROVE Only(s, K) = Laid(code, s)
  <2>1. \A i \in DOMAIN s : code[s[i]] = IF s[i] \in K THEN <<s[i]>> ELSE <<>>
    BY <1>0
  <2> QED
    BY <2>1 DEF Only, Laid
<1>3. \A x \in S : code[x] = IF x \in K THEN <<x>> ELSE <<>>
  BY <1>0
<1>4. /\ Laid(code, <<>>) = <<>>
      /\ \A s \in Seq(S) : Laid(code, s) \in Seq(S)
      /\ \A s \in Seq(S), x \in S : Laid(code, Append(s, x)) = Laid(code, s) \o code[x]
      /\ \A s, t \in Seq(S) : Laid(code, s \o t) = Laid(code, s) \o Laid(code, t)
  <2>1. Laid(code, <<>>) = <<>>
    BY ONLY <1>1, LaidFacts
  <2>2. \A s \in Seq(S) : Laid(code, s) \in Seq(S)
    BY ONLY <1>1, LaidFacts
  <2>3. \A s \in Seq(S), x \in S : Laid(code, Append(s, x)) = Laid(code, s) \o code[x]
    BY ONLY <1>1, LaidGrows
  <2>4. \A s, t \in Seq(S) : Laid(code, s \o t) = Laid(code, s) \o Laid(code, t)
    BY ONLY <1>1, LaidConcat
  <2> QED
    BY ONLY <2>1, <2>2, <2>3, <2>4
<1>5. Only(<<>>, K) = <<>>
  <2>1. <<>> \in Seq(S)
    OBVIOUS
  <2> QED
    BY <1>2, <1>4, <2>1
<1>6. \A s \in Seq(S) : Only(s, K) \in Seq(S)
  BY <1>2, <1>4
<1>7. ASSUME NEW s \in Seq(S), NEW x \in S
      PROVE  Only(Append(s, x), K) = IF x \in K THEN Append(Only(s, K), x) ELSE Only(s, K)
  <2> DEFINE o == Only(s, K)
  <2>1. o \in Seq(S) /\ Append(s, x) \in Seq(S)
    BY <1>6
  <2>2. Only(Append(s, x), K) = o \o (IF x \in K THEN <<x>> ELSE <<>>)
    <3> DEFINE more == Append(s, x)
    <3>1. Only(more, K) = Laid(code, more) /\ o = Laid(code, s)
      BY <1>2, <2>1
    <3>2. Laid(code, more) = Laid(code, s) \o code[x] /\ code[x] = IF x \in K THEN <<x>> ELSE <<>>
      BY <1>3, <1>4
    <3> HIDE DEF o, more
    <3>3. Only(more, K) = o \o (IF x \in K THEN <<x>> ELSE <<>>)
      BY ONLY <3>1, <3>2, Zenon
    <3> QED
      BY <3>3 DEF more
  <2> HIDE DEF o
  <2>3. o \o <<x>> = Append(o, x) /\ o \o <<>> = o
    BY <2>1
  <2> QED
    BY <2>2, <2>3 DEF o
<1>8. ASSUME NEW s \in Seq(S), NEW t \in Seq(S)
      PROVE  Only(s \o t, K) = Only(s, K) \o Only(t, K)
  <2>1. s \o t \in Seq(S)
    OBVIOUS
  <2>2. Laid(code, s \o t) = Laid(code, s) \o Laid(code, t)
    BY <1>4
  <2>3. Only(s \o t, K) = Laid(code, s \o t)
    <3> DEFINE st == s \o t
    <3>1. st \in Seq(S)
      BY <2>1
    <3> HIDE DEF st
    <3>2. Only(st, K) = Laid(code, st)
      BY <1>2, <3>1
    <3> QED
      BY <3>2 DEF st
  <2> QED
    BY <1>2, <2>2, <2>3
<1> QED
  BY <1>5, <1>6, <1>7, <1>8

\* Nothing is left out if there is nothing else.
LEMMA OnlyAll ==
  ASSUME NEW S, NEW K, NEW s \in Seq(S), Range(s) \subseteq K
  PROVE  Only(s, K) = s
<1> DEFINE T == {t \in Seq(S) : (\A i \in DOMAIN t : t[i] \in K) => Only(t, K) = t}
<1>1. <<>> \in T
  <2>1. <<>> \in Seq(S)
    OBVIOUS
  <2> QED
    BY <2>1, OnlyGrows
<1>2. ASSUME NEW t \in Seq(S), NEW x \in S, t \in T PROVE Append(t, x) \in T
  <2> DEFINE more == Append(t, x)
  <2>1. /\ more \in Seq(S) /\ DOMAIN t = 1..Len(t) /\ DOMAIN more = 1..(Len(t) + 1)
        /\ more[Len(t) + 1] = x /\ \A i \in 1..Len(t) : more[i] = t[i]
        /\ Len(t) \in Nat
    OBVIOUS
  <2>2. Only(more, K) = IF x \in K THEN Append(Only(t, K), x) ELSE Only(t, K)
    <3>1. \A u \in Seq(S), y \in S :
            Only(Append(u, y), K) = IF y \in K THEN Append(Only(u, K), y) ELSE Only(u, K)
      BY ONLY OnlyGrows
    <3> QED
      BY <3>1
  <2> HIDE DEF more
  <2>3. ASSUME \A i \in DOMAIN more : more[i] \in K PROVE Only(more, K) = more
    <3>1. x \in K /\ \A i \in DOMAIN t : t[i] \in K
      BY <2>1, <2>3
    <3>2. Only(t, K) = t
      BY <1>2, <3>1
    <3> QED
      BY <2>2, <3>1, <3>2 DEF more
  <2> QED
    BY <2>1, <2>3 DEF more
<1>3. Seq(S) \subseteq T
  <2> HIDE DEF T
  <2> QED
    BY <1>1, <1>2, SequenceInduction
<1>4. \A i \in DOMAIN s : s[i] \in K
  BY DEF Range
<1> QED
  BY <1>3, <1>4

-----------------------------------------------------------------------------
(* The packets of a stream of JSON documents.                              *)

\* What is known of the documents: they begin and end with a brace and hold no newline.
IsDocument(doc) ==
  /\ doc \in Seq(Byte) /\ Len(doc) > 1
  /\ doc[1] = Open /\ doc[Len(doc)] = Close
  /\ Free(Newline, doc)

\* Without its newline, a packet is a document again.
LEMMA DocumentOfPacket ==
  ASSUME NEW doc, IsDocument(doc)
  PROVE  Document(doc) = doc /\ Document(Append(doc, Newline)) = doc
<1>1. doc \in Seq(Byte) /\ \A i \in DOMAIN doc : doc[i] # Newline
  BY DEF IsDocument, Free
<1>2. Newline \in Byte
  BY DEF Newline, Byte
<1> DEFINE more == Append(doc, Newline)
<1>3. /\ more \in Seq(Byte) /\ DOMAIN doc = 1..Len(doc) /\ DOMAIN more = 1..(Len(doc) + 1)
      /\ more[Len(doc) + 1] = Newline /\ \A i \in 1..Len(doc) : more[i] = doc[i]
      /\ Len(doc) \in Nat
  BY <1>1, <1>2
<1> DEFINE K == Range(doc) \ {Newline}
           L == Range(more) \ {Newline}
<1>4. Range(doc) \subseteq K /\ Range(doc) \subseteq L /\ Newline \notin L
  <2> HIDE DEF more
  <2> QED
    BY <1>1, <1>3 DEF Range
<1> HIDE DEF K, L
<1>5. Only(doc, K) = doc /\ Only(doc, L) = doc
  BY <1>1, <1>4, OnlyAll
<1>6. Only(more, L) = doc
  BY <1>1, <1>2, <1>4, <1>5, OnlyGrows
<1> QED
  BY <1>5, <1>6 DEF Document, K, L

\* A cut is at three bytes.
LEMMA CutBytes ==
  ASSUME NEW w \in Seq(Byte)
  PROVE  Cuts(w) = {i \in 1..(Len(w) - 2) : w[i] = Close /\ w[i + 1] = Newline /\ w[i + 2] = Open}
<1>1. ASSUME NEW i \in 1..(Len(w) - 2)
      PROVE  SubSeq(w, i, i + 2) = <<Close, Newline, Open>>
               <=> w[i] = Close /\ w[i + 1] = Newline /\ w[i + 2] = Open
  <2>1. /\ Len(w) \in Nat /\ i \in Int /\ i + 2 \in Int /\ i <= i + 2 /\ (i + 2) - i + 1 = 3
        /\ \A k \in i..(i + 2) : k \in 1..Len(w) /\ w[k] \in Byte
        /\ i + 1 - 1 = i /\ i + 2 - 1 = i + 1 /\ i + 3 - 1 = i + 2
    OBVIOUS
  <2> DEFINE s == SubSeq(w, i, i + 2)
  <2>2. /\ s \in Seq(Byte) /\ Len(s) = 3
        /\ s[1] = w[i] /\ s[2] = w[i + 1] /\ s[3] = w[i + 2]
    <3>1. /\ s \in Seq(Byte)
          /\ Len(s) = IF i <= i + 2 THEN (i + 2) - i + 1 ELSE 0
          /\ \A k \in 1..((i + 2) - i + 1) : s[k] = w[i + k - 1]
      BY ONLY <2>1, SubSeqProperties
    <3> HIDE DEF s
    <3> QED
      BY <2>1, <3>1
  <2> HIDE DEF s
  <2>3. s = <<Close, Newline, Open>> => s[1] = Close /\ s[2] = Newline /\ s[3] = Open
    OBVIOUS
  <2>4. ASSUME s[1] = Close, s[2] = Newline, s[3] = Open PROVE s = <<Close, Newline, Open>>
    <3> DEFINE t == <<Close, Newline, Open>>
    <3>1. /\ t \in Seq(Byte) /\ Len(t) = 3 /\ t[1] = Close /\ t[2] = Newline /\ t[3] = Open
      BY DEF Close, Newline, Open, Byte
    <3> HIDE DEF t
    <3>2. \A k \in 1..3 : s[k] = t[k]
      BY <2>4, <3>1
    <3>3. s = t
      BY <2>2, <3>1, <3>2, SeqEqual
    <3> QED
      BY <3>3 DEF t
  <2>5. s = <<Close, Newline, Open>> <=> w[i] = Close /\ w[i + 1] = Newline /\ w[i + 2] = Open
    BY <2>2, <2>3, <2>4
  <2> QED
    BY <2>5 DEF s
<1> QED
  BY <1>1 DEF Cuts

\* Data that begins with a document and its newline, and goes on with a document if it goes on.
Begins(w, doc, next) ==
  /\ IsDocument(doc) /\ next \in Seq(Byte) /\ w = Append(doc, Newline) \o next
  /\ next # <<>> => next[1] = Open

\* The first of several documents is cut out, the last stays.
LEMMA FirstCut ==
  ASSUME NEW w, NEW doc, NEW next, Begins(w, doc, next), NEW packets
  PROVE  /\ next = <<>> => CutFirst([packets |-> packets, rest |-> w]) = [packets |-> packets, rest |-> w]
         /\ next # <<>> => CutFirst([packets |-> packets, rest |-> w])
                             = [packets |-> Append(packets, doc), rest |-> next]
<1> USE DEF Begins
<1> DEFINE n == Len(doc)
           c == Append(doc, Newline)
<1>1. /\ doc \in Seq(Byte) /\ n \in Nat /\ n > 1 /\ doc[n] = Close /\ Newline \in Byte
      /\ \A i \in 1..n : doc[i] # Newline
  <2>1. Newline \in Byte
    BY DEF Newline, Byte
  <2> QED
    BY <2>1 DEF IsDocument, Free
<1>2. /\ c \in Seq(Byte) /\ Len(c) = n + 1 /\ c[n + 1] = Newline /\ c = doc \o <<Newline>>
      /\ <<Newline>> \in Seq(Byte) /\ \A i \in 1..n : c[i] = doc[i]
  BY <1>1
<1>3. w = c \o next
  OBVIOUS
<1> HIDE DEF n, c
<1>4. /\ w \in Seq(Byte) /\ Len(w) = n + 1 + Len(next) /\ Len(next) \in Nat
      /\ \A i \in 1..(n + 1) : w[i] = c[i]
      /\ next # <<>> => w[n + 2] = next[1] /\ Len(next) >= 1
  <2>1. /\ w \in Seq(Byte) /\ Len(w) = Len(c) + Len(next) /\ Len(next) \in Nat
        /\ \A i \in 1..(Len(c) + Len(next)) :
             w[i] = IF i <= Len(c) THEN c[i] ELSE next[i - Len(c)]
    <3>1. c \in Seq(Byte) /\ next \in Seq(Byte)
      BY <1>2
    <3>2. /\ c \o next \in Seq(Byte) /\ Len(c \o next) = Len(c) + Len(next) /\ Len(next) \in Nat
          /\ \A i \in 1..(Len(c) + Len(next)) :
               (c \o next)[i] = IF i <= Len(c) THEN c[i] ELSE next[i - Len(c)]
      BY ONLY <3>1, ConcatProperties
    <3> QED
      BY <1>3, <3>2
  <2>2. next # <<>> => Len(next) >= 1
    OBVIOUS
  <2>3. ASSUME NEW i \in 1..(n + 1) PROVE w[i] = c[i]
    <3>1. i \in 1..(Len(c) + Len(next)) /\ i <= Len(c)
      BY <1>1, <1>2, <2>1
    <3> QED
      BY <2>1, <3>1
  <2>4. ASSUME next # <<>> PROVE w[n + 2] = next[1]
    <3>1. n + 2 \in 1..(Len(c) + Len(next)) /\ ~(n + 2 <= Len(c)) /\ (n + 2) - Len(c) = 1
      BY <1>1, <1>2, <2>1, <2>2, <2>4
    <3> QED
      BY <2>1, <3>1
  <2> QED
    BY <1>2, <2>1, <2>2, <2>3, <2>4
<1>5. /\ w[n + 1] = Newline /\ \A i \in 1..n : w[i] = doc[i] /\ w[i] # Newline
  BY <1>1, <1>2, <1>4
<1>6. Cuts(w) = {i \in 1..(Len(w) - 2) : w[i] = Close /\ w[i + 1] = Newline /\ w[i + 2] = Open}
  BY <1>4, CutBytes
<1>7. ASSUME next = <<>> PROVE Cuts(w) = {}
  <2>1. Len(w) - 2 = n - 1
    BY <1>1, <1>4, <1>7
  <2>2. ASSUME NEW i \in 1..(n - 1) PROVE w[i + 1] # Newline
    <3>1. i + 1 \in 1..n
      BY <1>1
    <3> QED
      BY <1>5, <3>1
  <2> QED
    BY <1>6, <2>1, <2>2
<1>8. ASSUME next # <<>> PROVE n \in Cuts(w) /\ \A i \in Cuts(w) : i \in Nat /\ n <= i
  <2>1. n \in 1..(Len(w) - 2) /\ w[n] = Close /\ w[n + 2] = Open
    BY <1>1, <1>4, <1>5, <1>8
  <2>2. ASSUME NEW i \in 1..(Len(w) - 2), w[i + 1] = Newline PROVE n <= i
    BY <1>1, <1>5, <2>2
  <2>3. n \in Cuts(w)
    BY <1>5, <1>6, <2>1
  <2>4. ASSUME NEW i \in Cuts(w) PROVE i \in Nat /\ n <= i
    <3>1. i \in Cuts(w)
      BY <2>4
    <3>2. i \in 1..(Len(w) - 2) /\ w[i + 1] = Newline
      BY ONLY <1>6, <3>1
    <3>3. i \in Nat
      BY <1>4, <3>2
    <3> QED
      BY <2>2, <3>2, <3>3
  <2> QED
    BY <2>3, <2>4
<1>9. ASSUME next # <<>> PROVE Min(Cuts(w)) = n
  <2> DEFINE C == Cuts(w)
  <2>1. n \in C /\ n \in Nat /\ \A i \in C : i \in Nat /\ n <= i
    BY <1>1, <1>8, <1>9
  <2> HIDE DEF C
  <2>2. \A x \in C : (\A y \in C : x <= y) => x = n
    BY <2>1
  <2>3. Min(C) = n
    BY <2>1, <2>2 DEF Min
  <2> QED
    BY <2>3 DEF C
<1>10. SubSeq(w, 1, n) = doc /\ SubSeq(w, n + 2, Len(w)) = next
  <2> DEFINE one == <<Newline>>
             back == one \o next
  <2>1. one \in Seq(Byte) /\ back \in Seq(Byte)
    BY <1>2
  <2>2. (doc \o one) \o next = doc \o back
    BY <1>1, <2>1, ConcatAssociative
  <2>3. w = doc \o back
    BY <1>2, <1>3, <2>2
  <2>4. SubSeq(doc \o back, 1, Len(doc)) = doc
    <3> HIDE DEF back
    <3> QED
      BY <1>1, <2>1, PrefixAndRest
  <2>5. SubSeq(c \o next, Len(c) + 1, Len(c \o next)) = next
    BY <1>2, PrefixAndRest
  <2>6. (n + 1) + 1 = n + 2
    BY <1>1
  <2> QED
    BY <1>2, <1>3, <2>3, <2>4, <2>5, <2>6 DEF n
<1> QED
  BY <1>7, <1>8, <1>9, <1>10 DEF CutFirst

\* A document with its newline is taken for a packet.
LEMMA LastLooksComplete ==
  ASSUME NEW doc, IsDocument(doc)
  PROVE  LooksComplete(Append(doc, Newline))
<1> DEFINE n == Len(doc)
           w == Append(doc, Newline)
           ending == <<Close, Newline>>
<1>1. /\ n \in Nat /\ n > 1 /\ Newline \in Byte /\ Close \in Byte
      /\ w \in Seq(Byte) /\ Len(w) = n + 1 /\ w[n] = Close /\ w[n + 1] = Newline
  <2>1. Newline \in Byte /\ Close \in Byte
    BY DEF Newline, Close, Byte
  <2> QED
    BY <2>1 DEF IsDocument
<1> HIDE DEF n, w
<1>2. Reverse(ending) = <<Newline, Close>>
  <2>1. Reverse(ending) = [i \in 1..2 |-> ending[(2 - i) + 1]]
    BY DEF Reverse
  <2> DEFINE r == [i \in 1..2 |-> ending[(2 - i) + 1]]
             t == <<Newline, Close>>
  <2>2. /\ r \in Seq(Byte) /\ Len(r) = 2 /\ r[1] = Newline /\ r[2] = Close
    BY <1>1
  <2>3. t \in Seq(Byte) /\ Len(t) = 2 /\ t[1] = Newline /\ t[2] = Close
    BY <1>1
  <2> HIDE DEF r, t
  <2>4. \A i \in 1..2 : r[i] = t[i]
    BY <2>2, <2>3
  <2>5. r = t
    BY <2>2, <2>3, <2>4, SeqEqual
  <2> QED
    BY <2>1, <2>5 DEF r, t
<1>3. /\ Reverse(w) \in Seq(Byte) /\ Len(Reverse(w)) = n + 1
      /\ Reverse(w)[1] = Newline /\ Reverse(w)[2] = Close
  <2> DEFINE r == [i \in 1..(n + 1) |-> w[((n + 1) - i) + 1]]
  <2>1. Reverse(w) = r
    BY <1>1 DEF Reverse
  <2>2. /\ \A i \in 1..(n + 1) : ((n + 1) - i) + 1 \in 1..Len(w)
        /\ 1 \in 1..(n + 1) /\ 2 \in 1..(n + 1)
        /\ ((n + 1) - 1) + 1 = n + 1 /\ ((n + 1) - 2) + 1 = n /\ n + 1 \in Nat
    BY <1>1
  <2>3. r \in [1..(n + 1) -> Byte] /\ r[1] = Newline /\ r[2] = Close
    BY <1>1, <2>2
  <2> HIDE DEF r
  <2>4. r \in Seq(Byte) /\ Len(r) = n + 1
    <3> DEFINE m == n + 1
    <3>1. m \in Nat /\ r \in [1..m -> Byte]
      BY <2>2, <2>3
    <3> HIDE DEF m
    <3>2. r \in Seq(Byte) /\ Len(r) = m
      BY ONLY <3>1
    <3> QED
      BY <3>2 DEF m
  <2> QED
    BY <2>1, <2>3, <2>4
<1>4. SubSeq(Reverse(w), 1, 2) = <<Newline, Close>>
  <2> DEFINE r == Reverse(w)
             s == SubSeq(r, 1, 2)
             t == <<Newline, Close>>
  <2>0. 1 \in Int /\ 2 \in Int /\ \A i \in 1..2 : r[i] \in Byte
    BY <1>1, <1>3
  <2> HIDE DEF r
  <2>1. s \in Seq(Byte) /\ Len(s) = 2 /\ \A i \in 1..2 : s[i] = r[i]
    BY <2>0
  <2>2. t \in Seq(Byte) /\ Len(t) = 2 /\ t[1] = Newline /\ t[2] = Close
    BY <1>1
  <2>3. r[1] = Newline /\ r[2] = Close
    BY <1>3 DEF r
  <2> HIDE DEF s, t
  <2>4. \A i \in 1..2 : s[i] = t[i]
    BY <2>1, <2>2, <2>3
  <2>5. s = t
    BY <2>1, <2>2, <2>4, SeqEqual
  <2> QED
    BY <2>5 DEF s, t, r
<1>5. LET t == <<Newline, Close>> IN Len(t) = 2 /\ SubSeq(t, 1, 2) = t
  <2> DEFINE t == <<Newline, Close>>
  <2>1. t \in Seq(Byte) /\ Len(t) = 2
    BY <1>1
  <2> HIDE DEF t
  <2>2. SubSeq(t, 1, Len(t)) = t
    BY <2>1, SubSeqFull
  <2> QED
    BY <2>1, <2>2 DEF t
<1>6. IsPrefix(Reverse(ending), Reverse(w))
  <2>1. Len(Reverse(ending)) = 2 /\ SubSeq(Reverse(ending), 1, 2) = <<Newline, Close>>
    BY <1>2, <1>5
  <2>2. 2 <= Len(Reverse(w)) /\ SubSeq(Reverse(w), 1, 2) = <<Newline, Close>>
    BY <1>1, <1>3, <1>4
  <2> HIDE DEF ending
  <2> QED
    BY <2>1, <2>2 DEF IsPrefix
<1> QED
  BY <1>6 DEF LooksComplete, IsSuffix, w

\* There is a byte of every document.
LEMMA LaidIsLong ==
  ASSUME NEW S, NEW Items, NEW code, Encodes(code, Items, S),
         \A x \in Items : code[x] # <<>>, NEW items \in Seq(Items)
  PROVE  Len(Laid(code, items)) >= Len(items)
<1> DEFINE T == {s \in Seq(Items) : Len(Laid(code, s)) >= Len(s)}
<1>e. Encodes(code, Items, S)
  OBVIOUS
<1>1. <<>> \in T
  <2>1. <<>> \in Seq(Items)
    OBVIOUS
  <2>2. Laid(code, <<>>) = <<>>
    BY ONLY <1>e, <2>1, LaidGrows
  <2> QED
    BY <2>1, <2>2
<1>2. ASSUME NEW s \in Seq(Items), NEW x \in Items, s \in T PROVE Append(s, x) \in T
  <2> DEFINE w == Laid(code, s)
             c == code[x]
             more == Append(s, x)
  <2>1. w \in Seq(S) /\ Laid(code, more) = w \o c
    BY ONLY <1>e, s \in Seq(Items), x \in Items, LaidGrows
  <2>2. c \in Seq(S) /\ c # <<>> /\ Len(w) >= Len(s)
    BY <1>2 DEF Encodes
  <2>3. more \in Seq(Items) /\ Len(more) = Len(s) + 1 /\ Len(s) \in Nat
    OBVIOUS
  <2> HIDE DEF w, c, more
  <2>4. Len(w \o c) = Len(w) + Len(c) /\ Len(c) >= 1 /\ Len(w) \in Nat /\ Len(c) \in Nat
    BY <2>1, <2>2
  <2>5. Len(Laid(code, more)) >= Len(more)
    BY <2>1, <2>2, <2>3, <2>4
  <2> QED
    BY <2>3, <2>5 DEF more
<1>3. Seq(Items) \subseteq T
  <2> HIDE DEF T
  <2> QED
    BY <1>1, <1>2, SequenceInduction
<1> QED
  BY <1>3

\* The code of a document is the document and a newline.
Newlined(code, Docs) == \A doc \in Docs : IsDocument(doc) /\ code[doc] = Append(doc, Newline)

LEMMA NewlinedEncodes ==
  ASSUME NEW Docs, NEW code, Newlined(code, Docs)
  PROVE  Encodes(code, Docs, Byte) /\ \A doc \in Docs : code[doc] # <<>>
<1>1. Newline \in Byte
  BY DEF Newline, Byte
<1>2. ASSUME NEW doc \in Docs PROVE code[doc] \in Seq(Byte) /\ code[doc] # <<>>
  <2>1. doc \in Seq(Byte) /\ code[doc] = Append(doc, Newline)
    BY DEF Newlined, IsDocument
  <2>2. Append(doc, Newline) \in Seq(Byte) /\ Append(doc, Newline) # <<>>
    BY <1>1, <2>1, AppendProperties
  <2> QED
    BY <2>1, <2>2
<1> QED
  BY <1>2 DEF Encodes

\* After i packets.
After(code, docs, i) ==
  [packets |-> SubSeq(docs, 1, i), rest |-> Laid(code, SubSeq(docs, i + 1, Len(docs)))]

\* One turn of the loop.
LEMMA CutFirstOfSeveral ==
  ASSUME NEW Docs, NEW code, Newlined(code, Docs), NEW docs \in Seq(Docs),
         NEW i \in 0..(Len(docs) - 1)
  PROVE  CutFirst(After(code, docs, i)) = After(code, docs, IF i < Len(docs) - 1 THEN i + 1 ELSE i)
<1> DEFINE n == Len(docs)
           s == SubSeq(docs, i + 1, n)
           t == SubSeq(docs, i + 2, n)
           front == SubSeq(docs, 1, i)
           doc == docs[i + 1]
<1>e. Encodes(code, Docs, Byte)
  BY NewlinedEncodes
<1>1. /\ n \in Nat /\ n >= 1 /\ i \in Nat /\ i + 1 \in 1..n /\ doc \in Docs
      /\ \A k \in 1..n : docs[k] \in Docs
  OBVIOUS
<1>2. /\ s \in Seq(Docs) /\ s # <<>> /\ Head(s) = doc /\ Tail(s) = t /\ t \in Seq(Docs)
      /\ t = <<>> <=> i = n - 1
      /\ i < n - 1 => Head(t) = docs[i + 2] /\ docs[i + 2] \in Docs
  <2>1. Head(s) = doc /\ Tail(s) = t
    <3>1. i + 1 \in 1..Len(docs) /\ Len(docs) \in (i + 1)..Len(docs) /\ (i + 1) + 1 = i + 2
      BY <1>1
    <3>2. Head(SubSeq(docs, i + 1, Len(docs))) = docs[i + 1]
          /\ Tail(SubSeq(docs, i + 1, Len(docs))) = SubSeq(docs, (i + 1) + 1, Len(docs))
      BY <3>1, HeadTailOfSubSeq
    <3> QED
      BY <3>1, <3>2
  <2>2. /\ s \in Seq(Docs) /\ Len(s) = n - i
    <3>1. i + 1 \in Int /\ n \in Int /\ i + 1 <= n /\ n - (i + 1) + 1 = n - i
          /\ \A k \in (i + 1)..n : docs[k] \in Docs
      BY <1>1
    <3> HIDE DEF n
    <3> QED
      BY <3>1, SubSeqProperties
  <2>3. s # <<>> /\ t \in Seq(Docs) /\ Len(t) = n - i - 1
    <3> HIDE DEF s, t, n, doc
    <3>0. n - i > 0 /\ Len(<<>>) = 0
      BY <1>1
    <3>1. s # <<>>
      BY ONLY <2>2, <3>0
    <3> QED
      BY <1>1, <2>1, <2>2, <3>1, HeadTailProperties
  <2>4. t = <<>> <=> i = n - 1
    <3> HIDE DEF s, t, n
    <3> QED
      BY <1>1, <2>3
  <2>5. ASSUME i < n - 1 PROVE Head(t) = docs[i + 2] /\ docs[i + 2] \in Docs
    <3>1. i + 2 \in 1..Len(docs) /\ Len(docs) \in (i + 2)..Len(docs)
      BY <1>1, <2>5
    <3> QED
      BY <1>1, <3>1, HeadTailOfSubSeq
  <2> QED
    BY <2>1, <2>2, <2>3, <2>4, <2>5
<1>3. /\ front \in Seq(Docs)
      /\ i < n - 1 => SubSeq(docs, 1, i + 1) = Append(front, doc)
  <2>1. front \in Seq(Docs)
    <3>1. 1 \in Int /\ i \in Int /\ (1 <= i \/ i = 0) /\ \A k \in 1..i : docs[k] \in Docs
      BY <1>1
    <3> QED
      BY <3>1, SubSeqProperties
  <2>2. SubSeq(docs, 1, i + 1) = SubSeq(docs, 1, (i + 1) - 1) \o <<docs[i + 1]>> /\ (i + 1) - 1 = i
    <3>1. 1 \in 1..Len(docs) /\ i + 1 \in 1..Len(docs) /\ (i + 1) - 1 = i
      BY <1>1
    <3> QED
      BY <3>1, SubSeqRecursiveSecond
  <2> HIDE DEF front, doc
  <2>3. Append(front, doc) = front \o <<doc>>
    BY <1>1, <2>1, AppendIsConcat
  <2> QED
    BY <2>1, <2>2, <2>3 DEF front, doc
<1> HIDE DEF s, t, front, doc, n
<1>4. Laid(code, s) = Append(doc, Newline) \o Laid(code, t) /\ Laid(code, t) \in Seq(Byte)
      /\ IsDocument(doc)
  <2>1. Laid(code, s) = code[Head(s)] \o Laid(code, Tail(s))
    BY ONLY <1>e, <1>2, LaidHead
  <2>2. Laid(code, t) \in Seq(Byte)
    BY ONLY <1>e, <1>2, LaidGrows
  <2> QED
    BY <1>1, <1>2, <2>1, <2>2 DEF Newlined
<1>5. Laid(code, t) # <<>> <=> t # <<>>
  <2>1. Len(Laid(code, t)) >= Len(t)
    BY <1>2, NewlinedEncodes, LaidIsLong
  <2>2. t = <<>> => Laid(code, t) = <<>>
    BY ONLY <1>e, <1>2, LaidGrows
  <2> QED
    BY <1>2, <1>4, <2>1, <2>2
<1>6. ASSUME t # <<>> PROVE Laid(code, t)[1] = Open
  <2> DEFINE d == Head(t)
             rest == Laid(code, Tail(t))
             c == Append(d, Newline)
  <2>1. d \in Docs /\ Tail(t) \in Seq(Docs)
    BY <1>2, <1>6, HeadTailProperties
  <2>2. Laid(code, t) = code[d] \o rest
    <3>1. Laid(code, t) = code[Head(t)] \o Laid(code, Tail(t))
      <4>1. t \in Seq(Docs) /\ t # <<>>
        BY <1>2, <1>6
      <4> QED
        BY ONLY <1>e, <4>1, LaidHead
    <3> QED
      BY <3>1
  <2>3. rest \in Seq(Byte)
    BY ONLY <1>e, <2>1, LaidGrows
  <2>4. d \in Seq(Byte) /\ Len(d) > 1 /\ d[1] = Open /\ code[d] = c /\ Newline \in Byte
    BY <2>1 DEF Newlined, IsDocument, Newline, Byte
  <2>5. c \in Seq(Byte) /\ Len(c) >= 1 /\ c[1] = Open
    <3> HIDE DEF d
    <3> QED
      BY <2>4
  <2> HIDE DEF c, rest
  <2>6. (c \o rest)[1] = c[1]
    BY <2>3, <2>5
  <2> QED
    BY <2>2, <2>4, <2>5, <2>6
<1>7. After(code, docs, i) = [packets |-> front, rest |-> Laid(code, s)]
  BY DEF After, front, s, n
<1>c. /\ t = <<>> => CutFirst([packets |-> front, rest |-> Laid(code, s)])
                        = [packets |-> front, rest |-> Laid(code, s)]
      /\ t # <<>> => CutFirst([packets |-> front, rest |-> Laid(code, s)])
                        = [packets |-> Append(front, doc), rest |-> Laid(code, t)]
  <2> DEFINE w == Laid(code, s)
             next == Laid(code, t)
  <2>1. /\ IsDocument(doc) /\ next \in Seq(Byte) /\ w = Append(doc, Newline) \o next
        /\ next # <<>> <=> t # <<>>
        /\ next # <<>> => next[1] = Open
    BY <1>4, <1>5, <1>6
  <2> HIDE DEF w, next
  <2>2. /\ next = <<>> => CutFirst([packets |-> front, rest |-> w]) = [packets |-> front, rest |-> w]
        /\ next # <<>> => CutFirst([packets |-> front, rest |-> w])
                            = [packets |-> Append(front, doc), rest |-> next]
    <3>1. Begins(w, doc, next)
      BY <2>1 DEF Begins
    <3> QED
      BY ONLY <3>1, FirstCut
  <2> QED
    BY <2>1, <2>2 DEF w, next
<1>8. CASE t = <<>>
  <2>1. CutFirst([packets |-> front, rest |-> Laid(code, s)]) = [packets |-> front, rest |-> Laid(code, s)]
    BY <1>8, <1>c
  <2> QED
    BY <1>1, <1>2, <1>7, <1>8, <2>1 DEF n
<1>9. CASE t # <<>>
  <2>1. CutFirst([packets |-> front, rest |-> Laid(code, s)])
          = [packets |-> Append(front, doc), rest |-> Laid(code, t)]
    BY <1>9, <1>c
  <2>2. i < n - 1 /\ (i + 1) + 1 = i + 2
    BY <1>1, <1>2, <1>9
  <2>3. After(code, docs, i + 1) = [packets |-> Append(front, doc), rest |-> Laid(code, t)]
    BY <1>3, <2>2 DEF After, t, n
  <2> QED
    BY <1>7, <2>1, <2>2, <2>3 DEF n
<1> QED
  BY <1>8, <1>9

\* The loop, turn by turn.
Cutting(data, split) ==
  split = [n \in 0..Len(data) |->
            IF n = 0 THEN [packets |-> <<>>, rest |-> data] ELSE CutFirst(split[n - 1])]

LEMMA CutsUpToTheLast ==
  ASSUME NEW Docs, NEW code, Newlined(code, Docs), NEW docs \in Seq(Docs), docs # <<>>
  PROVE  CutAll(Laid(code, docs)) = After(code, docs, Len(docs) - 1)
<1> DEFINE w == Laid(code, docs)
           L == Len(w)
           n == Len(docs)
           at(m) == IF m < n - 1 THEN m ELSE n - 1
           g == [m \in 0..L |-> After(code, docs, at(m))]
<1>1. CutAll(w) = (CHOOSE split : Cutting(w, split))[L]
  BY DEF CutAll, Cutting
<1>2. n \in Nat /\ n >= 1 /\ w \in Seq(Byte) /\ L \in Nat /\ L >= n
  <2>1. Encodes(code, Docs, Byte) /\ \A doc \in Docs : code[doc] # <<>>
    BY NewlinedEncodes
  <2>2. w \in Seq(Byte)
    BY ONLY <2>1, docs \in Seq(Docs), LaidGrows
  <2>3. L >= n
    BY ONLY <2>1, docs \in Seq(Docs), LaidIsLong
  <2> HIDE DEF w
  <2> QED
    BY <2>2, <2>3
<1>3. After(code, docs, 0) = [packets |-> <<>>, rest |-> w]
  <2>1. SubSeq(docs, 1, 0) = <<>>
    BY SubSeqEmpty
  <2>2. SubSeq(docs, 0 + 1, Len(docs)) = docs
    BY SubSeqFull
  <2> QED
    BY <2>1, <2>2 DEF After
<1> HIDE DEF w, L
<1>4. g[0] = [packets |-> <<>>, rest |-> w]
  <2>1. 0 \in 0..L /\ at(0) = 0
    <3> HIDE DEF n, g
    <3> QED
      BY <1>2
  <2> HIDE DEF at
  <2> QED
    BY <1>3, <2>1
<1>5. ASSUME NEW m \in 1..L PROVE g[m] = CutFirst(g[m - 1])
  <2>1. m - 1 \in 0..L /\ m \in 0..L /\ at(m - 1) \in 0..(n - 1)
        /\ at(m) = IF at(m - 1) < n - 1 THEN at(m - 1) + 1 ELSE at(m - 1)
    BY <1>2
  <2> HIDE DEF at
  <2>2. g[m] = After(code, docs, at(m)) /\ g[m - 1] = After(code, docs, at(m - 1))
    BY <2>1
  <2> HIDE DEF g
  <2> DEFINE i == at(m - 1)
  <2>3. i \in 0..(Len(docs) - 1)
    BY <2>1
  <2> HIDE DEF i
  <2>4. CutFirst(After(code, docs, i)) = After(code, docs, IF i < Len(docs) - 1 THEN i + 1 ELSE i)
    BY <2>3, CutFirstOfSeveral
  <2> QED
    BY <2>1, <2>2, <2>4 DEF i
<1>6. Cutting(w, g)
  <2> DEFINE h == [m \in 0..L |-> IF m = 0 THEN [packets |-> <<>>, rest |-> w] ELSE CutFirst(g[m - 1])]
  <2>1. \A m \in 0..L : g[m] = IF m = 0 THEN [packets |-> <<>>, rest |-> w] ELSE CutFirst(g[m - 1])
    <3> HIDE DEF g
    <3> QED
      BY <1>2, <1>4, <1>5
  <2>2. g = [m \in 0..L |-> g[m]]
    OBVIOUS
  <2> HIDE DEF g
  <2>3. h = [m \in 0..L |-> g[m]]
    BY <2>1
  <2> QED
    BY <2>2, <2>3 DEF Cutting, L
<1>7. g[L] = After(code, docs, n - 1)
  <2>1. L \in 0..L /\ at(L) = n - 1
    BY <1>2
  <2> HIDE DEF at
  <2> QED
    BY <2>1
<1> HIDE DEF g
<1>8. ASSUME NEW f, Cutting(w, f) PROVE f[L] = g[L]
  <2>1. /\ f[0] = [packets |-> <<>>, rest |-> w]
        /\ \A m \in 1..L : f[m] = CutFirst(f[m - 1])
    <3>1. \A m \in 0..L : f[m] = IF m = 0 THEN [packets |-> <<>>, rest |-> w] ELSE CutFirst(f[m - 1])
      BY <1>8 DEF Cutting, L
    <3>2. 0 \in 0..L /\ \A m \in 1..L : m \in 0..L /\ m # 0
      BY <1>2
    <3> QED
      BY <3>1, <3>2
  <2>2. SameTurns(f, g, L) /\ L \in Nat
    BY <1>2, <1>4, <1>5, <2>1 DEF SameTurns
  <2>3. \A m \in 0..L : f[m] = g[m]
    BY ONLY <2>2, CoursesAgree, Zenon
  <2> QED
    BY <1>2, <2>3
<1>9. Cutting(w, CHOOSE split : Cutting(w, split))
  BY <1>6
<1> QED
  BY <1>1, <1>7, <1>8, <1>9 DEF w, n

\* TransportClient and JsonRpcClient: the documents that were sent, each with its newline,
\* and which are read whole are the packets that are cut out, and nothing is left.
THEOREM SplitsWhatWasSent ==
  ASSUME NEW Docs, NEW code, Newlined(code, Docs), NEW docs \in Seq(Docs), docs # <<>>
  PROVE  LET split == SplitPackets(Laid(code, docs)) IN
         /\ split.rest = <<>>
         /\ [k \in DOMAIN split.packets |-> Document(split.packets[k])] = docs
<1> DEFINE n == Len(docs)
           last == docs[n]
           first == SubSeq(docs, 1, n - 1)
           packets == Append(first, Append(last, Newline))
<1>1. n \in Nat /\ n >= 1 /\ last \in Docs /\ n \in 1..n
  OBVIOUS
<1>2. IsDocument(last) /\ last \in Seq(Byte) /\ Append(last, Newline) \in Seq(Byte)
  <2>1. IsDocument(last) /\ Newline \in Byte
    BY <1>1 DEF Newlined, Newline, Byte
  <2> HIDE DEF last
  <2> QED
    BY <2>1 DEF IsDocument
<1>3. Laid(code, SubSeq(docs, (n - 1) + 1, n)) = Append(last, Newline)
  <2>1. (n - 1) + 1 = n /\ n \in 1..Len(docs)
    BY <1>1
  <2>2. SubSeq(docs, n, n) = <<last>>
    <3>1. SubSeq(docs, n, n) = <<docs[n]>> \o SubSeq(docs, n + 1, n) /\ n \in Int /\ n + 1 > n
      BY <1>1, <2>1, SubSeqRecursiveFirst
    <3>2. SubSeq(docs, n + 1, n) = <<>>
      <4> HIDE DEF n
      <4> QED
        BY <3>1, SubSeqEmpty
    <3>3. <<docs[n]>> \o <<>> = <<docs[n]>>
      BY <1>1, ConcatEmptySeq
    <3> QED
      BY <3>1, <3>2, <3>3
  <2>3. Laid(code, <<last>>) = code[last]
    <3> DEFINE none == <<>>
               x == last
    <3>1. Encodes(code, Docs, Byte) /\ none \in Seq(Docs) /\ x \in Docs /\ <<x>> = Append(none, x)
      BY <1>1, NewlinedEncodes
    <3> HIDE DEF none, x
    <3>2. Laid(code, Append(none, x)) = Laid(code, none) \o code[x] /\ Laid(code, <<>>) = <<>>
      BY ONLY <3>1, LaidGrows
    <3>3. <<>> \o code[x] = code[x]
      BY <3>1, ConcatEmptySeq DEF Encodes
    <3>4. Laid(code, <<x>>) = code[x]
      BY <3>1, <3>2, <3>3 DEF none
    <3> QED
      BY <3>4 DEF x
  <2> QED
    BY <1>1, <2>1, <2>2, <2>3 DEF Newlined
<1>4. SplitPackets(Laid(code, docs)) = [packets |-> packets, rest |-> <<>>]
  <2>1. CutAll(Laid(code, docs)) = [packets |-> first, rest |-> Append(last, Newline)]
    <3>1. CutAll(Laid(code, docs)) = After(code, docs, n - 1)
      BY CutsUpToTheLast
    <3> HIDE DEF last
    <3> QED
      BY <1>3, <3>1 DEF After
  <2>2. LooksComplete(Append(last, Newline))
    BY <1>2, LastLooksComplete
  <2> HIDE DEF first, last
  <2> QED
    BY <2>1, <2>2 DEF SplitPackets
<1>5. /\ first \in Seq(Docs) /\ Len(first) = n - 1 /\ \A k \in 1..(n - 1) : first[k] = docs[k]
  <2>1. 1 \in Int /\ n - 1 \in Int /\ (1 <= n - 1 \/ n - 1 = 0)
        /\ (n - 1) - 1 + 1 = n - 1 /\ \A k \in 1..(n - 1) : docs[k] \in Docs /\ 1 + k - 1 = k
    <3>1. \A k \in 1..n : docs[k] \in Docs
      OBVIOUS
    <3> HIDE DEF n, last, first, packets
    <3> QED
      BY <1>1, <3>1
  <2>2. /\ first \in Seq(Docs)
        /\ Len(first) = IF 1 <= n - 1 THEN (n - 1) - 1 + 1 ELSE 0
        /\ \A k \in 1..((n - 1) - 1 + 1) : first[k] = docs[1 + k - 1]
    BY ONLY <2>1, SubSeqProperties
  <2> HIDE DEF first
  <2> QED
    BY <2>1, <2>2
<1>6. /\ packets \in Seq(Seq(Byte)) /\ DOMAIN packets = 1..n
      /\ packets[n] = Append(last, Newline) /\ \A k \in 1..(n - 1) : packets[k] = docs[k]
  <2>1. first \in Seq(Seq(Byte))
    <3>1. Docs \subseteq Seq(Byte)
      BY DEF Newlined, IsDocument
    <3> HIDE DEF first
    <3> QED
      BY <1>5, <3>1
  <2> HIDE DEF first, last
  <2> QED
    BY <1>1, <1>2, <1>5, <2>1
<1>7. ASSUME NEW k \in 1..n PROVE Document(packets[k]) = docs[k]
  <2>1. CASE k = n
    BY <1>2, <1>6, <2>1, DocumentOfPacket
  <2>2. CASE k # n
    <3>1. k \in 1..(n - 1) /\ docs[k] \in Docs
      BY <1>1, <2>2
    <3>2. IsDocument(docs[k])
      BY <3>1 DEF Newlined
    <3> HIDE DEF packets
    <3> QED
      BY <1>6, <3>1, <3>2, DocumentOfPacket
  <2> QED
    BY <2>1, <2>2
<1>8. docs = [k \in 1..n |-> docs[k]]
  OBVIOUS
<1>9. [k \in DOMAIN packets |-> Document(packets[k])] = [k \in 1..n |-> docs[k]]
  <2> HIDE DEF packets, n
  <2> QED
    BY <1>6, <1>7
<1> HIDE DEF packets
<1> QED
  BY <1>4, <1>8, <1>9

-----------------------------------------------------------------------------
(* The stream to the proxy (ServerUplink).                                 *)

\* The operators of the codec and of the packets are the same in the modules of both
\* streams.
LEMMA SameInUplink ==
  /\ Up!Transposed = Transposed /\ Up!ProtocolByteEnd = ProtocolByteEnd
  /\ \A seqs : Up!FlattenSeq(seqs) = FlattenSeq(seqs)
  /\ \A data : Up!SerializeData(data) = SerializeData(data)
  /\ \A data : Up!DeserializeData(data) = DeserializeData(data)
  /\ \A f : Up!BuildFrame(f) = BuildFrame(f)
  /\ \A data : Up!ParseFrame(data) = ParseFrame(data)
  /\ \A seq, S : Up!Only(seq, S) = Only(seq, S)
  /\ \A packet : Up!Document(packet) = Document(packet)
  /\ \A data : Up!SplitPackets(data) = SplitPackets(data)
  /\ Up!Newline = Newline /\ Up!Open = Open /\ Up!Close = Close
  /\ \A s, t : Up!IsPrefix(s, t) = IsPrefix(s, t)
  /\ \A f : Up!Range(f) = Range(f)
<1>1. /\ Up!ProtocolByteEnd = ProtocolByteEnd /\ Up!ProtocolByteEsc = ProtocolByteEsc
      /\ Up!Transposed = Transposed
  BY DEF Up!Transposed, Transposed, Up!ProtocolByteEnd, ProtocolByteEnd, Up!ProtocolByteEsc,
    ProtocolByteEsc, Up!ProtocolByteTransposedEsc, ProtocolByteTransposedEsc,
    Up!ProtocolByteTransposedEnd, ProtocolByteTransposedEnd
<1>2. ASSUME NEW S PROVE Up!SetToSeq(S) = SetToSeq(S)
  BY DEF SetToSeq, Up!SetToSeq, Up!IsInjective, IsInjective, Up!Cardinality, Cardinality
<1>3. ASSUME NEW seqs PROVE Up!FlattenSeq(seqs) = FlattenSeq(seqs)
  BY DEF FlattenSeq, Up!FlattenSeq
<1>4. ASSUME NEW r, NEW byte PROVE Up!ReadByte(r, byte) = ReadByte(r, byte)
  BY <1>1, <1>2 DEF Up!ReadByte, ReadByte
<1>5. ASSUME NEW data PROVE Up!DeserializeData(data) = DeserializeData(data)
  BY <1>4 DEF Up!DeserializeData, DeserializeData
<1>6. ASSUME NEW data PROVE Up!SerializeData(data) = SerializeData(data)
  <2>1. \A byte : Up!WriteByte(byte) = WriteByte(byte)
    BY <1>1 DEF Up!WriteByte, WriteByte
  <2> QED
    BY <1>1, <1>3, <2>1 DEF Up!SerializeData, SerializeData
<1>7. ASSUME NEW f PROVE Up!BuildFrame(f) = BuildFrame(f) /\ Up!ParseFrame(f) = ParseFrame(f)
  BY DEF Up!BuildFrame, BuildFrame, Up!ParseFrame, ParseFrame
<1>8. Up!Newline = Newline /\ Up!Open = Open /\ Up!Close = Close
  BY DEF Up!Newline, Newline, Up!Open, Open, Up!Close, Close
<1>9. ASSUME NEW s, NEW t
      PROVE  /\ Up!IsPrefix(s, t) = IsPrefix(s, t) /\ Up!IsSuffix(s, t) = IsSuffix(s, t)
             /\ Up!Range(s) = Range(s) /\ Up!Min(s) = Min(s)
  BY DEF Up!IsPrefix, IsPrefix, Up!IsSuffix, IsSuffix, Up!Reverse, Reverse, Up!Range, Range,
    Up!Min, Min
<1>10. ASSUME NEW seq, NEW S PROVE Up!Only(seq, S) = Only(seq, S)
  BY <1>3 DEF Up!Only, Only
<1>11. ASSUME NEW packet PROVE Up!Document(packet) = Document(packet)
  BY <1>8, <1>9, <1>10 DEF Up!Document, Document
<1>12. ASSUME NEW data PROVE Up!SplitPackets(data) = SplitPackets(data)
  <2>1. ASSUME NEW w PROVE Up!Cuts(w) = Cuts(w)
    BY <1>8 DEF Up!Cuts, Cuts
  <2>2. ASSUME NEW split PROVE Up!CutFirst(split) = CutFirst(split)
    BY <1>9, <2>1 DEF Up!CutFirst, CutFirst
  <2>3. ASSUME NEW w PROVE Up!CutAll(w) = CutAll(w)
    BY <2>2 DEF Up!CutAll, CutAll
  <2>4. ASSUME NEW w PROVE Up!LooksComplete(w) = LooksComplete(w)
    BY <1>8, <1>9 DEF Up!LooksComplete, LooksComplete
  <2> QED
    BY <2>3, <2>4 DEF Up!SplitPackets, SplitPackets
<1> QED
  BY <1>1, <1>3, <1>5, <1>6, <1>7, <1>8, <1>9, <1>10, <1>11, <1>12

\* What the theorem is about: every request arrives whole; the frames that are sent have
\* addresses of 16 bits and hold no byte that SLIP escapes, in their address or their data
\* (the proxy does not restore it); what is encoded wrongly is recognized by deserializeData.
UplinkHypothesis ==
  /\ ~FragmentRequests
  /\ \A f \in Frames :
       /\ f \in [address : Address, data : Seq(Byte)]
       /\ Free(ProtocolByteEnd, BuildFrame(f)) /\ Free(ProtocolByteEsc, BuildFrame(f))
  /\ \A code \in InconsistentFrames :
       /\ code \in Seq(Byte) /\ Free(ProtocolByteEnd, code)
       /\ Read(code).at = "inconsistent"

\* What is sent before SLIP is on, and after it.
UpRequests == {Up!request(doc) : doc \in Up!Requests}
UpFrames   == {Up!frame(f) : f \in Frames}
UpFaulty   == {Up!faulty(code) : code \in InconsistentFrames}
SlipItems  == UpFrames \cup UpFaulty
UpItems    == UpRequests \cup SlipItems

\* Its bytes on the wire: up to the byte that ends it, and with it.
UpBody == [x \in UpItems |-> IF x.kind = "frame" THEN BuildFrame(x.content) ELSE x.content]
UpCode ==
  [x \in UpItems |-> Append(UpBody[x], IF x.kind = "request" THEN Newline ELSE ProtocolByteEnd)]

\* Without protocol bytes nothing is escaped.
LEMMA PlainBody ==
  ASSUME NEW data \in Seq(Byte), Free(ProtocolByteEnd, data), Free(ProtocolByteEsc, data)
  PROVE  Body(data) = data
<1> DEFINE T == {s \in Seq(Byte) : (\A i \in DOMAIN s : s[i] \notin DOMAIN Transposed) => Body(s) = s}
<1>1. <<>> \in T
  BY BodyFacts
<1>2. ASSUME NEW s \in Seq(Byte), NEW x \in Byte, s \in T PROVE Append(s, x) \in T
  <2> DEFINE more == Append(s, x)
  <2>1. /\ more \in Seq(Byte) /\ DOMAIN s = 1..Len(s) /\ DOMAIN more = 1..(Len(s) + 1)
        /\ more[Len(s) + 1] = x /\ \A i \in 1..Len(s) : more[i] = s[i]
        /\ Len(s) \in Nat /\ more = s \o <<x>>
    OBVIOUS
  <2>2. Body(more) = Body(s) \o WriteByte(x)
    BY BodyFacts
  <2> HIDE DEF more
  <2>3. ASSUME \A i \in DOMAIN more : more[i] \notin DOMAIN Transposed PROVE Body(more) = more
    <3>1. x \notin DOMAIN Transposed /\ \A i \in DOMAIN s : s[i] \notin DOMAIN Transposed
      BY <2>1, <2>3
    <3>2. Body(s) = s
      BY <1>2, <3>1
    <3> QED
      BY <2>1, <2>2, <3>1, <3>2, WriteByteFacts
  <2> QED
    BY <2>1, <2>3 DEF more
<1>3. Seq(Byte) \subseteq T
  <2> HIDE DEF T
  <2> QED
    BY <1>1, <1>2, SequenceInduction
<1>4. \A i \in DOMAIN data : data[i] \notin DOMAIN Transposed
  BY TransposedFacts DEF Free
<1> QED
  BY <1>3, <1>4

\* The requests are documents.
LEMMA RequestsAreDocuments ==
  \A doc \in Up!Requests : IsDocument(doc)
<1>1. Up!Open = Open /\ Up!Close = Close
  BY SameInUplink
<1>2. ASSUME NEW doc, doc = <<Open, 1, Close>> PROVE IsDocument(doc)
  <2>1. /\ doc \in Seq(Byte) /\ Len(doc) = 3 /\ DOMAIN doc = 1..3
        /\ doc[1] = Open /\ doc[2] = 1 /\ doc[3] = Close
    BY <1>2 DEF Open, Close, Byte
  <2> QED
    BY <2>1 DEF IsDocument, Free, Newline, Open, Close
<1>3. ASSUME NEW doc, doc = <<Open, 2, Open, 3, Close, Close>> PROVE IsDocument(doc)
  <2>1. /\ doc \in Seq(Byte) /\ Len(doc) = 6 /\ DOMAIN doc = 1..6
        /\ doc[1] = Open /\ doc[2] = 2 /\ doc[3] = Open /\ doc[4] = 3 /\ doc[5] = Close
        /\ doc[6] = Close
    BY <1>3 DEF Open, Close, Byte
  <2> QED
    BY <2>1 DEF IsDocument, Free, Newline, Open, Close
<1> QED
  BY <1>1, <1>2, <1>3 DEF Up!Requests, Up!Hello, Up!RegisterServer

\* The bytes of each item.
LEMMA UpCodes ==
  ASSUME UplinkHypothesis
  PROVE  /\ \A doc \in Up!Requests :
              /\ Up!request(doc) \in UpRequests
              /\ UpCode[Up!request(doc)] = Append(doc, Newline)
         /\ \A f \in Frames :
              /\ Up!frame(f) \in UpFrames
              /\ UpBody[Up!frame(f)] = BuildFrame(f)
              /\ UpCode[Up!frame(f)] = SerializeData(BuildFrame(f))
         /\ \A code \in InconsistentFrames :
              /\ Up!faulty(code) \in UpFaulty
              /\ UpBody[Up!faulty(code)] = code
              /\ UpCode[Up!faulty(code)] = Append(code, ProtocolByteEnd)
<1>1. ASSUME NEW doc \in Up!Requests
      PROVE  /\ Up!request(doc) \in UpRequests
             /\ UpCode[Up!request(doc)] = Append(doc, Newline)
  BY DEF UpCode, UpBody, UpItems, UpRequests, Up!request
<1>2. ASSUME NEW f \in Frames
      PROVE  /\ Up!frame(f) \in UpFrames
             /\ UpBody[Up!frame(f)] = BuildFrame(f)
             /\ UpCode[Up!frame(f)] = Append(BuildFrame(f), ProtocolByteEnd)
  BY DEF UpCode, UpBody, UpItems, SlipItems, UpFrames, Up!frame
<1>3. ASSUME NEW code \in InconsistentFrames
      PROVE  /\ Up!faulty(code) \in UpFaulty
             /\ UpBody[Up!faulty(code)] = code
             /\ UpCode[Up!faulty(code)] = Append(code, ProtocolByteEnd)
  BY DEF UpCode, UpBody, UpItems, SlipItems, UpFaulty, Up!faulty
<1>4. ASSUME NEW f \in Frames PROVE SerializeData(BuildFrame(f)) = Append(BuildFrame(f), ProtocolByteEnd)
  <2>1. /\ f \in [address : Address, data : Seq(Byte)]
        /\ Free(ProtocolByteEnd, BuildFrame(f)) /\ Free(ProtocolByteEsc, BuildFrame(f))
    BY DEF UplinkHypothesis
  <2>2. BuildFrame(f) \in Seq(Byte)
    BY <2>1, ParsesWhatWasBuilt
  <2> DEFINE d == BuildFrame(f)
  <2> HIDE DEF d
  <2>3. SerializeData(d) = Append(Body(d), ProtocolByteEnd) /\ Body(d) = d
    BY <2>1, <2>2, EndIsLast, PlainBody DEF d
  <2> QED
    BY <2>3 DEF d
<1> QED
  BY <1>1, <1>2, <1>3, <1>4

\* Requests end in a newline, frames and faulty codes in the end byte of SLIP.
LEMMA UpItemsEnd ==
  ASSUME UplinkHypothesis
  PROVE  /\ Ended(Newline, UpBody, UpCode, UpRequests, Byte)
         /\ Ended(ProtocolByteEnd, UpBody, UpCode, SlipItems, Byte)
         /\ Encodes(UpCode, UpItems, Byte)
<1>0. Newline \in Byte /\ ProtocolByteEnd \in Byte
  BY DEF Newline, Byte, ProtocolByteEnd
<1>1. ASSUME NEW x \in UpRequests
      PROVE  /\ UpBody[x] \in Seq(Byte) /\ Free(Newline, UpBody[x]) /\ UpCode[x] \in Seq(Byte)
             /\ UpCode[x] = Append(UpBody[x], Newline)
  <2>1. PICK doc \in Up!Requests : x = Up!request(doc)
    BY DEF UpRequests
  <2>2. UpBody[x] = doc /\ UpCode[x] = Append(doc, Newline)
    BY <2>1, UpCodes DEF UpBody, UpItems, Up!request
  <2>3. IsDocument(doc)
    BY RequestsAreDocuments
  <2>4. doc \in Seq(Byte) /\ Free(Newline, doc)
    BY <2>3 DEF IsDocument
  <2>5. Append(doc, Newline) \in Seq(Byte)
    BY <1>0, <2>4, AppendProperties
  <2> QED
    BY <2>2, <2>4, <2>5
<1>2. ASSUME NEW x \in SlipItems
      PROVE  /\ UpBody[x] \in Seq(Byte) /\ Free(ProtocolByteEnd, UpBody[x])
             /\ UpCode[x] = Append(UpBody[x], ProtocolByteEnd)
  <2>1. CASE x \in UpFrames
    <3>1. PICK f \in Frames : x = Up!frame(f)
      BY <2>1 DEF UpFrames
    <3>2. /\ f \in [address : Address, data : Seq(Byte)]
          /\ Free(ProtocolByteEnd, BuildFrame(f))
      BY DEF UplinkHypothesis
    <3>3. BuildFrame(f) \in Seq(Byte)
      BY <3>2, ParsesWhatWasBuilt
    <3>4. UpCode[x] = Append(UpBody[x], ProtocolByteEnd)
      BY <3>1 DEF UpCode, UpItems, SlipItems, UpFrames, Up!frame
    <3> QED
      BY <3>1, <3>2, <3>3, <3>4, UpCodes
  <2>2. CASE x \in UpFaulty
    <3>1. PICK code \in InconsistentFrames : x = Up!faulty(code)
      BY <2>2 DEF UpFaulty
    <3>2. code \in Seq(Byte) /\ Free(ProtocolByteEnd, code)
      BY DEF UplinkHypothesis
    <3> QED
      BY <3>1, <3>2, UpCodes
  <2> QED
    BY <2>1, <2>2 DEF SlipItems
<1>3. ASSUME NEW x \in SlipItems PROVE UpCode[x] \in Seq(Byte)
  <2>1. Append(UpBody[x], ProtocolByteEnd) \in Seq(Byte)
    BY <1>0, <1>2, AppendProperties
  <2> QED
    BY <1>2, <2>1
<1>4. Ended(Newline, UpBody, UpCode, UpRequests, Byte)
  BY <1>1 DEF Ended
<1>5. Ended(ProtocolByteEnd, UpBody, UpCode, SlipItems, Byte)
  BY <1>2, <1>3 DEF Ended
<1>6. Encodes(UpCode, UpItems, Byte)
  BY <1>1, <1>3 DEF Encodes, UpItems
<1> QED
  BY <1>4, <1>5, <1>6

\* With SLIP on: what is pending is in the buffer, of which no end byte is a part, and on
\* the wire; or the buffer has begun with a faulty code, and it is never cleared again.
Framing(pending, buffer, wait) ==
  /\ pending \in Seq(SlipItems) /\ buffer \in Seq(Byte) /\ wait \in Seq(Byte)
  /\ Free(ProtocolByteEnd, buffer)
  /\ \/ buffer \o wait = Laid(UpCode, pending)
     \/ pending # <<>> /\ Head(pending) \in UpFaulty /\ Read(buffer).at = "inconsistent"

\* What is inconsistent stays so.
LEMMA StaysInconsistent ==
  ASSUME NEW buffer \in Seq(Byte), Read(buffer).at = "inconsistent"
  PROVE  /\ \A byte \in Byte : Read(Append(buffer, byte)).at = "inconsistent"
         /\ Free(ProtocolByteEnd, buffer) => DeserializeData(buffer) = <<>>
<1>1. ASSUME NEW byte \in Byte PROVE Read(Append(buffer, byte)).at = "inconsistent"
  <2>1. Read(Append(buffer, byte)) = ReadByte(Read(buffer), byte)
    BY ReadFacts
  <2> DEFINE r == Read(buffer)
  <2>2. r.at = "inconsistent"
    OBVIOUS
  <2> HIDE DEF r
  <2>3. ReadByte(r, byte) = r
    BY <2>2 DEF ReadByte
  <2> QED
    BY <2>1, <2>2, <2>3 DEF r
<1>2. ASSUME Free(ProtocolByteEnd, buffer) PROVE DeserializeData(buffer) = <<>>
  <2>1. ProtocolByteEnd \notin Range(buffer)
    BY <1>2 DEF Range, Free
  <2>2. ReadOf(buffer, Read(buffer))
    BY <2>1, ReadIsOf
  <2> QED
    BY <2>2, ReadFacts DEF ReadOf
<1> QED
  BY <1>1, <1>2

\* What the loop of processData comes to: a buffer and the frames handed on.
AnyFrame  == [address : Nat, data : Seq(Byte)]
Decodings == [buffer : Seq(Byte), frames : Seq(AnyFrame)]

LEMMA ParsedFrame ==
  ASSUME NEW data \in Seq(Byte)
  PROVE  ParseFrame(data) \in AnyFrame
<1>1. CASE Len(data) < 2
  <2>1. ParseFrame(data) = [address |-> 0, data |-> <<>>] /\ <<>> \in Seq(Byte)
    BY <1>1 DEF ParseFrame
  <2> QED
    BY <2>1 DEF AnyFrame
<1>2. CASE ~(Len(data) < 2)
  <2>1. data[1] \in Byte /\ data[2] \in Byte /\ Len(data) \in Nat
    <3>1. 1 \in 1..Len(data) /\ 2 \in 1..Len(data) /\ Len(data) \in Nat
      BY <1>2
    <3> QED
      BY <3>1
  <2>2. 256 * data[1] + data[2] \in Nat
    <3>1. \A high, low \in Byte : 256 * high + low \in Nat
      BY DEF Byte
    <3> QED
      BY <2>1, <3>1
  <2>3. SubSeq(data, 3, Len(data)) \in Seq(Byte)
    <3>1. 3 \in Int /\ Len(data) \in Int /\ \A i \in 3..Len(data) : data[i] \in Byte
      BY <2>1
    <3> QED
      BY ONLY <3>1, SubSeqProperties
  <2> QED
    BY <1>2, <2>2, <2>3 DEF ParseFrame, AnyFrame
<1> QED
  BY <1>1, <1>2

\* The byte that ends a frame, and any other.
LEMMA DecodesByByte ==
  ASSUME NEW d \in Decodings, NEW byte \in Byte
  PROVE  /\ Up!DecodeByte(d, byte) \in Decodings
         /\ byte # ProtocolByteEnd =>
              Up!DecodeByte(d, byte) = [buffer |-> Append(d.buffer, byte), frames |-> d.frames]
         /\ byte = ProtocolByteEnd /\ DeserializeData(d.buffer) = <<>> =>
              Up!DecodeByte(d, byte) = d
         /\ byte = ProtocolByteEnd /\ d.buffer # <<>> /\ DeserializeData(d.buffer) # <<>> =>
              Up!DecodeByte(d, byte)
                = [buffer |-> <<>>, frames |-> Append(d.frames, ParseFrame(d.buffer))]
<1>0. d.buffer \in Seq(Byte) /\ d.frames \in Seq(AnyFrame) /\ <<>> \in Seq(Byte)
  BY DEF Decodings
<1>1. /\ Up!ProtocolByteEnd = ProtocolByteEnd
      /\ Up!DeserializeData(d.buffer) = DeserializeData(d.buffer)
      /\ Up!ParseFrame(d.buffer) = ParseFrame(d.buffer)
  BY SameInUplink
<1>2. ASSUME byte # ProtocolByteEnd
      PROVE  Up!DecodeByte(d, byte) = [buffer |-> Append(d.buffer, byte), frames |-> d.frames]
  BY <1>1, <1>2 DEF Up!DecodeByte, Decodings
<1>3. ASSUME byte = ProtocolByteEnd
      PROVE  Up!DecodeByte(d, byte) =
               IF d.buffer = <<>> \/ DeserializeData(d.buffer) = <<>> THEN d
               ELSE [buffer |-> <<>>, frames |-> Append(d.frames, ParseFrame(d.buffer))]
  BY <1>1, <1>3 DEF Up!DecodeByte, Up!EndOfFrame
<1>4. Append(d.buffer, byte) \in Seq(Byte)
  BY <1>0, AppendProperties
<1>5. Append(d.frames, ParseFrame(d.buffer)) \in Seq(AnyFrame)
  BY <1>0, ParsedFrame, AppendProperties
<1>6. Up!DecodeByte(d, byte) \in Decodings
  <2>1. CASE byte # ProtocolByteEnd
    <3>1. [buffer |-> Append(d.buffer, byte), frames |-> d.frames] \in Decodings
      BY <1>0, <1>4 DEF Decodings
    <3> QED
      BY <1>2, <2>1, <3>1
  <2>2. CASE byte = ProtocolByteEnd
    <3>1. [buffer |-> <<>>, frames |-> Append(d.frames, ParseFrame(d.buffer))] \in Decodings
      BY <1>0, <1>5 DEF Decodings
    <3> QED
      BY <1>3, <2>2, <3>1
  <2> QED
    BY <2>1, <2>2
<1> QED
  BY <1>2, <1>3, <1>6

\* One byte more is part of what is pending, or it ends the first of it.
LEMMA FramingByte ==
  ASSUME UplinkHypothesis, NEW d \in Decodings, NEW byte \in Byte, NEW wait \in Seq(Byte),
         NEW pending, Framing(pending, d.buffer, <<byte>> \o wait)
  PROVE  LET next == Up!DecodeByte(d, byte) IN
         \/ next.frames = d.frames /\ Framing(pending, next.buffer, wait)
         \/ \E f \in Frames :
              /\ next.frames = Append(d.frames, f)
              /\ pending # <<>> /\ Head(pending) = Up!frame(f)
              /\ Framing(Tail(pending), next.buffer, wait)
<1> DEFINE buffer == d.buffer
           next == Up!DecodeByte(d, byte)
<1>1. /\ buffer \in Seq(Byte) /\ pending \in Seq(SlipItems) /\ Free(ProtocolByteEnd, buffer)
      /\ ProtocolByteEnd \in Byte /\ Ended(ProtocolByteEnd, UpBody, UpCode, SlipItems, Byte)
      /\ Append(buffer, byte) \in Seq(Byte) /\ <<>> \in Seq(Byte)
  BY UpItemsEnd, ProtocolBytes DEF Framing
<1>2. /\ byte # ProtocolByteEnd => next = [buffer |-> Append(buffer, byte), frames |-> d.frames]
      /\ byte = ProtocolByteEnd /\ DeserializeData(buffer) = <<>> => next = d
      /\ byte = ProtocolByteEnd /\ buffer # <<>> /\ DeserializeData(buffer) # <<>> =>
           next = [buffer |-> <<>>, frames |-> Append(d.frames, ParseFrame(buffer))]
  BY DecodesByByte
<1> HIDE DEF next, buffer
<1>3. byte # ProtocolByteEnd => Free(ProtocolByteEnd, Append(buffer, byte))
  BY <1>1 DEF Free
<1>4. CASE buffer \o (<<byte>> \o wait) = Laid(UpCode, pending)
  <2>1. /\ byte # ProtocolByteEnd => Append(buffer, byte) \o wait = Laid(UpCode, pending)
        /\ byte = ProtocolByteEnd =>
             pending # <<>> /\ buffer = UpBody[Head(pending)] /\ wait = Laid(UpCode, Tail(pending))
    <3>1. Coming(ProtocolByteEnd, UpBody, UpCode, SlipItems, Byte, buffer, byte, wait, pending)
      BY <1>1, <1>4 DEF Coming
    <3> QED
      BY ONLY <3>1, NextByte
  <2>2. CASE byte # ProtocolByteEnd
    <3>1. next.frames = d.frames /\ next.buffer = Append(buffer, byte)
      BY <1>2, <2>2
    <3>2. Framing(pending, next.buffer, wait)
      BY <1>1, <1>3, <2>1, <2>2, <3>1 DEF Framing
    <3> QED
      BY <3>1, <3>2 DEF next
  <2>3. CASE byte = ProtocolByteEnd
    <3>1. /\ pending # <<>> /\ buffer = UpBody[Head(pending)] /\ wait = Laid(UpCode, Tail(pending))
          /\ Head(pending) \in SlipItems /\ Tail(pending) \in Seq(SlipItems)
      BY <1>1, <2>1, <2>3, HeadTailProperties
    <3>2. CASE Head(pending) \in UpFrames
      <4>1. PICK f \in Frames : Head(pending) = Up!frame(f)
        BY <3>2 DEF UpFrames
      <4>2. buffer = BuildFrame(f)
        BY <3>1, <4>1, UpCodes
      <4>3. /\ f \in [address : Address, data : Seq(Byte)]
            /\ Free(ProtocolByteEnd, BuildFrame(f)) /\ Free(ProtocolByteEsc, BuildFrame(f))
        BY DEF UplinkHypothesis
      <4>4. BuildFrame(f) \in Seq(Byte) /\ ParseFrame(BuildFrame(f)) = f
        BY <4>3, ParsesWhatWasBuilt
      <4>5. buffer # <<>>
        <5>1. f.address \div 256 \in Byte /\ f.address % 256 \in Byte /\ f.data \in Seq(Byte)
          BY <4>3, AddressBytes
        <5>2. Len(BuildFrame(f)) >= 2
          BY <5>1, TwoBytesAhead DEF BuildFrame
        <5> QED
          BY <4>2, <5>2
      <4>6. DeserializeData(buffer) = buffer
        <5>1. Body(buffer) = buffer
          BY <4>2, <4>3, <4>4, PlainBody
        <5>2. Read(Body(buffer)) = [data |-> buffer, at |-> "plain"]
          BY <1>1, BodyIsRead
        <5> QED
          BY <5>1, <5>2, ReadFacts
      <4>7. next.buffer = <<>> /\ next.frames = Append(d.frames, f)
        BY <1>2, <2>3, <4>2, <4>4, <4>5, <4>6
      <4>8. Framing(Tail(pending), <<>>, wait)
        <5>1. <<>> \o wait = wait /\ Free(ProtocolByteEnd, <<>>)
          BY ConcatEmptySeq DEF Free
        <5> QED
          BY <1>1, <3>1, <5>1 DEF Framing
      <4> QED
        BY <3>1, <4>1, <4>7, <4>8 DEF next
    <3>3. CASE Head(pending) \in UpFaulty
      <4>1. PICK code \in InconsistentFrames : Head(pending) = Up!faulty(code)
        BY <3>3 DEF UpFaulty
      <4>2. buffer = code /\ Read(buffer).at = "inconsistent"
        BY <3>1, <4>1, UpCodes DEF UplinkHypothesis
      <4>3. next = d
        BY <1>1, <1>2, <2>3, <4>2, StaysInconsistent
      <4>4. Framing(pending, buffer, wait)
        BY <1>1, <3>1, <3>3, <4>2 DEF Framing
      <4> QED
        BY <4>3, <4>4 DEF next, buffer
    <3> QED
      BY <3>1, <3>2, <3>3 DEF SlipItems
  <2> QED
    BY <2>2, <2>3
<1>5. CASE pending # <<>> /\ Head(pending) \in UpFaulty /\ Read(buffer).at = "inconsistent"
  <2>1. CASE byte # ProtocolByteEnd
    <3>1. next.frames = d.frames /\ next.buffer = Append(buffer, byte)
      BY <1>2, <2>1
    <3>2. Read(Append(buffer, byte)).at = "inconsistent"
      BY <1>1, <1>5, StaysInconsistent
    <3>3. Framing(pending, next.buffer, wait)
      BY <1>1, <1>3, <1>5, <2>1, <3>1, <3>2 DEF Framing
    <3> QED
      BY <3>1, <3>3 DEF next
  <2>2. CASE byte = ProtocolByteEnd
    <3>1. next = d
      BY <1>1, <1>2, <1>5, <2>2, StaysInconsistent
    <3>2. Framing(pending, buffer, wait)
      BY <1>1, <1>5 DEF Framing
    <3> QED
      BY <3>1, <3>2 DEF next, buffer
  <2> QED
    BY <2>1, <2>2
<1> QED
  BY <1>4, <1>5 DEF Framing, buffer

\* The loop of processData on a chunk.
Decoding(buffer, chunk, read) ==
  read = [k \in 0..Len(chunk) |->
           IF k = 0 THEN [buffer |-> buffer, frames |-> <<>>]
           ELSE Up!DecodeByte(read[k - 1], chunk[k])]

LEMMA DecodingExists ==
  ASSUME NEW buffer \in Seq(Byte), NEW chunk \in Seq(Byte)
  PROVE  \E read : Decoding(buffer, chunk, read)
<1> DEFINE n == Len(chunk)
           first == [buffer |-> buffer, frames |-> <<>>]
           turn == [k \in 1..n |-> [d \in Decodings |-> Up!DecodeByte(d, chunk[k])]]
<1>1. n \in Nat /\ \A k \in 1..n : chunk[k] \in Byte
  OBVIOUS
<1>2. first \in Decodings
  BY DEF Decodings
<1> HIDE DEF n, first
<1>3. turn \in [1..n -> [Decodings -> Decodings]]
  BY <1>1, DecodesByByte
<1>4. PICK g : Course(Decodings, first, n, turn, g)
  <2> HIDE DEF turn
  <2> QED
    BY <1>1, <1>2, <1>3, CourseExists
<1>5. ASSUME NEW k \in 0..n
      PROVE  g[k] = IF k = 0 THEN first ELSE Up!DecodeByte(g[k - 1], chunk[k])
  <2>1. CASE k = 0
    BY <1>4, <2>1 DEF Course
  <2>2. CASE k # 0
    <3>1. k \in 1..n /\ k - 1 \in 0..n
      BY <1>1, <2>2
    <3>2. g[k - 1] \in Decodings /\ g[k] = turn[k][g[k - 1]]
      <4> HIDE DEF turn
      <4> QED
        BY <1>4, <3>1 DEF Course
    <3>3. turn[k][g[k - 1]] = Up!DecodeByte(g[k - 1], chunk[k])
      BY <3>1, <3>2
    <3> QED
      BY <2>2, <3>2, <3>3
  <2> QED
    BY <2>1, <2>2
<1>6. g = [k \in 0..n |-> g[k]]
  BY <1>4 DEF Course
<1> QED
  BY <1>5, <1>6 DEF Decoding, n, first

\* The frames as items of what was sent.
FrameItems(frames) == [i \in DOMAIN frames |-> Up!frame(frames[i])]

LEMMA FrameItemsGrow ==
  ASSUME NEW frames \in Seq(Frames)
  PROVE  /\ FrameItems(<<>>) = <<>>
         /\ FrameItems(frames) \in Seq(UpFrames)
         /\ \A f \in Frames : FrameItems(Append(frames, f)) = Append(FrameItems(frames), Up!frame(f))
<1>1. FrameItems(<<>>) = <<>>
  BY DEF FrameItems
<1>2. ASSUME NEW fs \in Seq(Frames)
      PROVE  /\ FrameItems(fs) \in Seq(UpFrames) /\ Len(FrameItems(fs)) = Len(fs)
             /\ \A i \in 1..Len(fs) : FrameItems(fs)[i] = Up!frame(fs[i])
  <2>1. /\ Len(fs) \in Nat /\ DOMAIN fs = 1..Len(fs)
        /\ \A i \in 1..Len(fs) : Up!frame(fs[i]) \in UpFrames
    BY DEF UpFrames
  <2> DEFINE n == Len(fs)
             g == [i \in 1..n |-> Up!frame(fs[i])]
  <2>2. g \in [1..n -> UpFrames] /\ \A i \in 1..n : g[i] = Up!frame(fs[i])
    BY <2>1
  <2>3. FrameItems(fs) = g
    BY <2>1 DEF FrameItems
  <2> HIDE DEF g
  <2>4. g \in Seq(UpFrames) /\ Len(g) = n
    BY <2>1, <2>2
  <2> QED
    BY <2>2, <2>3, <2>4
<1>3. ASSUME NEW f \in Frames
      PROVE  FrameItems(Append(frames, f)) = Append(FrameItems(frames), Up!frame(f))
  <2> DEFINE more == Append(frames, f)
             a == FrameItems(frames)
             b == FrameItems(more)
             x == Up!frame(f)
  <2>1. /\ more \in Seq(Frames) /\ Len(more) = Len(frames) + 1 /\ Len(frames) \in Nat
        /\ more[Len(frames) + 1] = f /\ \A i \in 1..Len(frames) : more[i] = frames[i]
    OBVIOUS
  <2> HIDE DEF more
  <2>2. /\ a \in Seq(UpFrames) /\ Len(a) = Len(frames)
        /\ \A i \in 1..Len(frames) : a[i] = Up!frame(frames[i])
    BY <1>2
  <2>3. /\ b \in Seq(UpFrames) /\ Len(b) = Len(more)
        /\ \A i \in 1..Len(more) : b[i] = Up!frame(more[i])
    BY <1>2, <2>1
  <2>4. x \in UpFrames /\ b[Len(frames) + 1] = x /\ \A i \in 1..Len(frames) : b[i] = a[i]
    BY <2>1, <2>2, <2>3 DEF UpFrames
  <2> HIDE DEF a, b, x
  <2>5. /\ Append(a, x) \in Seq(UpFrames) /\ Len(Append(a, x)) = Len(frames) + 1
        /\ \A i \in 1..(Len(frames) + 1) : Append(a, x)[i] = b[i]
    BY <2>1, <2>2, <2>4
  <2>6. b = Append(a, x)
    BY <2>1, <2>3, <2>5, SeqEqual
  <2> QED
    BY <2>6 DEF a, b, x, more
<1> QED
  BY <1>1, <1>2, <1>3

\* The bytes that are left: the next one, and those behind it.
LEMMA ByteAndRest ==
  ASSUME NEW w \in Seq(Byte), NEW m \in 0..(Len(w) - 1)
  PROVE  /\ w[m + 1] \in Byte /\ SubSeq(w, m + 2, Len(w)) \in Seq(Byte)
         /\ SubSeq(w, m + 1, Len(w)) = <<w[m + 1]>> \o SubSeq(w, m + 2, Len(w))
<1>1. m \in Nat /\ m + 1 \in 1..Len(w) /\ Len(w) \in Nat /\ (m + 1) + 1 = m + 2
  OBVIOUS
<1>2. SubSeq(w, m + 2, Len(w)) \in Seq(Byte)
  <2>1. m + 2 \in Int /\ Len(w) \in Int /\ \A i \in (m + 2)..Len(w) : w[i] \in Byte
    BY <1>1
  <2> QED
    BY ONLY <2>1, SubSeqProperties
<1>3. SubSeq(w, m + 1, Len(w)) = <<w[m + 1]>> \o SubSeq(w, m + 2, Len(w))
  <2>1. Len(w) \in (m + 1)..Len(w)
    BY <1>1
  <2>2. SubSeq(w, m + 1, Len(w)) = <<w[m + 1]>> \o SubSeq(w, (m + 1) + 1, Len(w))
    BY <1>1, <2>1, SubSeqRecursiveFirst
  <2> QED
    BY <1>1, <2>2
<1>4. w[m + 1] \in Byte
  BY <1>1
<1> QED
  BY <1>2, <1>3, <1>4

\* What the loop has come to before byte m + 1 of the data w: it has handed on the first
\* frames of what was pending, and goes on with the rest.
ReadSoFar(pending, w, d, m) ==
  /\ d \in Decodings /\ d.frames \in Seq(Frames)
  /\ \E left : pending = FrameItems(d.frames) \o left /\ Framing(left, d.buffer, SubSeq(w, m + 1, Len(w)))

LEMMA ReadsOn ==
  ASSUME UplinkHypothesis, NEW w \in Seq(Byte), NEW m \in 0..(Len(w) - 1),
         NEW pending, NEW d, ReadSoFar(pending, w, d, m)
  PROVE  ReadSoFar(pending, w, Up!DecodeByte(d, w[m + 1]), m + 1)
<1> DEFINE byte == w[m + 1]
           wait == SubSeq(w, m + 2, Len(w))
           next == Up!DecodeByte(d, byte)
<1>1. /\ m \in Nat /\ m + 1 \in 1..Len(w) /\ byte \in Byte /\ wait \in Seq(Byte)
      /\ (m + 1) + 1 = m + 2
  <2>1. m \in Nat /\ m + 1 \in 1..Len(w) /\ (m + 1) + 1 = m + 2
    OBVIOUS
  <2> QED
    BY <2>1, ByteAndRest
<1>2. SubSeq(w, m + 1, Len(w)) = <<byte>> \o wait
  BY ByteAndRest
<1>3. d \in Decodings /\ d.frames \in Seq(Frames)
  BY DEF ReadSoFar
<1>4. PICK left : pending = FrameItems(d.frames) \o left /\ Framing(left, d.buffer, <<byte>> \o wait)
  BY <1>2 DEF ReadSoFar
<1>5. next \in Decodings
  BY <1>1, <1>3, DecodesByByte
<1>6. \/ next.frames = d.frames /\ Framing(left, next.buffer, wait)
      \/ \E f \in Frames :
           /\ next.frames = Append(d.frames, f)
           /\ left # <<>> /\ Head(left) = Up!frame(f)
           /\ Framing(Tail(left), next.buffer, wait)
  <2> HIDE DEF byte, wait
  <2> QED
    BY <1>1, <1>3, <1>4, FramingByte
<1> HIDE DEF next, byte, wait
<1>7. CASE next.frames = d.frames /\ Framing(left, next.buffer, wait)
  BY <1>1, <1>3, <1>4, <1>5, <1>7 DEF ReadSoFar, next, byte, wait
<1>8. ASSUME NEW f \in Frames, next.frames = Append(d.frames, f),
             left # <<>>, Head(left) = Up!frame(f), Framing(Tail(left), next.buffer, wait)
      PROVE  ReadSoFar(pending, w, next, m + 1)
  <2> DEFINE a == FrameItems(d.frames)
             x == Up!frame(f)
             rest == Tail(left)
             one == <<x>>
  <2>1. next.frames \in Seq(Frames) /\ FrameItems(next.frames) = Append(a, x) /\ a \in Seq(SlipItems)
    <3>1. Append(d.frames, f) \in Seq(Frames)
      BY <1>3, AppendProperties
    <3>2. FrameItems(Append(d.frames, f)) = Append(a, x) /\ a \in Seq(UpFrames)
      BY <1>3, FrameItemsGrow
    <3>3. UpFrames \subseteq SlipItems
      BY DEF SlipItems
    <3> HIDE DEF a
    <3> QED
      BY <1>8, <3>1, <3>2, <3>3
  <2>2. left \in Seq(SlipItems) /\ x \in SlipItems /\ rest \in Seq(SlipItems) /\ left = one \o rest
    <3>1. left \in Seq(SlipItems)
      BY <1>4 DEF Framing
    <3> QED
      BY <1>8, <3>1, HeadAndTail
  <2> HIDE DEF a, x, one, rest
  <2>3. Append(a, x) = a \o one /\ one \in Seq(SlipItems)
    BY <2>1, <2>2 DEF one
  <2>4. a \o (one \o rest) = (a \o one) \o rest
    <3>1. a \in Seq(SlipItems) /\ one \in Seq(SlipItems) /\ rest \in Seq(SlipItems)
      BY <2>1, <2>2, <2>3
    <3> QED
      BY ONLY <3>1
  <2>5. pending = FrameItems(next.frames) \o rest
    BY <1>4, <2>1, <2>2, <2>3, <2>4 DEF a
  <2> QED
    BY <1>1, <1>5, <1>8, <2>1, <2>5 DEF ReadSoFar, rest, wait
<1> QED
  BY <1>6, <1>7, <1>8 DEF next, byte

LEMMA FramesRead ==
  ASSUME UplinkHypothesis, NEW w \in Seq(Byte), NEW n \in 1..Len(w),
         NEW pending, NEW buffer, Framing(pending, buffer, w),
         NEW read, Decoding(buffer, SubSeq(w, 1, n), read)
  PROVE  ReadSoFar(pending, w, read[n], n)
<1> DEFINE chunk == SubSeq(w, 1, n)
<1>1. Len(chunk) = n /\ n \in Nat /\ n <= Len(w) /\ \A k \in 1..n : chunk[k] = w[k]
  <2>1. 1 \in Int /\ n \in Int /\ n <= Len(w) /\ n - 1 + 1 = n /\ n >= 1
        /\ \A k \in 1..n : w[k] \in Byte /\ 1 + k - 1 = k
    OBVIOUS
  <2>2. /\ Len(chunk) = IF 1 <= n THEN n - 1 + 1 ELSE 0
        /\ \A k \in 1..(n - 1 + 1) : chunk[k] = w[1 + k - 1]
    BY ONLY <2>1, SubSeqProperties
  <2> HIDE DEF chunk
  <2> QED
    BY <2>1, <2>2
<1>2. \A k \in 0..n : read[k] = IF k = 0 THEN [buffer |-> buffer, frames |-> <<>>]
                                ELSE Up!DecodeByte(read[k - 1], chunk[k])
  <2> HIDE DEF chunk
  <2> QED
    BY <1>1 DEF Decoding, chunk
<1> HIDE DEF chunk
<1> DEFINE T == {m \in Nat : m <= n => ReadSoFar(pending, w, read[m], m)}
<1>3. 0 \in T
  <2>1. read[0] = [buffer |-> buffer, frames |-> <<>>]
    BY <1>1, <1>2
  <2>2. pending \in Seq(SlipItems) /\ buffer \in Seq(Byte)
    BY DEF Framing
  <2>3. FrameItems(<<>>) = <<>> /\ <<>> \in Seq(Frames) /\ <<>> \in Seq(AnyFrame)
    BY DEF FrameItems
  <2>4. <<>> \o pending = pending
    BY <2>2, ConcatEmptySeq
  <2>5. SubSeq(w, 0 + 1, Len(w)) = w
    BY SubSeqFull
  <2>6. read[0] \in Decodings /\ read[0].frames = <<>> /\ read[0].buffer = buffer
    BY <2>1, <2>2, <2>3 DEF Decodings
  <2>7. ReadSoFar(pending, w, read[0], 0)
    BY <2>3, <2>4, <2>5, <2>6 DEF ReadSoFar
  <2> QED
    BY <2>7
<1>4. ASSUME NEW m \in Nat, m \in T PROVE m + 1 \in T
  <2> SUFFICES ASSUME m + 1 <= n PROVE ReadSoFar(pending, w, read[m + 1], m + 1)
    OBVIOUS
  <2>1. /\ m \in 0..(Len(w) - 1) /\ m <= n /\ m + 1 \in 0..n /\ m + 1 \in 1..n
        /\ (m + 1) - 1 = m /\ m + 1 # 0
    BY <1>1
  <2>2. read[m + 1] = Up!DecodeByte(read[(m + 1) - 1], chunk[m + 1])
    BY <1>2, <2>1
  <2>3. read[m + 1] = Up!DecodeByte(read[m], w[m + 1])
    BY <1>1, <2>1, <2>2
  <2>4. ReadSoFar(pending, w, read[m], m)
    BY <1>4, <2>1
  <2> HIDE DEF T
  <2> QED
    BY <2>1, <2>3, <2>4, ReadsOn
<1>5. Nat \subseteq T
  <2> HIDE DEF T
  <2> QED
    BY <1>3, <1>4, Induction
<1> QED
  BY <1>1, <1>5

\* Before SLIP is on: what is pending is on the wire, and nothing follows RegisterServer.
Requesting(pending, wait) ==
  /\ pending \in Seq(UpRequests) /\ wait = Laid(UpCode, pending)
  /\ \A i \in 1..(Len(pending) - 1) : pending[i] # Up!request(Up!RegisterServer)

\* The requests as items of what was sent.
RequestItems(docs) == [k \in DOMAIN docs |-> Up!request(docs[k])]

\* Requests that were sent are the requests that are taken out of their bytes.
LEMMA RequestsAreCutOut ==
  ASSUME UplinkHypothesis, NEW taken \in Seq(UpRequests), taken # <<>>
  PROVE  \E docs \in Seq(Up!Requests) :
           LET split == Up!SplitPackets(Laid(UpCode, taken)) IN
           /\ taken = RequestItems(docs)
           /\ split.rest = <<>>
           /\ [k \in DOMAIN split.packets |-> Up!Document(split.packets[k])] = docs
           /\ Up!Only(docs, Up!Requests) = docs
<1> DEFINE code == [doc \in Up!Requests |-> Append(doc, Newline)]
           n == Len(taken)
           docs == [k \in 1..n |-> taken[k].content]
<1>1. Newlined(code, Up!Requests)
  BY RequestsAreDocuments DEF Newlined
<1>2. ASSUME NEW x \in UpRequests
      PROVE  x.content \in Up!Requests /\ x = Up!request(x.content) /\ UpCode[x] = code[x.content]
  <2>1. PICK doc \in Up!Requests : x = Up!request(doc)
    BY DEF UpRequests
  <2>2. x.content = doc
    BY <2>1 DEF Up!request
  <2> QED
    BY <2>1, <2>2, UpCodes
<1>3. n \in Nat /\ DOMAIN taken = 1..n /\ n # 0 /\ \A k \in 1..n : taken[k] \in UpRequests
  <2>1. n # 0
    BY EmptySeq
  <2> QED
    BY <2>1
<1>4. docs \in Seq(Up!Requests) /\ Len(docs) = n /\ DOMAIN docs = 1..n
      /\ \A k \in 1..n : docs[k] = taken[k].content
  <2>1. docs \in [1..n -> Up!Requests] /\ \A k \in 1..n : docs[k] = taken[k].content
    BY <1>2, <1>3
  <2> HIDE DEF docs, n
  <2> QED
    BY <1>3, <2>1
<1> HIDE DEF docs, n, code
<1>5. docs # <<>>
  BY <1>3, <1>4
<1>6. Laid(UpCode, taken) = Laid(code, docs)
  <2>1. \A k \in 1..n : UpCode[taken[k]] = code[docs[k]]
    BY <1>2, <1>3, <1>4
  <2>2. [k \in 1..n |-> UpCode[taken[k]]] = [k \in 1..n |-> code[docs[k]]]
    BY <2>1
  <2> QED
    BY <1>3, <1>4, <2>2 DEF Laid
<1>7. taken = RequestItems(docs)
  <2>1. taken = [k \in 1..n |-> taken[k]]
    BY <1>3
  <2>2. \A k \in 1..n : taken[k] = Up!request(docs[k])
    BY <1>2, <1>3, <1>4
  <2>3. [k \in 1..n |-> taken[k]] = [k \in 1..n |-> Up!request(docs[k])]
    BY <2>2
  <2> QED
    BY <1>4, <2>1, <2>3 DEF RequestItems
<1>8. LET split == SplitPackets(Laid(code, docs)) IN
      /\ split.rest = <<>>
      /\ [k \in DOMAIN split.packets |-> Document(split.packets[k])] = docs
  BY <1>1, <1>4, <1>5, SplitsWhatWasSent
<1>9. Only(docs, Up!Requests) = docs
  <2>1. Range(docs) \subseteq Up!Requests
    BY <1>4 DEF Range
  <2> QED
    BY <1>4, <2>1, OnlyAll
<1>10. LET split == Up!SplitPackets(Laid(UpCode, taken)) IN
       /\ split.rest = <<>>
       /\ [k \in DOMAIN split.packets |-> Up!Document(split.packets[k])] = docs
  <2>1. Up!SplitPackets(Laid(code, docs)) = SplitPackets(Laid(code, docs))
        /\ \A packet : Up!Document(packet) = Document(packet)
    BY SameInUplink
  <2> QED
    BY <1>6, <1>8, <2>1
<1>11. Up!Only(docs, Up!Requests) = docs
  BY <1>9, SameInUplink
<1> QED
  BY <1>4, <1>7, <1>10, <1>11

\* A read up to a newline takes some requests, and RegisterServer only as the last.
LEMMA RequestsRead ==
  ASSUME UplinkHypothesis, NEW pending, NEW w, Requesting(pending, w),
         NEW n \in 1..Len(w), w[n] = Newline
  PROVE  \E docs \in Seq(Up!Requests), left \in Seq(UpRequests) :
           LET split == Up!SplitPackets(SubSeq(w, 1, n)) IN
           /\ split.rest = <<>>
           /\ [k \in DOMAIN split.packets |-> Up!Document(split.packets[k])] = docs
           /\ Up!Only(docs, Up!Requests) = docs
           /\ RequestItems(docs) \in Seq(UpRequests)
           /\ pending = RequestItems(docs) \o left
           /\ Requesting(left, SubSeq(w, n + 1, Len(w)))
           /\ Up!RegisterServer \in Range(docs) => left = <<>>
<1>1. /\ pending \in Seq(UpRequests) /\ w = Laid(UpCode, pending)
      /\ \A i \in 1..(Len(pending) - 1) : pending[i] # Up!request(Up!RegisterServer)
  BY DEF Requesting
<1>2. PICK taken \in Seq(UpRequests), left \in Seq(UpRequests) :
        /\ taken # <<>> /\ pending = taken \o left
        /\ SubSeq(w, 1, n) = Laid(UpCode, taken)
        /\ SubSeq(w, n + 1, Len(w)) = Laid(UpCode, left)
  <2>1. Newline \in Byte /\ Ended(Newline, UpBody, UpCode, UpRequests, Byte)
    BY UpItemsEnd DEF Newline, Byte
  <2>2. n \in 1..Len(Laid(UpCode, pending)) /\ Laid(UpCode, pending)[n] = Newline
    BY <1>1
  <2>3. \E taken, left : CutIn(UpCode, UpRequests, pending, n, taken, left)
    <3>1. EndsAt(Newline, UpBody, UpCode, UpRequests, Byte, pending, n)
      BY <1>1, <2>1, <2>2 DEF EndsAt
    <3> QED
      BY ONLY <3>1, CutAtEnd
  <2> QED
    BY <1>1, <2>3 DEF CutIn
<1>3. PICK docs \in Seq(Up!Requests) :
        LET split == Up!SplitPackets(Laid(UpCode, taken)) IN
        /\ taken = RequestItems(docs)
        /\ split.rest = <<>>
        /\ [k \in DOMAIN split.packets |-> Up!Document(split.packets[k])] = docs
        /\ Up!Only(docs, Up!Requests) = docs
  BY <1>2, RequestsAreCutOut
<1>4. /\ Len(pending) = Len(taken) + Len(left) /\ Len(taken) \in Nat /\ Len(left) \in Nat
      /\ \A i \in 1..Len(taken) : pending[i] = taken[i]
      /\ \A i \in 1..Len(left) : pending[Len(taken) + i] = left[i]
  <2>1. /\ Len(taken \o left) = Len(taken) + Len(left)
        /\ \A i \in 1..(Len(taken) + Len(left)) :
             (taken \o left)[i] = IF i <= Len(taken) THEN taken[i] ELSE left[i - Len(taken)]
    BY ConcatProperties
  <2>2. Len(taken) \in Nat /\ Len(left) \in Nat
    OBVIOUS
  <2>3. \A i \in 1..Len(taken) : pending[i] = taken[i]
    BY <1>2, <2>1, <2>2
  <2>4. ASSUME NEW i \in 1..Len(left) PROVE pending[Len(taken) + i] = left[i]
    <3>1. /\ Len(taken) + i \in 1..(Len(taken) + Len(left)) /\ ~(Len(taken) + i <= Len(taken))
          /\ (Len(taken) + i) - Len(taken) = i
      BY <2>2
    <3> QED
      BY <1>2, <2>1, <3>1
  <2> QED
    BY <1>2, <2>1, <2>2, <2>3, <2>4
<1>5. Requesting(left, SubSeq(w, n + 1, Len(w)))
  <2>1. ASSUME NEW i \in 1..(Len(left) - 1) PROVE left[i] # Up!request(Up!RegisterServer)
    <3>1. Len(taken) + i \in 1..(Len(pending) - 1) /\ i \in 1..Len(left)
      BY <1>4
    <3> QED
      BY <1>1, <1>4, <3>1
  <2> QED
    BY <1>2, <2>1 DEF Requesting
<1>6. ASSUME Up!RegisterServer \in Range(docs) PROVE left = <<>>
  <2>1. PICK i \in DOMAIN docs : docs[i] = Up!RegisterServer
    BY <1>6 DEF Range
  <2>2. DOMAIN taken = DOMAIN docs /\ taken[i] = Up!request(Up!RegisterServer)
    BY <1>3, <2>1 DEF RequestItems
  <2>3. i \in 1..Len(taken) /\ pending[i] = Up!request(Up!RegisterServer)
    BY <1>4, <2>2
  <2>4. ~(i \in 1..(Len(pending) - 1))
    BY <1>1, <2>3
  <2>5. Len(left) = 0
    BY <1>4, <2>3, <2>4
  <2> QED
    BY <2>5, EmptySeq
<1> QED
  BY <1>2, <1>3, <1>5, <1>6

\* One item more is sent.
LEMMA FramingGrows ==
  ASSUME UplinkHypothesis, NEW pending, NEW buffer, NEW wait, Framing(pending, buffer, wait),
         NEW x \in SlipItems
  PROVE  Framing(Append(pending, x), buffer, wait \o UpCode[x])
<1> DEFINE more == Append(pending, x)
           c == UpCode[x]
<1>1. /\ pending \in Seq(SlipItems) /\ buffer \in Seq(Byte) /\ wait \in Seq(Byte)
      /\ Free(ProtocolByteEnd, buffer)
  BY DEF Framing
<1>2. Encodes(UpCode, SlipItems, Byte) /\ c \in Seq(Byte)
  BY UpItemsEnd DEF Encodes, UpItems
<1>3. more \in Seq(SlipItems) /\ more # <<>> /\ (pending # <<>> => Head(more) = Head(pending))
  <2>1. more \in Seq(SlipItems) /\ more # <<>>
    BY <1>1, AppendProperties
  <2>2. ASSUME pending # <<>> PROVE Head(more) = Head(pending)
    <3>1. 1 \in 1..Len(pending)
      BY <1>1, <2>2
    <3>2. more[1] = pending[1]
      BY <1>1, <3>1
    <3> QED
      BY <1>1, <2>1, <2>2, <3>2
  <2> QED
    BY <2>1, <2>2
<1>4. Laid(UpCode, more) = Laid(UpCode, pending) \o c
  BY ONLY <1>1, <1>2, x \in SlipItems, LaidGrows
<1> HIDE DEF c, more
<1>5. wait \o c \in Seq(Byte) /\ buffer \o (wait \o c) = (buffer \o wait) \o c
  <2>1. buffer \in Seq(Byte) /\ wait \in Seq(Byte) /\ c \in Seq(Byte)
    BY <1>1, <1>2
  <2>2. buffer \o (wait \o c) = (buffer \o wait) \o c
    BY ONLY <2>1
  <2>3. wait \o c \in Seq(Byte)
    BY ONLY <2>1
  <2> QED
    BY <2>2, <2>3
<1>6. CASE buffer \o wait = Laid(UpCode, pending)
  BY <1>1, <1>3, <1>4, <1>5, <1>6 DEF Framing, more, c
<1>7. CASE pending # <<>> /\ Head(pending) \in UpFaulty /\ Read(buffer).at = "inconsistent"
  BY <1>1, <1>3, <1>5, <1>7 DEF Framing, more, c
<1> QED
  BY <1>6, <1>7 DEF Framing

LEMMA RequestingGrows ==
  ASSUME UplinkHypothesis, NEW pending, NEW wait, Requesting(pending, wait),
         NEW x \in UpRequests, Up!request(Up!RegisterServer) \notin Range(pending)
  PROVE  Requesting(Append(pending, x), wait \o UpCode[x])
<1> DEFINE more == Append(pending, x)
<1>1. pending \in Seq(UpRequests) /\ wait = Laid(UpCode, pending)
  BY DEF Requesting
<1>2. Encodes(UpCode, UpRequests, Byte)
  BY UpItemsEnd DEF Encodes, UpItems
<1>3. Laid(UpCode, more) = Laid(UpCode, pending) \o UpCode[x]
  <2>1. pending \in Seq(UpRequests)
    BY <1>1
  <2> QED
    BY ONLY <1>2, <2>1, x \in UpRequests, LaidGrows
<1>4. /\ more \in Seq(UpRequests) /\ Len(more) - 1 = Len(pending)
      /\ \A i \in 1..Len(pending) : more[i] = pending[i] /\ pending[i] \in Range(pending)
  BY <1>1 DEF Range
<1> HIDE DEF more
<1>5. \A i \in 1..(Len(more) - 1) : more[i] # Up!request(Up!RegisterServer)
  BY <1>4
<1> QED
  BY <1>1, <1>3, <1>4, <1>5 DEF Requesting, more

-----------------------------------------------------------------------------
(* The invariant of the stream to the proxy.                               *)

\* The proxy has handled what the server sent up to a point, and has the rest pending, before
\* it or in the buffer.
Uploading ==
  /\ closing = FALSE
  /\ received \in Seq(UpRequests \cup UpFrames)
  /\ \E pending \in Seq(UpItems) :
       /\ sent = received \o pending
       /\ \/ m_slipEnabled = FALSE /\ m_dataBuffer = <<>> /\ Requesting(pending, wire)
          \/ /\ m_slipEnabled = TRUE /\ Framing(pending, m_dataBuffer, wire)
             /\ Up!request(Up!RegisterServer) \in Range(received)

\* What may be in the sequences.
LEMMA UpSequences ==
  /\ Seq(UpRequests) \subseteq Seq(UpItems) /\ Seq(SlipItems) \subseteq Seq(UpItems)
  /\ Seq(UpRequests \cup UpFrames) \subseteq Seq(UpItems)
  /\ Seq(UpRequests) \subseteq Seq(UpRequests \cup UpFrames)
  /\ Seq(UpFrames) \subseteq Seq(UpRequests \cup UpFrames)
  /\ \A s : s \in Seq(UpItems) => Range(s) = {s[i] : i \in 1..Len(s)}
<1>1. ASSUME NEW A, NEW B, A \subseteq B PROVE Seq(A) \subseteq Seq(B)
  BY <1>1
<1>2. /\ UpRequests \subseteq UpItems /\ SlipItems \subseteq UpItems
      /\ (UpRequests \cup UpFrames) \subseteq UpItems
      /\ UpRequests \subseteq (UpRequests \cup UpFrames)
      /\ UpFrames \subseteq (UpRequests \cup UpFrames)
  BY DEF UpItems, SlipItems
<1>3. \A s : s \in Seq(UpItems) => Range(s) = {s[i] : i \in 1..Len(s)}
  BY DEF Range
<1>4. /\ Seq(UpRequests) \subseteq Seq(UpItems) /\ Seq(SlipItems) \subseteq Seq(UpItems)
      /\ Seq(UpRequests \cup UpFrames) \subseteq Seq(UpItems)
  BY <1>1, <1>2
<1>5. /\ Seq(UpRequests) \subseteq Seq(UpRequests \cup UpFrames)
      /\ Seq(UpFrames) \subseteq Seq(UpRequests \cup UpFrames)
  BY <1>1, <1>2
<1> QED
  BY <1>3, <1>4, <1>5

\* The elements of two sequences behind each other.
LEMMA RangeOfConcat ==
  ASSUME NEW S, NEW s \in Seq(S), NEW t \in Seq(S)
  PROVE  Range(s \o t) = Range(s) \cup Range(t)
<1> DEFINE w == s \o t
           n == Len(s)
           k == Len(t)
<1>1. /\ w \in Seq(S) /\ n \in Nat /\ k \in Nat /\ Len(w) = n + k
      /\ \A i \in 1..(n + k) : w[i] = IF i <= n THEN s[i] ELSE t[i - n]
  BY ConcatProperties
<1>2. Range(s) = {s[i] : i \in 1..n} /\ Range(t) = {t[i] : i \in 1..k}
  BY DEF Range
<1>3. Range(w) = {w[i] : i \in 1..(n + k)}
  <2>1. DOMAIN w = 1..(n + k)
    <3> HIDE DEF w, n, k
    <3> QED
      BY <1>1
  <2> HIDE DEF w, n, k
  <2> QED
    BY <2>1 DEF Range
<1> HIDE DEF w, n, k
<1>4. ASSUME NEW i \in 1..(n + k) PROVE w[i] \in Range(s) \cup Range(t)
  <2>1. CASE i <= n
    BY <1>1, <1>2, <2>1
  <2>2. CASE ~(i <= n)
    <3>1. i - n \in 1..k /\ w[i] = t[i - n]
      BY <1>1, <2>2
    <3> QED
      BY <1>2, <3>1
  <2> QED
    BY <2>1, <2>2
<1>5. ASSUME NEW i \in 1..n PROVE s[i] \in Range(w)
  <2>1. i \in 1..(n + k) /\ w[i] = s[i]
    BY <1>1
  <2> QED
    BY <1>3, <2>1
<1>6. ASSUME NEW i \in 1..k PROVE t[i] \in Range(w)
  <2>1. n + i \in 1..(n + k) /\ ~(n + i <= n) /\ (n + i) - n = i
    BY <1>1
  <2>2. w[n + i] = t[i]
    BY <1>1, <2>1
  <2> QED
    BY <1>3, <2>1, <2>2
<1>7. Range(w) \subseteq Range(s) \cup Range(t)
  BY <1>3, <1>4
<1>8. Range(s) \subseteq Range(w) /\ Range(t) \subseteq Range(w)
  BY <1>2, <1>5, <1>6
<1> QED
  BY <1>7, <1>8 DEF w

\* What is sent is pending.
LEMMA UploadingSends ==
  ASSUME UplinkHypothesis, Uploading,
         \/ \E doc \in Up!Requests : Up!SendRequest(doc)
         \/ \E f \in Frames : Up!SendFrame(f)
         \/ \E code \in InconsistentFrames : Up!SendFaulty(code)
  PROVE  Uploading'
<1>1. PICK pending \in Seq(UpItems) :
        /\ sent = received \o pending
        /\ \/ m_slipEnabled = FALSE /\ m_dataBuffer = <<>> /\ Requesting(pending, wire)
           \/ /\ m_slipEnabled = TRUE /\ Framing(pending, m_dataBuffer, wire)
              /\ Up!request(Up!RegisterServer) \in Range(received)
  BY DEF Uploading
<1>2. closing = FALSE /\ received \in Seq(UpRequests \cup UpFrames) /\ received \in Seq(UpItems)
  BY UpSequences DEF Uploading
<1>3. Range(sent) = Range(received) \cup Range(pending)
  BY <1>1, <1>2, RangeOfConcat
<1>4. ASSUME NEW x \in UpItems, Up!Transmit(x, UpCode[x]),
             \/ m_slipEnabled = FALSE /\ x \in UpRequests
                  /\ Up!request(Up!RegisterServer) \notin Range(sent)
             \/ m_slipEnabled = TRUE /\ x \in SlipItems
      PROVE  Uploading'
  <2> DEFINE more == Append(pending, x)
  <2>1. /\ sent' = Append(sent, x) /\ wire' = wire \o UpCode[x]
        /\ m_dataBuffer' = m_dataBuffer /\ m_slipEnabled' = m_slipEnabled
        /\ closing' = closing /\ received' = received
    BY <1>4 DEF Up!Transmit
  <2>2. more \in Seq(UpItems) /\ sent' = received \o more
    <3>1. Append(pending, x) \in Seq(UpItems) /\ Append(received \o pending, x) = received \o Append(pending, x)
      <4>1. received \in Seq(UpItems) /\ pending \in Seq(UpItems) /\ x \in UpItems
        BY <1>2
      <4> QED
        BY ONLY <4>1
    <3> QED
      BY <1>1, <2>1, <3>1
  <2> HIDE DEF more
  <2>3. CASE m_slipEnabled = FALSE /\ x \in UpRequests /\ Up!request(Up!RegisterServer) \notin Range(sent)
    <3>1. Requesting(pending, wire) /\ m_dataBuffer = <<>>
      BY <1>1, <2>3
    <3>2. Requesting(more, wire \o UpCode[x])
      BY <1>3, <2>3, <3>1, RequestingGrows DEF more
    <3> QED
      BY <1>2, <2>1, <2>2, <2>3, <3>1, <3>2 DEF Uploading
  <2>4. CASE m_slipEnabled = TRUE /\ x \in SlipItems
    <3>1. Framing(pending, m_dataBuffer, wire) /\ Up!request(Up!RegisterServer) \in Range(received)
      BY <1>1, <2>4
    <3>2. Framing(more, m_dataBuffer, wire \o UpCode[x])
      BY <2>4, <3>1, FramingGrows DEF more
    <3> QED
      BY <1>2, <2>1, <2>2, <2>4, <3>1, <3>2 DEF Uploading
  <2> QED
    BY <1>4, <2>3, <2>4
<1>5. ASSUME NEW doc \in Up!Requests, Up!SendRequest(doc) PROVE Uploading'
  <2>1. /\ Up!request(doc) \in UpRequests /\ UpRequests \subseteq UpItems
        /\ UpCode[Up!request(doc)] = Append(doc, Newline)
    BY UpCodes DEF UpItems
  <2>2. /\ Up!request(Up!RegisterServer) \notin Range(sent)
        /\ Up!Transmit(Up!request(doc), Append(doc, Newline))
    BY <1>5, SameInUplink DEF Up!SendRequest
  <2>3. m_slipEnabled = FALSE
    BY <1>1, <1>3, <2>2
  <2> DEFINE x == Up!request(doc)
  <2>4. x \in UpItems /\ x \in UpRequests /\ Up!Transmit(x, UpCode[x])
    BY <2>1, <2>2
  <2> HIDE DEF x
  <2> QED
    BY <1>4, <2>2, <2>3, <2>4
<1>6. ASSUME NEW f \in Frames, Up!SendFrame(f) PROVE Uploading'
  <2>1. /\ Up!frame(f) \in SlipItems /\ SlipItems \subseteq UpItems
        /\ UpCode[Up!frame(f)] = SerializeData(BuildFrame(f))
    BY UpCodes DEF UpItems, SlipItems
  <2>2. m_slipEnabled /\ Up!Transmit(Up!frame(f), SerializeData(BuildFrame(f)))
    BY <1>6, SameInUplink DEF Up!SendFrame
  <2>3. m_slipEnabled = TRUE
    BY <1>1, <2>2
  <2> DEFINE x == Up!frame(f)
  <2>4. x \in UpItems /\ x \in SlipItems /\ Up!Transmit(x, UpCode[x])
    BY <2>1, <2>2
  <2> HIDE DEF x
  <2> QED
    BY <1>4, <2>3, <2>4
<1>7. ASSUME NEW code \in InconsistentFrames, Up!SendFaulty(code) PROVE Uploading'
  <2>1. /\ Up!faulty(code) \in SlipItems /\ SlipItems \subseteq UpItems
        /\ UpCode[Up!faulty(code)] = Append(code, ProtocolByteEnd)
    BY UpCodes DEF UpItems, SlipItems
  <2>2. m_slipEnabled /\ Up!Transmit(Up!faulty(code), Append(code, ProtocolByteEnd))
    BY <1>7, SameInUplink DEF Up!SendFaulty
  <2>3. m_slipEnabled = TRUE
    BY <1>1, <2>2
  <2> DEFINE x == Up!faulty(code)
  <2>4. x \in UpItems /\ x \in SlipItems /\ Up!Transmit(x, UpCode[x])
    BY <2>1, <2>2
  <2> HIDE DEF x
  <2> QED
    BY <1>4, <2>3, <2>4
<1> QED
  BY <1>5, <1>6, <1>7

\* A chunk of frames: some of what was pending is handled, in its order.
LEMMA UploadingReceivesFrames ==
  ASSUME UplinkHypothesis, Uploading, m_slipEnabled = TRUE, NEW n \in 1..Len(wire), Up!Receive(n)
  PROVE  Uploading'
<1> DEFINE chunk == SubSeq(wire, 1, n)
           read == CHOOSE r : Decoding(m_dataBuffer, chunk, r)
           d == read[n]
           items == FrameItems(d.frames)
<1>1. PICK pending \in Seq(UpItems) :
        /\ sent = received \o pending /\ Framing(pending, m_dataBuffer, wire)
        /\ Up!request(Up!RegisterServer) \in Range(received)
  BY DEF Uploading
<1>2. closing = FALSE /\ received \in Seq(UpRequests \cup UpFrames) /\ received \in Seq(UpItems)
  BY UpSequences DEF Uploading
<1>3. m_dataBuffer \in Seq(Byte) /\ wire \in Seq(Byte)
  BY <1>1 DEF Framing
<1>4. chunk \in Seq(Byte) /\ Len(chunk) = n
  <2>1. 1 \in Int /\ n \in Int /\ n <= Len(wire) /\ n - 1 + 1 = n /\ n >= 1
        /\ \A k \in 1..n : wire[k] \in Byte
    BY <1>3
  <2>2. chunk \in Seq(Byte) /\ Len(chunk) = IF 1 <= n THEN n - 1 + 1 ELSE 0
    BY ONLY <2>1, SubSeqProperties
  <2> HIDE DEF chunk
  <2> QED
    BY <2>1, <2>2
<1>5. /\ wire' = SubSeq(wire, n + 1, Len(wire)) /\ sent' = sent /\ Up!ReceiveFrames(chunk)
  BY DEF Up!Receive
<1>6. /\ m_dataBuffer' = d.buffer /\ received' = received \o items
      /\ m_slipEnabled' = m_slipEnabled /\ closing' = closing
  <2> HIDE DEF chunk
  <2> QED
    <3> DEFINE course == CHOOSE r : r = [k \in 0..Len(chunk) |->
                           IF k = 0 THEN [buffer |-> m_dataBuffer, frames |-> <<>>]
                           ELSE Up!DecodeByte(r[k - 1], chunk[k])]
    <3>1. read = course
      BY DEF Decoding
    <3>2. LET last == course[Len(chunk)] IN
          /\ m_dataBuffer' = last.buffer
          /\ received' = received \o [k \in DOMAIN last.frames |-> Up!frame(last.frames[k])]
          /\ UNCHANGED <<m_slipEnabled, closing>>
      BY <1>5 DEF Up!ReceiveFrames
    <3> HIDE DEF course, read
    <3>3. d = course[Len(chunk)]
      BY <1>4, <3>1
    <3> HIDE DEF d
    <3> QED
      BY <3>2, <3>3 DEF FrameItems
<1>7. ReadSoFar(pending, wire, d, n)
  <2>1. Decoding(m_dataBuffer, chunk, read)
    <3> HIDE DEF chunk
    <3> QED
      BY <1>3, <1>4, DecodingExists
  <2> HIDE DEF read
  <2> QED
    BY <1>1, <1>3, <2>1, FramesRead
<1> HIDE DEF d, items
<1>8. PICK left : pending = items \o left /\ Framing(left, d.buffer, SubSeq(wire, n + 1, Len(wire)))
  BY <1>7 DEF ReadSoFar, items
<1>9. items \in Seq(UpFrames) /\ left \in Seq(SlipItems)
  BY <1>7, <1>8, FrameItemsGrow DEF ReadSoFar, Framing, items
<1>10. left \in Seq(UpItems) /\ items \in Seq(UpItems) /\ items \in Seq(UpRequests \cup UpFrames)
  BY <1>9, UpSequences
<1>11. sent' = received' \o left
  <2>1. received \o (items \o left) = (received \o items) \o left
    <3>1. received \in Seq(UpItems) /\ items \in Seq(UpItems) /\ left \in Seq(UpItems)
      BY <1>2, <1>10
    <3> QED
      BY ONLY <3>1
  <2> QED
    BY <1>1, <1>5, <1>6, <1>8, <2>1
<1>12. received \o items \in Seq(UpRequests \cup UpFrames)
  BY <1>2, <1>10, ConcatProperties
<1>13. Up!request(Up!RegisterServer) \in Range(received')
  BY <1>1, <1>2, <1>6, <1>10, RangeOfConcat
<1> QED
  BY <1>2, <1>5, <1>6, <1>8, <1>10, <1>11, <1>12, <1>13 DEF Uploading

\* A chunk of requests: the same, and nothing is left behind RegisterServer.
LEMMA UploadingReceivesRequests ==
  ASSUME UplinkHypothesis, Uploading, m_slipEnabled = FALSE, NEW n \in 1..Len(wire), Up!Receive(n)
  PROVE  Uploading'
<1> DEFINE chunk == SubSeq(wire, 1, n)
           rest == SubSeq(wire, n + 1, Len(wire))
           register == Up!request(Up!RegisterServer)
<1>1. PICK pending \in Seq(UpItems) :
        sent = received \o pending /\ m_dataBuffer = <<>> /\ Requesting(pending, wire)
  BY DEF Uploading
<1>2. closing = FALSE /\ received \in Seq(UpRequests \cup UpFrames) /\ received \in Seq(UpItems)
  BY UpSequences DEF Uploading
<1>3. wire \in Seq(Byte)
  <2>1. Encodes(UpCode, UpRequests, Byte) /\ pending \in Seq(UpRequests) /\ wire = Laid(UpCode, pending)
    BY <1>1, UpItemsEnd DEF Encodes, UpItems, Requesting
  <2>2. Laid(UpCode, pending) \in Seq(Byte)
    <3>1. pending \in Seq(UpRequests)
      BY <2>1
    <3> QED
      BY ONLY <2>1, <3>1, LaidGrows
  <2> QED
    BY <2>1, <2>2
<1>4. wire[n] = Newline /\ wire' = rest /\ sent' = sent /\ Up!ReceiveRequests(chunk)
  BY SameInUplink DEF Up!Receive, UplinkHypothesis
<1>5. PICK docs \in Seq(Up!Requests), left \in Seq(UpRequests) :
        LET split == Up!SplitPackets(chunk) IN
        /\ split.rest = <<>>
        /\ [k \in DOMAIN split.packets |-> Up!Document(split.packets[k])] = docs
        /\ Up!Only(docs, Up!Requests) = docs
        /\ RequestItems(docs) \in Seq(UpRequests)
        /\ pending = RequestItems(docs) \o left
        /\ Requesting(left, rest)
        /\ Up!RegisterServer \in Range(docs) => left = <<>>
  BY <1>1, <1>4, RequestsRead
<1> DEFINE items == RequestItems(docs)
<1>6. m_dataBuffer \o chunk = chunk
  <2>1. chunk \in Seq(Byte)
    <3>1. 1 \in Int /\ n \in Int /\ \A k \in 1..n : wire[k] \in Byte
      BY <1>3
    <3> QED
      BY ONLY <3>1, SubSeqProperties
  <2> QED
    BY <1>1, <2>1, ConcatEmptySeq
<1>7. /\ m_dataBuffer' = <<>> /\ received' = received \o items
      /\ closing' = FALSE /\ m_slipEnabled' = (Up!RegisterServer \in Range(docs))
  <2>1. /\ m_dataBuffer' = Up!SplitPackets(chunk).rest
        /\ received' = received \o [k \in DOMAIN docs |-> Up!request(docs[k])]
        /\ closing' = (Len(docs) < Len(docs))
        /\ m_slipEnabled' = (Up!RegisterServer \in Up!Range(docs))
    <3> HIDE DEF chunk
    <3> QED
      BY <1>4, <1>5, <1>6 DEF Up!ReceiveRequests
  <2>2. Len(docs) \in Nat
    OBVIOUS
  <2>3. ~(Len(docs) < Len(docs))
    BY <2>2
  <2>4. Up!SplitPackets(chunk).rest = <<>>
    BY <1>5
  <2>5. Up!Range(docs) = Range(docs)
    BY SameInUplink
  <2>6. items = [k \in DOMAIN docs |-> Up!request(docs[k])]
    BY DEF RequestItems
  <2> HIDE DEF items
  <2>7. m_dataBuffer' = <<>> /\ received' = received \o items
    BY <2>1, <2>4, <2>6
  <2>8. closing' = FALSE
    <3>1. (Len(docs) < Len(docs)) = FALSE
      BY <2>3
    <3>2. closing' = (Len(docs) < Len(docs))
      BY <2>1
    <3> QED
      BY ONLY <3>1, <3>2, Zenon
  <2>9. m_slipEnabled' = (Up!RegisterServer \in Range(docs))
    BY <2>1, <2>5
  <2> QED
    BY <2>7, <2>8, <2>9
<1>8. items \in Seq(UpItems) /\ left \in Seq(UpItems) /\ items \in Seq(UpRequests \cup UpFrames)
  BY <1>5, UpSequences
<1>9. pending = items \o left /\ Requesting(left, rest)
      /\ (Up!RegisterServer \in Range(docs) => left = <<>>)
  BY <1>5
<1>10. Up!RegisterServer \in Range(docs) => register \in Range(items)
  BY DEF Range, RequestItems
<1> HIDE DEF items, rest, register
<1>11. sent' = received' \o left
  <2>1. received \o (items \o left) = (received \o items) \o left
    <3>1. received \in Seq(UpItems) /\ items \in Seq(UpItems) /\ left \in Seq(UpItems)
      BY <1>2, <1>8
    <3> QED
      BY ONLY <3>1
  <2> QED
    BY <1>1, <1>4, <1>7, <1>9, <2>1
<1>12. received \o items \in Seq(UpRequests \cup UpFrames)
  BY <1>2, <1>8, ConcatProperties
<1>13. CASE Up!RegisterServer \notin Range(docs)
  <2>1. m_slipEnabled' = FALSE /\ m_dataBuffer' = <<>> /\ closing' = FALSE
    <3>1. (Up!RegisterServer \in Range(docs)) = FALSE
      BY <1>13
    <3>2. m_slipEnabled' = (Up!RegisterServer \in Range(docs))
      BY <1>7
    <3>3. m_slipEnabled' = FALSE
      BY ONLY <3>1, <3>2, Zenon
    <3> QED
      BY <1>7, <3>3
  <2>2. Requesting(left, wire') /\ left \in Seq(UpItems)
    BY <1>4, <1>8, <1>9
  <2>3. received' \in Seq(UpRequests \cup UpFrames)
    BY <1>7, <1>12
  <2> QED
    BY ONLY <1>11, <2>1, <2>2, <2>3 DEF Uploading
<1>14. CASE Up!RegisterServer \in Range(docs)
  <2>1. left = <<>> /\ register \in Range(received')
    BY <1>2, <1>7, <1>8, <1>9, <1>10, <1>14, RangeOfConcat
  <2>2. Framing(left, <<>>, rest)
    <3>1. rest = <<>> /\ Laid(UpCode, <<>>) = <<>>
      <4>1. Encodes(UpCode, UpRequests, Byte) /\ <<>> \in Seq(UpRequests)
        BY UpItemsEnd DEF Encodes, UpItems
      <4>2. Laid(UpCode, <<>>) = <<>>
        BY ONLY <4>1, LaidGrows
      <4> QED
        BY <1>9, <2>1, <4>2 DEF Requesting
    <3>2. <<>> \o <<>> = <<>> /\ <<>> \in Seq(Byte) /\ <<>> \in Seq(SlipItems)
      BY ConcatEmptySeq
    <3> QED
      BY <2>1, <3>1, <3>2 DEF Framing, Free
  <2> QED
    BY <1>4, <1>7, <1>8, <1>11, <1>12, <1>14, <2>1, <2>2 DEF Uploading, register
<1> QED
  BY <1>13, <1>14

\* A code that ends in the end byte of SLIP is not free of it.
LEMMA EndIsInside ==
  ASSUME NEW b \in Seq(Byte), NEW v \in Seq(Byte)
  PROVE  ~Free(ProtocolByteEnd, Append(b, ProtocolByteEnd) \o v)
<1> DEFINE c == Append(b, ProtocolByteEnd)
           i == Len(b) + 1
<1>1. /\ i \in 1..Len(c) /\ c[i] = ProtocolByteEnd /\ c \in Seq(Byte)
  BY ProtocolBytes
<1> HIDE DEF c, i
<1>2. i \in 1..(Len(c) + Len(v)) /\ (c \o v)[i] = c[i]
  BY <1>1
<1>3. DOMAIN (c \o v) = 1..(Len(c) + Len(v))
  BY <1>1
<1> QED
  BY <1>1, <1>2, <1>3 DEF Free, c

\* What was sent is read: nothing is pending but behind a faulty code.
LEMMA NothingPending ==
  ASSUME UplinkHypothesis, NEW pending,
         \/ Requesting(pending, <<>>)
         \/ \E buffer : Framing(pending, buffer, <<>>),
         Range(pending) \cap UpFaulty = {}
  PROVE  pending = <<>>
<1>1. SUFFICES ASSUME pending # <<>> PROVE FALSE
  OBVIOUS
<1>2. ASSUME Requesting(pending, <<>>) PROVE FALSE
  <2>1. pending \in Seq(UpRequests) /\ Laid(UpCode, pending) = <<>>
    BY <1>2 DEF Requesting
  <2>2. Encodes(UpCode, UpRequests, Byte) /\ \A x \in UpRequests : UpCode[x] # <<>>
    <3>1. \A x \in UpRequests : UpBody[x] \in Seq(Byte) /\ UpCode[x] = Append(UpBody[x], Newline)
      BY UpItemsEnd DEF Ended
    <3>2. Newline \in Byte
      BY DEF Newline, Byte
    <3> QED
      BY <3>1, <3>2, UpItemsEnd, AppendProperties DEF Encodes, UpItems
  <2>3. pending \in Seq(UpRequests)
    BY <2>1
  <2>4. Len(Laid(UpCode, pending)) >= Len(pending)
    BY ONLY <2>2, <2>3, LaidIsLong
  <2> QED
    BY <1>1, <2>1, <2>4
<1>3. ASSUME NEW buffer, Framing(pending, buffer, <<>>) PROVE FALSE
  <2>1. /\ pending \in Seq(SlipItems) /\ buffer \in Seq(Byte) /\ Free(ProtocolByteEnd, buffer)
        /\ \/ buffer \o <<>> = Laid(UpCode, pending)
           \/ Head(pending) \in UpFaulty
    BY <1>3 DEF Framing
  <2>2. Head(pending) \in SlipItems /\ Tail(pending) \in Seq(SlipItems) /\ Head(pending) \in Range(pending)
    <3>1. Head(pending) \in SlipItems /\ Tail(pending) \in Seq(SlipItems) /\ Head(pending) = pending[1]
          /\ 1 \in 1..Len(pending)
      BY <1>1, <2>1, HeadTailProperties
    <3> QED
      BY <2>1, <3>1 DEF Range
  <2>3. buffer = Laid(UpCode, pending)
    BY <2>1, <2>2, ConcatEmptySeq
  <2> DEFINE b == UpBody[Head(pending)]
             c == Append(b, ProtocolByteEnd)
             v == Laid(UpCode, Tail(pending))
  <2>4. b \in Seq(Byte) /\ UpCode[Head(pending)] = c /\ ProtocolByteEnd \in Byte
    BY <2>2, UpItemsEnd, ProtocolBytes DEF Ended
  <2>5. v \in Seq(Byte) /\ Laid(UpCode, pending) = c \o v
    <3>1. Encodes(UpCode, SlipItems, Byte)
      BY UpItemsEnd DEF Encodes, UpItems
    <3>2. pending \in Seq(SlipItems) /\ Tail(pending) \in Seq(SlipItems)
      BY <2>1, <2>2
    <3>3. Laid(UpCode, Tail(pending)) \in Seq(Byte)
      BY ONLY <3>1, <3>2, LaidGrows
    <3>4. Laid(UpCode, pending) = UpCode[Head(pending)] \o Laid(UpCode, Tail(pending))
      BY ONLY <1>1, <3>1, <3>2, LaidHead
    <3> QED
      BY <2>4, <3>3, <3>4
  <2> HIDE DEF b, v
  <2>6. ~Free(ProtocolByteEnd, c \o v)
    BY <2>4, <2>5, EndIsInside
  <2> QED
    BY <2>1, <2>3, <2>5, <2>6
<1> QED
  BY <1>2, <1>3

LEMMA UploadingIsIntact ==
  ASSUME UplinkHypothesis, Uploading
  PROVE  /\ Up!IsPrefix(received, Up!Only(sent, Up!WellEncoded))
         /\ ~closing
         /\ Range(sent) \subseteq Up!WellEncoded => Up!NothingLost
<1> DEFINE W == UpRequests \cup UpFrames
<1>1. PICK pending \in Seq(UpItems) :
        /\ sent = received \o pending
        /\ \/ Requesting(pending, wire)
           \/ Framing(pending, m_dataBuffer, wire)
  BY DEF Uploading
<1>2. closing = FALSE /\ received \in Seq(W) /\ received \in Seq(UpItems)
  BY UpSequences DEF Uploading
<1>3. Up!WellEncoded = W
  BY DEF Up!WellEncoded, UpRequests, UpFrames
<1> HIDE DEF W
<1>4. Only(received, W) = received
  <2>1. Range(received) \subseteq W
    BY <1>2 DEF Range
  <2> QED
    BY <1>2, <2>1, OnlyAll
<1> DEFINE o == Only(pending, W)
<1>5. o \in Seq(UpItems) /\ Only(sent, W) = received \o o
  <2>1. /\ \A s \in Seq(UpItems) : Only(s, W) \in Seq(UpItems)
        /\ \A s, t \in Seq(UpItems) : Only(s \o t, W) = Only(s, W) \o Only(t, W)
    <3>1. \A s \in Seq(UpItems) : Only(s, W) \in Seq(UpItems)
      BY ONLY OnlyGrows
    <3>2. \A s, t \in Seq(UpItems) : Only(s \o t, W) = Only(s, W) \o Only(t, W)
      BY ONLY OnlyGrows
    <3> QED
      BY <3>1, <3>2
  <2> QED
    BY <1>1, <1>2, <1>4, <2>1
<1> HIDE DEF o
<1>6. IsPrefix(received, Only(sent, W))
  <2>1. SubSeq(received, 1, Len(received)) = received
    BY <1>2, SubSeqFull
  <2>2. SubSeq(received \o o, 1, Len(received)) = received
    BY <1>2, <1>5, PrefixAndRest
  <2>3. Len(received) <= Len(received \o o)
    BY <1>2, <1>5
  <2> QED
    BY <1>5, <2>1, <2>2, <2>3 DEF IsPrefix
<1>7. ASSUME Range(sent) \subseteq W, wire = <<>> PROVE received = Only(sent, W)
  <2>1. Range(pending) \subseteq W
    BY <1>1, <1>2, <1>7, RangeOfConcat
  <2>2. W \cap UpFaulty = {}
    BY DEF W, UpRequests, UpFrames, UpFaulty, Up!request, Up!frame, Up!faulty
  <2>3. pending = <<>>
    BY <1>1, <1>7, <2>1, <2>2, NothingPending
  <2>4. received \o <<>> = received
    BY <1>2, ConcatEmptySeq
  <2> QED
    BY <1>1, <1>4, <2>3, <2>4
<1> QED
  BY <1>2, <1>3, <1>6, <1>7, SameInUplink DEF Up!NothingLost

\* TunnelProxyClient::processData: for requests and frames of any number and length, and bytes
\* cut into chunks anywhere, every frame is handled as the server sent it and in its order, no
\* well-behaved server is disconnected, and nothing is lost as long as it encodes well.
THEOREM UplinkCorrect ==
  ASSUME UplinkHypothesis
  PROVE  Spec => []UplinkIntact
<1> DEFINE Inv == part = "uplink" => Uploading
<1>1. Init => Inv
  <2> SUFFICES ASSUME Init PROVE Uploading
    OBVIOUS
  <2>1. sent = <<>> /\ wire = <<>> /\ m_dataBuffer = <<>> /\ m_slipEnabled = FALSE
        /\ closing = FALSE /\ received = <<>>
    BY DEF Init, Up!Init
  <2>2. <<>> \in Seq(UpItems) /\ <<>> \in Seq(UpRequests) /\ <<>> \in Seq(UpRequests \cup UpFrames)
        /\ Len(<<>>) = 0
    OBVIOUS
  <2>3. Encodes(UpCode, UpRequests, Byte)
    BY UpItemsEnd DEF Encodes, UpItems
  <2>4. Laid(UpCode, <<>>) = <<>>
    BY ONLY <2>2, <2>3, LaidGrows
  <2>5. Requesting(<<>>, <<>>)
    BY <2>2, <2>4 DEF Requesting
  <2>6. <<>> = <<>> \o <<>>
    BY ConcatEmptySeq
  <2> QED
    BY <2>1, <2>2, <2>5, <2>6 DEF Uploading
<1>2. Inv /\ [Next]_vars => Inv'
  <2> SUFFICES ASSUME Inv, [Next]_vars, part' = "uplink" PROVE Uploading'
    OBVIOUS
  <2>1. CASE Uplink
    <3>1. Uploading /\ Up!Next
      BY <2>1 DEF Uplink
    <3>2. CASE \/ \E doc \in Up!Requests : Up!SendRequest(doc)
               \/ \E f \in Frames : Up!SendFrame(f)
               \/ \E code \in InconsistentFrames : Up!SendFaulty(code)
      BY <3>1, <3>2, UploadingSends
    <3>3. ASSUME NEW n \in 1..Len(wire), Up!Receive(n) PROVE Uploading'
      <4>1. m_slipEnabled = TRUE \/ m_slipEnabled = FALSE
        BY <3>1 DEF Uploading
      <4> QED
        BY <3>1, <3>3, <4>1, UploadingReceivesFrames, UploadingReceivesRequests
    <3> QED
      BY <3>1, <3>2, <3>3 DEF Up!Next
  <2>2. CASE Downlink
    BY <2>2 DEF Downlink
  <2>3. CASE Codec
    BY <2>3 DEF Codec
  <2>4. CASE UNCHANGED vars
    BY <2>4 DEF vars, serverVars, Uploading
  <2>5. CASE Monitoring
    BY <2>5 DEF Monitoring
  <2> QED
    BY <2>1, <2>2, <2>3, <2>4, <2>5 DEF Next
<1>3. Inv => UplinkIntact
  <2>1. Up!Range(sent) = Range(sent)
    BY SameInUplink
  <2> QED
    BY <2>1, UploadingIsIntact DEF UplinkIntact, FramesIntact, Up!FramesIntact,
      Up!WellBehavedStays, Up!NothingLostWithoutFault
<1> QED
  BY <1>1, <1>2, <1>3, PTL DEF Spec

-----------------------------------------------------------------------------
(* The stream to the library (ServerDownlink).                             *)

LEMMA SameInDownlink ==
  /\ Down!Transposed = Transposed /\ Down!ProtocolByteEnd = ProtocolByteEnd
  /\ \A seqs : Down!FlattenSeq(seqs) = FlattenSeq(seqs)
  /\ \A data : Down!SerializeData(data) = SerializeData(data)
  /\ \A data : Down!DeserializeData(data) = DeserializeData(data)
  /\ \A f : Down!BuildFrame(f) = BuildFrame(f)
  /\ \A data : Down!ParseFrame(data) = ParseFrame(data)
  /\ \A seq, S : Down!Only(seq, S) = Only(seq, S)
  /\ \A packet : Down!Document(packet) = Document(packet)
  /\ \A data : Down!SplitPackets(data) = SplitPackets(data)
  /\ Down!Newline = Newline /\ Down!Open = Open /\ Down!Close = Close
  /\ \A s, t : Down!IsPrefix(s, t) = IsPrefix(s, t)
  /\ \A f : Down!Range(f) = Range(f)
<1>1. /\ Down!ProtocolByteEnd = ProtocolByteEnd /\ Down!ProtocolByteEsc = ProtocolByteEsc
      /\ Down!Transposed = Transposed
  BY DEF Down!Transposed, Transposed, Down!ProtocolByteEnd, ProtocolByteEnd, Down!ProtocolByteEsc,
    ProtocolByteEsc, Down!ProtocolByteTransposedEsc, ProtocolByteTransposedEsc,
    Down!ProtocolByteTransposedEnd, ProtocolByteTransposedEnd
<1>2. ASSUME NEW S PROVE Down!SetToSeq(S) = SetToSeq(S)
  BY DEF SetToSeq, Down!SetToSeq, Down!IsInjective, IsInjective, Down!Cardinality, Cardinality
<1>3. ASSUME NEW seqs PROVE Down!FlattenSeq(seqs) = FlattenSeq(seqs)
  BY DEF FlattenSeq, Down!FlattenSeq
<1>4. ASSUME NEW r, NEW byte PROVE Down!ReadByte(r, byte) = ReadByte(r, byte)
  BY <1>1, <1>2 DEF Down!ReadByte, ReadByte
<1>5. ASSUME NEW data PROVE Down!DeserializeData(data) = DeserializeData(data)
  BY <1>4 DEF Down!DeserializeData, DeserializeData
<1>6. ASSUME NEW data PROVE Down!SerializeData(data) = SerializeData(data)
  <2>1. \A byte : Down!WriteByte(byte) = WriteByte(byte)
    BY <1>1 DEF Down!WriteByte, WriteByte
  <2> QED
    BY <1>1, <1>3, <2>1 DEF Down!SerializeData, SerializeData
<1>7. ASSUME NEW f PROVE Down!BuildFrame(f) = BuildFrame(f) /\ Down!ParseFrame(f) = ParseFrame(f)
  BY DEF Down!BuildFrame, BuildFrame, Down!ParseFrame, ParseFrame
<1>8. Down!Newline = Newline /\ Down!Open = Open /\ Down!Close = Close
  BY DEF Down!Newline, Newline, Down!Open, Open, Down!Close, Close
<1>9. ASSUME NEW s, NEW t
      PROVE  /\ Down!IsPrefix(s, t) = IsPrefix(s, t) /\ Down!IsSuffix(s, t) = IsSuffix(s, t)
             /\ Down!Range(s) = Range(s) /\ Down!Min(s) = Min(s)
  BY DEF Down!IsPrefix, IsPrefix, Down!IsSuffix, IsSuffix, Down!Reverse, Reverse, Down!Range, Range,
    Down!Min, Min
<1>10. ASSUME NEW seq, NEW S PROVE Down!Only(seq, S) = Only(seq, S)
  BY <1>3 DEF Down!Only, Only
<1>11. ASSUME NEW packet PROVE Down!Document(packet) = Document(packet)
  BY <1>8, <1>9, <1>10 DEF Down!Document, Document
<1>12. ASSUME NEW data PROVE Down!SplitPackets(data) = SplitPackets(data)
  <2>1. ASSUME NEW w PROVE Down!Cuts(w) = Cuts(w)
    BY <1>8 DEF Down!Cuts, Cuts
  <2>2. ASSUME NEW split PROVE Down!CutFirst(split) = CutFirst(split)
    BY <1>9, <2>1 DEF Down!CutFirst, CutFirst
  <2>3. ASSUME NEW w PROVE Down!CutAll(w) = CutAll(w)
    BY <2>2 DEF Down!CutAll, CutAll
  <2>4. ASSUME NEW w PROVE Down!LooksComplete(w) = LooksComplete(w)
    BY <1>8, <1>9 DEF Down!LooksComplete, LooksComplete
  <2> QED
    BY <2>3, <2>4 DEF Down!SplitPackets, SplitPackets
<1> QED
  BY <1>1, <1>3, <1>5, <1>6, <1>7, <1>8, <1>9, <1>10, <1>11, <1>12

\* What the theorem is about: every response arrives whole and by itself, as the library
\* takes the rest of a read for JSON as well; the sockets of clients have addresses of 16
\* bits, and 0 is not one of them.
DownlinkHypothesis ==
  /\ ~FragmentResponses /\ ~CoalesceReads
  /\ \A f \in TunnelFrames :
       f \in [address : Address, data : Seq(Byte)] /\ f.address # 0

\* The responses, and what is sent in frames behind them.
HelloItem     == Down!json(Down!HelloResponse)
RegisterItem  == Down!json(Down!RegisterResponse)
NoticeItem    == Down!json(Down!Notification)
DownFrames    == {Down!frame(f) : f \in TunnelFrames}
DownSlip      == DownFrames \cup {NoticeItem}
DownResponses == {HelloItem, RegisterItem}
DownItems     == DownResponses \cup DownSlip

\* The frame that an item is sent in, and its bytes up to the byte that ends it.
NoticeFrame == [address |-> 0, data |-> Append(Down!Notification, Newline)]
FrameOf(x)  == IF x = NoticeItem THEN NoticeFrame ELSE x.content
DownBody ==
  [x \in DownItems |-> IF x \in DownResponses THEN x.content ELSE Body(BuildFrame(FrameOf(x)))]
DownCode ==
  [x \in DownItems |->
    Append(DownBody[x], IF x \in DownResponses THEN Newline ELSE ProtocolByteEnd)]

\* The documents are documents, and no two of them are the same.
LEMMA ResponsesAreDocuments ==
  /\ \A doc \in Down!Documents : IsDocument(doc)
  /\ Down!HelloResponse # Down!RegisterResponse
  /\ Down!Notification # Down!HelloResponse /\ Down!Notification # Down!RegisterResponse
<1>1. Down!Open = Open /\ Down!Close = Close
  BY SameInDownlink
<1>2. ASSUME NEW x \in Byte, NEW doc, x # Newline, doc = <<Open, x, Open, 3, Close, 4, Close>>
      PROVE  IsDocument(doc) /\ doc[2] = x
  <2>1. /\ doc \in Seq(Byte) /\ Len(doc) = 7 /\ DOMAIN doc = 1..7
        /\ doc[1] = Open /\ doc[2] = x /\ doc[3] = Open /\ doc[4] = 3 /\ doc[5] = Close
        /\ doc[6] = 4 /\ doc[7] = Close
    BY <1>2 DEF Open, Close, Byte
  <2>2. Free(Newline, doc)
    BY <1>2, <2>1 DEF Free, Newline, Open, Close
  <2> QED
    BY <2>1, <2>2 DEF IsDocument
<1>3. ASSUME NEW doc, doc = <<Open, 5, Open, 3, Close, Close>>
      PROVE  IsDocument(doc) /\ doc[2] = 5
  <2>1. /\ doc \in Seq(Byte) /\ Len(doc) = 6 /\ DOMAIN doc = 1..6
        /\ doc[1] = Open /\ doc[2] = 5 /\ doc[3] = Open /\ doc[4] = 3 /\ doc[5] = Close
        /\ doc[6] = Close
    BY <1>3 DEF Open, Close, Byte
  <2> QED
    BY <2>1 DEF IsDocument, Free, Newline, Open, Close
<1>4. 1 \in Byte /\ 2 \in Byte /\ 1 # Newline /\ 2 # Newline
  BY DEF Byte, Newline
<1>5. IsDocument(Down!HelloResponse) /\ Down!HelloResponse[2] = 1
  BY <1>1, <1>2, <1>4 DEF Down!HelloResponse
<1>6. IsDocument(Down!RegisterResponse) /\ Down!RegisterResponse[2] = 2
  BY <1>1, <1>2, <1>4 DEF Down!RegisterResponse
<1>7. IsDocument(Down!Notification) /\ Down!Notification[2] = 5
  BY <1>1, <1>3 DEF Down!Notification
<1> QED
  BY <1>5, <1>6, <1>7 DEF Down!Documents

\* No frame is a response.
LEMMA DownItemsDiffer ==
  ASSUME DownlinkHypothesis
  PROVE  /\ HelloItem # RegisterItem /\ NoticeItem \notin DownResponses
         /\ \A f \in TunnelFrames : Down!frame(f) \notin DownResponses /\ Down!frame(f) # NoticeItem
         /\ DownSlip \cap DownResponses = {}
<1>1. HelloItem # RegisterItem /\ NoticeItem \notin DownResponses
  BY ResponsesAreDocuments DEF HelloItem, RegisterItem, NoticeItem, DownResponses, Down!json
<1>2. ASSUME NEW f \in TunnelFrames PROVE Down!frame(f) \notin DownResponses /\ Down!frame(f) # NoticeItem
  BY DEF HelloItem, RegisterItem, NoticeItem, DownResponses, Down!json, Down!frame
<1> QED
  BY <1>1, <1>2 DEF DownSlip, DownFrames

\* The frame of an item.
LEMMA FramesOfItems ==
  ASSUME DownlinkHypothesis, NEW x \in DownSlip
  PROVE  /\ FrameOf(x) \in [address : Address, data : Seq(Byte)]
         /\ x = NoticeItem => FrameOf(x) = NoticeFrame /\ FrameOf(x).address = 0
         /\ x # NoticeItem => /\ x \in DownFrames /\ x = Down!frame(FrameOf(x))
                              /\ FrameOf(x).address # 0
<1>1. NoticeFrame \in [address : Address, data : Seq(Byte)]
  <2>1. Newline \in Byte /\ Down!Notification \in Seq(Byte)
    BY ResponsesAreDocuments DEF Down!Documents, IsDocument, Newline, Byte
  <2>2. Append(Down!Notification, Newline) \in Seq(Byte)
    BY <2>1, AppendProperties
  <2>3. 0 \in Address
    BY DEF Address
  <2> QED
    BY <2>2, <2>3 DEF NoticeFrame
<1>2. CASE x = NoticeItem
  BY <1>1, <1>2 DEF FrameOf, NoticeFrame
<1>3. CASE x # NoticeItem
  <2>1. PICK f \in TunnelFrames : x = Down!frame(f)
    BY <1>3 DEF DownSlip, DownFrames
  <2>2. FrameOf(x) = f
    BY <1>3, <2>1 DEF FrameOf, Down!frame
  <2> QED
    BY <1>3, <2>1, <2>2 DEF DownlinkHypothesis, DownFrames
<1> QED
  BY <1>2, <1>3

\* The bytes of each item.
LEMMA DownCodes ==
  ASSUME DownlinkHypothesis
  PROVE  /\ DownCode[HelloItem] = Append(Down!HelloResponse, Newline)
         /\ DownCode[RegisterItem] = Append(Down!RegisterResponse, Newline)
         /\ \A x \in DownSlip : /\ DownBody[x] = Body(BuildFrame(FrameOf(x)))
                                /\ DownCode[x] = SerializeData(BuildFrame(FrameOf(x)))
<1>1. /\ DownCode[HelloItem] = Append(Down!HelloResponse, Newline)
      /\ DownCode[RegisterItem] = Append(Down!RegisterResponse, Newline)
  BY DEF DownCode, DownBody, DownItems, DownResponses, HelloItem, RegisterItem, Down!json
<1>2. ASSUME NEW x \in DownSlip
      PROVE  /\ DownBody[x] = Body(BuildFrame(FrameOf(x)))
             /\ DownCode[x] = SerializeData(BuildFrame(FrameOf(x)))
  <2>1. x \in DownItems /\ x \notin DownResponses
    BY DownItemsDiffer DEF DownItems
  <2>2. DownBody[x] = Body(BuildFrame(FrameOf(x)))
    BY <2>1 DEF DownBody
  <2>3. DownCode[x] = Append(DownBody[x], ProtocolByteEnd)
    BY <2>1 DEF DownCode
  <2>4. BuildFrame(FrameOf(x)) \in Seq(Byte)
    BY FramesOfItems, ParsesWhatWasBuilt
  <2>5. SerializeData(BuildFrame(FrameOf(x))) = Append(Body(BuildFrame(FrameOf(x))), ProtocolByteEnd)
    BY <2>4, EndIsLast
  <2> QED
    BY <2>2, <2>3, <2>5
<1> QED
  BY <1>1, <1>2

\* Responses end in a newline, frames in the end byte of SLIP.
LEMMA DownItemsEnd ==
  ASSUME DownlinkHypothesis
  PROVE  /\ Ended(Newline, DownBody, DownCode, DownResponses, Byte)
         /\ Ended(ProtocolByteEnd, DownBody, DownCode, DownSlip, Byte)
         /\ Encodes(DownCode, DownItems, Byte)
<1>0. Newline \in Byte /\ ProtocolByteEnd \in Byte
  BY DEF Newline, Byte, ProtocolByteEnd
<1>1. ASSUME NEW x \in DownResponses
      PROVE  /\ DownBody[x] \in Seq(Byte) /\ Free(Newline, DownBody[x]) /\ DownCode[x] \in Seq(Byte)
             /\ DownCode[x] = Append(DownBody[x], Newline)
  <2>1. PICK doc \in Down!Documents : x = Down!json(doc)
    BY DEF DownResponses, HelloItem, RegisterItem, Down!Documents
  <2>2. DownBody[x] = doc /\ DownCode[x] = Append(doc, Newline)
    BY <2>1 DEF DownBody, DownCode, DownItems, Down!json
  <2>3. IsDocument(doc)
    BY ResponsesAreDocuments
  <2>4. doc \in Seq(Byte) /\ Free(Newline, doc)
    BY <2>3 DEF IsDocument
  <2>5. Append(doc, Newline) \in Seq(Byte)
    BY <1>0, <2>4, AppendProperties
  <2> QED
    BY <2>2, <2>4, <2>5
<1>2. ASSUME NEW x \in DownSlip
      PROVE  /\ DownBody[x] \in Seq(Byte) /\ Free(ProtocolByteEnd, DownBody[x])
             /\ DownCode[x] = Append(DownBody[x], ProtocolByteEnd)
  <2>1. BuildFrame(FrameOf(x)) \in Seq(Byte)
    BY FramesOfItems, ParsesWhatWasBuilt
  <2> DEFINE data == BuildFrame(FrameOf(x))
  <2>2. DownBody[x] = Body(data) /\ DownCode[x] = SerializeData(data)
    BY DownCodes
  <2>3. data \in Seq(Byte)
    BY <2>1
  <2> HIDE DEF data
  <2>4. SerializeData(data) = Append(Body(data), ProtocolByteEnd) /\ Free(ProtocolByteEnd, Body(data))
    BY <2>3, EndIsLast DEF Free
  <2> QED
    BY <2>2, <2>3, <2>4, BodyFacts
<1>3. ASSUME NEW x \in DownSlip PROVE DownCode[x] \in Seq(Byte)
  <2>1. Append(DownBody[x], ProtocolByteEnd) \in Seq(Byte)
    BY <1>0, <1>2, AppendProperties
  <2> QED
    BY <1>2, <2>1
<1>4. Ended(Newline, DownBody, DownCode, DownResponses, Byte)
  BY <1>1 DEF Ended
<1>5. Ended(ProtocolByteEnd, DownBody, DownCode, DownSlip, Byte)
  BY <1>2, <1>3 DEF Ended
<1>6. Encodes(DownCode, DownItems, Byte)
  BY <1>1, <1>3 DEF Encodes, DownItems
<1> QED
  BY <1>4, <1>5, <1>6

\* What the loop of onConnectionDataAvailable comes to: nothing stays in the JSON buffer.
Readouts == [buffer : Seq(Byte), json : {<<>>}, items : Seq(DownItems)]

LEMMA ReadoutFacts ==
  ASSUME NEW r \in Readouts
  PROVE  /\ r.buffer \in Seq(Byte) /\ r.json = <<>> /\ r.items \in Seq(DownItems)
         /\ \A b : [r EXCEPT !.buffer = b] = [buffer |-> b, json |-> <<>>, items |-> r.items]
         /\ \A i : [r EXCEPT !.items = i] = [buffer |-> r.buffer, json |-> <<>>, items |-> i]
         /\ \A i : [r EXCEPT !.json = <<>>, !.items = i] = [buffer |-> r.buffer, json |-> <<>>, items |-> i]
         /\ \A b \in Seq(Byte), i \in Seq(DownItems) : [buffer |-> b, json |-> <<>>, items |-> i] \in Readouts
<1>1. PICK none : none = <<>>
  OBVIOUS
<1>2. r \in [buffer : Seq(Byte), json : {none}, items : Seq(DownItems)]
  BY <1>1 DEF Readouts
<1>3. /\ r.buffer \in Seq(Byte) /\ r.json = none /\ r.items \in Seq(DownItems)
      /\ r = [buffer |-> r.buffer, json |-> none, items |-> r.items]
  BY ONLY <1>2
<1>4. DOMAIN r = {"buffer", "json", "items"}
  BY ONLY <1>2
<1>6. ASSUME NEW b PROVE [r EXCEPT !.buffer = b] = [buffer |-> b, json |-> none, items |-> r.items]
  BY ONLY <1>3, <1>4
<1>7. ASSUME NEW i PROVE [r EXCEPT !.items = i] = [buffer |-> r.buffer, json |-> none, items |-> i]
  BY ONLY <1>3, <1>4
<1>8. ASSUME NEW i
      PROVE  [r EXCEPT !.json = none, !.items = i] = [buffer |-> r.buffer, json |-> none, items |-> i]
  <2> DEFINE q == [r EXCEPT !.json = none]
  <2>1. [r EXCEPT !.json = none, !.items = i] = [q EXCEPT !.items = i]
    OBVIOUS
  <2>2. q = r
    BY <1>3, <1>4
  <2> HIDE DEF q
  <2> QED
    BY <1>7, <2>1, <2>2
<1>5. \A b \in Seq(Byte), i \in Seq(DownItems) :
        [buffer |-> b, json |-> none, items |-> i] \in [buffer : Seq(Byte), json : {none}, items : Seq(DownItems)]
  OBVIOUS
<1> QED
  BY <1>1, <1>3, <1>5, <1>6, <1>7, <1>8, Zenon DEF Readouts

\* A document with its newline is handled, and nothing else.
LEMMA OneDocument ==
  ASSUME NEW doc \in Down!Documents, NEW r \in Readouts
  PROVE  Down!ProcessJson(r, Append(doc, Newline))
           = [buffer |-> r.buffer, json |-> <<>>, items |-> r.items \o <<Down!json(doc)>>]
<1> DEFINE code == [d \in Down!Documents |-> Append(d, Newline)]
           data == Append(doc, Newline)
           docs == <<doc>>
           none == <<>>
           split == Down!SplitPackets(r.json \o data)
<1>1. Newlined(code, Down!Documents)
  BY ResponsesAreDocuments DEF Newlined
<1>2. data \in Seq(Byte)
  <2>1. doc \in Seq(Byte) /\ Newline \in Byte
    BY ResponsesAreDocuments DEF IsDocument, Newline, Byte
  <2> QED
    BY <2>1, AppendProperties
<1>3. /\ docs \in Seq(Down!Documents) /\ docs # <<>> /\ none \in Seq(Down!Documents)
      /\ docs = Append(none, doc) /\ DOMAIN docs = {1} /\ docs[1] = doc
  OBVIOUS
<1>4. code[doc] = data
  OBVIOUS
<1> HIDE DEF docs, code, data
<1>5. Laid(code, docs) = data
  <2>1. Encodes(code, Down!Documents, Byte)
    BY <1>1, NewlinedEncodes
  <2> HIDE DEF none
  <2>2. Laid(code, Append(none, doc)) = Laid(code, none) \o code[doc] /\ Laid(code, <<>>) = <<>>
    BY ONLY <1>3, <2>1, doc \in Down!Documents, LaidGrows
  <2>3. <<>> \o data = data
    BY <1>2, ConcatEmptySeq
  <2> QED
    BY <1>3, <1>4, <2>2, <2>3 DEF none
<1>6. r.json \o data = data
  <2>1. r.json = <<>>
    BY DEF Readouts
  <2> QED
    BY <1>2, <2>1, ConcatEmptySeq
<1>7. /\ split.rest = <<>>
      /\ [k \in DOMAIN split.packets |-> Down!Document(split.packets[k])] = docs
  <2>1. LET s == SplitPackets(Laid(code, docs)) IN
        /\ s.rest = <<>>
        /\ [k \in DOMAIN s.packets |-> Document(s.packets[k])] = docs
    <3>1. Newlined(code, Down!Documents) /\ docs \in Seq(Down!Documents) /\ docs # <<>>
      BY <1>1, <1>3
    <3> QED
      BY ONLY <3>1, SplitsWhatWasSent
  <2>2. split = SplitPackets(Laid(code, docs)) /\ \A packet : Down!Document(packet) = Document(packet)
    BY <1>5, <1>6, SameInDownlink
  <2> HIDE DEF split
  <2> QED
    BY <2>1, <2>2
<1>8. Down!Only(docs, Down!Documents) = docs
  <2>1. Range(docs) \subseteq Down!Documents
    BY <1>3 DEF Range
  <2>2. Only(docs, Down!Documents) = docs
    BY <1>3, <2>1, OnlyAll
  <2> QED
    BY <2>2, SameInDownlink
<1>9. [k \in DOMAIN docs |-> Down!json(docs[k])] = <<Down!json(doc)>>
  <2> DEFINE x == Down!json(doc)
  <2>1. [k \in DOMAIN docs |-> Down!json(docs[k])] = [k \in {1} |-> x]
    BY <1>3
  <2> HIDE DEF x
  <2>2. [k \in {1} |-> x] = <<x>>
    <3>1. 1..1 = {1}
      OBVIOUS
    <3> QED
      BY <3>1
  <2> QED
    BY <2>1, <2>2 DEF x
<1>10. Down!ProcessJson(r, data)
         = [r EXCEPT !.json = <<>>, !.items = @ \o <<Down!json(doc)>>]
  <2> HIDE DEF split
  <2> QED
    BY <1>7, <1>8, <1>9 DEF Down!ProcessJson, split
<1>11. [r EXCEPT !.json = <<>>, !.items = @ \o <<Down!json(doc)>>]
         = [buffer |-> r.buffer, json |-> <<>>, items |-> r.items \o <<Down!json(doc)>>]
  <2> DEFINE more == r.items \o <<Down!json(doc)>>
  <2>1. [r EXCEPT !.json = <<>>, !.items = @ \o <<Down!json(doc)>>] = [r EXCEPT !.json = <<>>, !.items = more]
    OBVIOUS
  <2> HIDE DEF more
  <2>2. [r EXCEPT !.json = <<>>, !.items = more] = [buffer |-> r.buffer, json |-> <<>>, items |-> more]
    BY ReadoutFacts
  <2> QED
    BY <2>1, <2>2 DEF more
<1> QED
  BY <1>10, <1>11 DEF data

\* With SLIP: what is pending is in the buffer, of which no end byte is a part, and on the wire.
Streaming(pending, buffer, wait) ==
  /\ pending \in Seq(DownSlip) /\ buffer \in Seq(Byte) /\ wait \in Seq(Byte)
  /\ Free(ProtocolByteEnd, buffer)
  /\ buffer \o wait = Laid(DownCode, pending)

\* The end of a frame hands on its item.
LEMMA EndHandsOn ==
  ASSUME DownlinkHypothesis, NEW x \in DownSlip, NEW r \in Readouts,
         r.buffer = Body(BuildFrame(FrameOf(x)))
  PROVE  Down!EndOfFrame(r) = [buffer |-> <<>>, json |-> <<>>, items |-> Append(r.items, x)]
<1> DEFINE f == FrameOf(x)
           data == BuildFrame(f)
           cleared == [r EXCEPT !.buffer = <<>>]
<1>1. /\ f \in [address : Address, data : Seq(Byte)]
      /\ x = NoticeItem => f = NoticeFrame /\ f.address = 0
      /\ x # NoticeItem => x = Down!frame(f) /\ f.address # 0
  BY FramesOfItems
<1>2. data \in Seq(Byte) /\ ParseFrame(data) = f /\ data # <<>>
  <2> HIDE DEF f
  <2>1. data \in Seq(Byte) /\ ParseFrame(data) = f
    BY <1>1, ParsesWhatWasBuilt
  <2>2. f.address \div 256 \in Byte /\ f.address % 256 \in Byte /\ f.data \in Seq(Byte)
    BY <1>1, AddressBytes
  <2>3. Len(data) >= 2
    BY <2>2, TwoBytesAhead DEF BuildFrame
  <2> QED
    BY <2>1, <2>3
<1>3. r.buffer = Body(data)
  OBVIOUS
<1> HIDE DEF data, f
<1>4. DeserializeData(r.buffer) = data
  <2>1. Read(Body(data)) = [data |-> data, at |-> "plain"]
    BY <1>2, BodyIsRead
  <2> QED
    BY <1>3, <2>1, ReadFacts
<1>5. r.items \in Seq(DownItems) /\ <<>> \in Seq(Byte)
  <2>1. r.items \in Seq(DownItems)
    BY ReadoutFacts
  <2> QED
    BY <2>1
<1>6. cleared = [buffer |-> <<>>, json |-> <<>>, items |-> r.items] /\ cleared \in Readouts
  <2>1. cleared = [buffer |-> <<>>, json |-> <<>>, items |-> r.items]
    BY ReadoutFacts
  <2> HIDE DEF cleared
  <2> QED
    BY <1>5, <2>1, ReadoutFacts
<1>7. Down!DeserializeData(r.buffer) = data /\ Down!ParseFrame(data) = f
  BY <1>2, <1>4, SameInDownlink
<1>8. Down!EndOfFrame(r) = IF f.address = 0 THEN Down!ProcessJson(cleared, f.data)
                           ELSE [cleared EXCEPT !.items = Append(@, Down!frame(f))]
  <2> HIDE DEF cleared
  <2> QED
    BY <1>2, <1>7 DEF Down!EndOfFrame, cleared
<1> HIDE DEF cleared
<1>9. CASE x = NoticeItem
  <2>1. Down!EndOfFrame(r) = Down!ProcessJson(cleared, Append(Down!Notification, Newline))
    <3>1. f.address = 0 /\ f.data = NoticeFrame.data
      BY <1>1, <1>9
    <3>2. NoticeFrame.data = Append(Down!Notification, Newline)
      BY DEF NoticeFrame
    <3> QED
      BY <1>8, <3>1, <3>2
  <2>2. Down!Notification \in Down!Documents
    BY DEF Down!Documents
  <2>3. Down!EndOfFrame(r) = [buffer |-> cleared.buffer, json |-> <<>>, items |-> cleared.items \o <<x>>]
    BY <1>6, <1>9, <2>1, <2>2, OneDocument DEF NoticeItem
  <2>5. cleared.buffer = <<>> /\ cleared.items = r.items
    BY <1>6
  <2>4. r.items \o <<x>> = Append(r.items, x)
    <3>1. x \in DownItems
      BY DEF DownItems
    <3> QED
      BY <1>5, <3>1, AppendIsConcat
  <2> QED
    BY <2>3, <2>4, <2>5
<1>10. CASE x # NoticeItem
  <2>1. Down!EndOfFrame(r) = [cleared EXCEPT !.items = Append(@, x)]
    BY <1>1, <1>8, <1>10
  <2>2. [cleared EXCEPT !.items = Append(@, x)] = [cleared EXCEPT !.items = Append(r.items, x)]
    BY <1>6
  <2> QED
    BY <1>6, <2>1, <2>2, ReadoutFacts
<1> QED
  BY <1>9, <1>10

\* One byte more is part of what is pending, or it ends the first of it.
LEMMA StreamingByte ==
  ASSUME DownlinkHypothesis, NEW r \in Readouts, NEW byte \in Byte, NEW wait \in Seq(Byte),
         NEW pending, Streaming(pending, r.buffer, <<byte>> \o wait)
  PROVE  LET next == Down!DecodeByte(r, byte) IN
         /\ next \in Readouts
         /\ \/ next.items = r.items /\ Streaming(pending, next.buffer, wait)
            \/ /\ pending # <<>> /\ next.items = Append(r.items, Head(pending))
               /\ Streaming(Tail(pending), next.buffer, wait)
<1> DEFINE buffer == r.buffer
           next == Down!DecodeByte(r, byte)
<1>1. /\ buffer \in Seq(Byte) /\ pending \in Seq(DownSlip) /\ Free(ProtocolByteEnd, buffer)
      /\ buffer \o (<<byte>> \o wait) = Laid(DownCode, pending)
      /\ ProtocolByteEnd \in Byte /\ Ended(ProtocolByteEnd, DownBody, DownCode, DownSlip, Byte)
      /\ Append(buffer, byte) \in Seq(Byte) /\ <<>> \in Seq(Byte)
  <2>1. /\ buffer \in Seq(Byte) /\ pending \in Seq(DownSlip) /\ Free(ProtocolByteEnd, buffer)
        /\ buffer \o (<<byte>> \o wait) = Laid(DownCode, pending)
    BY DEF Streaming
  <2>2. ProtocolByteEnd \in Byte /\ Ended(ProtocolByteEnd, DownBody, DownCode, DownSlip, Byte)
    BY DownItemsEnd, ProtocolBytes
  <2> HIDE DEF buffer
  <2> QED
    BY <2>1, <2>2
<1>2. next = IF byte = ProtocolByteEnd THEN Down!EndOfFrame(r)
             ELSE [r EXCEPT !.buffer = Append(@, byte)]
  BY SameInDownlink DEF Down!DecodeByte
<1>3. r.items \in Seq(DownItems)
  BY ReadoutFacts
<1> HIDE DEF next, buffer
<1>4. /\ byte # ProtocolByteEnd => /\ Free(ProtocolByteEnd, Append(buffer, byte))
                                   /\ Append(buffer, byte) \o wait = Laid(DownCode, pending)
      /\ byte = ProtocolByteEnd =>
           pending # <<>> /\ buffer = DownBody[Head(pending)] /\ wait = Laid(DownCode, Tail(pending))
  <2>1. Coming(ProtocolByteEnd, DownBody, DownCode, DownSlip, Byte, buffer, byte, wait, pending)
    BY <1>1 DEF Coming
  <2> QED
    BY ONLY <2>1, NextByte
<1>5. CASE byte # ProtocolByteEnd
  <2>1. next = [buffer |-> Append(buffer, byte), json |-> <<>>, items |-> r.items]
    <3>1. next = [r EXCEPT !.buffer = Append(buffer, byte)]
      BY <1>2, <1>5 DEF buffer
    <3> QED
      BY <3>1, ReadoutFacts
  <2>2. next \in Readouts
    BY <1>1, <1>3, <2>1, ReadoutFacts
  <2>3. Streaming(pending, next.buffer, wait)
    BY <1>1, <1>4, <1>5, <2>1 DEF Streaming
  <2> QED
    BY <2>1, <2>2, <2>3 DEF next
<1>6. CASE byte = ProtocolByteEnd
  <2>1. Head(pending) \in DownSlip /\ Tail(pending) \in Seq(DownSlip)
    BY <1>1, <1>4, <1>6, HeadTailProperties
  <2> DEFINE x == Head(pending)
  <2>2. x \in DownSlip /\ r.buffer = Body(BuildFrame(FrameOf(x)))
    BY <1>4, <1>6, <2>1, DownCodes DEF buffer
  <2> HIDE DEF x
  <2>3. next = [buffer |-> <<>>, json |-> <<>>, items |-> Append(r.items, x)]
    BY <1>2, <1>6, <2>2, EndHandsOn
  <2>4. next \in Readouts
    <3>1. Append(r.items, x) \in Seq(DownItems)
      BY <1>3, <2>2, AppendProperties DEF DownItems
    <3> QED
      BY <1>1, <2>3, <3>1, ReadoutFacts
  <2>5. Streaming(Tail(pending), <<>>, wait)
    <3>1. <<>> \o wait = wait /\ Free(ProtocolByteEnd, <<>>)
      BY ConcatEmptySeq DEF Free
    <3> QED
      BY <1>1, <1>4, <1>6, <2>1, <3>1 DEF Streaming
  <2> QED
    BY <1>4, <1>6, <2>3, <2>4, <2>5 DEF next, x
<1> QED
  BY <1>5, <1>6

\* The loop of onConnectionDataAvailable on the first n bytes of w.
Reading(now, w, n, read) ==
  read = [k \in 0..n |-> IF k = 0 THEN now ELSE Down!DecodeByte(read[k - 1], w[k])]

\* What the loop has come to before byte m + 1: it has handed on the first items of what was
\* pending, and goes on with the rest.
HandedOn(pending, w, r, m) ==
  /\ r \in Readouts /\ r.items \in Seq(DownSlip)
  /\ \E left : pending = r.items \o left /\ Streaming(left, r.buffer, SubSeq(w, m + 1, Len(w)))

LEMMA HandsOn ==
  ASSUME DownlinkHypothesis, NEW w \in Seq(Byte), NEW m \in 0..(Len(w) - 1),
         NEW pending, NEW r, HandedOn(pending, w, r, m)
  PROVE  HandedOn(pending, w, Down!DecodeByte(r, w[m + 1]), m + 1)
<1> DEFINE byte == w[m + 1]
           wait == SubSeq(w, m + 2, Len(w))
           next == Down!DecodeByte(r, byte)
<1>1. byte \in Byte /\ wait \in Seq(Byte) /\ (m + 1) + 1 = m + 2
  <2>1. (m + 1) + 1 = m + 2
    OBVIOUS
  <2> QED
    BY <2>1, ByteAndRest
<1>2. SubSeq(w, m + 1, Len(w)) = <<byte>> \o wait
  BY ByteAndRest
<1>3. r \in Readouts /\ r.items \in Seq(DownSlip)
  BY DEF HandedOn
<1>4. PICK left : pending = r.items \o left /\ Streaming(left, r.buffer, <<byte>> \o wait)
  BY <1>2 DEF HandedOn
<1>5. /\ next \in Readouts
      /\ \/ next.items = r.items /\ Streaming(left, next.buffer, wait)
         \/ /\ left # <<>> /\ next.items = Append(r.items, Head(left))
            /\ Streaming(Tail(left), next.buffer, wait)
  <2> HIDE DEF byte, wait
  <2> QED
    BY <1>1, <1>3, <1>4, StreamingByte
<1> HIDE DEF next, byte, wait
<1>6. CASE next.items = r.items /\ Streaming(left, next.buffer, wait)
  BY <1>1, <1>3, <1>4, <1>5, <1>6 DEF HandedOn, next, byte, wait
<1>7. CASE /\ left # <<>> /\ next.items = Append(r.items, Head(left))
           /\ Streaming(Tail(left), next.buffer, wait)
  <2> DEFINE a == r.items
             x == Head(left)
             rest == Tail(left)
             one == <<x>>
  <2>1. left \in Seq(DownSlip) /\ x \in DownSlip /\ rest \in Seq(DownSlip) /\ left = one \o rest
    <3>1. left \in Seq(DownSlip)
      BY <1>4 DEF Streaming
    <3> QED
      BY <1>7, <3>1, HeadAndTail
  <2>2. a \in Seq(DownSlip) /\ next.items = Append(a, x)
    BY <1>3, <1>7
  <2>3. pending = a \o left
    BY <1>4
  <2>4. Streaming(rest, next.buffer, wait)
    BY <1>7
  <2> HIDE DEF a, x, one, rest
  <2>5. Append(a, x) = a \o one /\ one \in Seq(DownSlip) /\ Append(a, x) \in Seq(DownSlip)
    BY <2>1, <2>2, AppendProperties DEF one
  <2>6. a \o (one \o rest) = (a \o one) \o rest
    <3>1. a \in Seq(DownSlip) /\ one \in Seq(DownSlip) /\ rest \in Seq(DownSlip)
      BY <2>1, <2>2, <2>5
    <3> QED
      BY ONLY <3>1
  <2>7. pending = next.items \o rest
    BY <2>1, <2>2, <2>3, <2>5, <2>6
  <2>8. next \in Readouts /\ next.items \in Seq(DownSlip)
    BY <1>5, <2>2, <2>5
  <2>9. SubSeq(w, (m + 1) + 1, Len(w)) = wait
    BY <1>1 DEF wait
  <2>10. Streaming(rest, next.buffer, SubSeq(w, (m + 1) + 1, Len(w)))
    BY <2>4, <2>9
  <2> QED
    BY ONLY <2>7, <2>8, <2>10 DEF HandedOn, next, byte
<1> QED
  BY <1>5, <1>6, <1>7 DEF next, byte

\* Whatever the bytes end in, the loop hands on the items in their order, each once.
LEMMA ItemsRead ==
  ASSUME DownlinkHypothesis, NEW w \in Seq(Byte), NEW n \in 1..Len(w),
         NEW pending, NEW now, HandedOn(pending, w, now, 0), NEW read, Reading(now, w, n, read)
  PROVE  HandedOn(pending, w, read[n], n)
<1>1. n \in Nat /\ n <= Len(w)
  OBVIOUS
<1>2. \A k \in 0..n : read[k] = IF k = 0 THEN now ELSE Down!DecodeByte(read[k - 1], w[k])
  BY DEF Reading
<1> DEFINE T == {m \in Nat : m <= n => HandedOn(pending, w, read[m], m)}
<1>3. 0 \in T
  <2>1. read[0] = now
    BY <1>1, <1>2
  <2> QED
    BY <2>1
<1>4. ASSUME NEW m \in Nat, m \in T PROVE m + 1 \in T
  <2> SUFFICES ASSUME m + 1 <= n PROVE HandedOn(pending, w, read[m + 1], m + 1)
    OBVIOUS
  <2>1. /\ m \in 0..(Len(w) - 1) /\ m <= n /\ m + 1 \in 0..n
        /\ (m + 1) - 1 = m /\ m + 1 # 0
    BY <1>1
  <2>2. read[m + 1] = Down!DecodeByte(read[(m + 1) - 1], w[m + 1])
    BY <1>2, <2>1
  <2>3. read[m + 1] = Down!DecodeByte(read[m], w[m + 1])
    BY <2>1, <2>2
  <2>4. HandedOn(pending, w, read[m], m)
    BY <1>4, <2>1
  <2> HIDE DEF T
  <2> QED
    BY <2>1, <2>3, <2>4, HandsOn
<1>5. Nat \subseteq T
  <2> HIDE DEF T
  <2> QED
    BY <1>3, <1>4, Induction
<1> QED
  BY <1>1, <1>5

\* The loop has a course.
LEMMA ReadingExists ==
  ASSUME DownlinkHypothesis, NEW w \in Seq(Byte), NEW n \in 1..Len(w),
         NEW pending, NEW now, HandedOn(pending, w, now, 0)
  PROVE  \E read : Reading(now, w, n, read)
<1> DEFINE step(r, k) == Down!DecodeByte(r, w[k])
           turn == [k \in 1..n |->
                     [r \in Readouts |-> IF step(r, k) \in Readouts THEN step(r, k) ELSE r]]
<1>1. n \in Nat /\ n <= Len(w) /\ now \in Readouts
  BY DEF HandedOn
<1>2. turn \in [1..n -> [Readouts -> Readouts]]
  <2> HIDE DEF step
  <2> QED
    OBVIOUS
<1>3. PICK g : Course(Readouts, now, n, turn, g)
  <2> HIDE DEF turn
  <2> QED
    BY <1>1, <1>2, CourseExists
<1>4. /\ g[0] = now /\ g = [k \in 0..n |-> g[k]]
      /\ \A k \in 1..n : g[k] = turn[k][g[k - 1]] /\ g[k - 1] \in Readouts
  <2> HIDE DEF turn
  <2> QED
    BY <1>1, <1>3 DEF Course
<1>5. ASSUME NEW k \in 1..n, step(g[k - 1], k) \in Readouts PROVE g[k] = step(g[k - 1], k)
  <2>1. g[k - 1] \in Readouts /\ g[k] = turn[k][g[k - 1]]
    BY <1>4
  <2> HIDE DEF step
  <2> QED
    BY <1>5, <2>1
<1> HIDE DEF turn
<1> DEFINE T == {m \in Nat : m <= n => HandedOn(pending, w, g[m], m)}
<1>6. ASSUME NEW m \in Nat, m + 1 <= n, HandedOn(pending, w, g[m], m)
      PROVE  HandedOn(pending, w, g[m + 1], m + 1) /\ g[m + 1] = Down!DecodeByte(g[m], w[m + 1])
  <2>1. m \in 0..(Len(w) - 1) /\ m + 1 \in 1..n /\ (m + 1) - 1 = m
    BY <1>1, <1>6
  <2>2. HandedOn(pending, w, Down!DecodeByte(g[m], w[m + 1]), m + 1)
    BY <1>6, <2>1, HandsOn
  <2>3. step(g[m], m + 1) \in Readouts
    BY <2>2 DEF HandedOn
  <2>4. g[m + 1] = step(g[m], m + 1)
    <3> HIDE DEF step
    <3> QED
      BY <1>5, <2>1, <2>3
  <2> QED
    BY <2>2, <2>4
<1>7. Nat \subseteq T
  <2>1. 0 \in T
    BY <1>4
  <2>2. ASSUME NEW m \in Nat, m \in T PROVE m + 1 \in T
    BY <1>1, <1>6, <2>2
  <2> HIDE DEF T
  <2> QED
    BY <2>1, <2>2, Induction
<1>8. ASSUME NEW k \in 0..n PROVE g[k] = IF k = 0 THEN now ELSE Down!DecodeByte(g[k - 1], w[k])
  <2>1. CASE k = 0
    BY <1>4, <2>1
  <2>2. CASE k # 0
    <3>1. k - 1 \in Nat /\ (k - 1) + 1 = k /\ (k - 1) + 1 <= n /\ k - 1 <= n
      BY <1>1, <2>2
    <3>2. HandedOn(pending, w, g[k - 1], k - 1)
      BY <1>7, <3>1
    <3>3. g[(k - 1) + 1] = Down!DecodeByte(g[k - 1], w[(k - 1) + 1])
      BY <1>6, <3>1, <3>2
    <3> QED
      BY <2>2, <3>1, <3>3
  <2> QED
    BY <2>1, <2>2
<1> QED
  BY <1>4, <1>8 DEF Reading

\* Before SLIP is on: the response x is next on the wire, if anything is, and behind it is what
\* may follow it.
Expects(pending, x, behind, wait) ==
  /\ pending \in Seq(DownItems) /\ wait = Laid(DownCode, pending)
  /\ pending = <<>> \/ (Head(pending) = x /\ Tail(pending) \in Seq(behind))

\* One item more is sent.
LEMMA ExpectsGrows ==
  ASSUME DownlinkHypothesis, NEW pending, NEW x \in DownItems, NEW behind, NEW wait,
         Expects(pending, x, behind, wait), NEW y \in DownItems,
         IF pending = <<>> THEN y = x ELSE y \in behind
  PROVE  Expects(Append(pending, y), x, behind, wait \o DownCode[y])
<1> DEFINE more == Append(pending, y)
<1>1. /\ pending \in Seq(DownItems) /\ wait = Laid(DownCode, pending)
      /\ pending = <<>> \/ (Head(pending) = x /\ Tail(pending) \in Seq(behind))
  BY DEF Expects
<1>2. Encodes(DownCode, DownItems, Byte)
  BY DownItemsEnd
<1>3. Laid(DownCode, more) = Laid(DownCode, pending) \o DownCode[y]
  <2>1. pending \in Seq(DownItems)
    BY <1>1
  <2> QED
    BY ONLY <1>2, <2>1, y \in DownItems, LaidGrows
<1>4. more \in Seq(DownItems)
  BY <1>1, AppendProperties
<1>5. CASE pending = <<>>
  <2>1. more = <<x>>
    BY <1>5
  <2>2. Head(more) = x /\ Tail(more) = <<>>
    BY <2>1
  <2>3. <<>> \in Seq(behind)
    OBVIOUS
  <2> HIDE DEF more
  <2>4. wait \o DownCode[y] = Laid(DownCode, more)
    BY <1>1, <1>3
  <2> QED
    BY <1>4, <2>2, <2>3, <2>4 DEF Expects, more
<1>6. CASE pending # <<>>
  <2> DEFINE rest == Tail(pending)
             one == <<x>>
  <2>1. pending = one \o rest /\ rest \in Seq(DownItems) /\ rest \in Seq(behind)
    BY <1>1, <1>6, HeadAndTail
  <2>2. y \in behind
    BY <1>6
  <2>3. Append(rest, y) \in Seq(behind) /\ Append(rest, y) \in Seq(DownItems) /\ one \in Seq(DownItems)
    <3> HIDE DEF rest
    <3> QED
      BY <2>1, <2>2, AppendProperties
  <2> HIDE DEF rest
  <2>4. more = one \o Append(rest, y)
    <3>1. one \in Seq(DownItems) /\ rest \in Seq(DownItems) /\ y \in DownItems
      BY <2>1, <2>3
    <3> HIDE DEF one
    <3>2. Append(one \o rest, y) = one \o Append(rest, y)
      BY ONLY <3>1, ConcatAppend
    <3> QED
      BY <2>1, <3>2
  <2> DEFINE grown == Append(rest, y)
  <2>5. grown \in Seq(DownItems) /\ grown \in Seq(behind) /\ more = <<x>> \o grown
    BY <2>3, <2>4
  <2> HIDE DEF grown, more
  <2>6. more # <<>> /\ Head(more) = x
    <3>1. Len(more) = 1 + Len(grown) /\ Len(grown) \in Nat /\ more[1] = x
      BY <2>5
    <3> QED
      BY <1>4, <3>1
  <2>7. Tail(more) = grown
    <3>1. Len(Tail(more)) = Len(grown) /\ Tail(more) \in Seq(DownItems)
      BY <1>4, <2>5, <2>6
    <3>2. \A i \in 1..Len(grown) : Tail(more)[i] = grown[i]
      BY <1>4, <2>5, <2>6
    <3> QED
      BY <2>5, <3>1, <3>2, SeqEqual
  <2>8. wait \o DownCode[y] = Laid(DownCode, more)
    BY <1>1, <1>3 DEF more
  <2> QED
    BY <1>4, <2>5, <2>6, <2>7, <2>8 DEF Expects, more
<1> QED
  BY <1>5, <1>6

LEMMA StreamingGrows ==
  ASSUME DownlinkHypothesis, NEW pending, NEW buffer, NEW wait, Streaming(pending, buffer, wait),
         NEW x \in DownSlip
  PROVE  Streaming(Append(pending, x), buffer, wait \o DownCode[x])
<1> DEFINE more == Append(pending, x)
           c == DownCode[x]
<1>1. /\ pending \in Seq(DownSlip) /\ buffer \in Seq(Byte) /\ wait \in Seq(Byte)
      /\ Free(ProtocolByteEnd, buffer) /\ buffer \o wait = Laid(DownCode, pending)
  BY DEF Streaming
<1>2. Encodes(DownCode, DownSlip, Byte) /\ c \in Seq(Byte)
  BY DownItemsEnd DEF Encodes, DownItems
<1>3. more \in Seq(DownSlip)
  BY <1>1, AppendProperties
<1>4. Laid(DownCode, more) = Laid(DownCode, pending) \o c
  <2>1. pending \in Seq(DownSlip)
    BY <1>1
  <2> QED
    BY ONLY <1>2, <2>1, x \in DownSlip, LaidGrows
<1> HIDE DEF c, more
<1>5. wait \o c \in Seq(Byte) /\ buffer \o (wait \o c) = (buffer \o wait) \o c
  <2>1. buffer \in Seq(Byte) /\ wait \in Seq(Byte) /\ c \in Seq(Byte)
    BY <1>1, <1>2
  <2>2. buffer \o (wait \o c) = (buffer \o wait) \o c
    BY ONLY <2>1
  <2>3. wait \o c \in Seq(Byte)
    BY ONLY <2>1
  <2> QED
    BY <2>2, <2>3
<1> QED
  BY <1>1, <1>3, <1>4, <1>5 DEF Streaming, more, c

\* A read up to the first newline takes the response, and nothing else.
LEMMA ResponseTaken ==
  ASSUME DownlinkHypothesis, NEW x \in DownResponses, NEW behind, NEW pending, NEW w,
         Expects(pending, x, behind, w), NEW n \in 1..Len(w),
         w[n] = Newline, \A i \in 1..(n - 1) : w[i] # Newline
  PROVE  /\ pending # <<>> /\ pending = <<x>> \o Tail(pending) /\ Tail(pending) \in Seq(behind)
         /\ SubSeq(w, 1, n) = DownCode[x]
         /\ SubSeq(w, n + 1, Len(w)) = Laid(DownCode, Tail(pending))
<1>1. /\ pending \in Seq(DownItems) /\ w = Laid(DownCode, pending)
      /\ pending = <<>> \/ (Head(pending) = x /\ Tail(pending) \in Seq(behind))
  BY DEF Expects
<1>2. Encodes(DownCode, DownItems, Byte)
  BY DownItemsEnd
<1>3. pending # <<>>
  <2> SUFFICES ASSUME pending = <<>> PROVE FALSE
    OBVIOUS
  <2>1. <<>> \in Seq(DownItems)
    OBVIOUS
  <2>2. Laid(DownCode, <<>>) = <<>>
    BY ONLY <1>2, <2>1, LaidGrows
  <2>3. w = <<>>
    BY <1>1, <2>2
  <2> QED
    BY <2>3
<1>4. pending = <<x>> \o Tail(pending) /\ Tail(pending) \in Seq(behind) /\ Tail(pending) \in Seq(DownItems)
  BY <1>1, <1>3, HeadAndTail
<1> DEFINE b == DownBody[x]
           u == DownCode[x]
           v == Laid(DownCode, Tail(pending))
<1>5. b \in Seq(Byte) /\ Free(Newline, b) /\ u = Append(b, Newline) /\ u \in Seq(Byte)
  BY DownItemsEnd DEF Ended
<1>6. v \in Seq(Byte) /\ w = u \o v
  <2>1. pending \in Seq(DownItems) /\ Tail(pending) \in Seq(DownItems)
    BY <1>1, <1>4
  <2>2. Laid(DownCode, Tail(pending)) \in Seq(Byte)
    BY ONLY <1>2, <2>1, LaidGrows
  <2>3. Laid(DownCode, pending) = DownCode[Head(pending)] \o Laid(DownCode, Tail(pending))
    BY ONLY <1>2, <1>3, <2>1, LaidHead
  <2> QED
    BY <1>1, <1>3, <2>2, <2>3
<1> HIDE DEF b, u, v
<1>7. /\ Len(b) \in Nat /\ Len(u) = Len(b) + 1 /\ u[Len(b) + 1] = Newline
      /\ \A i \in 1..Len(b) : u[i] = b[i] /\ b[i] # Newline
  <2>1. \A i \in 1..Len(b) : b[i] # Newline
    BY <1>5 DEF Free
  <2> QED
    BY <1>5, <2>1
<1>8. /\ Len(w) = Len(u) + Len(v) /\ Len(v) \in Nat
      /\ \A i \in 1..Len(u) : w[i] = u[i]
  BY <1>5, <1>6
<1>9. n = Len(u)
  <2>1. ~(n < Len(u))
    <3> SUFFICES ASSUME n < Len(u) PROVE FALSE
      OBVIOUS
    <3>1. n \in 1..Len(b) /\ n \in 1..Len(u)
      BY <1>7
    <3>2. w[n] = b[n] /\ b[n] # Newline
      BY <1>7, <1>8, <3>1
    <3> QED
      BY <3>2
  <2>2. ~(n > Len(u))
    <3> SUFFICES ASSUME n > Len(u) PROVE FALSE
      OBVIOUS
    <3>1. Len(u) \in 1..(n - 1) /\ Len(u) \in 1..Len(u)
      BY <1>7
    <3>2. w[Len(u)] = Newline
      BY <1>7, <1>8, <3>1
    <3> QED
      BY <3>1, <3>2
  <2> QED
    BY <1>7, <2>1, <2>2
<1>10. SubSeq(w, 1, n) = u /\ SubSeq(w, n + 1, Len(w)) = v
  <2>1. SubSeq(u \o v, 1, Len(u)) = u /\ SubSeq(u \o v, Len(u) + 1, Len(u \o v)) = v
    BY <1>5, <1>6, PrefixAndRest
  <2> QED
    BY <1>6, <1>9, <2>1
<1> QED
  BY <1>3, <1>4, <1>10 DEF u, v

-----------------------------------------------------------------------------
(* The invariant of the stream to the library.                             *)

\* The library has handled what the proxy sent up to a point, and has the rest pending, before
\* it or in the buffer of SLIP.  What it takes the next byte for is what the byte was sent as.
Downloading ==
  /\ jsonBuffer = <<>> /\ received \in Seq(DownItems)
  /\ \E pending \in Seq(DownItems) :
       /\ sent = received \o pending
       /\ \/ /\ m_state = "StateHello" /\ m_dataBuffer = <<>> /\ received = <<>>
             /\ Expects(pending, HelloItem, {}, wire)
          \/ /\ m_state = "StateRegister" /\ m_dataBuffer = <<>> /\ received = <<HelloItem>>
             /\ Expects(pending, RegisterItem, DownSlip, wire)
          \/ /\ m_state = "StateRunning" /\ RegisterItem \in Range(received)
             /\ Streaming(pending, m_dataBuffer, wire)

\* What may be in the sequences.
LEMMA DownSequences ==
  /\ HelloItem \in DownItems /\ RegisterItem \in DownItems /\ NoticeItem \in DownSlip
  /\ HelloItem \in DownResponses /\ RegisterItem \in DownResponses
  /\ DownSlip \subseteq DownItems /\ Seq(DownSlip) \subseteq Seq(DownItems)
  /\ \A x : Range(<<x>>) = {x}
  /\ Range(<<>>) = {}
<1>1. ASSUME NEW A, NEW B, A \subseteq B PROVE Seq(A) \subseteq Seq(B)
  BY <1>1
<1>2. DownSlip \subseteq DownItems /\ HelloItem \in DownItems /\ RegisterItem \in DownItems
      /\ NoticeItem \in DownSlip /\ HelloItem \in DownResponses /\ RegisterItem \in DownResponses
  BY DEF DownItems, DownResponses, DownSlip
<1>3. ASSUME NEW x PROVE Range(<<x>>) = {x}
  BY DEF Range
<1>4. Range(<<>>) = {}
  BY DEF Range
<1>5. Seq(DownSlip) \subseteq Seq(DownItems)
  BY <1>1, <1>2
<1> QED
  BY <1>2, <1>3, <1>4, <1>5

\* What the proxy has sent while the library has not handled both responses.
LEMMA SentSoFar ==
  ASSUME NEW pending, NEW x \in DownItems, NEW behind, NEW wait, Expects(pending, x, behind, wait),
         behind \subseteq DownItems
  PROVE  Range(pending) \subseteq {x} \cup behind
<1>1. CASE pending = <<>>
  BY <1>1, DownSequences
<1>2. CASE pending # <<>>
  <2>1. /\ pending \in Seq(DownItems) /\ Tail(pending) \in Seq(behind) /\ Head(pending) = x
    BY <1>2 DEF Expects
  <2>2. pending = <<x>> \o Tail(pending) /\ Tail(pending) \in Seq(DownItems)
    BY <1>2, <2>1, HeadAndTail
  <2>3. Range(Tail(pending)) \subseteq behind
    <3> DEFINE rest == Tail(pending)
    <3>1. rest \in Seq(behind)
      BY <2>1
    <3> HIDE DEF rest
    <3>2. Range(rest) \subseteq behind
      BY <3>1 DEF Range
    <3> QED
      BY <3>2 DEF rest
  <2>4. <<x>> \in Seq(DownItems)
    OBVIOUS
  <2>5. Range(<<x>> \o Tail(pending)) = Range(<<x>>) \cup Range(Tail(pending))
    <3> DEFINE one == <<x>>
               rest == Tail(pending)
    <3>1. one \in Seq(DownItems) /\ rest \in Seq(DownItems)
      BY <2>2, <2>4
    <3> HIDE DEF one, rest
    <3>2. Range(one \o rest) = Range(one) \cup Range(rest)
      BY ONLY <3>1, RangeOfConcat
    <3> QED
      BY <3>2 DEF one, rest
  <2> QED
    BY <2>2, <2>3, <2>5, DownSequences
<1> QED
  BY <1>1, <1>2

\* What is sent is pending.
LEMMA DownloadingSends ==
  ASSUME DownlinkHypothesis, Downloading, NEW x \in DownItems, Down!Transmit(x, DownCode[x]),
         \/ x = HelloItem /\ sent = <<>>
         \/ x = RegisterItem /\ sent = <<HelloItem>> /\ m_state = "StateRegister"
         \/ x \in DownSlip /\ RegisterItem \in Range(sent)
  PROVE  Downloading'
<1>1. jsonBuffer = <<>> /\ received \in Seq(DownItems)
  BY DEF Downloading
<1>2. PICK pending \in Seq(DownItems) :
       /\ sent = received \o pending
       /\ \/ /\ m_state = "StateHello" /\ m_dataBuffer = <<>> /\ received = <<>>
             /\ Expects(pending, HelloItem, {}, wire)
          \/ /\ m_state = "StateRegister" /\ m_dataBuffer = <<>> /\ received = <<HelloItem>>
             /\ Expects(pending, RegisterItem, DownSlip, wire)
          \/ /\ m_state = "StateRunning" /\ RegisterItem \in Range(received)
             /\ Streaming(pending, m_dataBuffer, wire)
  BY DEF Downloading
<1> DEFINE more == Append(pending, x)
<1>3. more \in Seq(DownItems) /\ Append(received \o pending, x) = received \o more
  <2>1. received \in Seq(DownItems) /\ pending \in Seq(DownItems) /\ x \in DownItems
    BY <1>1
  <2>2. Append(received \o pending, x) = received \o Append(pending, x)
    BY ONLY <2>1
  <2>3. Append(pending, x) \in Seq(DownItems)
    BY ONLY <2>1, AppendProperties
  <2> QED
    BY <2>2, <2>3
<1>4. /\ sent' = Append(sent, x) /\ wire' = wire \o DownCode[x] /\ m_state' = m_state
      /\ m_dataBuffer' = m_dataBuffer /\ jsonBuffer' = jsonBuffer /\ received' = received
  BY DEF Down!Transmit
<1>5. sent' = received' \o more
  BY <1>2, <1>3, <1>4
<1>6. /\ Range(sent) = Range(received) \cup Range(pending)
      /\ Len(sent) = Len(received) + Len(pending) /\ Len(received) \in Nat /\ Len(pending) \in Nat
  <2>1. Range(received \o pending) = Range(received) \cup Range(pending)
    BY ONLY <1>1, pending \in Seq(DownItems), RangeOfConcat, SMTT(40)
  <2>2. Len(received \o pending) = Len(received) + Len(pending) /\ Len(received) \in Nat
        /\ Len(pending) \in Nat
    BY <1>1
  <2> QED
    BY <1>2, <2>1, <2>2
<1>7. /\ Len(<<>>) = 0 /\ Len(<<HelloItem>>) = 1 /\ (Len(pending) = 0 <=> pending = <<>>)
      /\ (sent = <<>> => Range(sent) = {}) /\ (sent = <<HelloItem>> => Range(sent) = {HelloItem})
      /\ HelloItem # RegisterItem /\ HelloItem \notin DownSlip /\ RegisterItem \notin DownSlip
  <2>1. Len(pending) = 0 <=> pending = <<>>
    BY EmptySeq
  <2>2. Len(<<>>) = 0 /\ Len(<<HelloItem>>) = 1
    OBVIOUS
  <2>3. HelloItem # RegisterItem /\ HelloItem \notin DownSlip /\ RegisterItem \notin DownSlip
    BY DownItemsDiffer DEF DownResponses
  <2> QED
    BY <2>1, <2>2, <2>3, DownSequences
<1> HIDE DEF more
<1>8. CASE /\ m_state = "StateHello" /\ m_dataBuffer = <<>> /\ received = <<>>
           /\ Expects(pending, HelloItem, {}, wire)
  <2>1. Range(sent) \subseteq {HelloItem}
    <3>1. Range(pending) \subseteq {HelloItem}
      BY <1>8, SentSoFar, DownSequences
    <3> QED
      BY <1>6, <1>8, <3>1, DownSequences
  <2>2. x = HelloItem /\ pending = <<>>
    BY <1>6, <1>7, <1>8, <2>1
  <2>3. Expects(more, HelloItem, {}, wire \o DownCode[x])
    BY <1>8, <2>2, ExpectsGrows, DownSequences DEF more
  <2> QED
    BY <1>1, <1>3, <1>4, <1>5, <1>8, <2>3 DEF Downloading
<1>9. CASE /\ m_state = "StateRegister" /\ m_dataBuffer = <<>> /\ received = <<HelloItem>>
           /\ Expects(pending, RegisterItem, DownSlip, wire)
  <2>1. IF pending = <<>> THEN x = RegisterItem ELSE x \in DownSlip
    <3>1. CASE pending = <<>>
      <4>1. Range(sent) = {HelloItem} /\ Len(sent) = 1
        BY <1>6, <1>7, <1>9, <3>1, DownSequences
      <4>2. sent # <<>> /\ RegisterItem \notin Range(sent)
        BY <1>7, <4>1
      <4> QED
        BY <3>1, <4>2
    <3>2. CASE pending # <<>>
      <4>1. Len(sent) # 0 /\ Len(sent) # 1
        BY <1>6, <1>7, <1>9, <3>2
      <4>2. sent # <<>> /\ sent # <<HelloItem>>
        <5>1. Len(<<>>) = 0 /\ Len(<<HelloItem>>) = 1
          OBVIOUS
        <5> QED
          BY ONLY <4>1, <5>1, Zenon
      <4> QED
        BY <3>2, <4>2
    <3> QED
      BY <3>1, <3>2
  <2>2. Expects(more, RegisterItem, DownSlip, wire \o DownCode[x])
    BY <1>9, <2>1, ExpectsGrows, DownSequences DEF more
  <2> QED
    BY <1>1, <1>3, <1>4, <1>5, <1>9, <2>2 DEF Downloading
<1>10. CASE /\ m_state = "StateRunning" /\ RegisterItem \in Range(received)
            /\ Streaming(pending, m_dataBuffer, wire)
  <2>1. RegisterItem \in Range(sent)
    BY <1>6, <1>10
  <2>2. x \in DownSlip
    BY <1>7, <1>10, <2>1
  <2>3. Streaming(more, m_dataBuffer, wire \o DownCode[x])
    BY <1>10, <2>2, StreamingGrows DEF more
  <2> QED
    BY <1>1, <1>3, <1>4, <1>5, <1>10, <2>3 DEF Downloading
<1> QED
  BY <1>2, <1>8, <1>9, <1>10

\* A response is read: it is handled, and the library goes on to the next state.
LEMMA DownloadingReceivesResponse ==
  ASSUME DownlinkHypothesis, NEW x \in DownResponses, NEW behind, NEW pending,
         behind \subseteq DownItems,
         Expects(pending, x, behind, wire), m_dataBuffer = <<>>, jsonBuffer = <<>>,
         m_state # "StateRunning", NEW n \in 1..Len(wire), Down!Receive(n)
  PROVE  /\ pending = <<x>> \o Tail(pending) /\ Tail(pending) \in Seq(behind)
         /\ wire' = Laid(DownCode, Tail(pending))
         /\ m_dataBuffer' = <<>> /\ jsonBuffer' = <<>> /\ received' = received \o <<x>>
         /\ m_state' = Down!StateAfter(<<x>>) /\ sent' = sent
<1> DEFINE now == [buffer |-> m_dataBuffer, json |-> jsonBuffer, items |-> <<>>]
           data == SubSeq(wire, 1, n)
           after == [Down!ProcessJson(now, data) EXCEPT !.buffer = <<>>]
<1>1. /\ \E i \in 1..n : wire[i] = Newline
      /\ \A i \in 1..(n - 1) : wire[i] # Newline
      /\ wire' = SubSeq(wire, n + 1, Len(wire)) /\ sent' = sent
  BY SameInDownlink DEF Down!Receive, DownlinkHypothesis
<1>2. wire[n] = Newline
  <2>1. PICK i \in 1..n : wire[i] = Newline
    BY <1>1
  <2>2. ~(i \in 1..(n - 1))
    BY <1>1, <2>1
  <2>3. i = n
    BY <2>2
  <2> QED
    BY <2>1, <2>3
<1>3. /\ m_dataBuffer' = after.buffer /\ jsonBuffer' = after.json
      /\ received' = received \o after.items /\ m_state' = Down!StateAfter(after.items)
  BY DEF Down!Receive
<1>4. /\ pending = <<x>> \o Tail(pending) /\ Tail(pending) \in Seq(behind)
      /\ data = DownCode[x] /\ wire' = Laid(DownCode, Tail(pending))
  BY <1>1, <1>2, ResponseTaken
<1>5. PICK doc \in Down!Documents : x = Down!json(doc) /\ DownCode[x] = Append(doc, Newline)
  <2>1. x = HelloItem \/ x = RegisterItem
    BY DEF DownResponses
  <2> QED
    BY <2>1, DownCodes DEF Down!Documents, HelloItem, RegisterItem
<1>6. now \in Readouts /\ now.buffer = <<>> /\ now.items = <<>>
  <2>1. now = [buffer |-> <<>>, json |-> <<>>, items |-> <<>>]
    OBVIOUS
  <2>2. <<>> \in Seq(Byte) /\ <<>> \in Seq(DownItems)
    OBVIOUS
  <2> QED
    BY <2>1, <2>2 DEF Readouts
<1> HIDE DEF now, data
<1>7. Down!ProcessJson(now, data) = [buffer |-> <<>>, json |-> <<>>, items |-> <<x>>]
  <2>1. Down!ProcessJson(now, Append(doc, Newline))
          = [buffer |-> now.buffer, json |-> <<>>, items |-> now.items \o <<Down!json(doc)>>]
    BY <1>6, OneDocument
  <2>2. <<>> \o <<x>> = <<x>>
    OBVIOUS
  <2> QED
    BY <1>4, <1>5, <1>6, <2>1, <2>2
<1>8. after.buffer = <<>> /\ after.json = <<>> /\ after.items = <<x>>
  <2> DEFINE got == Down!ProcessJson(now, data)
             one == <<x>>
  <2>1. got = [buffer |-> <<>>, json |-> <<>>, items |-> one]
    BY <1>7
  <2> HIDE DEF got, one
  <2>2. [got EXCEPT !.buffer = <<>>] = [buffer |-> <<>>, json |-> <<>>, items |-> one]
    BY <2>1
  <2>3. after = [got EXCEPT !.buffer = <<>>]
    BY DEF got
  <2> HIDE DEF after
  <2> QED
    BY <2>2, <2>3 DEF one
<1> HIDE DEF after
<1> QED
  BY <1>1, <1>3, <1>4, <1>8

\* The states of the library.
LEMMA StatesAfter ==
  ASSUME DownlinkHypothesis
  PROVE  /\ Down!StateAfter(<<HelloItem>>) = "StateRegister"
         /\ Down!StateAfter(<<RegisterItem>>) = "StateRunning"
         /\ \A items \in Seq(DownSlip) : m_state = "StateRunning" => Down!StateAfter(items) = "StateRunning"
<1>1. \A items : Down!Range(items) = Range(items)
  BY SameInDownlink
<1>2. /\ HelloItem # RegisterItem /\ HelloItem \notin DownSlip
      /\ HelloItem = Down!json(Down!HelloResponse) /\ RegisterItem = Down!json(Down!RegisterResponse)
  BY DownItemsDiffer DEF DownResponses, HelloItem, RegisterItem
<1>3. Range(<<HelloItem>>) = {HelloItem} /\ Range(<<RegisterItem>>) = {RegisterItem}
  BY DownSequences
<1>4. Down!StateAfter(<<HelloItem>>) = "StateRegister"
  BY <1>1, <1>2, <1>3 DEF Down!StateAfter
<1>5. Down!StateAfter(<<RegisterItem>>) = "StateRunning"
  BY <1>1, <1>2, <1>3 DEF Down!StateAfter
<1>6. ASSUME NEW items \in Seq(DownSlip), m_state = "StateRunning"
      PROVE  Down!StateAfter(items) = "StateRunning"
  <2>1. Range(items) \subseteq DownSlip
    BY DEF Range
  <2>2. HelloItem \notin Down!Range(items)
    BY <1>1, <1>2, <2>1
  <2> QED
    BY <1>2, <1>6, <2>2 DEF Down!StateAfter
<1> QED
  BY <1>4, <1>5, <1>6

\* What is left in its parts.
LEMMA StillPending ==
  ASSUME NEW items \in Seq(DownItems), NEW left \in Seq(DownItems), NEW before \in Seq(DownItems),
         NEW pending, pending = items \o left, sent = before \o pending
  PROVE  sent = (before \o items) \o left /\ before \o items \in Seq(DownItems)
<1>1. before \o (items \o left) = (before \o items) \o left
  BY ConcatAssociative
<1>2. before \o items \in Seq(DownItems)
  OBVIOUS
<1> QED
  BY <1>1, <1>2

LEMMA DownloadingReceivesResponses ==
  ASSUME DownlinkHypothesis, Downloading, m_state # "StateRunning", NEW n \in 1..Len(wire),
         Down!Receive(n)
  PROVE  Downloading'
<1>1. jsonBuffer = <<>> /\ received \in Seq(DownItems)
  BY DEF Downloading
<1>2. PICK pending \in Seq(DownItems) :
       /\ sent = received \o pending /\ m_dataBuffer = <<>>
       /\ \/ /\ m_state = "StateHello" /\ received = <<>>
             /\ Expects(pending, HelloItem, {}, wire)
          \/ /\ m_state = "StateRegister" /\ received = <<HelloItem>>
             /\ Expects(pending, RegisterItem, DownSlip, wire)
  BY DEF Downloading
<1> DEFINE left == Tail(pending)
<1>3. Encodes(DownCode, DownItems, Byte)
  BY DownItemsEnd
<1>4. CASE /\ m_state = "StateHello" /\ received = <<>>
           /\ Expects(pending, HelloItem, {}, wire)
  <2>1. {} \subseteq DownItems
    OBVIOUS
  <2>2. /\ pending = <<HelloItem>> \o left /\ left \in Seq({})
        /\ wire' = Laid(DownCode, left)
        /\ m_dataBuffer' = <<>> /\ jsonBuffer' = <<>> /\ received' = received \o <<HelloItem>>
        /\ m_state' = Down!StateAfter(<<HelloItem>>) /\ sent' = sent
    BY <1>1, <1>2, <1>4, <2>1, DownloadingReceivesResponse, DownSequences
  <2>3. left = <<>>
    <3> HIDE DEF left
    <3>1. left \in Seq({})
      BY <2>2
    <3>2. ~(1 \in 1..Len(left))
      BY <3>1
    <3> QED
      BY <3>1, <3>2
  <2> HIDE DEF left
  <2>4. <<HelloItem>> \in Seq(DownItems) /\ left \in Seq(DownItems)
    BY <2>3, DownSequences
  <2>5. sent = (received \o <<HelloItem>>) \o left /\ received \o <<HelloItem>> \in Seq(DownItems)
    BY <1>1, <1>2, <2>2, <2>4, StillPending
  <2>6. received' = <<HelloItem>>
    <3>1. <<>> \o <<HelloItem>> = <<HelloItem>>
      OBVIOUS
    <3> QED
      BY <1>4, <2>2, <3>1
  <2>7. m_state' = "StateRegister"
    BY <2>2, StatesAfter
  <2>8. Expects(left, RegisterItem, DownSlip, wire')
    BY <2>2, <2>3, <2>4 DEF Expects
  <2>9. sent' = received' \o left /\ received' \in Seq(DownItems)
    BY <2>2, <2>5
  <2> QED
    BY <2>2, <2>4, <2>6, <2>7, <2>8, <2>9 DEF Downloading
<1>5. CASE /\ m_state = "StateRegister" /\ received = <<HelloItem>>
           /\ Expects(pending, RegisterItem, DownSlip, wire)
  <2>1. DownSlip \subseteq DownItems
    BY DownSequences
  <2>2. /\ pending = <<RegisterItem>> \o left /\ left \in Seq(DownSlip)
        /\ wire' = Laid(DownCode, left)
        /\ m_dataBuffer' = <<>> /\ jsonBuffer' = <<>> /\ received' = received \o <<RegisterItem>>
        /\ m_state' = Down!StateAfter(<<RegisterItem>>) /\ sent' = sent
    BY <1>1, <1>2, <1>5, <2>1, DownloadingReceivesResponse, DownSequences
  <2> HIDE DEF left
  <2>4. <<RegisterItem>> \in Seq(DownItems) /\ left \in Seq(DownItems)
    BY <2>2, DownSequences
  <2>5. sent = (received \o <<RegisterItem>>) \o left /\ received \o <<RegisterItem>> \in Seq(DownItems)
    BY <1>1, <1>2, <2>2, <2>4, StillPending
  <2>6. RegisterItem \in Range(received')
    <3>1. received \in Seq(DownItems) /\ <<RegisterItem>> \in Seq(DownItems)
      BY <1>1, <2>4
    <3>2. Range(received \o <<RegisterItem>>) = Range(received) \cup Range(<<RegisterItem>>)
      <4> DEFINE one == <<RegisterItem>>
      <4>1. received \in Seq(DownItems) /\ one \in Seq(DownItems)
        BY <3>1
      <4> HIDE DEF one
      <4>2. Range(received \o one) = Range(received) \cup Range(one)
        BY ONLY <4>1, RangeOfConcat
      <4> QED
        BY <4>2 DEF one
    <3>3. Range(<<RegisterItem>>) = {RegisterItem}
      BY DownSequences
    <3> QED
      BY <2>2, <3>2, <3>3
  <2>7. m_state' = "StateRunning"
    BY <2>2, StatesAfter
  <2>8. Streaming(left, <<>>, wire')
    <3>1. Laid(DownCode, left) \in Seq(Byte)
      BY ONLY <1>3, <2>4, LaidGrows
    <3>2. <<>> \o Laid(DownCode, left) = Laid(DownCode, left) /\ <<>> \in Seq(Byte)
      BY <3>1, ConcatEmptySeq
    <3> QED
      BY <2>2, <3>1, <3>2 DEF Streaming, Free
  <2>9. sent' = received' \o left /\ received' \in Seq(DownItems)
    BY <2>2, <2>5
  <2> QED
    BY <2>2, <2>4, <2>6, <2>7, <2>8, <2>9 DEF Downloading
<1> QED
  BY <1>2, <1>4, <1>5

LEMMA DownloadingReceivesFrames ==
  ASSUME DownlinkHypothesis, Downloading, m_state = "StateRunning", NEW n \in 1..Len(wire),
         Down!Receive(n)
  PROVE  Downloading'
<1> DEFINE now == [buffer |-> m_dataBuffer, json |-> jsonBuffer, items |-> <<>>]
           read == CHOOSE r : Reading(now, wire, n, r)
           after == read[n]
<1>1. jsonBuffer = <<>> /\ received \in Seq(DownItems)
  BY DEF Downloading
<1>2. PICK pending \in Seq(DownItems) :
        /\ sent = received \o pending /\ RegisterItem \in Range(received)
        /\ Streaming(pending, m_dataBuffer, wire)
  BY DEF Downloading
<1>3. m_dataBuffer \in Seq(Byte) /\ wire \in Seq(Byte) /\ pending \in Seq(DownSlip)
  BY <1>2 DEF Streaming
<1>4. /\ wire' = SubSeq(wire, n + 1, Len(wire)) /\ sent' = sent
      /\ m_dataBuffer' = after.buffer /\ jsonBuffer' = after.json
      /\ received' = received \o after.items /\ m_state' = Down!StateAfter(after.items)
  BY DEF Down!Receive, Reading
<1>5. HandedOn(pending, wire, now, 0)
  <2>1. now = [buffer |-> m_dataBuffer, json |-> <<>>, items |-> <<>>]
    BY <1>1
  <2> HIDE DEF now
  <2>2. <<>> \in Seq(DownItems) /\ <<>> \in Seq(DownSlip)
    OBVIOUS
  <2>3. now \in Readouts /\ now.items = <<>> /\ now.buffer = m_dataBuffer
    BY <1>3, <2>1, <2>2 DEF Readouts
  <2>4. <<>> \o pending = pending
    BY <1>3, ConcatEmptySeq
  <2>5. SubSeq(wire, 0 + 1, Len(wire)) = wire
    BY <1>3, SubSeqFull
  <2> QED
    BY <1>2, <2>2, <2>3, <2>4, <2>5 DEF HandedOn
<1> HIDE DEF now
<1>6. HandedOn(pending, wire, after, n)
  <2>1. Reading(now, wire, n, read)
    BY <1>3, <1>5, ReadingExists
  <2> HIDE DEF read
  <2> QED
    BY <1>3, <1>5, <2>1, ItemsRead
<1> HIDE DEF read, after
<1>7. after.items \in Seq(DownSlip) /\ after.json = <<>>
  BY <1>6 DEF HandedOn, Readouts
<1>8. PICK left : /\ pending = after.items \o left
                  /\ Streaming(left, after.buffer, SubSeq(wire, n + 1, Len(wire)))
  BY <1>6 DEF HandedOn
<1>9. left \in Seq(DownItems) /\ after.items \in Seq(DownItems)
  BY <1>7, <1>8, DownSequences DEF Streaming
<1>10. /\ sent = (received \o after.items) \o left
       /\ received \o after.items \in Seq(DownItems)
  BY <1>1, <1>2, <1>8, <1>9, StillPending
<1>11. RegisterItem \in Range(received')
  <2> DEFINE items == after.items
  <2>1. received \in Seq(DownItems) /\ items \in Seq(DownItems)
    BY <1>1, <1>9
  <2> HIDE DEF items
  <2>2. Range(received \o items) = Range(received) \cup Range(items)
    BY ONLY <2>1, RangeOfConcat, SMTT(40)
  <2> QED
    BY <1>2, <1>4, <2>2 DEF items
<1>12. m_state' = "StateRunning"
  BY <1>4, <1>7, StatesAfter
<1>13. /\ sent' = received' \o left /\ received' \in Seq(DownItems)
       /\ Streaming(left, m_dataBuffer', wire') /\ jsonBuffer' = <<>>
  BY <1>4, <1>7, <1>8, <1>10
<1> QED
  BY <1>9, <1>11, <1>12, <1>13 DEF Downloading

\* What was sent is read: nothing is pending.
LEMMA NothingAwaited ==
  ASSUME DownlinkHypothesis, NEW pending \in Seq(DownItems),
         \/ \E x, behind : Expects(pending, x, behind, <<>>)
         \/ \E buffer : Streaming(pending, buffer, <<>>)
  PROVE  pending = <<>>
<1>1. Encodes(DownCode, DownItems, Byte) /\ \A x \in DownItems : DownCode[x] # <<>>
  <2>1. Newline \in Byte /\ ProtocolByteEnd \in Byte
    BY DEF Newline, Byte, ProtocolByteEnd
  <2>2. /\ \A x \in DownResponses : DownBody[x] \in Seq(Byte) /\ DownCode[x] = Append(DownBody[x], Newline)
        /\ \A x \in DownSlip : DownBody[x] \in Seq(Byte) /\ DownCode[x] = Append(DownBody[x], ProtocolByteEnd)
    BY DownItemsEnd DEF Ended
  <2>3. \A x \in DownItems : DownCode[x] # <<>>
    BY <2>1, <2>2, AppendProperties DEF DownItems
  <2> QED
    BY <2>3, DownItemsEnd
<1>2. ASSUME NEW x, NEW behind, Expects(pending, x, behind, <<>>) PROVE pending = <<>>
  <2>1. Laid(DownCode, pending) = <<>>
    BY <1>2 DEF Expects
  <2>2. Len(Laid(DownCode, pending)) >= Len(pending)
    BY ONLY <1>1, pending \in Seq(DownItems), LaidIsLong
  <2> QED
    BY <2>1, <2>2
<1>3. ASSUME NEW buffer, Streaming(pending, buffer, <<>>) PROVE pending = <<>>
  <2>1. /\ pending \in Seq(DownSlip) /\ buffer \in Seq(Byte) /\ Free(ProtocolByteEnd, buffer)
        /\ buffer \o <<>> = Laid(DownCode, pending)
    BY <1>3 DEF Streaming
  <2>2. buffer = Laid(DownCode, pending)
    BY <2>1, ConcatEmptySeq
  <2> SUFFICES ASSUME pending # <<>> PROVE FALSE
    OBVIOUS
  <2>3. Head(pending) \in DownSlip /\ Tail(pending) \in Seq(DownSlip)
    BY <2>1, HeadTailProperties
  <2> DEFINE b == DownBody[Head(pending)]
             c == Append(b, ProtocolByteEnd)
             v == Laid(DownCode, Tail(pending))
  <2>4. b \in Seq(Byte) /\ DownCode[Head(pending)] = c /\ ProtocolByteEnd \in Byte
    BY <2>3, DownItemsEnd, ProtocolBytes DEF Ended
  <2>5. v \in Seq(Byte) /\ Laid(DownCode, pending) = c \o v
    <3>1. Encodes(DownCode, DownSlip, Byte)
      BY DownItemsEnd DEF Encodes, DownItems
    <3>2. pending \in Seq(DownSlip) /\ Tail(pending) \in Seq(DownSlip)
      BY <2>1, <2>3
    <3>3. Laid(DownCode, Tail(pending)) \in Seq(Byte)
      BY ONLY <3>1, <3>2, LaidGrows
    <3>4. Laid(DownCode, pending) = DownCode[Head(pending)] \o Laid(DownCode, Tail(pending))
      BY ONLY pending # <<>>, <3>1, <3>2, LaidHead
    <3> QED
      BY <2>4, <3>3, <3>4
  <2> HIDE DEF b, v
  <2>6. ~Free(ProtocolByteEnd, c \o v)
    BY <2>4, <2>5, EndIsInside
  <2> QED
    BY <2>1, <2>2, <2>5, <2>6
<1> QED
  BY <1>2, <1>3

LEMMA DownloadingIsIntact ==
  ASSUME DownlinkHypothesis, Downloading
  PROVE  Down!OnlySentArrives /\ Down!NothingLost
<1>1. received \in Seq(DownItems)
  BY DEF Downloading
<1>2. PICK pending \in Seq(DownItems) :
        /\ sent = received \o pending
        /\ \/ \E x, behind : Expects(pending, x, behind, wire)
           \/ \E buffer : Streaming(pending, buffer, wire)
  BY DEF Downloading
<1>3. IsPrefix(received, sent)
  <2>1. SubSeq(received, 1, Len(received)) = received
    BY <1>1, SubSeqFull
  <2>2. SubSeq(received \o pending, 1, Len(received)) = received
    BY <1>1, PrefixAndRest
  <2>3. Len(received) <= Len(received \o pending)
    BY <1>1
  <2> QED
    BY <1>2, <2>1, <2>2, <2>3 DEF IsPrefix
<1>4. ASSUME wire = <<>> PROVE received = sent
  <2>1. pending = <<>>
    BY <1>2, <1>4, NothingAwaited
  <2>2. received \o <<>> = received
    BY <1>1, ConcatEmptySeq
  <2> QED
    BY <1>2, <2>1, <2>2
<1> QED
  BY <1>3, <1>4, SameInDownlink DEF Down!OnlySentArrives, Down!NothingLost

\* TunnelProxySocketServer::onConnectionDataAvailable: for frames of any number, length and
\* content, and bytes cut into reads anywhere behind the response to RegisterServer, the library
\* handles what the proxy sent, in its order and each item once, takes no byte of SLIP for JSON
\* or of JSON for SLIP, and leaves nothing behind.
THEOREM DownlinkCorrect ==
  ASSUME DownlinkHypothesis
  PROVE  Spec => []DownlinkIntact
<1> DEFINE Inv == part = "downlink" => Downloading
<1>1. Init => Inv
  <2> SUFFICES ASSUME Init PROVE Downloading
    OBVIOUS
  <2>1. sent = <<>> /\ wire = <<>> /\ m_dataBuffer = <<>> /\ jsonBuffer = <<>>
        /\ received = <<>> /\ m_state = "StateHello"
    BY DEF Init, Down!Init
  <2>2. <<>> \in Seq(DownItems)
    OBVIOUS
  <2>3. Encodes(DownCode, DownItems, Byte)
    BY DownItemsEnd
  <2>4. Laid(DownCode, <<>>) = <<>>
    BY ONLY <2>2, <2>3, LaidGrows
  <2>5. Expects(<<>>, HelloItem, {}, <<>>)
    BY <2>2, <2>4 DEF Expects
  <2>6. <<>> = <<>> \o <<>>
    BY ConcatEmptySeq
  <2> QED
    BY <2>1, <2>2, <2>5, <2>6 DEF Downloading
<1>2. Inv /\ [Next]_vars => Inv'
  <2> SUFFICES ASSUME Inv, [Next]_vars, part' = "downlink" PROVE Downloading'
    OBVIOUS
  <2>1. CASE Downlink
    <3>1. Downloading /\ Down!Next
      BY <2>1 DEF Downlink
    <3>2. \A f : Down!SerializeData(Down!BuildFrame(f)) = SerializeData(BuildFrame(f))
      BY SameInDownlink
    <3>3. CASE Down!SendResponse
      <4>1. CASE sent = <<>> /\ Down!Transmit(HelloItem, DownCode[HelloItem])
        BY <3>1, <4>1, DownloadingSends, DownSequences
      <4>2. CASE /\ sent = <<HelloItem>> /\ m_state = "StateRegister"
                 /\ Down!Transmit(RegisterItem, DownCode[RegisterItem])
        BY <3>1, <4>2, DownloadingSends, DownSequences
      <4>3. Down!Newline = Newline
        BY SameInDownlink
      <4>4. \/ sent = <<>> /\ Down!Transmit(HelloItem, DownCode[HelloItem])
            \/ /\ sent = <<HelloItem>> /\ m_state = "StateRegister"
               /\ Down!Transmit(RegisterItem, DownCode[RegisterItem])
        BY <3>3, <4>3, DownCodes DEF Down!SendResponse, HelloItem, RegisterItem
      <4> QED
        BY <4>1, <4>2, <4>4
    <3>4. CASE Down!SendNotification
      <4>1. RegisterItem \in Range(sent)
        BY <3>4, SameInDownlink DEF Down!SendNotification, Down!SlipEnabled, RegisterItem
      <4>2. DownCode[NoticeItem] = SerializeData(BuildFrame(NoticeFrame))
        BY DownCodes, DownSequences DEF FrameOf
      <4>3. Down!Transmit(NoticeItem, DownCode[NoticeItem])
        BY <3>2, <3>4, <4>2, SameInDownlink DEF Down!SendNotification, NoticeItem, NoticeFrame
      <4> QED
        BY <3>1, <4>1, <4>3, DownloadingSends, DownSequences
    <3>5. ASSUME NEW f \in TunnelFrames, Down!SendTunnelData(f) PROVE Downloading'
      <4> DEFINE x == Down!frame(f)
      <4>1. RegisterItem \in Range(sent)
        BY <3>5, SameInDownlink DEF Down!SendTunnelData, Down!SlipEnabled, RegisterItem
      <4>2. x \in DownSlip /\ x \in DownItems
        BY DownSequences DEF DownSlip, DownFrames
      <4>3. FrameOf(x) = f
        BY DownItemsDiffer DEF FrameOf, Down!frame
      <4>4. Down!Transmit(x, DownCode[x])
        BY <3>2, <3>5, <4>2, <4>3, DownCodes DEF Down!SendTunnelData
      <4> HIDE DEF x
      <4> QED
        BY <3>1, <4>1, <4>2, <4>4, DownloadingSends
    <3>6. ASSUME NEW n \in 1..Len(wire), Down!Receive(n) PROVE Downloading'
      BY <3>1, <3>6, DownloadingReceivesResponses, DownloadingReceivesFrames
    <3> QED
      BY <3>1, <3>3, <3>4, <3>5, <3>6 DEF Down!Next
  <2>2. CASE Uplink
    BY <2>2 DEF Uplink
  <2>3. CASE Codec
    BY <2>3 DEF Codec
  <2>4. CASE UNCHANGED vars
    BY <2>4 DEF vars, serverVars, Downloading
  <2>5. CASE Monitoring
    BY <2>5 DEF Monitoring
  <2> QED
    BY <2>1, <2>2, <2>3, <2>4, <2>5 DEF Next
<1>3. Inv => DownlinkIntact
  BY DownloadingIsIntact DEF DownlinkIntact
<1> QED
  BY <1>1, <1>2, <1>3, PTL DEF Spec

-----------------------------------------------------------------------------
(* The stream of the monitor (MonitorSession), of which wire and           *)
(* m_dataBuffer hold pieces of responses.                                  *)

\* A response has four pieces.
LEMMA ResponseFacts ==
  /\ Monitor!Response \in Seq(Monitor!Pieces) /\ Len(Monitor!Response) = 4
  /\ DOMAIN Monitor!Response = 1..4
  /\ \A i \in 1..4 : Monitor!Response[i] = "brace" => i = 3
BY DEF Monitor!Response, Monitor!Pieces

\* The place in a response, counted from the start of any response.
LEMMA SamePlace ==
  ASSUME NEW a \in Nat, NEW m \in Nat, a % 4 = 0
  PROVE  (a + m) % 4 = m % 4 /\ m % 4 \in 0..3
OBVIOUS

LEMMA WholePieces ==
  ASSUME NEW pieces \in Seq(Monitor!Pieces)
  PROVE  Monitor!Whole(pieces) <=>
           /\ Len(pieces) % 4 = 0
           /\ \A i \in 1..Len(pieces) : pieces[i] = Monitor!Response[((i - 1) % 4) + 1]
<1>1. DOMAIN pieces = 1..Len(pieces)
  OBVIOUS
<1>2. Monitor!Whole(pieces) <=>
        /\ Len(pieces) % Len(Monitor!Response) = 0
        /\ \A i \in DOMAIN pieces : pieces[i] = Monitor!Response[((i - 1) % Len(Monitor!Response)) + 1]
  BY Zenon DEF Monitor!Whole
<1>3. Len(Monitor!Response) = 4
  BY ResponseFacts
<1> QED
  BY ONLY <1>1, <1>2, <1>3, Zenon

\* One response more.
LEMMA WholeGrows ==
  ASSUME NEW u \in Seq(Monitor!Pieces), Monitor!Whole(u)
  PROVE  Monitor!Whole(u \o Monitor!Response)
<1> DEFINE R == Monitor!Response
           more == u \o R
           n == Len(u)
<1>1. n \in Nat /\ n % 4 = 0 /\ \A i \in 1..n : u[i] = R[((i - 1) % 4) + 1]
  <2>1. n \in Nat
    OBVIOUS
  <2> HIDE DEF R
  <2> QED
    BY <2>1, WholePieces DEF R
<1>2. /\ R \in Seq(Monitor!Pieces) /\ Len(R) = 4
  BY ResponseFacts
<1> HIDE DEF R
<1>3. /\ Len(more) = n + 4 /\ DOMAIN more = 1..(n + 4)
      /\ \A i \in 1..(n + 4) : more[i] = IF i <= n THEN u[i] ELSE R[i - n]
  <2>1. /\ Len(u \o R) = Len(u) + Len(R)
        /\ \A i \in 1..(Len(u) + Len(R)) :
             (u \o R)[i] = IF i <= Len(u) THEN u[i] ELSE R[i - Len(u)]
    BY <1>2, ConcatProperties
  <2>2. DOMAIN more = 1..Len(more) /\ more \in Seq(Monitor!Pieces)
    BY <1>2
  <2> HIDE DEF more
  <2>3. Len(more) = n + 4
    BY <1>2, <2>1 DEF more
  <2>4. \A i \in 1..(n + 4) : more[i] = IF i <= n THEN u[i] ELSE R[i - n]
    BY <1>2, <2>1 DEF more
  <2> QED
    BY <2>2, <2>3, <2>4
<1>6. more \in Seq(Monitor!Pieces)
  BY <1>2
<1> HIDE DEF more, n
<1>4. Len(more) % 4 = 0
  BY <1>1, <1>3
<1>5. ASSUME NEW i \in 1..(n + 4) PROVE more[i] = R[((i - 1) % 4) + 1]
  <2>1. CASE i <= n
    BY <1>1, <1>3, <2>1
  <2>2. CASE ~(i <= n)
    <3>1. i - n \in 1..4 /\ (i - n) - 1 \in Nat /\ i - 1 = n + ((i - n) - 1)
      BY <1>1, <2>2
    <3>2. (i - 1) % 4 = ((i - n) - 1) % 4
      BY <1>1, <3>1, SamePlace
    <3>3. ((i - n) - 1) % 4 = (i - n) - 1
      BY <3>1
    <3>4. ((i - 1) % 4) + 1 = i - n
      BY <1>1, <3>1, <3>2, <3>3
    <3> QED
      BY <1>3, <2>2, <3>4
  <2> QED
    BY <2>1, <2>2
<1> QED
  <2>1. Monitor!Whole(more)
    BY <1>3, <1>4, <1>5, <1>6, WholePieces DEF R
  <2> QED
    BY <2>1 DEF more, R

\* Behind the brace that ends a response begins the next one.
LEMMA WholeBehindBrace ==
  ASSUME NEW b \in Seq(Monitor!Pieces), NEW w \in Seq(Monitor!Pieces), Monitor!Whole(b \o w),
         NEW i \in 1..(Len(w) - 1), w[i] = "brace"
  PROVE  Monitor!Whole(SubSeq(w, i + 2, Len(w)))
<1> DEFINE R == Monitor!Response
           u == b \o w
           k == Len(b) + i
           v == SubSeq(w, i + 2, Len(w))
<1>1. /\ Len(b) \in Nat /\ Len(w) \in Nat /\ Len(u) = Len(b) + Len(w)
      /\ \A j \in 1..(Len(b) + Len(w)) : u[j] = IF j <= Len(b) THEN b[j] ELSE w[j - Len(b)]
  BY ConcatProperties
<1>2. /\ Len(u) % 4 = 0 /\ \A j \in 1..Len(u) : u[j] = R[((j - 1) % 4) + 1]
  <2>1. u \in Seq(Monitor!Pieces)
    OBVIOUS
  <2> HIDE DEF u
  <2> QED
    BY <2>1, WholePieces DEF u
<1> HIDE DEF R, u
<1>3. i \in Nat /\ i <= Len(w) - 1 /\ i >= 1
  BY <1>1
<1>4. ASSUME NEW j \in 1..Len(w) PROVE w[j] = R[(((Len(b) + j) - 1) % 4) + 1]
  <2>1. Len(b) + j \in 1..Len(u) /\ ~(Len(b) + j <= Len(b)) /\ (Len(b) + j) - Len(b) = j
    BY <1>1
  <2> QED
    BY <1>1, <1>2, <2>1
<1>5. k \in Nat /\ k >= 1 /\ R[((k - 1) % 4) + 1] = "brace"
  <2>1. i \in 1..Len(w)
    BY <1>1, <1>3
  <2>2. w[i] = R[((k - 1) % 4) + 1]
    BY <1>4, <2>1
  <2>3. k \in Nat /\ k >= 1
    BY <1>1, <1>3
  <2> HIDE DEF k
  <2> QED
    BY <2>2, <2>3
<1>6. (k + 1) % 4 = 0 /\ k + 1 \in Nat
  <2> HIDE DEF k
  <2>1. k - 1 \in Nat
    BY <1>5
  <2>2. (k - 1) % 4 \in 0..3
    BY <2>1
  <2>3. ((k - 1) % 4) + 1 \in 1..4
    BY <2>2
  <2>4. ((k - 1) % 4) + 1 = 3
    BY <1>5, <2>3, ResponseFacts DEF R
  <2> QED
    BY <1>5, <2>4
<1>7. /\ v \in Seq(Monitor!Pieces) /\ Len(v) = Len(w) - (i + 1)
      /\ \A j \in 1..(Len(w) - (i + 1)) : v[j] = w[(i + 1) + j]
  <2>1. /\ i + 2 \in Int /\ Len(w) \in Int /\ i + 2 <= Len(w) + 1
        /\ \A j \in (i + 2)..Len(w) : w[j] \in Monitor!Pieces
    BY <1>1, <1>3
  <2>2. /\ v \in Seq(Monitor!Pieces)
        /\ Len(v) = IF i + 2 <= Len(w) THEN Len(w) - (i + 2) + 1 ELSE 0
        /\ \A j \in 1..(Len(w) - (i + 2) + 1) : v[j] = w[(i + 2) + j - 1]
    BY ONLY <2>1, SubSeqProperties
  <2> HIDE DEF v
  <2>3. Len(v) = Len(w) - (i + 1)
    BY <1>1, <1>3, <2>2
  <2>4. ASSUME NEW j \in 1..(Len(w) - (i + 1)) PROVE v[j] = w[(i + 1) + j]
    <3>1. j \in 1..(Len(w) - (i + 2) + 1) /\ (i + 2) + j - 1 = (i + 1) + j
      BY <1>1, <1>3
    <3> QED
      BY <2>2, <3>1
  <2> QED
    BY <2>2, <2>3, <2>4
<1> HIDE DEF v
<1>8. Len(v) % 4 = 0
  <2>1. Len(v) \in Nat /\ Len(u) = (k + 1) + Len(v)
    BY <1>1, <1>3, <1>7
  <2> HIDE DEF k
  <2>2. Len(u) % 4 = Len(v) % 4
    BY <1>6, <2>1, SamePlace
  <2> QED
    BY <1>2, <2>2
<1>9. ASSUME NEW j \in 1..Len(v) PROVE v[j] = R[((j - 1) % 4) + 1]
  <2>1. (i + 1) + j \in 1..Len(w) /\ v[j] = w[(i + 1) + j]
    BY <1>1, <1>3, <1>7
  <2>2. v[j] = R[(((Len(b) + ((i + 1) + j)) - 1) % 4) + 1]
    BY <1>4, <2>1
  <2>3. (Len(b) + ((i + 1) + j)) - 1 = (k + 1) + (j - 1) /\ j - 1 \in Nat
    BY <1>1, <1>3
  <2> HIDE DEF k
  <2>4. ((k + 1) + (j - 1)) % 4 = (j - 1) % 4
    BY <1>6, <2>3, SamePlace
  <2> QED
    BY <2>2, <2>3, <2>4
<1> QED
  <2>1. Monitor!Whole(v)
    BY <1>7, <1>8, <1>9, WholePieces DEF R
  <2> QED
    BY <2>1 DEF v

\* A read takes the pieces of wire up to n; what it leaves follows them.
LEMMA ReadJoins ==
  ASSUME NEW b \in Seq(Monitor!Pieces), NEW w \in Seq(Monitor!Pieces), NEW n \in 1..Len(w)
  PROVE  /\ SubSeq(w, 1, n) \in Seq(Monitor!Pieces)
         /\ SubSeq(w, n + 1, Len(w)) \in Seq(Monitor!Pieces)
         /\ b \o SubSeq(w, 1, n) \in Seq(Monitor!Pieces)
         /\ (b \o SubSeq(w, 1, n)) \o SubSeq(w, n + 1, Len(w)) = b \o w
         /\ Len(SubSeq(w, 1, n)) = n /\ \A i \in 1..n : SubSeq(w, 1, n)[i] = w[i]
<1> DEFINE data == SubSeq(w, 1, n)
           left == SubSeq(w, n + 1, Len(w))
<1>1. /\ Len(w) \in Nat /\ n \in Nat /\ n >= 1 /\ n <= Len(w)
      /\ SubSeq(w, 1, Len(w)) = w
  BY SubSeqFull
<1>2. data \o left = w
  <2>1. 1 \in 1..(Len(w) + 1) /\ n \in (1 - 1)..Len(w) /\ Len(w) \in n..Len(w)
    BY <1>1
  <2> QED
    BY <1>1, <2>1, ConcatAdjacentSubSeq
<1>3. data \in Seq(Monitor!Pieces) /\ Len(data) = n /\ \A i \in 1..n : data[i] = w[i]
  BY <1>1
<1>4. left \in Seq(Monitor!Pieces)
  <2>1. \A i \in (n + 1)..Len(w) : w[i] \in Monitor!Pieces
    BY <1>1
  <2>2. n + 1 \in Int /\ Len(w) \in Int /\ n + 1 <= Len(w) + 1
    BY <1>1
  <2> QED
    BY ONLY <2>1, <2>2, SubSeqProperties, w \in Seq(Monitor!Pieces)
<1>5. (b \o data) \o left = b \o (data \o left)
  <2>1. \A s, t, u \in Seq(Monitor!Pieces) : (s \o t) \o u = s \o (t \o u)
    OBVIOUS
  <2>2. b \in Seq(Monitor!Pieces) /\ data \in Seq(Monitor!Pieces) /\ left \in Seq(Monitor!Pieces)
    BY <1>3, <1>4
  <2> QED
    BY ONLY <2>1, <2>2, Zenon
<1>6. b \o data \in Seq(Monitor!Pieces)
  BY <1>3
<1> HIDE DEF data, left
<1>7. (b \o data) \o left = b \o w
  BY ONLY <1>2, <1>5, Zenon
<1> QED
  BY <1>3, <1>4, <1>6, <1>7 DEF data, left

\* Where onReadyRead finds the end of a response, a brace is followed by a newline.
LEMMA EndFound ==
  ASSUME NEW n \in Nat, NEW data \in Seq(Monitor!Pieces), Len(data) = n,
         Monitor!EndsAt(data) # {}
  PROVE  /\ Monitor!Min(Monitor!EndsAt(data)) \in 1..(n - 1)
         /\ data[Monitor!Min(Monitor!EndsAt(data))] = "brace"
<1> DEFINE E == Monitor!EndsAt(data)
<1>1. E \in SUBSET Nat /\ \A i \in E : i \in 1..(n - 1) /\ data[i] = "brace"
  BY DEF Monitor!EndsAt
<1> HIDE DEF E
<1>2. \E m \in E : \A k \in E : m <= k
  BY <1>1, LeastNatural DEF E
<1>3. Monitor!Min(E) \in E
  BY <1>2, Zenon DEF Monitor!Min
<1> QED
  BY <1>1, <1>3 DEF E

\* Behind that end, what the read took and what it left are the rest of wire.
LEMMA RestJoins ==
  ASSUME NEW w \in Seq(Monitor!Pieces), NEW n \in 1..Len(w), NEW i \in 1..(n - 1),
         NEW data, data = SubSeq(w, 1, n)
  PROVE  /\ SubSeq(data, i + 2, n) \in Seq(Monitor!Pieces)
         /\ SubSeq(data, i + 2, n) \o SubSeq(w, n + 1, Len(w)) = SubSeq(w, i + 2, Len(w))
<1>1. /\ Len(w) \in Nat /\ n \in Nat /\ n <= Len(w) /\ i \in Nat /\ i >= 1 /\ i + 1 <= n
  OBVIOUS
<1>2. SubSeq(data, i + 2, n) = SubSeq(w, i + 2, n)
  <2>1. /\ 1 \in Int /\ n \in Int /\ i + 2 \in Int
        /\ SubSeq(data, i + 2, n) \in Seq(Monitor!Pieces)
        /\ Len(SubSeq(data, i + 2, n)) = n - (i + 1)
        /\ \A j \in 1..(n - (i + 1)) : SubSeq(data, i + 2, n)[j] = data[(i + 1) + j]
    BY <1>1
  <2> QED
    BY <1>1, <2>1
<1>3. SubSeq(w, i + 2, n) \in Seq(Monitor!Pieces)
  <2>1. \A j \in (i + 2)..n : w[j] \in Monitor!Pieces
    BY <1>1
  <2>2. i + 2 \in Int /\ n \in Int /\ i + 2 <= n + 1
    BY <1>1
  <2> QED
    BY ONLY <2>1, <2>2, SubSeqProperties, w \in Seq(Monitor!Pieces)
<1>4. SubSeq(w, i + 2, n) \o SubSeq(w, n + 1, Len(w)) = SubSeq(w, i + 2, Len(w))
  <2>1. i + 2 \in 1..(Len(w) + 1) /\ n \in ((i + 2) - 1)..Len(w) /\ Len(w) \in n..Len(w)
    BY <1>1
  <2> QED
    BY <2>1, ConcatAdjacentSubSeq
<1> QED
  BY <1>2, <1>3, <1>4

\* What OnlyWholeResponses needs: the buffer begins where a response begins, and what
\* follows it up to the end of wire is whole responses.
Watching ==
  /\ shown \in {<<>>, Monitor!Document}
  /\ wire \in Seq(Monitor!Pieces) /\ m_dataBuffer \in Seq(Monitor!Pieces)
  /\ Monitor!Whole(m_dataBuffer \o wire)

\* A step of the monitor or of its server.
LEMMA WatchingGoesOn ==
  ASSUME Watching, Monitor!Next
  PROVE  Watching'
<1>1. CASE UNCHANGED <<shown, wire, m_dataBuffer>>
  BY <1>1 DEF Watching
<1>2. ASSUME NEW n \in 1..Len(wire), Monitor!OnReadyRead(n) PROVE Watching'
  <2> DEFINE data == SubSeq(wire, 1, n)
             left == SubSeq(wire, n + 1, Len(wire))
             E == Monitor!EndsAt(data)
             m == Monitor!Min(E)
             kept == SubSeq(data, m + 2, n)
  <2>1. wire \in Seq(Monitor!Pieces) /\ m_dataBuffer \in Seq(Monitor!Pieces)
    BY DEF Watching
  <2>2. /\ data \in Seq(Monitor!Pieces) /\ left \in Seq(Monitor!Pieces)
        /\ m_dataBuffer \o data \in Seq(Monitor!Pieces)
        /\ (m_dataBuffer \o data) \o left = m_dataBuffer \o wire
        /\ Len(data) = n /\ \A i \in 1..n : data[i] = wire[i]
    BY <2>1, ReadJoins, Zenon
  <2>3. wire' = left
    BY <1>2 DEF Monitor!OnReadyRead
  <2>4. CASE E = {}
    <3>1. m_dataBuffer' = m_dataBuffer \o data /\ shown' = shown
      BY <1>2, <2>4 DEF Monitor!OnReadyRead
    <3> QED
      BY <2>2, <2>3, <3>1 DEF Watching
  <2>5. CASE E # {}
    <3>1. /\ Monitor!ProcessBufferData(m_dataBuffer \o SubSeq(data, 1, m))
          /\ m_dataBuffer' = kept
      BY <1>2, <2>5 DEF Monitor!OnReadyRead
    <3>2. shown' \in {<<>>, Monitor!Document}
      BY <3>1 DEF Monitor!ProcessBufferData, Watching
    <3>3. n \in Nat /\ n <= Len(wire) /\ Len(wire) \in Nat
      BY <2>1
    <3>4. m \in 1..(n - 1) /\ data[m] = "brace"
      BY <2>2, <2>5, <3>3, EndFound
    <3>5. m \in 1..(Len(wire) - 1) /\ wire[m] = "brace"
      BY <2>2, <3>3, <3>4
    <3>6. kept \in Seq(Monitor!Pieces) /\ kept \o left = SubSeq(wire, m + 2, Len(wire))
      BY <2>1, <3>4, RestJoins
    <3>7. Monitor!Whole(SubSeq(wire, m + 2, Len(wire)))
      BY <2>1, <3>5, WholeBehindBrace DEF Watching
    <3> QED
      BY <2>2, <2>3, <3>1, <3>2, <3>6, <3>7 DEF Watching
  <2> QED
    BY <2>4, <2>5
<1>3. ASSUME NEW n \in 1..requests, Monitor!OnMonitorReadyRead(n) PROVE Watching'
  <2>1. UNCHANGED <<shown, m_dataBuffer>>
    BY <1>3 DEF Monitor!OnMonitorReadyRead, Monitor!programVars
  <2>2. CASE wire' = wire
    BY <1>1, <2>1, <2>2
  <2>3. CASE wire' = wire \o Monitor!Response
    <3> DEFINE R == Monitor!Response
    <3>1. /\ wire \in Seq(Monitor!Pieces) /\ m_dataBuffer \in Seq(Monitor!Pieces)
          /\ R \in Seq(Monitor!Pieces)
      BY ResponseFacts DEF Watching
    <3>2. \A s, t, u \in Seq(Monitor!Pieces) : (s \o t) \o u = s \o (t \o u)
      OBVIOUS
    <3> HIDE DEF R
    <3>3. (m_dataBuffer \o wire) \o R = m_dataBuffer \o (wire \o R)
      BY ONLY <3>1, <3>2, Zenon
    <3>4. m_dataBuffer \o wire \in Seq(Monitor!Pieces) /\ wire \o R \in Seq(Monitor!Pieces)
      BY ONLY <3>1
    <3>5. Monitor!Whole((m_dataBuffer \o wire) \o R)
      BY <3>4, WholeGrows DEF Watching, R
    <3> QED
      BY <2>1, <2>3, <3>3, <3>4, <3>5 DEF Watching, R
  <2> QED
    BY <1>3, <2>2, <2>3 DEF Monitor!OnMonitorReadyRead
<1>4. CASE Monitor!OnConnected
  BY <1>1, <1>4 DEF Monitor!OnConnected
<1>5. CASE Monitor!Refresh
  BY <1>1, <1>5 DEF Monitor!Refresh, Monitor!programVars
<1>6. CASE Monitor!OnDisconnected
  BY <1>1, <1>6 DEF Monitor!OnDisconnected
<1>7. CASE Monitor!EventLoopEscape
  BY <1>1, <1>7 DEF Monitor!EventLoopEscape
<1>8. CASE Monitor!OnMonitorConnected
  BY <1>1, <1>8 DEF Monitor!OnMonitorConnected, Monitor!programVars
<1>9. CASE Monitor!OnMonitorDisconnected
  BY <1>1, <1>9 DEF Monitor!OnMonitorDisconnected, Monitor!programVars
<1>10. CASE Monitor!StopServer
  BY <1>1, <1>10 DEF Monitor!StopServer, Monitor!programVars
<1> QED
  BY <1>2, <1>3, <1>4, <1>5, <1>6, <1>7, <1>8, <1>9, <1>10 DEF Monitor!Next

\* MonitorClient::onReadyRead: for responses in any number, cut and read together in any way,
\* the program never shows parts of two, and what it keeps begins where a response begins.
THEOREM OnlyWholeResponsesShown == Spec => []OnlyWholeResponses
<1> DEFINE Inv == part = "monitor" => Watching
<1>1. Init => Inv
  <2> SUFFICES ASSUME Init PROVE Watching
    OBVIOUS
  <2>1. shown = <<>> /\ wire = <<>> /\ m_dataBuffer = <<>>
    BY DEF Init, Monitor!Init
  <2>2. <<>> \in Seq(Monitor!Pieces) /\ Len(<<>>) = 0 /\ 0 % 4 = 0 /\ 1..0 = {}
    OBVIOUS
  <2>3. Monitor!Whole(<<>>)
    BY <2>2, WholePieces
  <2>4. <<>> \o <<>> = <<>>
    OBVIOUS
  <2> QED
    BY <2>1, <2>2, <2>3, <2>4 DEF Watching
<1>2. Inv /\ [Next]_vars => Inv'
  <2> SUFFICES ASSUME Inv, [Next]_vars, part' = "monitor" PROVE Watching'
    OBVIOUS
  <2>1. CASE Monitoring
    BY <2>1, WatchingGoesOn DEF Monitoring
  <2>2. CASE Uplink
    BY <2>2 DEF Uplink
  <2>3. CASE Downlink
    BY <2>3 DEF Downlink
  <2>4. CASE Codec
    BY <2>4 DEF Codec
  <2>5. CASE UNCHANGED vars
    BY <2>5 DEF vars, monitorVars, Watching
  <2> QED
    BY <2>1, <2>2, <2>3, <2>4, <2>5 DEF Next
<1>3. Inv => OnlyWholeResponses
  BY DEF Watching, OnlyWholeResponses, Monitor!OnlyWholeResponses
<1> QED
  BY <1>1, <1>2, <1>3, PTL DEF Spec
=============================================================================
