----------------------------- MODULE WireProofs -----------------------------
(***************************************************************************)
(* Proofs about Codec and Wire for any payloads, report size and range of  *)
(* a byte: what is encoded is decoded, and what one changed byte, one lost *)
(* or one foreign report makes of it.                                      *)
(***************************************************************************)
EXTENDS Wire, SumTheorems, SequenceTheorems

-----------------------------------------------------------------------------
(***************************************************************************)
(* The checksum.                                                           *)
(***************************************************************************)
LEMMA SizesTyped ==
  /\ ReportSize \in Nat /\ 10 =< ReportSize /\ ReportSize =< ByteModulus
  /\ ByteModulus \in Nat /\ NextStream \in Nat \ {0} /\ FirstStream \in Nat \ {0}
  /\ NextStream = ReportSize - 1 /\ FirstStream = ReportSize - 6
  /\ MaxRequestPayload = ReportSize - 8
  /\ \A x \in {IdOut, IdIn, Marker, KindNormal, KindUpdate} : x \in Byte
BY CodecAssumption DEF NextStream, FirstStream, MaxRequestPayload

LEMMA Divided ==
  ASSUME NEW b \in Nat \ {0}, NEW a \in Nat
  PROVE  /\ a \div b \in Nat /\ a % b \in 0..b - 1
         /\ a = b * (a \div b) + (a % b)
<1>1. a \div b \in Nat
  OBVIOUS
<1>2. a % b \in 0..b - 1
  OBVIOUS
<1>3. a = b * (a \div b) + (a % b)
  OBVIOUS
<1> QED
  BY <1>1, <1>2, <1>3

\* The two bytes of a number below the square of the modulus give it back.
LEMMA TwoDigits ==
  ASSUME NEW m \in Nat \ {0}, NEW a \in Nat, a < m * m
  PROVE  a % m \in 0..m - 1 /\ a \div m \in 0..m - 1
<1> DEFINE q == a \div m
<1>1. q \in Nat /\ a = m * q + (a % m) /\ a % m \in 0..m - 1
  BY Divided
<1>2. m * q =< a
  BY <1>1
<1> HIDE DEF q
<1>3. ASSUME m =< q PROVE FALSE
  <2>1. m * m =< m * q
    BY <1>1, <1>3
  <2> QED
    BY <1>1, <1>2, <2>1
<1> QED
  BY <1>1, <1>3 DEF q

LEMMA Bytes ==
  /\ Byte \subseteq Nat /\ \A x \in Byte : x < ByteModulus
  /\ \A s \in Seq(Byte) : s \in Seq(Nat) /\ \A i \in 1..Len(s) : s[i] \in Byte
<1>1. Byte \subseteq Nat /\ \A x \in Byte : x < ByteModulus
  BY SizesTyped DEF Byte
<1>2. ASSUME NEW s \in Seq(Byte) PROVE s \in Seq(Nat) /\ \A i \in 1..Len(s) : s[i] \in Byte
  <2>1. \A i \in 1..Len(s) : s[i] \in Byte
    OBVIOUS
  <2> HIDE DEF Byte
  <2>2. \A i \in 1..Len(s) : s[i] \in Nat
    BY <1>1, <2>1
  <2>3. s = [i \in 1..Len(s) |-> s[i]] /\ Len(s) \in Nat
    OBVIOUS
  <2> QED
    BY <2>1, <2>2, <2>3
<1> QED
  BY <1>1, <1>2

LEMMA ChecksumTyped ==
  ASSUME NEW s \in Seq(Byte)
  PROVE  /\ SumFunction(s) \in Nat
         /\ checksum_bytes(s) \in Byte \X Byte
         /\ payload_checksum(s) \in Nat
         /\ payload_checksum(s) = ByteModulus * checksum_bytes(s)[2] + checksum_bytes(s)[1]
<1> DEFINE M == ByteModulus
           MM == M * M
           c == payload_checksum(s)
           a == SumFunction(s)
<1>1. M \in Nat \ {0} /\ MM \in Nat \ {0}
  BY SizesTyped
<1>2. a \in Nat
  BY Bytes, SeqSum
<1>3. c \in Nat /\ c < MM
  <2>1. c = a % MM
    BY DEF payload_checksum
  <2> HIDE DEF MM, a, c
  <2>2. a % MM \in 0..MM - 1
    BY <1>1, <1>2, Divided
  <2> QED
    BY <2>1, <2>2, <1>1
<1>4. c % M \in 0..M - 1 /\ c \div M \in 0..M - 1 /\ c = M * (c \div M) + (c % M)
  <2> HIDE DEF c
  <2> QED
    BY <1>1, <1>3, TwoDigits, Divided
<1> QED
  <2>1. checksum_bytes(s) = <<c % M, c \div M>>
    BY Zenon DEF checksum_bytes
  <2> HIDE DEF a, c
  <2>2. checksum_bytes(s)[1] = c % M /\ checksum_bytes(s)[2] = c \div M
    BY <2>1
  <2>3. checksum_bytes(s) \in Byte \X Byte
    BY <2>1, <1>4 DEF Byte
  <2>4. c = M * checksum_bytes(s)[2] + checksum_bytes(s)[1]
    BY <2>2, <1>4, Zenon
  <2> QED
    BY <2>3, <2>4, <1>2, <1>3 DEF a, c

\* One byte changed, and no other, changes the checksum.
LEMMA ChecksumDetects ==
  ASSUME NEW s \in Seq(Byte), NEW t \in Seq(Byte), Len(s) = Len(t),
         NEW k, \A i \in 1..Len(s) : i # k => s[i] = t[i],
         checksum_bytes(s) = checksum_bytes(t)
  PROVE  s = t
<1> DEFINE M == ByteModulus
<1>1. SUFFICES ASSUME k \in 1..Len(s) PROVE s[k] = t[k]
  <2>1. (\A i \in 1..Len(s) : s[i] = t[i]) => s = t
    OBVIOUS
  <2> QED
    BY <2>1
<1> DEFINE MM == M * M
           a == SumFunction(s)
           b == SumFunction(t)
           x == s[k]
           y == t[k]
           p == a \div MM
           q == b \div MM
<1>2. M \in Nat \ {0} /\ MM \in Nat \ {0} /\ M =< MM
  BY SizesTyped
<1>3. s \in Seq(Nat) /\ t \in Seq(Nat) /\ x \in 0..M - 1 /\ y \in 0..M - 1
  BY <1>1, Bytes DEF Byte
<1>4. a + y = b + x
  BY <1>1, <1>3, SumChange
<1>5. a \in Nat /\ b \in Nat
  BY ChecksumTyped
<1>6. a % MM = b % MM
  <2>1. payload_checksum(s) = payload_checksum(t)
    BY ChecksumTyped, Zenon
  <2> QED
    BY <2>1 DEF payload_checksum
<1> HIDE DEF MM, a, b, x, y, M
<1> DEFINE d == a % MM
<1>7. p \in Nat /\ q \in Nat /\ d \in Nat /\ a = MM * p + d /\ b = MM * q + d
  <2>1. a \div MM \in Nat /\ a = MM * (a \div MM) + (a % MM) /\ a % MM \in 0..MM - 1
    BY <1>2, <1>5, Divided
  <2>3. d \in Nat
    BY <1>2, <2>1
  <2>2. b \div MM \in Nat /\ b = MM * (b \div MM) + (b % MM)
    BY <1>2, <1>5, Divided
  <2> QED
    BY <2>1, <2>2, <2>3, <1>6, Zenon
<1> HIDE DEF p, q, d
<1> DEFINE u == MM * p
           v == MM * q
<1>8. u \in Nat /\ v \in Nat /\ u + y = v + x
  <2>1. u \in Nat /\ v \in Nat
    BY <1>2, <1>7
  <2>2. a = u + d /\ b = v + d
    BY <1>7, Zenon DEF u, v
  <2> HIDE DEF u, v
  <2> QED
    BY <2>1, <2>2, <1>3, <1>4, <1>7
<1>9. p < q => u + MM =< v
  BY <1>2, <1>7
<1>10. q < p => v + MM =< u
  BY <1>2, <1>7
<1>11. p = q => u = v
  BY DEF u, v
<1> HIDE DEF u, v
<1>12. x = y
  BY <1>2, <1>3, <1>7, <1>8, <1>9, <1>10, <1>11
<1> QED
  BY <1>12 DEF x, y

-----------------------------------------------------------------------------
(***************************************************************************)
(* Where the bytes of a stream are: the report, and the place in it.       *)
(***************************************************************************)
Of(i) == IF i =< FirstStream THEN 1 ELSE 2 + (i - FirstStream - 1) \div NextStream
In(i) == IF i =< FirstStream THEN 5 + i ELSE 1 + ((i - FirstStream - 1) % NextStream)

LEMMA LaterPlace ==
  ASSUME NEW i \in Nat, FirstStream < i
  PROVE  /\ Of(i) \in Nat \ {0} /\ Of(i) - 2 \in Nat /\ In(i) \in 1..NextStream
         /\ i = FirstStream + NextStream * (Of(i) - 2) + In(i)
<1> DEFINE N == NextStream
           z == i - FirstStream - 1
           q == z \div N
           m == z % N
<1>1. z \in Nat /\ N \in Nat \ {0} /\ FirstStream \in Nat
  BY SizesTyped
<1>2. Of(i) = 2 + q /\ In(i) = 1 + m
  BY <1>1 DEF Of, In
<1>3. i = z + FirstStream + 1
  BY <1>1
<1> HIDE DEF z, N
<1>4. q \in Nat /\ m \in 0..N - 1 /\ z = N * q + m
  BY <1>1, Divided
<1> HIDE DEF q, m
<1> DEFINE u == N * q
<1>5. u \in Nat /\ z = u + m
  BY <1>1, <1>4
<1>6. Of(i) - 2 = q /\ Of(i) \in Nat \ {0}
  BY <1>2, <1>4
<1>7. u = NextStream * (Of(i) - 2)
  BY <1>6, Zenon DEF u, N
<1> HIDE DEF u
<1>8. In(i) \in 1..N
  BY <1>1, <1>2, <1>4
<1>9. i = FirstStream + u + In(i)
  BY <1>1, <1>2, <1>3, <1>4, <1>5
<1> QED
  BY <1>4, <1>6, <1>7, <1>8, <1>9, Zenon DEF N

LEMMA FirstPlace ==
  ASSUME NEW i \in Nat \ {0}, i =< FirstStream
  PROVE  Of(i) = 1 /\ In(i) = 5 + i /\ In(i) \in Index
BY SizesTyped DEF Of, In, Index

LEMMA Placed ==
  ASSUME NEW i \in Nat \ {0}
  PROVE  Of(i) \in Nat \ {0} /\ In(i) \in Index /\ In(i) # 0
<1>1. CASE i =< FirstStream
  BY <1>1, FirstPlace DEF Index
<1>2. CASE FirstStream < i
  BY <1>2, LaterPlace, SizesTyped DEF Index
<1> QED
  BY <1>1, <1>2, SizesTyped

\* No two bytes are in one place.
LEMMA Apart ==
  ASSUME NEW i \in Nat \ {0}, NEW j \in Nat \ {0}, Of(i) = Of(j), In(i) = In(j)
  PROVE  i = j
<1>1. FirstStream \in Nat
  BY SizesTyped
<1>2. CASE i =< FirstStream /\ j =< FirstStream
  BY <1>2, FirstPlace
<1>3. CASE i =< FirstStream /\ FirstStream < j
  BY <1>3, FirstPlace, LaterPlace
<1>4. CASE FirstStream < i /\ j =< FirstStream
  BY <1>4, FirstPlace, LaterPlace
<1>5. CASE FirstStream < i /\ FirstStream < j
  <2>1. /\ i = FirstStream + NextStream * (Of(i) - 2) + In(i)
        /\ j = FirstStream + NextStream * (Of(j) - 2) + In(j)
    BY <1>5, LaterPlace
  <2> QED
    BY <2>1, Zenon
<1> QED
  BY <1>1, <1>2, <1>3, <1>4, <1>5

\* The streams of f reports after the first hold what is in their places.
LEMMA Within ==
  ASSUME NEW i \in Nat \ {0}, NEW f \in Nat, i =< FirstStream + f * NextStream
  PROVE  Of(i) =< 1 + f
<1>1. FirstStream \in Nat /\ NextStream \in Nat \ {0}
  BY SizesTyped
<1>2. CASE i =< FirstStream
  BY <1>2, FirstPlace
<1>3. CASE FirstStream < i
  <2> DEFINE q == Of(i) - 2
             N == NextStream
             u == N * q
             v == f * N
  <2>1. q \in Nat /\ In(i) \in 1..N /\ i = FirstStream + u + In(i) /\ i =< FirstStream + v
    BY <1>3, LaterPlace
  <2>2. u \in Nat /\ v \in Nat
    BY <1>1, <2>1
  <2>3. u < v
    <3> HIDE DEF u, v, q, N
    <3> QED
      BY <1>1, <2>1, <2>2
  <2>4. ASSUME f =< q PROVE FALSE
    <3> HIDE DEF q, N
    <3>1. f * N =< N * q
      BY <1>1, <2>1, <2>4 DEF N
    <3> HIDE DEF u, v
    <3>2. v =< u
      BY <3>1, Zenon DEF u, v
    <3> QED
      BY <2>2, <2>3, <3>2
  <2>5. Of(i) = q + 2
    <3>1. Of(i) \in Nat
      BY Placed
    <3> QED
      BY <3>1
  <2> HIDE DEF q
  <2> QED
    BY <2>1, <2>4, <2>5
<1> QED
  BY <1>1, <1>2, <1>3

\* Enough reports follow the first for a stream of n bytes.
LEMMA Enough ==
  ASSUME NEW n \in Nat
  PROVE  Following(n) \in Nat /\ n =< FirstStream + Following(n) * NextStream
<1>1. FirstStream \in Nat /\ NextStream \in Nat \ {0}
  BY SizesTyped
<1>2. CASE n =< FirstStream
  <2>1. Following(n) = 0
    BY <1>2 DEF Following
  <2> QED
    BY <2>1, <1>1, <1>2
<1>3. CASE FirstStream < n
  <2> DEFINE N == NextStream
             z == n - FirstStream + N - 1
             f == z \div N
             u == N * f
  <2>1. z \in Nat /\ Following(n) = f
    BY <1>1, <1>3 DEF Following
  <2>2. f \in Nat /\ z % N \in 0..N - 1 /\ z = u + (z % N)
    <3> HIDE DEF z, N
    <3> QED
      BY <1>1, <2>1, Divided DEF N
  <2>3. u \in Nat /\ u = f * N
    <3> HIDE DEF f, N
    <3> QED
      BY <1>1, <2>2 DEF N
  <2>4. n =< FirstStream + u
    <3> DEFINE d == z % N
    <3>1. d \in 0..N - 1 /\ z = u + d
      BY <2>2
    <3> HIDE DEF d, u, f
    <3> QED
      BY <1>1, <1>3, <2>3, <3>1
  <2>5. Following(n) * NextStream = u
    BY <2>1, <2>3, Zenon
  <2> QED
    BY <2>1, <2>2, <2>4, <2>5, Zenon
<1> QED
  BY <1>1, <1>2, <1>3

\* The streams of reports, enough for n bytes, put together.
LEMMA CollectedIs ==
  ASSUME NEW R \in Seq(Report), NEW n \in Nat, 1 + Following(n) =< Len(R)
  PROVE  /\ Collected(R) \in Seq(Byte) /\ n =< Len(Collected(R))
         /\ \A i \in 1..n : /\ Of(i) \in 1..1 + Following(n) /\ In(i) \in Index
                            /\ Collected(R)[i] = R[Of(i)][In(i)]
<1> DEFINE f == Len(R) - 1
           L == FirstStream + f * NextStream
           S == Collected(R)
<1>1. /\ FirstStream \in Nat /\ NextStream \in Nat \ {0} /\ Following(n) \in Nat
      /\ n =< FirstStream + Following(n) * NextStream
  BY SizesTyped, Enough
<1>2. f \in Nat /\ Following(n) =< f
  BY <1>1
<1>3. L \in Nat /\ n =< L
  <2>1. Following(n) * NextStream =< f * NextStream /\ f * NextStream \in Nat
    <3> HIDE DEF f
    <3> QED
      BY <1>1, <1>2
  <2>2. Following(n) * NextStream \in Nat
    BY <1>1
  <2> HIDE DEF f
  <2> QED
    BY <1>1, <2>1, <2>2
<1>4. S = [i \in 1..L |-> R[Of(i)][In(i)]]
  <2>1. S = [i \in 1..L |-> IF i =< FirstStream THEN R[1][5 + i]
                            ELSE R[2 + (i - FirstStream - 1) \div NextStream]
                                  [1 + ((i - FirstStream - 1) % NextStream)]]
    BY Zenon DEF Collected
  <2> HIDE DEF L, S
  <2> QED
    BY <2>1 DEF Of, In
<1>5. ASSUME NEW i \in 1..L
      PROVE  R[Of(i)][In(i)] \in Byte /\ Of(i) \in 1..1 + f /\ In(i) \in Index
  <2>1. Of(i) \in 1..1 + f /\ In(i) \in Index
    BY <1>2, <1>3, Within, Placed
  <2>2. R[Of(i)] \in Report
    BY <2>1
  <2> QED
    BY <2>1, <2>2 DEF Report
<1> HIDE DEF L
<1>6. S \in Seq(Byte) /\ Len(S) = L
  BY <1>3, <1>4, <1>5
<1>7. ASSUME NEW i \in 1..n
      PROVE  Of(i) \in 1..1 + Following(n) /\ In(i) \in Index /\ S[i] = R[Of(i)][In(i)]
  <2>1. i \in 1..L /\ i \in Nat \ {0} /\ i =< n
    BY <1>3
  <2>2. i =< FirstStream + Following(n) * NextStream
    <3> DEFINE v == Following(n) * NextStream
    <3>1. v \in Nat
      BY <1>1
    <3> HIDE DEF v
    <3> QED
      BY <2>1, <1>1, <3>1 DEF v
  <2>3. Of(i) =< 1 + Following(n) /\ Of(i) \in Nat \ {0}
    BY <2>1, <2>2, <1>1, Within, Placed
  <2> QED
    BY <2>1, <2>3, <1>1, <1>4, <1>5
<1> QED
  BY <1>3, <1>6, <1>7

-----------------------------------------------------------------------------
(***************************************************************************)
(* What is sent.                                                           *)
(***************************************************************************)
FrameOf(f, id, kind, length, sequence, stream) ==
  /\ f \in Report
  /\ f[0] = id /\ f[1] = Marker /\ f[2] = kind /\ f[3] = length
  /\ f[4] = Not(length) /\ f[5] = sequence
  /\ \A i \in Nat \ {0} : i =< Len(stream) /\ 5 + i \in Index => f[5 + i] = stream[i]

LEMMA FrameIs ==
  ASSUME NEW id \in Byte, NEW kind \in Byte, NEW length \in Byte, NEW sequence \in Byte,
         NEW pad \in Byte, NEW stream \in Seq(Byte)
  PROVE  FrameOf(Frame(id, kind, length, sequence, stream, pad),
                 id, kind, length, sequence, stream)
<1> DEFINE f == Frame(id, kind, length, sequence, stream, pad)
<1>1. Not(length) \in Byte /\ Marker \in Byte
  BY SizesTyped DEF Not, Byte
<1>2. f = [i \in Index |->
             CASE i = 0 -> id [] i = 1 -> Marker [] i = 2 -> kind
               [] i = 3 -> length [] i = 4 -> Not(length) [] i = 5 -> sequence
               [] OTHER -> IF i - 5 =< Len(stream) THEN stream[i - 5] ELSE pad]
  BY Zenon DEF Frame
<1>3. {0, 1, 2, 3, 4, 5} \subseteq Index
  BY SizesTyped DEF Index
<1> HIDE DEF f
<1>4. /\ f[0] = id /\ f[1] = Marker /\ f[2] = kind /\ f[3] = length
      /\ f[4] = Not(length) /\ f[5] = sequence
  BY <1>2, <1>3
<1>5. ASSUME NEW i \in Index, i \notin 0..5
      PROVE  f[i] = IF i - 5 =< Len(stream) THEN stream[i - 5] ELSE pad
  BY <1>2, <1>5
<1>6. Index \subseteq Nat
  BY SizesTyped DEF Index
<1>7. ASSUME NEW i \in Index PROVE f[i] \in Byte
  <2>1. CASE i \in 0..5
    BY <2>1, <1>1, <1>4
  <2>2. CASE i \notin 0..5 /\ i - 5 =< Len(stream)
    <3>1. i - 5 \in 1..Len(stream)
      BY <2>2, <1>6
    <3> QED
      BY <2>2, <3>1, <1>5
  <2>3. CASE i \notin 0..5 /\ ~(i - 5 =< Len(stream))
    BY <2>3, <1>5
  <2> QED
    BY <2>1, <2>2, <2>3
<1>8. f \in Report
  BY <1>2, <1>7 DEF Report
<1>9. ASSUME NEW i \in Nat \ {0}, i =< Len(stream), 5 + i \in Index
      PROVE  f[5 + i] = stream[i]
  BY <1>5, <1>9
<1> QED
  BY <1>4, <1>8, <1>9 DEF f, FrameOf

\* A length and its complement.
LEMMA LengthIs ==
  ASSUME NEW x \in Byte, NEW y \in Byte
  PROVE  /\ (x + y) % ByteModulus = ByteModulus - 1 <=> x + y = ByteModulus - 1
         /\ Not(x) \in Byte /\ x + Not(x) = ByteModulus - 1
<1> DEFINE M == ByteModulus
           z == x + y
           k == z \div M
           d == z % M
<1>1. M \in Nat \ {0} /\ x \in 0..M - 1 /\ y \in 0..M - 1
  BY SizesTyped DEF Byte
<1>2. z \in Nat /\ z =< 2 * M - 2
  BY <1>1
<1>3. Not(x) \in Byte /\ x + Not(x) = M - 1
  BY <1>1 DEF Not, Byte
<1> HIDE DEF M, z
<1>4. k \in Nat /\ d \in 0..M - 1 /\ z = M * k + d
  BY <1>1, <1>2, Divided
<1> HIDE DEF k, d
<1> DEFINE u == M * k
<1>5. u \in Nat /\ (k = 0 => u = 0) /\ (k # 0 => M =< u)
  BY <1>1, <1>4
<1>6. z = u + d
  BY <1>4
<1> HIDE DEF u
<1>7. d = M - 1 <=> z = M - 1
  BY <1>1, <1>2, <1>4, <1>5, <1>6
<1> QED
  BY <1>3, <1>7 DEF d, z, M

\* A payload with its checksum.
LEMMA StreamIs ==
  ASSUME NEW l \in Seq(Byte)
  PROVE  LET t == l \o checksum_bytes(l)
         IN /\ t \in Seq(Byte) /\ Len(t) = Len(l) + 2
            /\ \A i \in 1..Len(l) : t[i] = l[i]
            /\ <<t[Len(l) + 1], t[Len(l) + 2]>> = checksum_bytes(l)
<1> DEFINE c == checksum_bytes(l)
<1>1. c \in Byte \X Byte
  BY ChecksumTyped
<1> HIDE DEF c
<1> DEFINE a == c[1]
           b == c[2]
<1>2. a \in Byte /\ b \in Byte /\ c = <<a, b>>
  BY <1>1
<1> HIDE DEF a, b
<1>3. /\ l \o <<a, b>> \in Seq(Byte) /\ Len(l \o <<a, b>>) = Len(l) + 2
      /\ \A i \in 1..Len(l) : (l \o <<a, b>>)[i] = l[i]
      /\ (l \o <<a, b>>)[Len(l) + 1] = a /\ (l \o <<a, b>>)[Len(l) + 2] = b
  <2>1. <<a, b>> \in Seq(Byte) /\ Len(<<a, b>>) = 2 /\ <<a, b>>[1] = a /\ <<a, b>>[2] = b
    BY <1>2
  <2> DEFINE e == <<a, b>>
  <2>2. e \in Seq(Byte) /\ Len(e) = 2 /\ e[1] = a /\ e[2] = b
    BY <2>1
  <2> HIDE DEF e
  <2>3. /\ l \o e \in Seq(Byte) /\ Len(l \o e) = Len(l) + 2
        /\ \A i \in 1..Len(l) : (l \o e)[i] = l[i]
        /\ (l \o e)[Len(l) + 1] = a /\ (l \o e)[Len(l) + 2] = b
    <3>1. /\ l \o e \in Seq(Byte) /\ Len(l \o e) = Len(l) + Len(e)
          /\ \A i \in 1..Len(l) + Len(e) :
               (l \o e)[i] = IF i =< Len(l) THEN l[i] ELSE e[i - Len(l)]
      BY <2>2, ConcatProperties
    <3>3. Len(l) \in Nat
      OBVIOUS
    <3> QED
      BY <2>2, <3>1, <3>3
  <2> QED
    BY <2>3 DEF e
<1> QED
  BY <1>2, <1>3 DEF c

\* A payload whose checksum is right, and that came with one byte changed at
\* most, is the payload that was sent.
LEMMA Recovered ==
  ASSUME NEW l \in Seq(Byte), NEW t \in Seq(Byte), Len(t) = Len(l), NEW k,
         \A i \in 1..Len(l) : i # k => t[i] = l[i], NEW c,
         c = checksum_bytes(t), k \in 1..Len(l) => c = checksum_bytes(l)
  PROVE  t = l
<1>1. CASE k \in 1..Len(l)
  <2>1. checksum_bytes(t) = checksum_bytes(l)
    BY <1>1
  <2>2. \A i \in 1..Len(t) : i # k => t[i] = l[i]
    OBVIOUS
  <2> QED
    BY <2>1, <2>2, ChecksumDetects
<1>2. CASE k \notin 1..Len(l)
  <2>1. \A i \in 1..Len(l) : t[i] = l[i]
    BY <1>2
  <2> QED
    BY <2>1
<1> QED
  BY <1>1, <1>2

LEMMA KindTyped == ASSUME NEW u PROVE frame_kind(u) \in Byte
BY SizesTyped DEF frame_kind

\* A response that fits, as its reports hold it.
Fit(l) == l \in Seq(Byte) /\ 4 =< Len(l) /\ response_fits(l)

EncodedOf(E, l) ==
  LET t == l \o checksum_bytes(l)
  IN /\ E \in Seq(Report) /\ Len(E) = 1 + Following(Len(l) + 2)
     /\ Following(Len(l) + 2) \in Nat
     /\ E[1][1] = Marker /\ E[1][3] = Len(l) + 2 /\ E[1][4] = Not(Len(l) + 2)
     /\ \A r \in 1..Len(E) : E[r][0] = IdIn
     /\ \A i \in 1..Len(l) + 2 : /\ Of(i) \in 1..Len(E) /\ In(i) \in Index
                                 /\ E[Of(i)][In(i)] = t[i]

LEMMA FitIs ==
  ASSUME NEW l, Fit(l)
  PROVE  l \in Seq(Byte) /\ Len(l) \in Nat /\ 4 =< Len(l) /\ Len(l) + 2 \in Byte
BY SizesTyped DEF Fit, response_fits, Byte

LEMMA EncodedIs ==
  ASSUME NEW l, Fit(l), NEW u, NEW b \in Byte
  PROVE  EncodedOf(response_encode(l, u, b), l)
<1> DEFINE E == response_encode(l, u, b)
           t == l \o checksum_bytes(l)
           n == Len(l) + 2
           f == Following(n)
           head == Frame(IdIn, frame_kind(u), n, l[2], t, b)
           sent(r) == FirstStream + (r - 2) * NextStream
           next(r) == [i \in Index |->
                         CASE i = 0 -> IdIn
                           [] i # 0 /\ sent(r) + i =< Len(t) -> t[sent(r) + i]
                           [] OTHER -> 0]
<1>1. /\ n \in Nat /\ f \in Nat /\ n =< FirstStream + f * NextStream
      /\ FirstStream \in Nat /\ NextStream \in Nat \ {0}
  <2>1. n \in Nat
    BY DEF Fit
  <2> HIDE DEF n
  <2> QED
    BY <2>1, Enough, SizesTyped, Zenon
<1>2. t \in Seq(Byte) /\ Len(t) = n
  BY StreamIs DEF Fit
<1>3. /\ n \in Byte /\ l[2] \in Byte /\ IdIn \in Byte /\ 0 \in Byte /\ 0 \in Index
      /\ frame_kind(u) \in Byte /\ Marker \in Byte
  <2>1. n \in Byte /\ 0 \in Byte /\ 0 \in Index
    BY SizesTyped, <1>1 DEF Fit, response_fits, Byte, Index
  <2>2. l[2] \in Byte
    BY DEF Fit
  <2> QED
    BY <2>1, <2>2, SizesTyped, KindTyped
<1>4. E = [r \in 1..1 + f |-> IF r = 1 THEN head ELSE next(r)]
  <2>1. E = [r \in 1..1 + Following(Len(t)) |->
               IF r = 1 THEN Frame(IdIn, frame_kind(u), Len(t), l[2], t, b) ELSE next(r)]
    BY Zenon DEF response_encode
  <2> QED
    BY <2>1, <1>2, Zenon
<1> HIDE DEF E, t
<1>5. /\ head \in Report /\ head[0] = IdIn /\ head[1] = Marker /\ head[3] = n
      /\ head[4] = Not(n)
      /\ \A i \in Nat \ {0} : i =< Len(t) /\ 5 + i \in Index => head[5 + i] = t[i]
  <2> DEFINE e == l[2]
             k == frame_kind(u)
  <2>1. e \in Byte /\ k \in Byte
    BY <1>3
  <2> HIDE DEF e, k, n
  <2>2. head = Frame(IdIn, k, n, e, t, b)
    BY Zenon DEF e, k
  <2> HIDE DEF head
  <2> QED
    <3>1. IdIn \in Byte /\ n \in Byte
      BY <1>3
    <3>2. FrameOf(Frame(IdIn, k, n, e, t, b), IdIn, k, n, e, t)
      BY <2>1, <3>1, <1>2, FrameIs
    <3> QED
      BY <2>2, <3>2 DEF FrameOf
<1>6. ASSUME NEW r \in 2..1 + f
      PROVE  next(r) \in Report /\ next(r)[0] = IdIn
  <2> DEFINE v == sent(r)
  <2>1. v \in Nat
    <3>1. r - 2 \in Nat /\ (r - 2) * NextStream \in Nat
      BY <1>1
    <3> QED
      BY <1>1, <3>1
  <2>2. next(r) = [i \in Index |-> CASE i = 0 -> IdIn
                                     [] i # 0 /\ v + i =< Len(t) -> t[v + i]
                                     [] OTHER -> 0]
    BY Zenon
  <2> HIDE DEF v, next
  <2>3. ASSUME NEW i \in Index, i # 0, v + i =< Len(t)
        PROVE  t[v + i] \in Byte
    <3>1. v + i \in 1..Len(t)
      BY <2>1, <2>3, <1>1, <1>2, SizesTyped DEF Index
    <3> QED
      BY <1>2, <3>1
  <2> QED
    BY <2>2, <2>3, <1>3 DEF Report
<1> HIDE DEF head, next
<1>7. E \in Seq(Report) /\ Len(E) = 1 + f
  <2>1. \A r \in 1..1 + f : (IF r = 1 THEN head ELSE next(r)) \in Report
    BY <1>1, <1>5, <1>6
  <2> HIDE DEF f
  <2> QED
    BY <1>1, <1>4, <2>1
<1>8. E[1] = head
  BY <1>1, <1>4
<1>9. ASSUME NEW r \in 1..1 + f PROVE E[r][0] = IdIn
  BY <1>1, <1>4, <1>5, <1>6
<1>10. ASSUME NEW i \in 1..n
       PROVE  Of(i) \in 1..1 + f /\ In(i) \in Index /\ E[Of(i)][In(i)] = t[i]
  <2> DEFINE v == f * NextStream
  <2>1. i \in Nat \ {0} /\ v \in Nat
    BY <1>1
  <2>2. i =< FirstStream + v
    <3> HIDE DEF v
    <3> QED
      BY <1>1, <2>1 DEF v
  <2>3. Of(i) \in 1..1 + f /\ In(i) \in Index
    BY <2>1, <2>2, <1>1, Within, Placed
  <2>4. CASE i =< FirstStream
    <3>1. E[Of(i)][In(i)] = head[5 + i] /\ 5 + i \in Index
      BY <2>1, <2>4, <1>8, FirstPlace
    <3> QED
      BY <3>1, <2>1, <2>3, <1>2, <1>5
  <2>5. CASE FirstStream < i
    <3> DEFINE r == Of(i)
               j == In(i)
               w == NextStream * (r - 2)
    <3>1. r - 2 \in Nat /\ j \in 1..NextStream /\ i = FirstStream + w + j
      BY <2>1, <2>5, LaterPlace
    <3>2. w \in Nat /\ sent(r) = FirstStream + w
      BY <1>1, <3>1
    <3>3. sent(r) + j = i
      <4> HIDE DEF sent, w, r, j
      <4> QED
        BY <1>1, <3>1, <3>2
    <3>4. E[r] = next(r)
      BY <1>1, <1>4, <2>3, <3>1
    <3>5. next(r)[j] = t[sent(r) + j]
      <4>1. j \in Index /\ j # 0 /\ sent(r) + j =< Len(t)
        BY <1>2, <2>3, <3>1, <3>3
      <4> HIDE DEF sent, r, j
      <4> QED
        BY <4>1 DEF next
    <3> QED
      BY <2>3, <3>3, <3>4, <3>5, Zenon
  <2> QED
    BY <1>1, <2>1, <2>3, <2>4, <2>5
<1> QED
  BY <1>1, <1>5, <1>7, <1>8, <1>9, <1>10 DEF E, t, EncodedOf

-----------------------------------------------------------------------------
(***************************************************************************)
(* What is read of a response.                                             *)
(***************************************************************************)
\* What response_decode makes of reports whose first gives n bytes of payload.
Accepts(R, n) ==
  /\ R # <<>> /\ R[1][0] = IdIn /\ R[1][1] = Marker
  /\ R[1][3] + R[1][4] = ByteModulus - 1 /\ 4 =< n /\ n = R[1][3] - 2
  /\ 1 + Following(n + 2) =< Len(R)
  /\ \A r \in 2..1 + Following(n + 2) : R[r][0] = IdIn

LEMMA DecodeIs ==
  ASSUME NEW R \in Seq(Report), R # <<>>, NEW n, n = R[1][3] - 2
  PROVE  /\ n \in Int
         /\ response_decode(R) = IF Accepts(R, n) THEN Stitched(R, n) ELSE Invalid
         /\ _read_response(R) = response_decode(R)
<1> DEFINE h == R[1]
<1>1. h \in Report /\ h[3] \in Byte /\ h[4] \in Byte /\ h[3] \in Nat
  <2>1. 1 \in 1..Len(R)
    OBVIOUS
  <2>2. 3 \in Index /\ 4 \in Index
    BY SizesTyped DEF Index
  <2>3. h[3] \in Byte /\ h[4] \in Byte
    BY <2>1, <2>2 DEF Report
  <2>4. h[3] \in Nat
    BY <2>3, Bytes
  <2> QED
    BY <2>1, <2>3, <2>4
<1>2. (h[3] + h[4]) % ByteModulus = ByteModulus - 1 <=> h[3] + h[4] = ByteModulus - 1
  BY <1>1, LengthIs
<1>3. n \in Int /\ n = h[3] - 2 /\ (4 =< n => 2 =< h[3])
  BY <1>1
<1> DEFINE sum == (h[3] + h[4]) % ByteModulus = ByteModulus - 1
           rest == /\ 1 + Following(n + 2) =< Len(R)
                   /\ \A r \in 2..1 + Following(n + 2) : R[r][0] = IdIn
           start == R # <<>> /\ h[0] = IdIn /\ h[1] = Marker
<1>4. response_decode(R)
        = IF start /\ (sum /\ 2 =< h[3]) /\ 4 =< n /\ rest THEN Stitched(R, n) ELSE Invalid
  BY Zenon DEF response_decode, LengthOk
<1>5. _read_response(R)
        = IF start /\ sum
          THEN IF 4 =< n /\ rest THEN Stitched(R, n) ELSE Invalid
          ELSE Invalid
  BY Zenon DEF _read_response
<1>6. Accepts(R, n) <=> start /\ sum /\ 4 =< n /\ rest
  BY <1>2, Zenon DEF Accepts
<1> HIDE DEF start, sum, rest
<1> QED
  BY <1>3, <1>4, <1>5, <1>6

LEMMA NoneRead == ~response_decode(<<>>).valid /\ _read_response(<<>>) = response_decode(<<>>)
BY DEF response_decode, _read_response, Invalid

\* What an accepted response is.
LEMMA AcceptedIs ==
  ASSUME NEW R \in Seq(Report), NEW n, n \in Nat, Accepts(R, n)
  PROVE  LET S == Collected(R)
             t == SubSeq(S, 1, n)
         IN /\ t \in Seq(Byte) /\ Len(t) = n /\ \A i \in 1..n : t[i] = S[i]
            /\ \A i \in 1..n + 2 : /\ Of(i) \in 1..1 + Following(n + 2) /\ In(i) \in Index
                                   /\ S[i] = R[Of(i)][In(i)]
            /\ Stitched(R, n) = IF <<S[n + 1], S[n + 2]>> = checksum_bytes(t)
                                THEN Payload(t) ELSE Invalid
<1> DEFINE S == Collected(R)
           t == SubSeq(S, 1, n)
<1>1. 1 + Following(n + 2) =< Len(R) /\ n + 2 \in Nat
  BY DEF Accepts
<1>2. /\ S \in Seq(Byte) /\ n + 2 =< Len(S)
      /\ \A i \in 1..n + 2 : /\ Of(i) \in 1..1 + Following(n + 2) /\ In(i) \in Index
                             /\ S[i] = R[Of(i)][In(i)]
  <2> DEFINE m == n + 2
  <2> HIDE DEF m
  <2>1. /\ S \in Seq(Byte) /\ m =< Len(S)
        /\ \A i \in 1..m : /\ Of(i) \in 1..1 + Following(m) /\ In(i) \in Index
                           /\ S[i] = R[Of(i)][In(i)]
    BY <1>1, CollectedIs DEF m
  <2> QED
    BY <2>1 DEF m
<1>3. Stitched(R, n) = IF <<S[n + 1], S[n + 2]>> = checksum_bytes(t)
                       THEN Payload(t) ELSE Invalid
  BY Zenon DEF Stitched, ChecksumOk
<1> HIDE DEF S
<1>4. t \in Seq(Byte) /\ Len(t) = n /\ \A i \in 1..n : t[i] = S[i]
  BY <1>2, SubSeqProperties
<1> QED
  BY <1>2, <1>3, <1>4 DEF S

\* Reports that begin with those of a response are read as the response.
LEMMA Carries ==
  ASSUME NEW l, Fit(l), NEW u, NEW b \in Byte, NEW R \in Seq(Report),
         Len(response_encode(l, u, b)) =< Len(R),
         \A r \in 1..Len(response_encode(l, u, b)) : R[r] = response_encode(l, u, b)[r]
  PROVE  response_decode(R) = Payload(l)
<1> DEFINE E == response_encode(l, u, b)
           t == l \o checksum_bytes(l)
           n == Len(l)
           S == Collected(R)
<1>1. /\ E \in Seq(Report) /\ Len(E) = 1 + Following(n + 2) /\ Following(n + 2) \in Nat
      /\ E[1][1] = Marker /\ E[1][3] = n + 2 /\ E[1][4] = Not(n + 2)
      /\ \A r \in 1..Len(E) : E[r][0] = IdIn
      /\ \A i \in 1..n + 2 : /\ Of(i) \in 1..Len(E) /\ In(i) \in Index
                             /\ E[Of(i)][In(i)] = t[i]
  <2>1. EncodedOf(E, l)
    BY EncodedIs
  <2> QED
    BY <2>1, Zenon DEF EncodedOf
<1>2. l \in Seq(Byte) /\ n \in Nat /\ 4 =< n /\ n + 2 \in Byte
  BY FitIs
<1>3. /\ t \in Seq(Byte) /\ Len(t) = n + 2
      /\ \A i \in 1..n : t[i] = l[i]
      /\ <<t[n + 1], t[n + 2]>> = checksum_bytes(l)
  BY <1>2, StreamIs
<1>4. Len(E) =< Len(R) /\ \A r \in 1..Len(E) : R[r] = E[r]
  OBVIOUS
<1> HIDE DEF E, t
<1>5. 1 \in 1..Len(E) /\ R # <<>> /\ n = R[1][3] - 2
  BY <1>1, <1>2, <1>4
<1>6. n + 2 + Not(n + 2) = ByteModulus - 1
  BY <1>2, LengthIs
<1>7. Accepts(R, n)
  BY <1>1, <1>2, <1>4, <1>5, <1>6 DEF Accepts
<1> DEFINE s == SubSeq(S, 1, n)
<1>8. /\ s \in Seq(Byte) /\ Len(s) = n /\ \A i \in 1..n : s[i] = S[i]
      /\ \A i \in 1..n + 2 : /\ Of(i) \in 1..1 + Following(n + 2) /\ In(i) \in Index
                             /\ S[i] = R[Of(i)][In(i)]
      /\ Stitched(R, n) = IF <<S[n + 1], S[n + 2]>> = checksum_bytes(s)
                          THEN Payload(s) ELSE Invalid
  BY <1>2, <1>7, AcceptedIs, Zenon
<1> HIDE DEF S, s, n
<1>9. \A i \in 1..n + 2 : S[i] = t[i]
  BY <1>1, <1>4, <1>8
<1>10. s = l
  <2>1. ASSUME NEW i \in 1..n PROVE s[i] = l[i]
    <3>1. i \in 1..n + 2
      BY <1>2
    <3> QED
      BY <3>1, <1>3, <1>8, <1>9
  <2>2. l \in Seq(Byte) /\ Len(l) = n
    BY <1>2 DEF n
  <2> QED
    BY <1>8, <2>1, <2>2
<1>11. <<S[n + 1], S[n + 2]>> = checksum_bytes(l)
  <2>1. n + 1 \in 1..n + 2 /\ n + 2 \in 1..n + 2
    BY <1>2
  <2> QED
    BY <2>1, <1>3, <1>9, Zenon
<1>12. Stitched(R, n) = Payload(l)
  BY <1>8, <1>10, <1>11, Zenon
<1> QED
  BY <1>5, <1>7, <1>12, DecodeIs, Zenon

\* The reports of a response with one byte changed: read as the response, if at all.
ChangedReport(R, E, r, j, x) == R = [E EXCEPT ![r][j] = x]

LEMMA ChangedStill ==
  ASSUME NEW E, NEW l, Fit(l), EncodedOf(E, l),
         NEW r \in DOMAIN E, NEW j \in Index, NEW x \in Byte,
         NEW R, ChangedReport(R, E, r, j, x), response_decode(R).valid
  PROVE  response_decode(R) = Payload(l)
<1> DEFINE t == l \o checksum_bytes(l)
           n == Len(l)
           N == R[1][3] - 2
           S == Collected(R)
<1>1. /\ E \in Seq(Report) /\ 1 \in 1..Len(E) /\ E[1][3] = n + 2 /\ E[1][4] = Not(n + 2)
      /\ \A i \in 1..n + 2 : /\ Of(i) \in 1..Len(E) /\ In(i) \in Index
                             /\ E[Of(i)][In(i)] = t[i]
  <2>1. EncodedOf(E, l)
    OBVIOUS
  <2>2. /\ E \in Seq(Report) /\ E[1][3] = n + 2 /\ E[1][4] = Not(n + 2)
        /\ Len(E) = 1 + Following(n + 2) /\ Following(n + 2) \in Nat
        /\ \A i \in 1..n + 2 : /\ Of(i) \in 1..Len(E) /\ In(i) \in Index
                               /\ E[Of(i)][In(i)] = t[i]
    BY <2>1, Zenon DEF EncodedOf
  <2>3. 1 \in 1..Len(E)
    BY <2>2
  <2> QED
    BY <2>2, <2>3
<1>2. l \in Seq(Byte) /\ n \in Nat /\ n + 2 \in Byte
  BY FitIs
<1>3. /\ t \in Seq(Byte) /\ Len(t) = n + 2 /\ \A i \in 1..n : t[i] = l[i]
      /\ <<t[n + 1], t[n + 2]>> = checksum_bytes(l)
  BY <1>2, StreamIs
<1> HIDE DEF t
<1>4. /\ R \in Seq(Report) /\ Len(R) = Len(E) /\ R # <<>>
      /\ \A q \in 1..Len(E), i \in Index : q # r \/ i # j => R[q][i] = E[q][i]
      /\ \A i \in Index : R[1][i] \in Byte
  <2>1. r \in 1..Len(E) /\ E[r] \in Report
    BY <1>1
  <2>2. R = [E EXCEPT ![r] = [E[r] EXCEPT ![j] = x]]
    BY DEF ChangedReport
  <2> DEFINE h == [E[r] EXCEPT ![j] = x]
  <2>3. h \in Report /\ \A i \in Index : i # j => h[i] = E[r][i]
    BY <2>1 DEF Report
  <2> HIDE DEF h
  <2>4. R \in Seq(Report) /\ Len(R) = Len(E) /\ R[r] = h
        /\ \A q \in 1..Len(E) : q # r => R[q] = E[q]
    BY <1>1, <2>1, <2>2, <2>3 DEF h
  <2>5. \A q \in 1..Len(E), i \in Index : q # r \/ i # j => R[q][i] = E[q][i]
    BY <2>3, <2>4
  <2>6. R[1] \in Report
    BY <1>1, <2>4
  <2> QED
    BY <1>1, <2>4, <2>5, <2>6 DEF Report
<1>5. Accepts(R, N) /\ response_decode(R) = Stitched(R, N)
  <2>1. response_decode(R) = IF Accepts(R, N) THEN Stitched(R, N) ELSE Invalid
    BY <1>4, DecodeIs
  <2>2. ~Invalid.valid
    BY DEF Invalid
  <2> QED
    BY <2>1, <2>2, Zenon
\* The length came as it was sent.
<1>6. N = n
  <2>1. R[1][3] + R[1][4] = ByteModulus - 1
    BY <1>5 DEF Accepts
  <2>2. n + 2 + Not(n + 2) = ByteModulus - 1
    BY <1>2, LengthIs
  <2>3. 3 \in Index /\ 4 \in Index
    BY SizesTyped DEF Index
  <2>4. R[1][3] = E[1][3] \/ R[1][4] = E[1][4]
    BY <1>1, <1>4, <2>3
  <2>5. R[1][3] \in Nat /\ R[1][4] \in Nat /\ Not(n + 2) \in Nat /\ ByteModulus \in Nat
    BY <1>2, <1>4, <2>3, LengthIs, Bytes, SizesTyped
  <2>6. R[1][3] = n + 2 \/ R[1][4] = Not(n + 2)
    BY <1>1, <2>4, Zenon
  <2> DEFINE length == R[1][3]
             complement == R[1][4]
  <2>7. /\ length + complement = n + 2 + Not(n + 2)
        /\ length = n + 2 \/ complement = Not(n + 2)
        /\ length \in Nat /\ complement \in Nat /\ N = length - 2
    BY <2>1, <2>2, <2>5, <2>6
  <2> HIDE DEF length, complement, N
  <2> QED
    BY <1>2, <2>5, <2>7
<1> DEFINE s == SubSeq(S, 1, n)
<1>7. /\ s \in Seq(Byte) /\ Len(s) = n /\ \A i \in 1..n : s[i] = S[i]
      /\ \A i \in 1..n + 2 : S[i] = R[Of(i)][In(i)]
      /\ Stitched(R, n) = IF <<S[n + 1], S[n + 2]>> = checksum_bytes(s)
                          THEN Payload(s) ELSE Invalid
  <2>1. n \in Nat /\ Accepts(R, n) /\ R \in Seq(Report)
    BY <1>2, <1>4, <1>5, <1>6
  <2> HIDE DEF n
  <2> QED
    BY <2>1, AcceptedIs, Zenon
<1> HIDE DEF S, s
\* One byte of the stream changed, and no other.
<1> DEFINE k == CHOOSE i \in 1..n + 2 : Of(i) = r /\ In(i) = j
<1>8. ASSUME NEW i \in 1..n + 2, i # k PROVE S[i] = t[i]
  <2>1. Of(i) # r \/ In(i) # j
    <3>1. SUFFICES ASSUME Of(i) = r, In(i) = j PROVE FALSE
      OBVIOUS
    <3>2. k \in 1..n + 2 /\ Of(k) = r /\ In(k) = j
      BY <3>1
    <3>3. i \in Nat \ {0} /\ k \in Nat \ {0}
      BY <1>2, <3>2
    <3> HIDE DEF k
    <3>4. i = k
      BY <3>1, <3>2, <3>3, Apart
    <3> QED
      BY <1>8, <3>4
  <2> QED
    BY <2>1, <1>1, <1>4, <1>7
<1> HIDE DEF k
<1>9. <<S[n + 1], S[n + 2]>> = checksum_bytes(s) /\ Stitched(R, n) = Payload(s)
  <2>1. Stitched(R, n).valid
    BY <1>5, <1>6
  <2>2. ~Invalid.valid
    BY DEF Invalid
  <2> QED
    BY <1>7, <2>1, <2>2, Zenon
<1>10. ASSUME k \in 1..n PROVE <<S[n + 1], S[n + 2]>> = checksum_bytes(l)
  <2>1. n + 1 \in 1..n + 2 /\ n + 2 \in 1..n + 2 /\ n + 1 # k /\ n + 2 # k
    BY <1>2, <1>10
  <2>2. S[n + 1] = t[n + 1] /\ S[n + 2] = t[n + 2]
    BY <1>8, <2>1
  <2> QED
    BY <2>2, <1>3, Zenon
<1>11. ASSUME NEW i \in 1..n, i # k PROVE s[i] = l[i]
  <2>1. i \in 1..n + 2
    BY <1>2
  <2> QED
    BY <2>1, <1>3, <1>7, <1>8, <1>11
<1> DEFINE c == <<S[n + 1], S[n + 2]>>
<1>12. s = l
  <2>1. c = checksum_bytes(s) /\ (k \in 1..Len(l) => c = checksum_bytes(l))
    BY <1>9, <1>10
  <2> HIDE DEF c
  <2> QED
    BY <1>2, <1>7, <1>11, <2>1, Recovered
<1> QED
  BY <1>5, <1>6, <1>9, <1>12, Zenon

\* The reports of a response without one of those that follow.
LEMMA LostRefused ==
  ASSUME NEW E, NEW l, EncodedOf(E, l), Fit(l), NEW r \in DOMAIN E, r # 1
  PROVE  RemoveAt(E, r) \in Seq(Report) /\ ~response_decode(RemoveAt(E, r)).valid
<1> DEFINE R == RemoveAt(E, r)
           n == Len(l)
<1>1. /\ E \in Seq(Report) /\ Len(E) = 1 + Following(n + 2) /\ E[1][3] = n + 2
      /\ n \in Nat /\ r \in 2..Len(E)
  <2>1. EncodedOf(E, l) /\ Fit(l)
    OBVIOUS
  <2> QED
    BY <2>1 DEF EncodedOf, Fit
<1>2. R \in Seq(Report) /\ Len(R) = Len(E) - 1 /\ R[1] = E[1]
  <2> DEFINE a == SubSeq(E, 1, r - 1)
             b == SubSeq(E, r + 1, Len(E))
  <2>1. a \in Seq(Report) /\ Len(a) = r - 1 /\ a[1] = E[1]
    BY <1>1, SubSeqProperties
  <2>2. b \in Seq(Report) /\ Len(b) = Len(E) - r
    BY <1>1, SubSeqProperties
  <2>3. R = a \o b
    BY Zenon DEF RemoveAt
  <2> HIDE DEF a, b, R
  <2>4. a \o b \in Seq(Report) /\ Len(a \o b) = Len(a) + Len(b) /\ (a \o b)[1] = a[1]
    BY <1>1, <2>1, <2>2, ConcatProperties
  <2> QED
    BY <1>1, <2>1, <2>2, <2>3, <2>4
<1>3. R # <<>> /\ n = R[1][3] - 2
  BY <1>1, <1>2
<1>4. ~Accepts(R, n)
  BY <1>1, <1>2 DEF Accepts
<1>5. response_decode(R) = Invalid
  BY <1>2, <1>3, <1>4, DecodeIs, Zenon
<1> QED
  BY <1>2, <1>5 DEF Invalid

\* The reports of a response with a foreign one before, between or after them.
LEMMA InsertedAt ==
  ASSUME NEW E \in Seq(Report), NEW f \in Report, NEW r \in 1..Len(E) + 1
  PROVE  /\ InsertAt(E, r, f) \in Seq(Report) /\ Len(InsertAt(E, r, f)) = Len(E) + 1
         /\ InsertAt(E, r, f)[r] = f
         /\ \A q \in 1..r - 1 : InsertAt(E, r, f)[q] = E[q]
<1> DEFINE a == SubSeq(E, 1, r - 1)
           b == SubSeq(E, r, Len(E))
           g == <<f>>
<1>1. a \in Seq(Report) /\ Len(a) = r - 1 /\ \A q \in 1..r - 1 : a[q] = E[q]
  BY SubSeqProperties
<1>2. b \in Seq(Report) /\ Len(b) = Len(E) - r + 1
  BY SubSeqProperties
<1>3. g \in Seq(Report) /\ Len(g) = 1 /\ g[1] = f
  OBVIOUS
<1>4. InsertAt(E, r, f) = (a \o g) \o b
  BY Zenon DEF InsertAt
<1> HIDE DEF a, b, g
<1>5. /\ a \o g \in Seq(Report) /\ Len(a \o g) = r /\ (a \o g)[r] = f
      /\ \A q \in 1..r - 1 : (a \o g)[q] = E[q]
  <2>1. /\ a \o g \in Seq(Report) /\ Len(a \o g) = Len(a) + Len(g)
        /\ \A q \in 1..Len(a) + Len(g) :
             (a \o g)[q] = IF q =< Len(a) THEN a[q] ELSE g[q - Len(a)]
    BY <1>1, <1>3, ConcatProperties
  <2> DEFINE d == a \o g
  <2> HIDE DEF d
  <2>2. /\ d \in Seq(Report) /\ Len(d) = r /\ \A q \in 1..r - 1 : d[q] = a[q]
        /\ d[r] = g[r - (r - 1)]
    BY <1>1, <1>3, <2>1 DEF d
  <2> QED
    BY <1>1, <1>3, <2>2 DEF d
<1> DEFINE d == a \o g
<1> HIDE DEF d
<1>6. /\ d \o b \in Seq(Report) /\ Len(d \o b) = Len(E) + 1
      /\ \A q \in 1..r : (d \o b)[q] = d[q]
  <2>1. d \in Seq(Report) /\ Len(d) = r
    BY <1>5 DEF d
  <2>2. /\ d \o b \in Seq(Report) /\ Len(d \o b) = Len(d) + Len(b)
        /\ \A q \in 1..Len(d) + Len(b) :
             (d \o b)[q] = IF q =< Len(d) THEN d[q] ELSE b[q - Len(d)]
    BY <1>2, <2>1, ConcatProperties
  <2> DEFINE e == d \o b
  <2> HIDE DEF e
  <2>3. e \in Seq(Report) /\ Len(e) = Len(E) + 1 /\ \A q \in 1..r : e[q] = d[q]
    BY <1>2, <2>1, <2>2 DEF e
  <2> QED
    BY <2>3 DEF e
<1> QED
  BY <1>4, <1>5, <1>6 DEF d

LEMMA InsertedStill ==
  ASSUME NEW l, Fit(l), NEW u, NEW b \in Byte, NEW E, E = response_encode(l, u, b),
         NEW f \in Report, f[0] # IdIn, NEW r \in 1..Len(E) + 1,
         response_decode(InsertAt(E, r, f)).valid
  PROVE  response_decode(InsertAt(E, r, f)) = Payload(l)
<1> DEFINE R == InsertAt(E, r, f)
           n == Len(l)
<1>1. EncodedOf(E, l)
  BY EncodedIs
<1>2. /\ E \in Seq(Report) /\ Len(E) = 1 + Following(n + 2) /\ E[1][3] = n + 2
      /\ n \in Nat /\ Len(E) \in Nat \ {0}
  BY <1>1 DEF EncodedOf, Fit
<1>3. /\ R \in Seq(Report) /\ Len(R) = Len(E) + 1 /\ R[r] = f
      /\ \A q \in 1..r - 1 : R[q] = E[q]
  <2>1. E \in Seq(Report) /\ f \in Report /\ r \in 1..Len(E) + 1
    BY <1>2
  <2> QED
    BY <2>1, InsertedAt, Zenon
<1> HIDE DEF R
<1> DEFINE N == R[1][3] - 2
<1>4. R # <<>>
  BY <1>2, <1>3
<1>5. Accepts(R, N)
  <2>1. response_decode(R) = IF Accepts(R, N) THEN Stitched(R, N) ELSE Invalid
    BY <1>3, <1>4, DecodeIs
  <2>2. response_decode(R).valid /\ ~Invalid.valid
    BY DEF R, Invalid
  <2> QED
    BY <2>1, <2>2, Zenon
<1>6. r # 1
  BY <1>3, <1>5 DEF Accepts
<1>7. N = n
  BY <1>2, <1>3, <1>6
<1>8. r \notin 2..Len(E)
  BY <1>2, <1>3, <1>5, <1>7, Zenon DEF Accepts
<1>9. r = Len(E) + 1
  BY <1>2, <1>6, <1>8
<1>10. response_decode(R) = Payload(l)
  <2>1. Len(E) =< Len(R) /\ \A q \in 1..Len(E) : R[q] = E[q]
    BY <1>2, <1>3, <1>9
  <2> QED
    BY <1>3, <2>1, Carries
<1> QED
  BY <1>10 DEF R

-----------------------------------------------------------------------------
(***************************************************************************)
(* What is read of a request.                                              *)
(***************************************************************************)
BuiltOf(F, s, p, u) ==
  LET t == p \o checksum_bytes(p)
  IN /\ F \in Report /\ F[0] = IdOut /\ F[1] = Marker /\ F[2] = frame_kind(u)
     /\ F[3] = Len(p) + 2 /\ F[4] = Not(Len(p) + 2) /\ F[5] = s
     /\ \A i \in 1..Len(p) + 2 : 5 + i \in Index /\ F[5 + i] = t[i]

LEMMA LengthTyped ==
  ASSUME NEW p \in Seq(Byte), Len(p) =< MaxRequestPayload
  PROVE  Len(p) \in 0..MaxRequestPayload /\ Len(p) \in Nat /\ Len(p) + 2 \in Byte
BY SizesTyped DEF Byte

LEMMA BuildIs ==
  ASSUME NEW s \in Byte, NEW p \in Seq(Byte), Len(p) =< MaxRequestPayload, NEW u
  PROVE  BuiltOf(frame_build(s, p, u), s, p, u)
<1> DEFINE t == p \o checksum_bytes(p)
           n == Len(p) + 2
           k == frame_kind(u)
           F == frame_build(s, p, u)
<1>1. t \in Seq(Byte) /\ Len(t) = n
  BY StreamIs
<1>2. n \in Nat /\ n \in Byte /\ 0 \in Byte /\ IdOut \in Byte /\ n =< ReportSize - 6
  BY SizesTyped DEF Byte
<1>3. k \in Byte
  BY KindTyped
<1>4. F = Frame(IdOut, k, n, s, t, 0)
  BY Zenon DEF frame_build
<1> HIDE DEF t, n, k, F
<1>5. FrameOf(Frame(IdOut, k, n, s, t, 0), IdOut, k, n, s, t)
  BY <1>1, <1>2, <1>3, FrameIs
<1>6. FrameOf(F, IdOut, k, n, s, t)
  BY <1>4, <1>5
<1>7. ASSUME NEW i \in 1..n PROVE 5 + i \in Index /\ F[5 + i] = t[i]
  <2>1. i \in Nat \ {0} /\ i =< Len(t) /\ 5 + i \in Index
    BY <1>1, <1>2, SizesTyped DEF Index
  <2> QED
    BY <1>6, <2>1 DEF FrameOf
<1> QED
  BY <1>6, <1>7, Zenon DEF FrameOf, BuiltOf, F, t, n, k

LEMMA ParseIs ==
  ASSUME NEW F \in Report, NEW n, n = F[3] - 2, NEW t, t = [i \in 1..n |-> F[5 + i]]
  PROVE  /\ n \in Int
         /\ frame_parse(F) =
              IF /\ F[0] = IdOut /\ F[1] = Marker /\ F[2] \in {KindNormal, KindUpdate}
                 /\ F[3] + F[4] = ByteModulus - 1 /\ n \in 0..MaxRequestPayload
                 /\ <<F[6 + n], F[7 + n]>> = checksum_bytes(t)
              THEN Request(F[5], t, F[2] = KindUpdate) ELSE Invalid
<1>1. F[3] \in Byte /\ F[4] \in Byte
  BY SizesTyped DEF Report, Index
<1>2. F[3] \in Nat
  BY <1>1, Bytes
<1>3. (F[3] + F[4]) % ByteModulus = ByteModulus - 1 <=> F[3] + F[4] = ByteModulus - 1
  BY <1>1, LengthIs
<1>4. 2 =< F[3] /\ n =< MaxRequestPayload <=> n \in 0..MaxRequestPayload
  BY <1>2, SizesTyped
<1> DEFINE sum == (F[3] + F[4]) % ByteModulus = ByteModulus - 1
           head == F[0] = IdOut /\ F[1] = Marker /\ F[2] \in {KindNormal, KindUpdate}
           right == <<F[6 + n], F[7 + n]>> = checksum_bytes(t)
<1>5. frame_parse(F)
        = IF head /\ (sum /\ 2 =< F[3]) /\ n =< MaxRequestPayload /\ right
          THEN Request(F[5], t, F[2] = KindUpdate) ELSE Invalid
  BY Zenon DEF frame_parse, LengthOk, ChecksumOk
<1> HIDE DEF right
<1>6. frame_parse(F)
        = IF head /\ F[3] + F[4] = ByteModulus - 1 /\ n \in 0..MaxRequestPayload /\ right
          THEN Request(F[5], t, F[2] = KindUpdate) ELSE Invalid
  BY <1>3, <1>4, <1>5, Zenon
<1> QED
  BY <1>2, <1>6 DEF right

LEMMA ParsedWhole ==
  ASSUME NEW s \in Byte, NEW p \in Seq(Byte), Len(p) =< MaxRequestPayload, NEW u \in BOOLEAN
  PROVE  frame_parse(frame_build(s, p, u)) = Request(s, p, u)
<1> DEFINE F == frame_build(s, p, u)
           n == Len(p)
           t == p \o checksum_bytes(p)
           r == [i \in 1..n |-> F[5 + i]]
<1>1. BuiltOf(F, s, p, u)
  BY BuildIs
<1>2. /\ F \in Report /\ F[0] = IdOut /\ F[1] = Marker /\ F[2] = frame_kind(u)
      /\ F[3] = n + 2 /\ F[4] = Not(n + 2) /\ F[5] = s
      /\ \A i \in 1..n + 2 : 5 + i \in Index /\ F[5 + i] = t[i]
  BY <1>1, Zenon DEF BuiltOf
<1>3. /\ t \in Seq(Byte) /\ Len(t) = n + 2 /\ \A i \in 1..n : t[i] = p[i]
      /\ <<t[n + 1], t[n + 2]>> = checksum_bytes(p)
  BY StreamIs
<1>4. n \in Nat /\ n + 2 \in Byte /\ n \in 0..MaxRequestPayload
  BY SizesTyped DEF Byte
<1> HIDE DEF F, t
<1>5. n + 2 + Not(n + 2) = ByteModulus - 1
  BY <1>4, LengthIs
<1>6. n = F[3] - 2
  BY <1>2, <1>4
<1>7. r = p
  BY <1>2, <1>3, <1>4
<1>8. <<F[6 + n], F[7 + n]>> = checksum_bytes(p)
  <2>1. n + 1 \in 1..n + 2 /\ n + 2 \in 1..n + 2 /\ 5 + (n + 1) = 6 + n /\ 5 + (n + 2) = 7 + n
    BY <1>4
  <2>2. F[6 + n] = t[n + 1] /\ F[7 + n] = t[n + 2]
    BY <1>2, <2>1
  <2> QED
    BY <2>2, <1>3, Zenon
<1>9. F[2] \in {KindNormal, KindUpdate}
  BY <1>2, CodecAssumption DEF frame_kind
<1> DEFINE w == F[2] = KindUpdate
<1>10. w = u
  <2>1. F[2] = KindUpdate <=> u
    BY <1>2, CodecAssumption DEF frame_kind
  <2> QED
    BY <2>1
<1>11. frame_parse(F) = Request(F[5], r, w)
  <2> DEFINE ok == /\ F[0] = IdOut /\ F[1] = Marker /\ F[2] \in {KindNormal, KindUpdate}
                   /\ F[3] + F[4] = ByteModulus - 1 /\ n \in 0..MaxRequestPayload
                   /\ <<F[6 + n], F[7 + n]>> = checksum_bytes(r)
  <2>1. frame_parse(F) = IF ok THEN Request(F[5], r, F[2] = KindUpdate) ELSE Invalid
    BY <1>2, <1>6, ParseIs, Zenon
  <2>2. ok
    <3>1. F[3] + F[4] = ByteModulus - 1
      BY <1>2, <1>5
    <3>2. <<F[6 + n], F[7 + n]>> = checksum_bytes(r)
      BY <1>7, <1>8
    <3> QED
      BY <1>2, <1>4, <1>9, <3>1, <3>2, Zenon
  <2> QED
    BY <2>1, <2>2, Zenon
<1> QED
  BY <1>2, <1>7, <1>10, <1>11 DEF F

ChangedByte(F, G, j, x) == F = [G EXCEPT ![j] = x]

LEMMA ParsedStill ==
  ASSUME NEW s \in Byte, NEW p \in Seq(Byte), Len(p) =< MaxRequestPayload, NEW u,
         NEW j \in Index, NEW x \in Byte,
         NEW F, ChangedByte(F, frame_build(s, p, u), j, x)
  PROVE  F \in Report /\ (frame_parse(F).valid => frame_parse(F).payload = p)
<1> DEFINE G == frame_build(s, p, u)
           n == Len(p)
           N == F[3] - 2
           t == p \o checksum_bytes(p)
           r == [i \in 1..N |-> F[5 + i]]
<1>1. BuiltOf(G, s, p, u)
  BY BuildIs
<1>2. /\ G \in Report /\ G[3] = n + 2 /\ G[4] = Not(n + 2)
      /\ \A i \in 1..n + 2 : 5 + i \in Index /\ G[5 + i] = t[i]
  BY <1>1, Zenon DEF BuiltOf
<1>3. /\ t \in Seq(Byte) /\ Len(t) = n + 2 /\ \A i \in 1..n : t[i] = p[i]
      /\ <<t[n + 1], t[n + 2]>> = checksum_bytes(p)
  BY StreamIs
<1>4. n \in Nat /\ n + 2 \in Byte
  BY LengthTyped
<1> HIDE DEF G, t
<1>5. F \in Report /\ \A i \in Index : i # j => F[i] = G[i]
  <2>1. F = [G EXCEPT ![j] = x]
    BY DEF G, ChangedByte
  <2> QED
    BY <2>1, <1>2 DEF Report
<1>6. SUFFICES ASSUME frame_parse(F).valid PROVE frame_parse(F).payload = p
  BY <1>5
<1>7. /\ frame_parse(F) = Request(F[5], r, F[2] = KindUpdate)
      /\ F[3] + F[4] = ByteModulus - 1
      /\ <<F[6 + N], F[7 + N]>> = checksum_bytes(r)
  <2> DEFINE ok == /\ F[0] = IdOut /\ F[1] = Marker /\ F[2] \in {KindNormal, KindUpdate}
                   /\ F[3] + F[4] = ByteModulus - 1 /\ N \in 0..MaxRequestPayload
                   /\ <<F[6 + N], F[7 + N]>> = checksum_bytes(r)
  <2>1. frame_parse(F) = IF ok THEN Request(F[5], r, F[2] = KindUpdate) ELSE Invalid
    BY <1>5, ParseIs, Zenon
  <2>2. ~Invalid.valid
    BY DEF Invalid
  <2>3. ok
    <3> HIDE DEF ok
    <3> QED
      BY <1>6, <2>1, <2>2, Zenon
  <2> QED
    BY <2>1, <2>3, Zenon
\* The length came as it was sent.
<1>8. N = n
  <2>1. n + 2 + Not(n + 2) = ByteModulus - 1
    BY <1>4, LengthIs
  <2>2. 3 \in Index /\ 4 \in Index
    BY SizesTyped DEF Index
  <2>3. F[3] = G[3] \/ F[4] = G[4]
    BY <1>5, <2>2
  <2>4. F[3] \in Byte /\ F[4] \in Byte /\ Not(n + 2) \in Byte
    BY <1>4, <1>5, <2>2, LengthIs DEF Report
  <2>5. F[3] \in Nat /\ F[4] \in Nat /\ Not(n + 2) \in Nat /\ ByteModulus \in Nat
    BY <2>4, Bytes, SizesTyped
  <2> QED
    <3>1. F[3] = n + 2
      <4> DEFINE y == Not(n + 2)
      <4> HIDE DEF y
      <4> QED
        BY <1>2, <1>4, <1>7, <2>1, <2>3, <2>5 DEF y
    <3> QED
      BY <1>4, <3>1
<1> DEFINE k == j - 5
<1>9. ASSUME NEW i \in 1..n + 2, i # k PROVE F[5 + i] = t[i]
  <2>1. 5 + i # j
    BY <1>4, <1>9, SizesTyped DEF Index
  <2> QED
    BY <1>2, <1>5, <2>1
<1> HIDE DEF k
<1>10. r \in Seq(Byte) /\ Len(r) = n /\ \A i \in 1..n : i # k => r[i] = p[i]
  <2>1. r = [i \in 1..n |-> F[5 + i]]
    BY <1>8
  <2>2. ASSUME NEW i \in 1..n
        PROVE  F[5 + i] \in Byte /\ (i # k => F[5 + i] = p[i])
    <3>1. i \in 1..n + 2
      BY <1>4
    <3>2. F[5 + i] \in Byte
      BY <3>1, <1>2, <1>5 DEF Report
    <3> QED
      BY <3>1, <3>2, <1>3, <1>9
  <2> HIDE DEF r, n
  <2>3. \A i \in 1..n : r[i] = F[5 + i] /\ F[5 + i] \in Byte
    BY <2>1, <2>2
  <2>4. r \in Seq(Byte) /\ Len(r) = n
    BY <1>4, <2>1, <2>3
  <2> QED
    BY <2>2, <2>3, <2>4
<1> DEFINE c == <<F[6 + n], F[7 + n]>>
<1>11. c = checksum_bytes(r)
  BY <1>7, <1>8, Zenon
<1>12. ASSUME k \in 1..n PROVE c = checksum_bytes(p)
  <2>1. /\ n + 1 \in 1..n + 2 /\ n + 2 \in 1..n + 2 /\ n + 1 # k /\ n + 2 # k
        /\ 5 + (n + 1) = 6 + n /\ 5 + (n + 2) = 7 + n
    BY <1>4, <1>12
  <2>2. F[6 + n] = t[n + 1] /\ F[7 + n] = t[n + 2]
    BY <1>9, <2>1
  <2> QED
    BY <2>2, <1>3, Zenon
<1> HIDE DEF r, c
<1>13. r = p
  BY <1>10, <1>11, <1>12, Recovered
<1> QED
  BY <1>7, <1>13 DEF Request

-----------------------------------------------------------------------------
(***************************************************************************)
(* The inductive invariant: what is on the link is what was sent, but for  *)
(* the one thing the link did to it.                                       *)
(***************************************************************************)
Quiet == phase = "idle" => harm = "none"

Asked(s, p, u) ==
  /\ request = Request(s, p, u)
  /\ \/ harm = "none" /\ frame = frame_build(s, p, u)
     \/ /\ harm = "changed"
        /\ \E i \in Index, b \in Byte : ChangedByte(frame, frame_build(s, p, u), i, b)
RequestSent ==
  phase \in {"asked", "parsed"} =>
    \E s \in Sequence, p \in RequestPayload, u \in BOOLEAN : Asked(s, p, u)

\* What the link may have made of the reports E, in R.
Came(R, E) ==
  \/ harm = "none" /\ R = E
  \/ /\ harm = "changed"
     /\ \E r \in DOMAIN E, i \in Index, b \in Byte : ChangedReport(R, E, r, i, b)
  \/ harm = "head lost" /\ R = RemoveAt(E, 1)
  \/ harm = "lost" /\ \E r \in DOMAIN E \ {1} : R = RemoveAt(E, r)
  \/ harm = "inserted" /\ \E r \in 1..Len(E) + 1, f \in ForeignReport : R = InsertAt(E, r, f)
Answered(l, u, b) ==
  response_fits(l) /\ response = Payload(l) /\ Came(reports, response_encode(l, u, b))
ResponseSent ==
  phase \in {"answered", "read"} =>
    \E l \in ResponsePayload, u \in BOOLEAN, b \in Stack : Answered(l, u, b)

Understood ==
  /\ phase = "parsed" => parsed = frame_parse(frame)
  /\ phase = "read" => decoded = response_decode(reports) /\ read = _read_response(reports)

WireInv == TypeOK /\ Quiet /\ RequestSent /\ ResponseSent /\ Understood

LEMMA AnswerTyped ==
  ASSUME NEW l \in ResponsePayload, response_fits(l), NEW u, NEW b \in Stack
  PROVE  Fit(l) /\ b \in Byte /\ response_encode(l, u, b) \in Seq(Report)
<1>1. Fit(l) /\ b \in Byte
  BY WireAssumption DEF Fit
<1>2. EncodedOf(response_encode(l, u, b), l)
  BY <1>1, EncodedIs
<1> QED
  BY <1>1, <1>2 DEF EncodedOf

LEMMA AskTyped ==
  ASSUME NEW s \in Sequence, NEW p \in RequestPayload, NEW u
  PROVE  /\ s \in Byte /\ p \in Seq(Byte) /\ Len(p) =< MaxRequestPayload
         /\ frame_build(s, p, u) \in Report
<1>1. s \in Byte /\ p \in Seq(Byte) /\ Len(p) =< MaxRequestPayload
  BY WireAssumption
<1>2. BuiltOf(frame_build(s, p, u), s, p, u)
  BY <1>1, BuildIs
<1> QED
  BY <1>1, <1>2 DEF BuiltOf

LEMMA HarmTyped ==
  ASSUME NEW E \in Seq(Report)
  PROVE  /\ \A r \in DOMAIN E, i \in Index, b \in Byte : [E EXCEPT ![r][i] = b] \in Seq(Report)
         /\ \A r \in DOMAIN E : RemoveAt(E, r) \in Seq(Report)
         /\ \A r \in 1..Len(E) + 1, f \in ForeignReport : InsertAt(E, r, f) \in Seq(Report)
<1>1. ASSUME NEW r \in DOMAIN E, NEW i \in Index, NEW b \in Byte
      PROVE  [E EXCEPT ![r][i] = b] \in Seq(Report)
  <2>1. [E[r] EXCEPT ![i] = b] \in Report
    BY DEF Report
  <2> QED
    BY <2>1
<1>2. ASSUME NEW r \in DOMAIN E PROVE RemoveAt(E, r) \in Seq(Report)
  <2>1. r \in 1..Len(E)
    OBVIOUS
  <2>2. SubSeq(E, 1, r - 1) \in Seq(Report) /\ SubSeq(E, r + 1, Len(E)) \in Seq(Report)
    BY <2>1, SubSeqProperties
  <2>3. RemoveAt(E, r) = SubSeq(E, 1, r - 1) \o SubSeq(E, r + 1, Len(E))
    BY Zenon DEF RemoveAt
  <2> QED
    BY <2>2, <2>3, ConcatProperties
<1>3. ASSUME NEW r \in 1..Len(E) + 1, NEW f \in ForeignReport
      PROVE  InsertAt(E, r, f) \in Seq(Report)
  BY WireAssumption, InsertedAt
<1> QED
  BY <1>1, <1>2, <1>3

LEMMA InitInv == Init => WireInv
BY DEF Init, WireInv, TypeOK, Quiet, RequestSent, ResponseSent, Understood

LEMMA NextInv == WireInv /\ [Next]_vars => WireInv'
<1> SUFFICES ASSUME WireInv, [Next]_vars PROVE WireInv'
  OBVIOUS
<1> USE DEF WireInv, TypeOK, Quiet, Understood
<1>1. CASE Ask
  <2> PICK s \in Sequence, p \in RequestPayload, u \in BOOLEAN :
        request' = Request(s, p, u) /\ frame' = frame_build(s, p, u)
    BY <1>1 DEF Ask
  <2>1. harm = "none" /\ harm' = "none" /\ phase' = "asked"
    BY <1>1 DEF Ask
  <2>2. frame' \in Report
    BY AskTyped
  <2>3. Asked(s, p, u)'
    BY <2>1 DEF Asked
  <2>4. RequestSent'
    BY <2>3 DEF RequestSent
  <2> QED
    BY <1>1, <2>1, <2>2, <2>4 DEF Ask, ResponseSent
<1>2. CASE HarmRequest
  <2>1. PICK i \in Index, b \in Byte : frame' = [frame EXCEPT ![i] = b]
    BY <1>2 DEF HarmRequest
  <2>2. /\ phase = "asked" /\ harm = "none" /\ harm' = "changed"
        /\ phase' = phase /\ request' = request
    BY <1>2 DEF HarmRequest
  <2>3. PICK s \in Sequence, p \in RequestPayload, u \in BOOLEAN : Asked(s, p, u)
    BY <2>2 DEF RequestSent
  <2>4. frame = frame_build(s, p, u) /\ request = Request(s, p, u)
    BY <2>2, <2>3 DEF Asked
  <2>5. Asked(s, p, u)'
    BY <2>1, <2>2, <2>4 DEF Asked, ChangedByte
  <2>6. RequestSent'
    BY <2>5 DEF RequestSent
  <2>7. frame' \in Report
    BY <2>1, <2>2 DEF Report
  <2> QED
    BY <1>2, <2>2, <2>6, <2>7 DEF HarmRequest, ResponseSent
<1>3. CASE Parse
  <2>1. /\ phase = "asked" /\ phase' = "parsed" /\ parsed' = frame_parse(frame)
        /\ frame' = frame /\ request' = request /\ harm' = harm
    BY <1>3 DEF Parse
  <2>2. PICK s \in Sequence, p \in RequestPayload, u \in BOOLEAN : Asked(s, p, u)
    BY <2>1 DEF RequestSent
  <2>3. Asked(s, p, u)'
    BY <2>1, <2>2 DEF Asked
  <2>4. RequestSent'
    BY <2>3 DEF RequestSent
  <2>5. (phase' = "parsed" => parsed' = frame_parse(frame')) /\ phase' # "read"
    BY <2>1
  <2> QED
    BY <2>1, <2>4, <2>5 DEF ResponseSent
<1>4. CASE Answer
  <2>1. PICK l \in ResponsePayload, u \in BOOLEAN, b \in Stack :
          response_fits(l) /\ response' = Payload(l) /\ reports' = response_encode(l, u, b)
    BY <1>4 DEF Answer
  <2>2. harm = "none" /\ harm' = "none" /\ phase' = "answered"
    BY <1>4 DEF Answer
  <2>3. reports' \in Seq(Report)
    BY <2>1, AnswerTyped
  <2>4. Answered(l, u, b)'
    BY <2>1, <2>2 DEF Answered, Came
  <2>5. ResponseSent'
    BY <2>4 DEF ResponseSent
  <2> QED
    BY <2>2, <2>3, <2>5 DEF RequestSent
<1>5. CASE HarmResponse
  <2>1. /\ phase = "answered" /\ harm = "none" /\ phase' = phase /\ response' = response
    BY <1>5 DEF HarmResponse
  <2>2. PICK l \in ResponsePayload, u \in BOOLEAN, b \in Stack : Answered(l, u, b)
    BY <2>1 DEF ResponseSent
  <2> PICK E : E = response_encode(l, u, b)
    OBVIOUS
  <2>3. reports = E /\ response_fits(l) /\ response = Payload(l)
    BY <2>1, <2>2 DEF Answered, Came
  <2>4. E \in Seq(Report)
    BY <2>3, AnswerTyped
  <2>5. /\ harm' \in {"none", "changed", "lost", "head lost", "inserted"}
        /\ reports' \in Seq(Report) /\ Came(reports, E)'
    <3>1. ASSUME NEW r \in DOMAIN reports, NEW i \in Index, NEW x \in Byte,
                 reports' = [reports EXCEPT ![r][i] = x], harm' = "changed"
          PROVE  reports' \in Seq(Report) /\ Came(reports, E)'
      <4>1. r \in DOMAIN E /\ ChangedReport(reports', E, r, i, x)
        BY <2>3, <3>1 DEF ChangedReport
      <4>2. Came(reports, E)'
        BY <3>1, <4>1 DEF Came
      <4> QED
        BY <2>4, <4>1, <4>2, HarmTyped DEF ChangedReport
    <3>2. ASSUME NEW r \in DOMAIN reports, reports' = RemoveAt(reports, r),
                 harm' = IF r = 1 THEN "head lost" ELSE "lost"
          PROVE  reports' \in Seq(Report) /\ Came(reports, E)'
      <4>1. r \in DOMAIN E /\ reports' = RemoveAt(E, r)
        BY <2>3, <3>2
      <4>2. Came(reports, E)'
        BY <3>2, <4>1 DEF Came
      <4> QED
        BY <2>4, <4>1, <4>2, HarmTyped
    <3>3. ASSUME NEW r \in 1..Len(reports) + 1, NEW f \in ForeignReport,
                 reports' = InsertAt(reports, r, f), harm' = "inserted"
          PROVE  reports' \in Seq(Report) /\ Came(reports, E)'
      <4>1. r \in 1..Len(E) + 1 /\ reports' = InsertAt(E, r, f)
        BY <2>3, <3>3
      <4>2. Came(reports, E)'
        BY <3>3, <4>1 DEF Came
      <4> QED
        BY <2>4, <4>1, <4>2, HarmTyped
    <3> QED
      BY <1>5, <3>1, <3>2, <3>3 DEF HarmResponse
  <2>6. Answered(l, u, b)'
    BY <2>1, <2>3, <2>5 DEF Answered
  <2>7. ResponseSent'
    BY <2>6 DEF ResponseSent
  <2> QED
    BY <2>1, <2>5, <2>7 DEF RequestSent
<1>6. CASE Read
  <2>1. /\ phase = "answered" /\ phase' = "read" /\ decoded' = response_decode(reports)
        /\ read' = _read_response(reports) /\ reports' = reports /\ response' = response
        /\ harm' = harm
    BY <1>6 DEF Read
  <2>2. PICK l \in ResponsePayload, u \in BOOLEAN, b \in Stack : Answered(l, u, b)
    BY <2>1 DEF ResponseSent
  <2>3. Answered(l, u, b)'
    BY <2>1, <2>2 DEF Answered, Came
  <2>4. ResponseSent'
    BY <2>3 DEF ResponseSent
  <2> QED
    BY <2>1, <2>4 DEF RequestSent
<1>7. CASE Done
  BY <1>7 DEF Done, RequestSent, ResponseSent
<1>8. CASE UNCHANGED vars
  <2>1. /\ phase' = phase /\ harm' = harm /\ request' = request /\ frame' = frame
        /\ parsed' = parsed /\ response' = response /\ reports' = reports
        /\ decoded' = decoded /\ read' = read
    BY <1>8 DEF vars, requestVars, responseVars
  <2>2. \A s, p, u : Asked(s, p, u) => Asked(s, p, u)'
    BY <2>1 DEF Asked
  <2>3. \A l, u, b : Answered(l, u, b) => Answered(l, u, b)'
    <3>1. \A E : Came(reports, E) => Came(reports, E)'
      BY <2>1 DEF Came
    <3> QED
      BY <2>1, <3>1 DEF Answered
  <2>4. RequestSent'
    BY <2>1, <2>2 DEF RequestSent
  <2>5. ResponseSent'
    BY <2>1, <2>3 DEF ResponseSent
  <2> QED
    BY <2>1, <2>4, <2>5
<1> QED
  BY <1>1, <1>2, <1>3, <1>4, <1>5, <1>6, <1>7, <1>8 DEF Next

LEMMA Invariant == Spec => []WireInv
BY InitInv, NextInv, PTL DEF Spec

(***************************************************************************)
(* A request is read as it was asked; with one byte changed, whichever and *)
(* to whatever, at most its payload is.                                    *)
(***************************************************************************)
LEMMA RequestStep == WireInv => RequestIntact
<1> SUFFICES ASSUME WireInv, phase = "parsed"
             PROVE  IF harm = "none" THEN parsed = request
                    ELSE parsed.valid => parsed.payload = request.payload
  BY DEF RequestIntact
<1>1. parsed = frame_parse(frame)
  BY DEF WireInv, Understood
<1>2. PICK s \in Sequence, p \in RequestPayload, u \in BOOLEAN : Asked(s, p, u)
  BY DEF WireInv, RequestSent
<1>3. s \in Byte /\ p \in Seq(Byte) /\ Len(p) =< MaxRequestPayload
  BY AskTyped
<1>4. CASE harm = "none"
  <2>1. frame = frame_build(s, p, u) /\ request = Request(s, p, u)
    BY <1>2, <1>4 DEF Asked
  <2>2. frame_parse(frame_build(s, p, u)) = Request(s, p, u)
    BY <1>3, ParsedWhole
  <2> QED
    BY <1>1, <1>4, <2>1, <2>2
<1>5. CASE harm # "none"
  <2>1. PICK i \in Index, b \in Byte : ChangedByte(frame, frame_build(s, p, u), i, b)
    BY <1>2, <1>5 DEF Asked
  <2>2. frame_parse(frame).valid => frame_parse(frame).payload = p
    BY <1>3, <2>1, ParsedStill
  <2>3. request.payload = p
    BY <1>2 DEF Asked, Request
  <2> QED
    BY <1>1, <1>5, <2>2, <2>3
<1> QED
  BY <1>4, <1>5

(***************************************************************************)
(* A response is read as it was sent, over any number of reports; harmed   *)
(* in any one way it is refused or read as it was sent, unless its first   *)
(* report is lost and another follows.                                     *)
(***************************************************************************)
LEMMA ResponseStep == WireInv => ResponseIntact
<1> SUFFICES ASSUME WireInv, phase = "read"
             PROVE  IF harm = "none" THEN decoded = response
                    ELSE decoded.valid => decoded = response \/ HeadTaken
  BY DEF ResponseIntact
<1>1. decoded = response_decode(reports)
  BY DEF WireInv, Understood
<1>2. PICK l \in ResponsePayload, u \in BOOLEAN, b \in Stack : Answered(l, u, b)
  BY DEF WireInv, ResponseSent
<1> DEFINE E == response_encode(l, u, b)
<1>3. /\ response_fits(l) /\ response = Payload(l) /\ Came(reports, E)
      /\ Fit(l) /\ b \in Byte
  BY <1>2, AnswerTyped DEF Answered
<1>4. EncodedOf(E, l) /\ E \in Seq(Report)
  <2>1. EncodedOf(E, l)
    BY <1>3, EncodedIs
  <2> QED
    BY <2>1 DEF EncodedOf
<1>5. CASE harm = "none"
  <2>1. reports = E
    BY <1>3, <1>5 DEF Came
  <2>2. Len(E) =< Len(E)
    BY <1>4
  <2>3. response_decode(E) = Payload(l)
    BY <1>3, <1>4, <2>2, Carries
  <2> QED
    BY <1>1, <1>3, <1>5, <2>1, <2>3
<1>6. CASE harm = "changed"
  <2>1. PICK r \in DOMAIN E, i \in Index, x \in Byte : ChangedReport(reports, E, r, i, x)
    BY <1>3, <1>6 DEF Came
  <2> HIDE DEF E
  <2>2. response_decode(reports).valid => response_decode(reports) = Payload(l)
    BY <1>3, <1>4, <2>1, ChangedStill
  <2> QED
    BY <1>1, <1>3, <1>6, <2>2
<1>7. CASE harm = "lost"
  <2>1. PICK r \in DOMAIN E \ {1} : reports = RemoveAt(E, r)
    BY <1>3, <1>7 DEF Came
  <2> HIDE DEF E
  <2>2. ~response_decode(reports).valid
    BY <1>3, <1>4, <2>1, LostRefused
  <2> QED
    BY <1>1, <1>7, <2>2
<1>8. CASE harm = "inserted"
  <2>1. PICK r \in 1..Len(E) + 1, f \in ForeignReport : reports = InsertAt(E, r, f)
    BY <1>3, <1>8 DEF Came
  <2>2. f \in Report /\ f[0] # IdIn
    BY WireAssumption
  <2>3. response_decode(reports).valid => response_decode(reports) = Payload(l)
    BY <1>3, <2>1, <2>2, InsertedStill
  <2> QED
    BY <1>1, <1>3, <1>8, <2>3
<1>9. CASE harm = "head lost"
  <2>1. decoded.valid => reports # <<>>
    BY <1>1, NoneRead
  <2> QED
    BY <1>9, <2>1 DEF HeadTaken
<1> QED
  BY <1>3, <1>5, <1>6, <1>7, <1>8, <1>9 DEF Came

\* Tool and firmware read any reports alike, those of no response included.
LEMMA ReadersStep == WireInv => ReadersAgree
<1> SUFFICES ASSUME WireInv, phase = "read" PROVE read = decoded
  BY DEF ReadersAgree
<1>1. /\ decoded = response_decode(reports) /\ read = _read_response(reports)
      /\ reports \in Seq(Report)
  BY DEF WireInv, Understood, TypeOK
<1>2. CASE reports = <<>>
  BY <1>1, <1>2, NoneRead
<1>3. CASE reports # <<>>
  BY <1>1, <1>3, DecodeIs, Zenon
<1> QED
  BY <1>2, <1>3

(***************************************************************************)
(* The reports on the link are reports, whatever is sent and whatever the  *)
(* link does (g6he_frame_build, g6he_response_encode).                     *)
(***************************************************************************)
THEOREM TypeCorrect == Spec => []TypeOK
<1>1. WireInv => TypeOK
  BY DEF WireInv
<1> QED
  BY <1>1, Invariant, PTL

(***************************************************************************)
(* A request of any payload is parsed as it was built; one changed byte    *)
(* never passes another payload off as it (g6he_frame_parse).              *)
(***************************************************************************)
THEOREM RequestArrives == Spec => []RequestIntact
BY RequestStep, Invariant, PTL

(***************************************************************************)
(* A response of any length, over any number of reports, is decoded as it  *)
(* was encoded, or refused when a byte changed, a later report was lost or *)
(* a foreign one came between (g6he_response_decode).                      *)
(***************************************************************************)
THEOREM ResponseArrives == Spec => []ResponseIntact
BY ResponseStep, Invariant, PTL

(***************************************************************************)
(* The tool's reader and the firmware's give the same for any reports      *)
(* (_read_response, g6he_response_decode).                                 *)
(***************************************************************************)
THEOREM ReadersAlike == Spec => []ReadersAgree
BY ReadersStep, Invariant, PTL
=============================================================================
