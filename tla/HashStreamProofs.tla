-------------------------- MODULE HashStreamProofs --------------------------
(***************************************************************************)
(* Proofs about HashStream for any sizes of block and length field, any    *)
(* message and any cut of it.                                              *)
(***************************************************************************)
EXTENDS HashStream, SequenceTheorems, TLAPS

\* The blocks of a message, w of them.
DataBlock(b) == [j \in 1..BlockSize |-> Data((b - 1) * BlockSize + j)]
Cut(w) == [b \in 1..w |-> DataBlock(b)]
DataBlocks == {DataBlock(b) : b \in Nat}

\* What w blocks and r bytes of a message leave behind.
Holds(ctx, w, r) ==
  /\ w \in Nat /\ r \in 0..BlockSize - 1
  /\ ctx.blocks = Cut(w)
  /\ ctx.total_len = w * BlockSize + r /\ ctx.buffer_len = r
  /\ \A j \in 1..r : ctx.buffer[j] = Data(w * BlockSize + j)
Held(ctx, n) ==
  \E w \in Nat, r \in Nat : n = w * BlockSize + r /\ Holds(ctx, w, r)
-----------------------------------------------------------------------------
LEMMA SizesTyped ==
  ASSUME HashSizes
  PROVE  /\ BlockSize \in Nat \ {0} /\ LengthSize \in Nat \ {0}
         /\ PadLimit \in Nat \ {0} /\ PadLimit = BlockSize - LengthSize
         /\ PadLimit < BlockSize
BY DEF HashSizes, PadLimit

\* Division by the size of a block.
LEMMA Divided ==
  ASSUME NEW B \in Nat \ {0}, NEW x \in Nat
  PROVE  /\ x \div B \in Nat /\ (x \div B) * B \in Nat
         /\ (x \div B) * B =< x /\ x < (x \div B) * B + B
  OBVIOUS

LEMMA Quotient ==
  ASSUME NEW B \in Nat \ {0}, NEW q \in Nat, NEW r \in Nat, r < B
  PROVE  (q * B + r) \div B = q
  OBVIOUS

LEMMA Times ==
  ASSUME NEW B \in Nat, NEW a \in Nat, NEW b \in Nat
  PROVE  a * B \in Nat /\ (a + b) * B = a * B + b * B /\ (a + 1) * B = a * B + B
  OBVIOUS

LEMMA Ordered ==
  ASSUME NEW B \in Nat \ {0}, NEW a \in Nat, NEW b \in Nat, a < b
  PROVE  a * B + B =< b * B
  OBVIOUS

\* s is bytes n + 1 to n + m of a message.
IsPiece(s, n, m) == Len(s) = m /\ \A i \in 1..m : s[i] = Data(n + i)

LEMMA PieceIs ==
  ASSUME NEW n \in Nat, NEW m \in Nat
  PROVE  IsPiece(Piece(n, m), n, m) /\ Len(Piece(n, m)) = m
BY DEF Piece, IsPiece

LEMMA PartOf ==
  ASSUME NEW S, NEW s \in Seq(S), NEW a \in Nat \ {0}, NEW b \in Nat,
         a =< b + 1, b =< Len(s)
  PROVE  /\ Len(SubSeq(s, a, b)) = b + 1 - a
         /\ \A i \in 1..b + 1 - a : SubSeq(s, a, b)[i] = s[a + i - 1]
  OBVIOUS

Join(u, s, t) == /\ Len(u) = Len(s) + Len(t)
                 /\ \A b \in 1..Len(s) : u[b] = s[b]
                 /\ \A b \in 1..Len(t) : u[Len(s) + b] = t[b]

LEMMA Joined ==
  ASSUME NEW S, NEW s \in Seq(S), NEW t \in Seq(S)
  PROVE  s \o t \in Seq(S) /\ Join(s \o t, s, t)
BY DEF Join

LEMMA PartIs ==
  ASSUME NEW n \in Nat, NEW m \in Nat, NEW a \in Nat \ {0}, NEW b \in Nat,
         a =< b + 1, b =< m
  PROVE  IsPiece(SubSeq(Piece(n, m), a, b), n + a - 1, b + 1 - a)
<1>1. Piece(n, m) \in Seq({Data(i) : i \in Nat}) /\ Len(Piece(n, m)) = m
  BY DEF Piece
<1>2. /\ Len(SubSeq(Piece(n, m), a, b)) = b + 1 - a
      /\ \A i \in 1..b + 1 - a :
            SubSeq(Piece(n, m), a, b)[i] = Piece(n, m)[a + i - 1]
  BY <1>1, PartOf
<1>3. ASSUME NEW i \in 1..b + 1 - a
      PROVE  Piece(n, m)[a + i - 1] = Data(n + a - 1 + i)
  <2>1. a + i - 1 \in 1..m /\ n + (a + i - 1) = n + a - 1 + i
    OBVIOUS
  <2> QED
    BY <2>1, PieceIs DEF IsPiece
<1> QED
  BY <1>2, <1>3 DEF IsPiece

LEMMA BlockIs ==
  ASSUME NEW f, NEW b, f = [j \in 1..BlockSize |-> f[j]],
         \A j \in 1..BlockSize : f[j] = Data((b - 1) * BlockSize + j)
  PROVE  f = DataBlock(b)
BY DEF DataBlock

LEMMA CutIs ==
  ASSUME NEW w \in Nat
  PROVE  /\ Cut(w) \in Seq(DataBlocks) /\ Len(Cut(w)) = w
         /\ \A b \in 1..w : Cut(w)[b] = DataBlock(b)
BY DEF Cut, DataBlocks
-----------------------------------------------------------------------------
(***************************************************************************)
(* update.  What is left of a piece once the buffer is empty: its whole    *)
(* blocks go to the digest, and the rest to the buffer.                    *)
(***************************************************************************)
WholeIs(n, m, i, v) ==
  LET q == Whole(Piece(n, m), i) IN
  /\ q \in Nat /\ q * BlockSize \in Nat
  /\ q * BlockSize =< m - i /\ m - i < q * BlockSize + BlockSize
  /\ Cut(v) \o WholeBlocks(Piece(n, m), i) = Cut(v + q)

LEMMA WholeBlocksAre ==
  ASSUME HashSizes, NEW n \in Nat, NEW m \in Nat, NEW i \in 0..m,
         NEW v \in Nat, n + i = v * BlockSize
  PROVE  WholeIs(n, m, i, v)
<1> DEFINE q == Whole(Piece(n, m), i)
           bs == WholeBlocks(Piece(n, m), i)
<1>1. /\ q \in Nat /\ q * BlockSize \in Nat
      /\ q * BlockSize =< m - i /\ m - i < q * BlockSize + BlockSize
  <2>1. q = (m - i) \div BlockSize /\ m - i \in Nat
    <3>1. Len(Piece(n, m)) = m
      BY PieceIs
    <3> QED
      BY <3>1 DEF Whole
  <2> QED
    BY <2>1, Divided, SizesTyped
<1>2. bs = [b \in 1..q |-> DataBlock(v + b)]
  <2>1. ASSUME NEW b \in 1..q, NEW j \in 1..BlockSize
        PROVE  Piece(n, m)[i + (b - 1) * BlockSize + j]
                 = Data((v + b - 1) * BlockSize + j)
    <3> DEFINE k == i + (b - 1) * BlockSize + j
    <3>1. (b - 1) * BlockSize \in Nat /\ (b - 1) * BlockSize + BlockSize =< q * BlockSize
      BY <1>1, SizesTyped, Times, Ordered
    <3>2. (v + b - 1) * BlockSize = v * BlockSize + (b - 1) * BlockSize
      <4>1. v + b - 1 = v + (b - 1) /\ b - 1 \in Nat
        OBVIOUS
      <4> QED
        BY <4>1, Times, SizesTyped
    <3>3. v * BlockSize \in Nat /\ BlockSize \in Nat /\ q * BlockSize \in Nat
      BY <1>1, Times, SizesTyped
    <3> HIDE DEF q, bs
    <3>4. k \in 1..m /\ n + k = (v + b - 1) * BlockSize + j
      BY <1>1, <3>1, <3>2, <3>3
    <3> HIDE DEF k
    <3>5. Piece(n, m)[k] = Data(n + k)
      BY <3>4, PieceIs DEF IsPiece
    <3> QED
      BY <3>4, <3>5 DEF k
  <2>2. ASSUME NEW b \in 1..q
        PROVE  [j \in 1..BlockSize |-> Piece(n, m)[i + (b - 1) * BlockSize + j]]
                 = DataBlock(v + b)
    BY <2>1 DEF DataBlock
  <2> QED
    BY <2>2 DEF WholeBlocks
<1> HIDE DEF q, bs
<1>3. bs \in Seq(DataBlocks) /\ Len(bs) = q
  BY <1>1, <1>2 DEF DataBlocks
<1>4. Cut(v) \o bs = Cut(v + q)
  <2>1. /\ Cut(v) \in Seq(DataBlocks) /\ Len(Cut(v)) = v
        /\ \A b \in 1..v : Cut(v)[b] = DataBlock(b)
    BY CutIs
  <2>2. /\ Cut(v) \o bs \in Seq(DataBlocks) /\ Len(Cut(v) \o bs) = v + q
        /\ \A b \in 1..v : (Cut(v) \o bs)[b] = DataBlock(b)
        /\ \A b \in 1..q : (Cut(v) \o bs)[v + b] = bs[b]
    <3> DEFINE c == Cut(v)
    <3> HIDE DEF c
    <3>1. /\ c \in Seq(DataBlocks) /\ Len(c) = v
          /\ \A b \in 1..v : c[b] = DataBlock(b)
      BY <2>1 DEF c
    <3>2. c \o bs \in Seq(DataBlocks) /\ Join(c \o bs, c, bs)
      BY <1>3, <3>1, Joined
    <3>3. /\ c \o bs \in Seq(DataBlocks) /\ Len(c \o bs) = v + q
          /\ \A b \in 1..v : (c \o bs)[b] = DataBlock(b)
          /\ \A b \in 1..q : (c \o bs)[v + b] = bs[b]
      BY <1>3, <3>1, <3>2 DEF Join
    <3> QED
      BY <3>3 DEF c
  <2>3. ASSUME NEW b \in 1..v + q PROVE (Cut(v) \o bs)[b] = DataBlock(b)
    <3>1. CASE b =< v
      BY <2>2, <3>1
    <3>2. CASE b > v
      <4>1. b - v \in 1..q /\ v + (b - v) = b
        BY <1>1, <3>2
      <4>2. bs[b - v] = DataBlock(b)
        BY <1>2, <4>1
      <4> QED
        BY <2>2, <4>1, <4>2
    <3>3. q \in Nat
      BY <1>1
    <3>4. b =< v \/ b > v
      BY <3>3
    <3> QED
      BY <3>1, <3>2, <3>4
  <2>4. Cut(v + q) \in Seq(DataBlocks) /\ Len(Cut(v + q)) = v + q
        /\ \A b \in 1..v + q : Cut(v + q)[b] = DataBlock(b)
    BY <1>1, CutIs
  <2> QED
    BY <2>2, <2>3, <2>4, SeqEqual
<1> QED
  BY <1>1, <1>4 DEF q, bs, WholeIs

\* What update leaves of a piece, from byte i + 1 on, behind v blocks.
Left(ctx, n, m, i, v, buffer) ==
  LET bytes == Piece(n, m)
      rest == SubSeq(bytes, i + Whole(bytes, i) * BlockSize + 1, Len(bytes))
  IN /\ i \in 0..m /\ v \in Nat /\ n + i = v * BlockSize
     /\ ctx.blocks = Cut(v) \o WholeBlocks(bytes, i) /\ ctx.total_len = n + m
     /\ ctx.buffer = Fill(buffer, 0, rest) /\ ctx.buffer_len = 0 + Len(rest)

LEMMA RestHolds ==
  ASSUME HashSizes, NEW n \in Nat, NEW m \in Nat, NEW i, NEW v, NEW buffer, NEW ctx,
         Left(ctx, n, m, i, v, buffer)
  PROVE  Held(ctx, n + m)
<1> DEFINE q == Whole(Piece(n, m), i)
           s == q * BlockSize
           a == i + s + 1
           rest == SubSeq(Piece(n, m), a, m)
           r == m - i - s
<1>1. i \in 0..m /\ v \in Nat /\ n + i = v * BlockSize /\ ctx.total_len = n + m
  BY DEF Left
<1>2. /\ q \in Nat /\ s \in Nat /\ s =< m - i /\ m - i < s + BlockSize
      /\ Cut(v) \o WholeBlocks(Piece(n, m), i) = Cut(v + q)
  <2>1. WholeIs(n, m, i, v)
    BY <1>1, WholeBlocksAre
  <2> QED
    BY <2>1 DEF WholeIs
<1>3. /\ ctx.blocks = Cut(v + q)
      /\ ctx.buffer = Fill(buffer, 0, rest) /\ ctx.buffer_len = 0 + Len(rest)
  BY <1>2, PieceIs DEF Left
<1>4. BlockSize \in Nat
  BY SizesTyped
<1>5. (v + q) * BlockSize = n + i + s
  <2> HIDE DEF q
  <2>1. (v + q) * BlockSize = v * BlockSize + q * BlockSize
    BY <1>1, <1>2, <1>4, Times
  <2> QED
    BY <1>1, <2>1
<1> HIDE DEF q, s
<1>6. /\ a \in Nat \ {0} /\ a =< m + 1 /\ m + 1 - a = r
      /\ r \in Nat /\ r \in 0..BlockSize - 1
      /\ n + a - 1 = (v + q) * BlockSize /\ n + m = (v + q) * BlockSize + r
  BY <1>1, <1>2, <1>4, <1>5
<1> HIDE DEF a, r
<1>7. Len(rest) = r /\ \A j \in 1..r : rest[j] = Data((v + q) * BlockSize + j)
  <2>1. a \in Nat \ {0} /\ a =< m + 1 /\ m =< m
    BY <1>6
  <2>2. IsPiece(rest, n + a - 1, m + 1 - a)
    BY <2>1, PartIs
  <2> QED
    BY <1>6, <2>2 DEF IsPiece
<1> HIDE DEF rest
<1>8. ASSUME NEW j \in 1..r PROVE ctx.buffer[j] = Data((v + q) * BlockSize + j)
  <2>1. j \in 1..BlockSize /\ 0 < j /\ j =< 0 + r /\ j - 0 = j
    BY <1>4, <1>6
  <2>2. Fill(buffer, 0, rest)[j] = rest[j]
    BY <1>7, <2>1 DEF Fill
  <2> QED
    BY <1>3, <1>7, <2>2
<1>9. v + q \in Nat
  BY <1>1, <1>2
<1>10. ctx.buffer_len = r
  BY <1>3, <1>6, <1>7
<1>11. Holds(ctx, v + q, r)
  BY <1>1, <1>3, <1>6, <1>8, <1>9, <1>10 DEF Holds
<1> QED
  BY <1>6, <1>9, <1>11 DEF Held

LEMMA OneMore ==
  ASSUME NEW w \in Nat
  PROVE  Append(Cut(w), DataBlock(w + 1)) = Cut(w + 1)
<1> DEFINE c == Cut(w)
           d == DataBlock(w + 1)
<1>1. /\ c \in Seq(DataBlocks) /\ Len(c) = w /\ d \in DataBlocks
      /\ \A b \in 1..w : c[b] = DataBlock(b)
  <2>1. w + 1 \in Nat
    OBVIOUS
  <2>2. d \in DataBlocks
    BY <2>1 DEF DataBlocks
  <2> QED
    BY <2>2, CutIs
<1>2. /\ Cut(w + 1) \in Seq(DataBlocks) /\ Len(Cut(w + 1)) = w + 1
      /\ \A b \in 1..w + 1 : Cut(w + 1)[b] = DataBlock(b)
  BY CutIs
<1> HIDE DEF c
<1>3. /\ Append(c, d) \in Seq(DataBlocks) /\ Len(Append(c, d)) = w + 1
      /\ \A b \in 1..w + 1 : Append(c, d)[b] = DataBlock(b)
  BY <1>1
<1>4. Append(c, d) = Cut(w + 1)
  BY <1>2, <1>3, SeqEqual
<1> QED
  BY <1>4 DEF c

LEMMA UpdateHolds ==
  ASSUME HashSizes, NEW ctx, NEW w, NEW r, Holds(ctx, w, r), NEW m \in Nat
  PROVE  Held(update(ctx, Piece(w * BlockSize + r, m)), w * BlockSize + r + m)
<1> DEFINE n == w * BlockSize + r
           bytes == Piece(n, m)
           u == update(ctx, bytes)
           i == Take(ctx, bytes)
           topped == Fill(ctx.buffer, ctx.buffer_len, SubSeq(bytes, 1, i))
           full == ctx.buffer_len + i = BlockSize
           kept == IF full THEN 0 ELSE ctx.buffer_len + i
           rest == SubSeq(bytes, i + Whole(bytes, i) * BlockSize + 1, Len(bytes))
<1>1. /\ u.blocks = (IF full THEN process_block(ctx.blocks, topped) ELSE ctx.blocks)
                       \o WholeBlocks(bytes, i)
      /\ u.total_len = ctx.total_len + Len(bytes)
      /\ u.buffer = Fill(topped, kept, rest) /\ u.buffer_len = kept + Len(rest)
  BY DEF update
<1>2. /\ BlockSize \in Nat \ {0} /\ w \in Nat /\ r \in 0..BlockSize - 1
      /\ w * BlockSize \in Nat
      /\ ctx.blocks = Cut(w) /\ ctx.total_len = n /\ ctx.buffer_len = r
      /\ \A j \in 1..r : ctx.buffer[j] = Data(w * BlockSize + j)
  BY SizesTyped, Times DEF Holds
<1>3. n \in Nat /\ r \in Nat
  BY <1>2
<1> SUFFICES Held(u, n + m)
  OBVIOUS
<1> HIDE DEF n
<1>4. Len(bytes) = m
  BY <1>3, PieceIs
<1>5. i = IF r = 0 THEN 0 ELSE IF m < BlockSize - r THEN m ELSE BlockSize - r
  BY <1>2, <1>4 DEF Take
<1> HIDE DEF bytes, u, i
<1>6. CASE r = 0
  <2>1. i \in 0..m /\ ~full /\ kept = 0 /\ n + i = w * BlockSize
    BY <1>2, <1>5, <1>6 DEF n
  <2>2. u.blocks = Cut(w) \o WholeBlocks(bytes, i)
    BY <1>1, <1>2, <2>1
  <2>3. u.total_len = n + m
    BY <1>1, <1>2, <1>4
  <2>4. u.buffer = Fill(topped, 0, rest) /\ u.buffer_len = 0 + Len(rest)
    BY <1>1, <2>1
  <2> HIDE DEF topped, full, kept
  <2>5. Left(u, n, m, i, w, topped)
    BY <1>2, <2>1, <2>2, <2>3, <2>4 DEF Left, bytes
  <2> QED
    BY <1>3, <2>5, RestHolds
<1>7. ASSUME i # 0, i =< m, r + i =< BlockSize, i \in Nat,
             NEW j \in 1..r + i
      PROVE  topped[j] = Data(w * BlockSize + j)
  <2> DEFINE sub == SubSeq(bytes, 1, i)
  <2>1. IsPiece(sub, n + 1 - 1, i + 1 - 1)
    BY <1>3, <1>7, PartIs DEF bytes
  <2>2. Len(sub) = i /\ \A k \in 1..i : sub[k] = Data(n + k)
    BY <1>3, <1>7, <2>1 DEF IsPiece
  <2>3. topped = Fill(ctx.buffer, r, sub) /\ j \in 1..BlockSize
    BY <1>2, <1>3, <1>7
  <2> HIDE DEF sub, topped
  <2>4. CASE j =< r
    <3>1. topped[j] = ctx.buffer[j]
      BY <1>3, <2>2, <2>3, <2>4 DEF Fill
    <3> QED
      BY <1>2, <1>3, <2>4, <3>1
  <2>5. CASE j > r
    <3>1. r < j /\ j =< r + Len(sub) /\ j - r \in 1..i
      BY <1>3, <1>7, <2>2, <2>5
    <3>2. topped[j] = sub[j - r]
      BY <2>3, <3>1 DEF Fill
    <3>3. n + (j - r) = w * BlockSize + j
      BY <1>2, <1>3 DEF n
    <3> QED
      BY <2>2, <3>1, <3>2, <3>3
  <2> QED
    BY <1>3, <2>4, <2>5
<1>8. CASE r # 0 /\ m < BlockSize - r
  <2>1. i = m /\ ~full /\ kept = r + m
    BY <1>2, <1>3, <1>5, <1>8
  <2>2. Whole(bytes, i) = 0
    <3>1. Len(bytes) - i = 0 * BlockSize + 0
      BY <1>2, <1>4, <2>1
    <3> QED
      BY <1>2, <3>1, Quotient DEF Whole
  <2>3. WholeBlocks(bytes, i) = <<>>
    BY <2>2 DEF WholeBlocks
  <2>4. u.blocks = Cut(w) /\ u.total_len = w * BlockSize + (r + m)
    <3>1. Cut(w) \o <<>> = Cut(w)
      BY <1>2, CutIs, ConcatEmptySeq
    <3> QED
      BY <1>1, <1>2, <1>3, <1>4, <2>1, <2>3, <3>1 DEF n
  <2>5. Len(rest) = 0
    <3>1. rest = SubSeq(bytes, m + 1, m)
      BY <1>2, <1>4, <2>1, <2>2
    <3>2. IsPiece(SubSeq(Piece(n, m), m + 1, m), n + (m + 1) - 1, m + 1 - (m + 1))
      BY <1>3, PartIs
    <3>3. Len(SubSeq(Piece(n, m), m + 1, m)) = m + 1 - (m + 1)
      BY <3>2 DEF IsPiece
    <3>4. m + 1 - (m + 1) = 0
      OBVIOUS
    <3> HIDE DEF rest
    <3> QED
      BY <3>1, <3>3, <3>4 DEF bytes
  <2>6. u.buffer_len = r + m /\ r + m \in 0..BlockSize - 1
    <3>1. u.buffer_len = kept + Len(rest)
      BY <1>1
    <3> HIDE DEF kept, rest, full
    <3> QED
      BY <1>2, <1>3, <1>8, <2>1, <2>5, <3>1
  <2>7. ASSUME NEW j \in 1..r + m PROVE u.buffer[j] = Data(w * BlockSize + j)
    <3>1. j \in 1..BlockSize /\ ~(kept < j /\ j =< kept + Len(rest))
      BY <1>2, <1>3, <2>1, <2>5, <2>6
    <3>2. u.buffer[j] = topped[j]
      BY <1>1, <3>1 DEF Fill
    <3>3. CASE m = 0
      <4>1. topped[j] = ctx.buffer[j]
        <5>1. Len(SubSeq(bytes, 1, i)) = 0
          <6>1. IsPiece(SubSeq(Piece(n, 0), 1, 0), n + 1 - 1, 0 + 1 - 1)
            BY <1>3, PartIs
          <6> QED
            BY <2>1, <3>3, <6>1 DEF IsPiece, bytes
        <5> QED
          BY <1>2, <1>3, <3>1, <3>3, <5>1 DEF Fill
      <4> QED
        BY <1>2, <1>3, <3>2, <3>3, <4>1
    <3>4. CASE m # 0
      BY <1>2, <1>3, <1>7, <1>8, <2>1, <3>2, <3>4
    <3> QED
      BY <3>3, <3>4
  <2> HIDE DEF topped, full, kept, rest
  <2>8. Holds(u, w, r + m)
    BY <1>2, <2>4, <2>6, <2>7 DEF Holds
  <2>9. n + m = w * BlockSize + (r + m) /\ r + m \in Nat
    BY <1>2, <1>3 DEF n
  <2> QED
    BY <1>2, <2>8, <2>9 DEF Held
<1>9. CASE r # 0 /\ ~(m < BlockSize - r)
  <2>1. /\ i = BlockSize - r /\ i # 0 /\ i \in 0..m /\ full /\ kept = 0
        /\ r + i = BlockSize
    BY <1>2, <1>3, <1>5, <1>9
  <2>2. topped = DataBlock(w + 1)
    <3> DEFINE b == w + 1
    <3>1. b - 1 = w
      BY <1>2
    <3>2. topped = [j \in 1..BlockSize |-> topped[j]]
      BY DEF Fill
    <3> HIDE DEF b
    <3>3. ASSUME NEW j \in 1..BlockSize
          PROVE  topped[j] = Data((b - 1) * BlockSize + j)
      BY <1>2, <1>7, <2>1, <3>1
    <3> HIDE DEF topped
    <3>4. topped = DataBlock(b)
      BY <3>2, <3>3, BlockIs
    <3> QED
      BY <3>4 DEF b
  <2> HIDE DEF topped
  <2>3. u.blocks = Cut(w + 1) \o WholeBlocks(bytes, i)
    <3>1. process_block(ctx.blocks, topped) = Cut(w + 1)
      BY <1>2, <2>2, OneMore DEF process_block
    <3> QED
      BY <1>1, <2>1, <3>1
  <2>4. u.total_len = n + m
    BY <1>1, <1>2, <1>4
  <2>5. u.buffer = Fill(topped, 0, rest) /\ u.buffer_len = 0 + Len(rest)
    BY <1>1, <2>1
  <2>6. n + i = (w + 1) * BlockSize /\ w + 1 \in Nat
    BY <1>2, <1>3, <2>1, Times DEF n
  <2> HIDE DEF full, kept
  <2>7. Left(u, n, m, i, w + 1, topped)
    BY <2>1, <2>3, <2>4, <2>5, <2>6 DEF Left, bytes
  <2> QED
    BY <1>3, <2>7, RestHolds
<1> QED
  BY <1>6, <1>8, <1>9
-----------------------------------------------------------------------------
(***************************************************************************)
(* final.  The blocks of the padded message, one by one.                   *)
(***************************************************************************)
PaddedBlock(n, b) == [j \in 1..BlockSize |-> PaddedByte(n, (b - 1) * BlockSize + j)]
Padded(n, k) == [b \in 1..k |-> PaddedBlock(n, b)]
AllPadded(n) == {PaddedBlock(n, b) : b \in Nat}

LEMMA PaddedIs ==
  ASSUME NEW n, NEW k \in Nat
  PROVE  /\ Padded(n, k) \in Seq(AllPadded(n)) /\ Len(Padded(n, k)) = k
         /\ \A b \in 1..k : Padded(n, k)[b] = PaddedBlock(n, b)
BY DEF Padded, AllPadded

LEMMA OneMorePadded ==
  ASSUME NEW n, NEW k \in Nat
  PROVE  Append(Padded(n, k), PaddedBlock(n, k + 1)) = Padded(n, k + 1)
<1> DEFINE c == Padded(n, k)
           d == PaddedBlock(n, k + 1)
<1>1. /\ c \in Seq(AllPadded(n)) /\ Len(c) = k /\ d \in AllPadded(n)
      /\ \A b \in 1..k : c[b] = PaddedBlock(n, b)
  <2>1. k + 1 \in Nat
    OBVIOUS
  <2>2. d \in AllPadded(n)
    BY <2>1 DEF AllPadded
  <2> QED
    BY <2>2, PaddedIs
<1>2. /\ Padded(n, k + 1) \in Seq(AllPadded(n)) /\ Len(Padded(n, k + 1)) = k + 1
      /\ \A b \in 1..k + 1 : Padded(n, k + 1)[b] = PaddedBlock(n, b)
  BY PaddedIs
<1> HIDE DEF c
<1>3. /\ Append(c, d) \in Seq(AllPadded(n)) /\ Len(Append(c, d)) = k + 1
      /\ \A b \in 1..k + 1 : Append(c, d)[b] = PaddedBlock(n, b)
  BY <1>1
<1>4. Append(c, d) = Padded(n, k + 1)
  BY <1>2, <1>3, SeqEqual
<1> QED
  BY <1>4 DEF c

IsPadded(f, n, b) ==
  /\ f = [j \in 1..BlockSize |-> f[j]]
  /\ \A j \in 1..BlockSize : f[j] = PaddedByte(n, (b - 1) * BlockSize + j)

LEMMA PaddedBlockIs ==
  ASSUME NEW f, NEW n, NEW b, IsPadded(f, n, b)
  PROVE  f = PaddedBlock(n, b)
BY DEF PaddedBlock, IsPadded

LEMMA DataFirst ==
  ASSUME HashSizes, NEW w \in Nat, NEW n \in Nat, w * BlockSize =< n
  PROVE  Cut(w) = Padded(n, w)
<1>1. ASSUME NEW b \in 1..w PROVE DataBlock(b) = PaddedBlock(n, b)
  <2>1. ASSUME NEW j \in 1..BlockSize
        PROVE  DataBlock(b)[j] = PaddedByte(n, (b - 1) * BlockSize + j)
    <3>1. (b - 1) * BlockSize + BlockSize =< w * BlockSize /\ (b - 1) * BlockSize \in Nat
      BY SizesTyped, Ordered, Times
    <3>2. (b - 1) * BlockSize + j =< n
      <4>1. w * BlockSize \in Nat /\ BlockSize \in Nat
        BY SizesTyped, Times
      <4> QED
        BY <3>1, <4>1
    <3> QED
      BY <3>2 DEF DataBlock, PaddedByte
  <2>2. DataBlock(b) = [j \in 1..BlockSize |-> DataBlock(b)[j]]
    BY DEF DataBlock
  <2> DEFINE f == DataBlock(b)
  <2> HIDE DEF f
  <2>3. IsPadded(f, n, b)
    BY <2>1, <2>2 DEF f, IsPadded
  <2>4. f = PaddedBlock(n, b)
    BY <2>3, PaddedBlockIs
  <2> QED
    BY <2>4 DEF f
<1> QED
  BY <1>1 DEF Cut, Padded

LEMMA HowMany ==
  ASSUME HashSizes, NEW w \in Nat, NEW r \in 0..BlockSize - 1
  PROVE  PaddedBlocks(w * BlockSize + r) = IF r + 1 > PadLimit THEN w + 2 ELSE w + 1
<1>1. /\ BlockSize \in Nat \ {0} /\ LengthSize \in Nat /\ LengthSize < BlockSize
      /\ PadLimit = BlockSize - LengthSize /\ w * BlockSize \in Nat
      /\ (w + 1) * BlockSize = w * BlockSize + BlockSize
  BY SizesTyped, Times DEF HashSizes
<1>2. CASE r + 1 > PadLimit
  <2>1. /\ w * BlockSize + r + LengthSize
             = (w + 1) * BlockSize + (r + LengthSize - BlockSize)
        /\ r + LengthSize - BlockSize \in Nat
        /\ r + LengthSize - BlockSize < BlockSize
    BY <1>1, <1>2
  <2>2. (w * BlockSize + r + LengthSize) \div BlockSize = w + 1
    BY <1>1, <2>1, Quotient
  <2> QED
    BY <1>2, <2>2 DEF PaddedBlocks
<1>3. CASE ~(r + 1 > PadLimit)
  <2>1. /\ w * BlockSize + r + LengthSize = w * BlockSize + (r + LengthSize)
        /\ r + LengthSize \in Nat /\ r + LengthSize < BlockSize
    BY <1>1, <1>3
  <2>2. (w * BlockSize + r + LengthSize) \div BlockSize = w
    BY <1>1, <2>1, Quotient
  <2> QED
    BY <1>3, <2>2 DEF PaddedBlocks
<1> QED
  BY <1>2, <1>3

LEMMA FillIsBlock ==
  ASSUME NEW buffer, NEW at, NEW bytes
  PROVE  Fill(buffer, at, bytes) = [j \in 1..BlockSize |-> Fill(buffer, at, bytes)[j]]
BY DEF Fill

LEMMA ClosingIs ==
  ASSUME HashSizes, NEW buffer, NEW at \in 0..PadLimit, NEW len
  PROVE  /\ Closing(buffer, at, len)
               = [j \in 1..BlockSize |-> Closing(buffer, at, len)[j]]
         /\ \A j \in 1..BlockSize :
              Closing(buffer, at, len)[j] =
                IF j =< at THEN buffer[j]
                ELSE IF j =< PadLimit THEN Zero ELSE LengthByte(len, j - PadLimit)
<1> DEFINE zeroed == Fill(buffer, at, Zeros(PadLimit - at))
           bytes == [j \in 1..LengthSize |-> LengthByte(len, j)]
<1>1. /\ BlockSize \in Nat /\ PadLimit \in Nat /\ LengthSize \in Nat
      /\ BlockSize = PadLimit + LengthSize /\ PadLimit - at \in Nat
  BY SizesTyped DEF HashSizes
<1>2. ASSUME NEW j \in 1..BlockSize
      PROVE  /\ j =< at => zeroed[j] = buffer[j]
             /\ j > at /\ j =< PadLimit => zeroed[j] = Zero
  BY <1>1 DEF Fill, Zeros
<1> HIDE DEF zeroed
<1>3. Closing(buffer, at, len) = Fill(zeroed, PadLimit, bytes)
  BY DEF Closing, zeroed
<1>4. ASSUME NEW j \in 1..BlockSize
      PROVE  Fill(zeroed, PadLimit, bytes)[j] =
               IF j =< PadLimit THEN zeroed[j] ELSE LengthByte(len, j - PadLimit)
  BY <1>1 DEF Fill
<1>5. ASSUME NEW j \in 1..BlockSize
      PROVE  Fill(zeroed, PadLimit, bytes)[j] =
               IF j =< at THEN buffer[j]
               ELSE IF j =< PadLimit THEN Zero ELSE LengthByte(len, j - PadLimit)
  BY <1>1, <1>2, <1>4
<1> HIDE DEF bytes
<1> QED
  BY <1>3, <1>5, FillIsBlock

LEMMA FinalIs ==
  ASSUME HashSizes, NEW ctx, NEW w, NEW r, Holds(ctx, w, r)
  PROVE  final(ctx) = Reference(w * BlockSize + r)
<1> DEFINE s == w * BlockSize
           n == s + r
           at == r + 1
           stopped == Fill(ctx.buffer, ctx.buffer_len, <<Stop>>)
           zeroed == Fill(stopped, at, Zeros(BlockSize - at))
           b == w + 1
           c == w + 2
<1>1. /\ BlockSize \in Nat \ {0} /\ PadLimit \in Nat \ {0}
      /\ LengthSize \in Nat /\ BlockSize = PadLimit + LengthSize
      /\ w \in Nat /\ r \in 0..BlockSize - 1 /\ s \in Nat
      /\ ctx.blocks = Cut(w) /\ ctx.total_len = n /\ ctx.buffer_len = r
      /\ \A j \in 1..r : ctx.buffer[j] = Data(s + j)
  BY SizesTyped, Times DEF Holds, HashSizes
<1>2. /\ (b - 1) * BlockSize = s /\ b * BlockSize = s + BlockSize
      /\ (c - 1) * BlockSize = s + BlockSize /\ c * BlockSize = s + BlockSize + BlockSize
      /\ b \in Nat /\ c \in Nat
  <2>1. b - 1 = w /\ c - 1 = b /\ c = b + 1 /\ b \in Nat /\ c \in Nat
    BY <1>1
  <2>2. b * BlockSize = w * BlockSize + BlockSize
    BY <1>1, Times
  <2> HIDE DEF b, c
  <2>3. (b + 1) * BlockSize = b * BlockSize + BlockSize
    BY <1>1, <2>1, Times
  <2> QED
    BY <2>1, <2>2, <2>3
<1>3. PaddedBlocks(n) = IF at > PadLimit THEN c ELSE b
  BY <1>1, HowMany
<1>4. final(ctx) = IF at > PadLimit
                   THEN Append(Append(Cut(w), zeroed), Closing(zeroed, 0, n))
                   ELSE Append(Cut(w), Closing(stopped, at, n))
  BY <1>1 DEF final, NeedsBlock, process_block
<1>5. Reference(n) = Padded(n, PaddedBlocks(n))
  BY DEF Reference, Padded, PaddedBlock
<1> HIDE DEF s, b, c
<1>6. Cut(w) = Padded(n, w)
  <2>1. n \in Nat /\ s =< n
    BY <1>1
  <2> HIDE DEF n
  <2> QED
    BY <1>1, <2>1, DataFirst DEF s
<1>7. ASSUME NEW j \in 1..BlockSize
      PROVE  stopped[j] = IF j =< r THEN Data(s + j)
                          ELSE IF j = at THEN Stop ELSE ctx.buffer[j]
  BY <1>1, <1>7 DEF Fill
<1>8. ASSUME NEW j \in 1..BlockSize
      PROVE  zeroed[j] = IF j =< r THEN Data(s + j) ELSE IF j = at THEN Stop ELSE Zero
  BY <1>1, <1>7, <1>8 DEF Fill, Zeros
<1>9. CASE at > PadLimit
  <2> DEFINE last == Closing(zeroed, 0, n)
  <2>1. /\ zeroed = [j \in 1..BlockSize |-> zeroed[j]]
        /\ last = [j \in 1..BlockSize |-> last[j]]
    <3>1. zeroed = [j \in 1..BlockSize |-> zeroed[j]]
      BY FillIsBlock
    <3>2. 0 \in 0..PadLimit
      BY <1>1
    <3> HIDE DEF zeroed
    <3> QED
      BY <3>1, <3>2, ClosingIs
  <2>2. PaddedBlocks(n) * BlockSize - LengthSize = s + BlockSize + PadLimit
    BY <1>1, <1>2, <1>3, <1>9
  <2>3. IsPadded(zeroed, n, b)
    <3>1. ASSUME NEW j \in 1..BlockSize
          PROVE  zeroed[j] = PaddedByte(n, s + j)
      BY <1>1, <1>8, <1>9, <2>2 DEF PaddedByte
    <3> HIDE DEF zeroed
    <3> QED
      BY <1>2, <2>1, <3>1 DEF IsPadded
  <2>4. IsPadded(last, n, c)
    <3>1. ASSUME NEW j \in 1..BlockSize
          PROVE  last[j] = IF j =< PadLimit THEN Zero ELSE LengthByte(n, j - PadLimit)
      <4>1. 0 \in 0..PadLimit /\ ~(j =< 0)
        BY <1>1
      <4> HIDE DEF zeroed, n
      <4> QED
        BY <4>1, ClosingIs
    <3> HIDE DEF last
    <3>2. ASSUME NEW j \in 1..BlockSize
          PROVE  last[j] = PaddedByte(n, s + BlockSize + j)
      BY <1>1, <1>9, <2>2, <3>1 DEF PaddedByte
    <3> QED
      BY <1>2, <2>1, <3>2 DEF IsPadded
  <2> HIDE DEF zeroed, last, n
  <2>5. zeroed = PaddedBlock(n, b) /\ last = PaddedBlock(n, c)
    BY <2>3, <2>4, PaddedBlockIs
  <2>6. Append(Append(Padded(n, w), PaddedBlock(n, b)), PaddedBlock(n, c)) = Padded(n, c)
    <3>1. Append(Padded(n, w), PaddedBlock(n, w + 1)) = Padded(n, w + 1)
      BY <1>1, OneMorePadded
    <3>2. Append(Padded(n, b), PaddedBlock(n, b + 1)) = Padded(n, b + 1)
      BY <1>2, OneMorePadded
    <3>3. b = w + 1 /\ b + 1 = c
      BY <1>1 DEF b, c
    <3> QED
      BY <3>1, <3>2, <3>3
  <2> QED
    BY <1>3, <1>4, <1>5, <1>6, <1>9, <2>5, <2>6 DEF n, s, last
<1>10. CASE ~(at > PadLimit)
  <2> DEFINE last == Closing(stopped, at, n)
  <2>1. /\ last = [j \in 1..BlockSize |-> last[j]]
        /\ \A j \in 1..BlockSize :
             last[j] = IF j =< at THEN stopped[j]
                       ELSE IF j =< PadLimit THEN Zero ELSE LengthByte(n, j - PadLimit)
    <3>1. at \in 0..PadLimit
      BY <1>1, <1>10
    <3> HIDE DEF stopped, at, n
    <3> QED
      BY <3>1, ClosingIs
  <2>2. PaddedBlocks(n) * BlockSize - LengthSize = s + PadLimit
    BY <1>1, <1>2, <1>3, <1>10
  <2>3. ASSUME NEW j \in 1..BlockSize
        PROVE  last[j] = IF j =< r THEN Data(s + j) ELSE IF j = at THEN Stop
                         ELSE IF j =< PadLimit THEN Zero
                         ELSE LengthByte(n, j - PadLimit)
    <3>1. last[j] = IF j =< at THEN stopped[j]
                    ELSE IF j =< PadLimit THEN Zero ELSE LengthByte(n, j - PadLimit)
      BY <2>1
    <3>2. stopped[j] = IF j =< r THEN Data(s + j)
                       ELSE IF j = at THEN Stop ELSE ctx.buffer[j]
      BY <1>7
    <3>3. r \in Nat /\ j \in Nat
      BY <1>1
    <3> HIDE DEF stopped, last, n, zeroed
    <3> QED
      BY <3>1, <3>2, <3>3
  <2> HIDE DEF last
  <2>4. ASSUME NEW j \in 1..BlockSize PROVE last[j] = PaddedByte(n, s + j)
    BY <1>1, <1>10, <2>2, <2>3 DEF PaddedByte
  <2>5. IsPadded(last, n, b)
    BY <1>2, <2>1, <2>4 DEF IsPadded
  <2> HIDE DEF n
  <2>6. last = PaddedBlock(n, b)
    BY <2>5, PaddedBlockIs
  <2>7. Append(Padded(n, w), PaddedBlock(n, b)) = Padded(n, b)
    BY <1>1, OneMorePadded DEF b
  <2> QED
    BY <1>3, <1>4, <1>5, <1>6, <1>10, <2>6, <2>7 DEF n, s, last
<1> QED
  BY <1>9, <1>10

LEMMA PiecesHeld ==
  ASSUME HashSizes, NEW ctx, NEW n \in Nat, Held(ctx, n), NEW m \in Nat
  PROVE  Held(update(ctx, Piece(n, m)), n + m)
<1>1. PICK w \in Nat, r \in Nat : n = w * BlockSize + r /\ Holds(ctx, w, r)
  BY DEF Held
<1> QED
  BY <1>1, UpdateHolds

LEMMA FirstPieceHeld ==
  ASSUME HashSizes, NEW n \in Nat
  PROVE  Held(update(init, Piece(0, n)), n)
<1>1. 0 \in Nat /\ 0 \in 0..BlockSize - 1 /\ 0 = 0 * BlockSize + 0 /\ 0 + n = n
  BY SizesTyped
<1>2. Cut(0) = <<>>
  BY DEF Cut
<1>3. Holds(init, 0, 0)
  BY <1>1, <1>2 DEF Holds, init
<1>4. Held(init, 0)
  BY <1>1, <1>3 DEF Held
<1>5. Held(update(init, Piece(0, n)), 0 + n)
  BY <1>4, PiecesHeld
<1> QED
  BY <1>1, <1>5
-----------------------------------------------------------------------------
(***************************************************************************)
(* The digest of a message is that of its padded blocks, as FIPS 180-4     *)
(* wants them, whatever its length and wherever it is cut in two: nothing  *)
(* is lost, doubled or moved, and the length gets a block of its own just  *)
(* when it has to.  (g6he_sha512_update, _final, g6he_sha256_update,       *)
(* _final)                                                                 *)
(***************************************************************************)
THEOREM StreamIsStandard ==
  ASSUME HashSizes, NEW k \in Nat, NEW m \in Nat
  PROVE  final(update(update(init, Piece(0, k)), Piece(k, m))) = Reference(k + m)
<1> DEFINE c == update(init, Piece(0, k))
<1>1. Held(c, k)
  BY FirstPieceHeld
<1> HIDE DEF c
<1>2. Held(update(c, Piece(k, m)), k + m)
  BY <1>1, PiecesHeld
<1>3. final(update(c, Piece(k, m))) = Reference(k + m)
  BY <1>2, FinalIs DEF Held
<1> QED
  BY <1>3 DEF c

(***************************************************************************)
(* So it is for a message in one piece, as the image check feeds it.       *)
(* (g6he_sha512, g6he_sha256)                                              *)
(***************************************************************************)
THEOREM DigestIsStandard ==
  ASSUME HashSizes, NEW n \in Nat
  PROVE  digest(n) = Reference(n)
BY FirstPieceHeld, FinalIs DEF Held, digest
=============================================================================
