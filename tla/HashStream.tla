----------------------------- MODULE HashStream -----------------------------
(***************************************************************************)
(* The streaming part of the digests (g6he_sha512.c; g6he_sha256.c is the  *)
(* same code with other sizes): a message fed in pieces is cut into blocks, *)
(* and closed with the padding of FIPS 180-4.                              *)
(*                                                                         *)
(* The n-th byte of a message stands for its value, so a byte lost, doubled *)
(* or moved shows, and the chaining state is the sequence of the blocks     *)
(* compressed so far: two digests are equal iff they are of the same blocks. *)
(***************************************************************************)
EXTENDS Integers, Sequences

CONSTANTS
  BlockSize,   \* 128 bytes; 64 for SHA-256
  LengthSize   \* 16 bytes; 8 for SHA-256

HashSizes ==
  BlockSize \in Nat /\ LengthSize \in Nat /\ 0 < LengthSize /\ LengthSize < BlockSize

PadLimit == BlockSize - LengthSize
-----------------------------------------------------------------------------
Stale == <<"stale", 0>>  \* what the buffer held before
Stop == <<"stop", 0>>    \* 0x80
Zero == <<"zero", 0>>
Data(i) == <<"data", i>>
LengthByte(n, j) == <<"length", n, j>>  \* byte j of the length of n bytes in bits

\* Bytes n + 1 to n + m of a message.
Piece(n, m) == [i \in 1..m |-> Data(n + i)]

init == [blocks |-> <<>>, total_len |-> 0,
         buffer |-> [j \in 1..BlockSize |-> Stale], buffer_len |-> 0]

\* bytes written into buffer behind its first `at'
Fill(buffer, at, bytes) ==
  [j \in 1..BlockSize |-> IF at < j /\ j =< at + Len(bytes) THEN bytes[j - at]
                          ELSE buffer[j]]
Zeros(n) == [i \in 1..n |-> Zero]

process_block(blocks, block) == Append(blocks, block)

\* What of the piece tops the buffer up; nothing while that is empty.
Take(ctx, bytes) ==
  IF ctx.buffer_len = 0 THEN 0
  ELSE IF Len(bytes) < BlockSize - ctx.buffer_len THEN Len(bytes)
  ELSE BlockSize - ctx.buffer_len

\* The whole blocks of a piece from byte i + 1 on go past the buffer.
Whole(bytes, i) == (Len(bytes) - i) \div BlockSize
WholeBlocks(bytes, i) ==
  [b \in 1..Whole(bytes, i) |->
     [j \in 1..BlockSize |-> bytes[i + (b - 1) * BlockSize + j]]]

update(ctx, bytes) ==
  LET i == Take(ctx, bytes)
      topped == Fill(ctx.buffer, ctx.buffer_len, SubSeq(bytes, 1, i))
      full == ctx.buffer_len + i = BlockSize
      kept == IF full THEN 0 ELSE ctx.buffer_len + i
      rest == SubSeq(bytes, i + Whole(bytes, i) * BlockSize + 1, Len(bytes))
  IN [blocks |-> (IF full THEN process_block(ctx.blocks, topped) ELSE ctx.blocks)
                   \o WholeBlocks(bytes, i),
      total_len |-> ctx.total_len + Len(bytes),
      buffer |-> Fill(topped, kept, rest),
      buffer_len |-> kept + Len(rest)]

\* The stop byte fits in any buffer; the length only in one not past PadLimit.
NeedsBlock_OffByOne(n) == n >= PadLimit  \* a defect: a block too many
NeedsBlock(n) == n > PadLimit
Closing(buffer, n, len) ==
  Fill(Fill(buffer, n, Zeros(PadLimit - n)), PadLimit,
       [j \in 1..LengthSize |-> LengthByte(len, j)])

final(ctx) ==
  LET n == ctx.buffer_len + 1
      stopped == Fill(ctx.buffer, ctx.buffer_len, <<Stop>>)
      zeroed == Fill(stopped, n, Zeros(BlockSize - n))
  IN IF NeedsBlock(n)
     THEN process_block(process_block(ctx.blocks, zeroed),
                        Closing(zeroed, 0, ctx.total_len))
     ELSE process_block(ctx.blocks, Closing(stopped, n, ctx.total_len))

\* The digest of a message of n bytes, in one piece.
digest(n) == final(update(init, Piece(0, n)))
-----------------------------------------------------------------------------
(***************************************************************************)
(* The reference: the message, a stop byte, as few zeros as make the whole *)
(* a number of blocks, and the length; then cut into blocks.               *)
(***************************************************************************)
PaddedBlocks(n) == (n + LengthSize) \div BlockSize + 1

PaddedByte(n, i) ==
  LET lengthAt == PaddedBlocks(n) * BlockSize - LengthSize
  IN IF i =< n THEN Data(i)
     ELSE IF i = n + 1 THEN Stop
     ELSE IF i =< lengthAt THEN Zero ELSE LengthByte(n, i - lengthAt)

Reference(n) ==
  [b \in 1..PaddedBlocks(n) |->
     [j \in 1..BlockSize |-> PaddedByte(n, (b - 1) * BlockSize + j)]]
=============================================================================
