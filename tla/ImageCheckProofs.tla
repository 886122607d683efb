--------------------------- MODULE ImageCheckProofs ---------------------------
(***************************************************************************)
(* Proofs about ImageCheck, for any sizes, fields and files: what is read, *)
(* that the digests are the standard, that firmware and tool agree, what   *)
(* an accepted file holds, and the order of two versions.                  *)
(***************************************************************************)
EXTENDS ImageCheck, SumTheorems, TLAPS

P512 == INSTANCE HashStreamProofs WITH BlockSize <- BlockSize512, LengthSize <- LengthSize512
P256 == INSTANCE HashStreamProofs WITH BlockSize <- BlockSize256, LengthSize <- LengthSize256
-----------------------------------------------------------------------------
(***************************************************************************)
(* The digests.  P512 and Sha512 are two instances of the same definitions, *)
(* which are equal one by one.                                             *)
(***************************************************************************)
LEMMA Stream512 ==
  ASSUME NEW k \in Nat, NEW m \in Nat
  PROVE  /\ Sha512!final(Sha512!update(Sha512!update(Sha512!init, Sha512!Piece(0, k)),
                                   Sha512!Piece(k, m))) = Sha512!Reference(k + m)
         /\ Sha512!digest(m) = Sha512!Reference(m)
<1>1. P512!HashSizes
  BY ImageCheckAssumption DEF Sha512!HashSizes, P512!HashSizes
<1>2. /\ P512!final(P512!update(P512!update(P512!init, P512!Piece(0, k)), P512!Piece(k, m)))
           = P512!Reference(k + m)
      /\ P512!digest(m) = P512!Reference(m)
  BY <1>1, P512!StreamIsStandard, P512!DigestIsStandard
<1>3. /\ P512!PadLimit = Sha512!PadLimit /\ P512!Stale = Sha512!Stale
      /\ P512!Stop = Sha512!Stop /\ P512!Zero = Sha512!Zero
  BY DEF P512!PadLimit, Sha512!PadLimit, P512!Zero, Sha512!Zero, P512!Stale, Sha512!Stale,
         P512!Stop, Sha512!Stop
<1>4. ASSUME NEW a, NEW b PROVE P512!Piece(a, b) = Sha512!Piece(a, b)
  BY DEF P512!Piece, Sha512!Piece, P512!Data, Sha512!Data
<1>5. ASSUME NEW a, NEW b, NEW c PROVE P512!Fill(a, b, c) = Sha512!Fill(a, b, c)
  BY DEF P512!Fill, Sha512!Fill
<1>6. ASSUME NEW a PROVE P512!Zeros(a) = Sha512!Zeros(a)
  BY <1>3 DEF P512!Zeros, Sha512!Zeros
<1>7. ASSUME NEW a, NEW b PROVE P512!Take(a, b) = Sha512!Take(a, b)
  BY DEF P512!Take, Sha512!Take
<1>8. ASSUME NEW a, NEW b
      PROVE  P512!Whole(a, b) = Sha512!Whole(a, b) /\ P512!WholeBlocks(a, b) = Sha512!WholeBlocks(a, b)
  BY DEF P512!Whole, Sha512!Whole, P512!WholeBlocks, Sha512!WholeBlocks
<1>9. ASSUME NEW a, NEW b PROVE P512!update(a, b) = Sha512!update(a, b)
  BY <1>5, <1>7, <1>8 DEF P512!update, Sha512!update, P512!process_block, Sha512!process_block
<1>10. ASSUME NEW a, NEW b, NEW c PROVE P512!Closing(a, b, c) = Sha512!Closing(a, b, c)
  BY <1>3, <1>5, <1>6 DEF P512!Closing, Sha512!Closing, P512!LengthByte, Sha512!LengthByte
<1>11. ASSUME NEW a PROVE P512!final(a) = Sha512!final(a)
  BY <1>3, <1>5, <1>6, <1>10 DEF P512!final, Sha512!final, P512!process_block,
     Sha512!process_block, P512!NeedsBlock, Sha512!NeedsBlock
<1>12. P512!init = Sha512!init
  BY <1>3 DEF P512!init, Sha512!init
<1>13. P512!digest(m) = Sha512!digest(m)
  BY <1>4, <1>9, <1>11, <1>12 DEF P512!digest, Sha512!digest
<1>14. ASSUME NEW n PROVE P512!Reference(n) = Sha512!Reference(n)
  BY <1>3 DEF P512!Reference, Sha512!Reference, P512!PaddedBlocks, Sha512!PaddedBlocks,
     P512!PaddedByte, Sha512!PaddedByte, P512!Data, Sha512!Data, P512!LengthByte, Sha512!LengthByte
<1>15. P512!final(P512!update(P512!update(P512!init, P512!Piece(0, k)), P512!Piece(k, m)))
         = Sha512!final(Sha512!update(Sha512!update(Sha512!init, Sha512!Piece(0, k)), Sha512!Piece(k, m)))
  BY <1>4, <1>9, <1>11, <1>12
<1> QED
  BY <1>2, <1>13, <1>14, <1>15

LEMMA Stream256 ==
  ASSUME NEW k \in Nat, NEW m \in Nat
  PROVE  /\ Sha256!final(Sha256!update(Sha256!update(Sha256!init, Sha256!Piece(0, k)),
                                   Sha256!Piece(k, m))) = Sha256!Reference(k + m)
         /\ Sha256!digest(m) = Sha256!Reference(m)
<1>1. P256!HashSizes
  BY ImageCheckAssumption DEF Sha256!HashSizes, P256!HashSizes
<1>2. /\ P256!final(P256!update(P256!update(P256!init, P256!Piece(0, k)), P256!Piece(k, m)))
           = P256!Reference(k + m)
      /\ P256!digest(m) = P256!Reference(m)
  BY <1>1, P256!StreamIsStandard, P256!DigestIsStandard
<1>3. /\ P256!PadLimit = Sha256!PadLimit /\ P256!Stale = Sha256!Stale
      /\ P256!Stop = Sha256!Stop /\ P256!Zero = Sha256!Zero
  BY DEF P256!PadLimit, Sha256!PadLimit, P256!Zero, Sha256!Zero, P256!Stale, Sha256!Stale,
         P256!Stop, Sha256!Stop
<1>4. ASSUME NEW a, NEW b PROVE P256!Piece(a, b) = Sha256!Piece(a, b)
  BY DEF P256!Piece, Sha256!Piece, P256!Data, Sha256!Data
<1>5. ASSUME NEW a, NEW b, NEW c PROVE P256!Fill(a, b, c) = Sha256!Fill(a, b, c)
  BY DEF P256!Fill, Sha256!Fill
<1>6. ASSUME NEW a PROVE P256!Zeros(a) = Sha256!Zeros(a)
  BY <1>3 DEF P256!Zeros, Sha256!Zeros
<1>7. ASSUME NEW a, NEW b PROVE P256!Take(a, b) = Sha256!Take(a, b)
  BY DEF P256!Take, Sha256!Take
<1>8. ASSUME NEW a, NEW b
      PROVE  P256!Whole(a, b) = Sha256!Whole(a, b) /\ P256!WholeBlocks(a, b) = Sha256!WholeBlocks(a, b)
  BY DEF P256!Whole, Sha256!Whole, P256!WholeBlocks, Sha256!WholeBlocks
<1>9. ASSUME NEW a, NEW b PROVE P256!update(a, b) = Sha256!update(a, b)
  BY <1>5, <1>7, <1>8 DEF P256!update, Sha256!update, P256!process_block, Sha256!process_block
<1>10. ASSUME NEW a, NEW b, NEW c PROVE P256!Closing(a, b, c) = Sha256!Closing(a, b, c)
  BY <1>3, <1>5, <1>6 DEF P256!Closing, Sha256!Closing, P256!LengthByte, Sha256!LengthByte
<1>11. ASSUME NEW a PROVE P256!final(a) = Sha256!final(a)
  BY <1>3, <1>5, <1>6, <1>10 DEF P256!final, Sha256!final, P256!process_block,
     Sha256!process_block, P256!NeedsBlock, Sha256!NeedsBlock
<1>12. P256!init = Sha256!init
  BY <1>3 DEF P256!init, Sha256!init
<1>13. P256!digest(m) = Sha256!digest(m)
  BY <1>4, <1>9, <1>11, <1>12 DEF P256!digest, Sha256!digest
<1>14. ASSUME NEW n PROVE P256!Reference(n) = Sha256!Reference(n)
  BY <1>3 DEF P256!Reference, Sha256!Reference, P256!PaddedBlocks, Sha256!PaddedBlocks,
     P256!PaddedByte, Sha256!PaddedByte, P256!Data, Sha256!Data, P256!LengthByte, Sha256!LengthByte
<1>15. P256!final(P256!update(P256!update(P256!init, P256!Piece(0, k)), P256!Piece(k, m)))
         = Sha256!final(Sha256!update(Sha256!update(Sha256!init, Sha256!Piece(0, k)), Sha256!Piece(k, m)))
  BY <1>4, <1>9, <1>11, <1>12
<1> QED
  BY <1>2, <1>13, <1>14, <1>15

\* Both digests of n bytes fed in two pieces.
InPiecesRight(k, n) ==
  /\ sha512_InPieces(k, n) = Sha512!Reference(n)
  /\ sha256_InPieces(k, n) = Sha256!Reference(n)

LEMMA PiecesRight ==
  ASSUME NEW n \in Nat, NEW k \in 0..n
  PROVE  InPiecesRight(k, n)
<1>1. k \in Nat /\ n - k \in Nat /\ k + (n - k) = n
  OBVIOUS
<1>2. sha512_InPieces(k, n) = Sha512!Reference(n)
  BY <1>1, Stream512 DEF sha512_InPieces
<1>3. sha256_InPieces(k, n) = Sha256!Reference(n)
  BY <1>1, Stream256 DEF sha256_InPieces, sha256_final, sha256_update
<1> QED
  BY <1>2, <1>3 DEF InPiecesRight

LEMMA DigestRight ==
  ASSUME NEW n \in Nat
  PROVE  sha512(n) = "file"
BY Stream512 DEF sha512
-----------------------------------------------------------------------------
(***************************************************************************)
(* Types, and what the firmware may still read.                            *)
(***************************************************************************)
Verdict == {Reading, "rejected", "accepted"}
Fw == [verdict : Verdict, tlv_offset : Nat, end : Nat, cursor : Nat,
       tlvs : Seq([offset : Nat, type : TlvType]), tlv_count : Nat,
       digest_count : Nat, digest_verified : BOOLEAN,
       key_hash_count : Nat, signature_count : Nat, readTo : Nat]
Tool == [verdict : Verdict, tlv_offset : Nat, expected_end : Nat, cursor : Nat,
         digest_count : Nat, verified_digest : {"none"} \cup DOMAIN DigestLength,
         key_hash_count : Nat, signature_count : Nat]

\* The TLVs recorded are as many as were counted, until the list is full.
Recording(p) == Len(p.tlvs) =< p.tlv_count /\ Len(p.tlvs) =< MaxTlvs

Typed ==
  /\ len \in FileSize /\ phase \in {"header", "area", "tlvs", "done"}
  /\ header \in [header_size : Nat, image_size : Nat]
  /\ tlvs \in Seq(Tlvs) /\ fw \in Fw /\ tool \in Tool
  /\ Recording(fw)

Phased ==
  /\ phase = "done" <=> ~Goes(fw) /\ ~Goes(tool)
  /\ phase = "header" => fw = Start /\ tool = Inspect!Begin
  /\ phase \in {"header", "area"} => tlvs = <<>>

\* The offset the firmware goes on with: its area's head is in the file, or the
\* sum that says so wrapped.
Offset(p, h, l) ==
  /\ h.header_size + VectorSize =< p.tlv_offset /\ HeaderMin =< l
  /\ p.tlv_offset + RecordHead =< l \/ AtEnd(p.tlv_offset)

\* Where it goes on in the area; after a wrap it does so in the file's header.
Cursor(p, l) ==
  /\ p.end = l /\ p.cursor =< l
  /\ AtEnd(p.tlv_offset) => p.cursor < l

Inside ==
  /\ ReadsInsideFile /\ fw.tlv_offset < Word
  /\ phase \in {"area", "tlvs"} /\ Goes(fw) => Offset(fw, header, len)
  /\ phase = "tlvs" /\ Goes(fw) => Cursor(fw, len)

IndInv == Typed /\ Phased /\ Inside

LEMMA Constants ==
  /\ Word \in Nat \ {0} /\ HeaderMin \in Nat \ {0} /\ HeaderAlign \in Nat \ {0}
  /\ RecordHead \in Nat \ {0} /\ VectorSize \in Nat /\ MaxTlvs \in Nat
  /\ SizeModulus \in Nat /\ Word =< SizeModulus /\ RecordHead =< HeaderMin
BY McuBootAssumption

LEMMA Fields ==
  /\ FileSize \subseteq Nat /\ AreaSize \subseteq Nat /\ Length \subseteq Nat
  /\ HeaderSize \subseteq Nat /\ ImageSize \subseteq Nat
  /\ \A x \in HeaderSize \cup ImageSize : x < Word
  /\ \A n \in AreaSize : n < SizeModulus
  /\ \A n \in FileSize : n + RecordHead < SizeModulus
<1>1. /\ FileSize \subseteq Nat /\ Length \subseteq Nat
      /\ HeaderSize \subseteq 0..Word - 1 /\ ImageSize \subseteq 0..Word - 1
      /\ AreaSize \subseteq 0..SizeModulus - 1
  BY ImageCheckAssumption
<1>2. ASSUME NEW n \in FileSize PROVE n + RecordHead < SizeModulus
  <2>1. n + RecordHead + 0 < SizeModulus
    BY ImageCheckAssumption
  <2> QED
    BY <1>1, <2>1, Constants
<1> QED
  BY <1>1, <1>2, Constants

LEMMA Fresh ==
  Start \in Fw /\ Inspect!Begin \in Tool /\ Start.readTo = 0 /\ Start.tlv_offset = 0
  /\ Goes(Start) /\ Goes(Inspect!Begin) /\ Len(Start.tlvs) = 0 /\ Start.tlv_count = 0
<1>1. <<>> \in Seq([offset : Nat, type : TlvType]) /\ Len(<<>>) = 0
  OBVIOUS
<1> QED
  BY <1>1 DEF Start, Inspect!Begin, Fw, Tool, Goes, Reading, Verdict

\* What an assignment to one field leaves alone.
SameBut(p, q) ==
  /\ q \in Fw /\ q.tlvs = p.tlvs /\ q.tlv_count = p.tlv_count
  /\ q.digest_count = p.digest_count /\ q.digest_verified = p.digest_verified
  /\ q.key_hash_count = p.key_hash_count /\ q.signature_count = p.signature_count

LEMMA Rejected ==
  ASSUME NEW p \in Fw
  PROVE  /\ SameBut(p, Reject(p)) /\ Reject(p).readTo = p.readTo
         /\ Reject(p).tlv_offset = p.tlv_offset
         /\ Reject(p).verdict = "rejected" /\ ~Goes(Reject(p))
BY DEF SameBut, Reject, Fw, Verdict, Goes, Reading

LEMMA ReadMore ==
  ASSUME NEW p \in Fw, NEW n \in Nat, NEW q, q = [p EXCEPT !.readTo = n]
  PROVE  /\ SameBut(p, q) /\ q.readTo = n /\ q.verdict = p.verdict
         /\ q.cursor = p.cursor /\ q.end = p.end /\ q.tlv_offset = p.tlv_offset
BY DEF SameBut, Fw

\* What stays within 32 bits does not wrap, and what wraps is refused.
LEMMA NoWrap ==
  ASSUME NEW w \in Nat \ {0}, NEW a \in Nat, NEW b \in Nat, a < w, b < w,
         a =< (a + b) % w
  PROVE  (a + b) % w = a + b
<1>1. CASE a + b < w
  BY <1>1
<1>2. CASE a + b >= w
  <2>1. (a + b) % w = a + b - w
    BY <1>2
  <2> QED
    BY <2>1
<1> QED
  BY <1>1, <1>2

\* A sum of two sizes that is a file's length, and its first term's end in the
\* file or past the sizes: it wrapped iff that did.
LEMMA SizeSum ==
  ASSUME NEW m \in Nat, NEW a \in Nat, NEW b \in Nat, NEW r \in Nat, NEW l \in Nat,
         a < m, b < m, r =< b, l < m, (a + b) % m = l
  PROVE  /\ a + r =< l => a + b = l /\ (a + r) % m = a + r
         /\ a + r >= m => (a + r) % m = a + r - m /\ a + r - m =< l
<1>1. CASE a + b < m
  <2>1. (a + b) % m = a + b
    BY <1>1
  <2>2. a + r < m /\ (a + r) % m = a + r
    BY <1>1
  <2> QED
    BY <1>1, <2>1, <2>2
<1>2. CASE a + b >= m
  <2>1. (a + b) % m = a + b - m
    BY <1>2
  <2>2. a + r >= m => (a + r) % m = a + r - m
    OBVIOUS
  <2> QED
    BY <1>2, <2>1, <2>2
<1> QED
  BY <1>1, <1>2

\* A sum of sizes that seems to lie in the file does so, or wrapped.
LEMMA SizeSeems ==
  ASSUME NEW m \in Nat \ {0}, NEW a \in Nat, NEW r \in Nat, NEW l \in Nat, (a + r) % m =< l
  PROVE  a + r =< l \/ a + r >= m
<1>1. a + r < m => (a + r) % m = a + r
  OBVIOUS
<1> QED
  BY <1>1

LEMMA HeaderParsed ==
  ASSUME NEW h \in Header, NEW l \in Nat, NEW q, q = parse_header(Start, h, l)
  PROVE  /\ q \in Fw /\ Recording(q) /\ q.readTo =< l /\ q.tlv_offset < Word
         /\ q.verdict \in {Reading, "rejected"}
         /\ Goes(q) => /\ q.tlv_offset = h.header_size + h.image_size
                       /\ Offset(q, h, l)
                       /\ header_ok(h, l) /\ HeaderMin =< l
                       /\ SameBut(Start, q) /\ q.cursor = 0 /\ q.end = 0
         /\ ~Goes(q) => ~(HeaderMin =< l /\ header_ok(h, l) /\ offset_ok(h, l))
<1> DEFINE sum == (h.header_size + h.image_size) % Word
           read == [Start EXCEPT !.readTo = HeaderMin]
           parsed == [Start EXCEPT !.readTo = HeaderMin, !.tlv_offset = sum]
           ok == header_ok(h, l) /\ offset_ok(h, l)
<1>1. /\ h.header_size \in Nat /\ h.image_size \in Nat
      /\ h.header_size < Word /\ h.image_size < Word
  BY Fields DEF Header
<1>2. sum \in Nat
  BY <1>1, Constants
<1>3. ok => /\ sum = h.header_size + h.image_size
            /\ sum + RecordHead =< l \/ AtEnd(sum)
            /\ h.header_size + VectorSize =< sum
  <2> SUFFICES ASSUME ok
               PROVE  /\ sum = h.header_size + h.image_size
                      /\ sum + RecordHead =< l \/ AtEnd(sum)
                      /\ h.header_size + VectorSize =< sum
    OBVIOUS
  <2>1. h.header_size =< sum /\ (sum + RecordHead) % SizeModulus =< l
    BY DEF offset_ok
  <2>2. sum = h.header_size + h.image_size
    BY <1>1, <2>1, NoWrap, Constants
  <2>3. h.image_size >= VectorSize
    BY DEF header_ok
  <2> HIDE DEF sum, ok
  <2>4. sum + RecordHead =< l \/ AtEnd(sum)
    BY <1>2, <2>1, SizeSeems, Constants DEF AtEnd
  <2> QED
    BY <1>1, <1>2, <2>2, <2>3, <2>4, Constants
<1>0. sum < Word
  BY <1>1, Constants
<1> HIDE DEF sum
<1>4. CASE l < HeaderMin
  <2>1. q = Reject(Start)
    BY <1>4 DEF parse_header
  <2>2. /\ q \in Fw /\ q.tlvs = Start.tlvs /\ q.tlv_count = 0 /\ q.readTo = 0
        /\ q.tlv_offset = 0 /\ q.verdict = "rejected" /\ ~Goes(q)
    BY <2>1, Fresh, Rejected DEF SameBut
  <2> QED
    BY <1>4, <2>2, Fresh, Constants DEF Recording
<1>5. CASE ~(l < HeaderMin) /\ ~ok
  <2>1. q = Reject(read)
    BY <1>5 DEF parse_header, Unless
  <2>2. SameBut(Start, read) /\ read.readTo = HeaderMin /\ read.tlv_offset = 0
    BY Fresh, ReadMore, Constants
  <2>3. /\ q \in Fw /\ q.tlvs = Start.tlvs /\ q.tlv_count = 0 /\ q.readTo = HeaderMin
        /\ q.tlv_offset = 0 /\ q.verdict = "rejected" /\ ~Goes(q)
    BY <2>1, <2>2, Fresh, Rejected DEF SameBut
  <2> HIDE DEF read, parsed
  <2> QED
    BY <1>5, <2>3, Fresh, Constants DEF Recording
<1>6. CASE ~(l < HeaderMin) /\ ok
  <2>1. q = [Start EXCEPT !.readTo = HeaderMin, !.tlv_offset = h.header_size + h.image_size]
    BY <1>3, <1>6 DEF parse_header, Unless, sum
  <2>2. h.header_size + h.image_size \in Nat
    BY <1>1
  <2>3. /\ q \in Fw /\ q.tlvs = Start.tlvs /\ q.tlv_count = 0 /\ q.readTo = HeaderMin
        /\ q.verdict = Reading /\ q.tlv_offset = h.header_size + h.image_size
        /\ SameBut(Start, q) /\ q.cursor = 0 /\ q.end = 0
    BY <2>1, <2>2, Fresh, Constants DEF Fw, Start, SameBut
  <2> HIDE DEF read, parsed
  <2> QED
    BY <1>0, <1>3, <1>6, <2>3, Fresh, Constants DEF Goes, Reading, Recording, Offset
<1> QED
  BY <1>4, <1>5, <1>6

LEMMA AreaParsed ==
  ASSUME NEW p \in Fw, Goes(p), NEW area \in Area, NEW l \in Nat, l < SizeModulus,
         p.tlv_offset < Word, p.tlv_offset + RecordHead =< l \/ AtEnd(p.tlv_offset),
         HeaderMin =< l, NEW q, q = parse_area(p, area, l)
  PROVE  /\ q \in Fw /\ q.tlvs = p.tlvs /\ q.tlv_count = p.tlv_count
         /\ q.tlv_offset = p.tlv_offset
         /\ q.readTo =< l \/ AtEnd(q.tlv_offset)
         /\ q.verdict \in {Reading, "rejected"}
         /\ Goes(q) => /\ Cursor(q, l) /\ area_ok(p, area, l) /\ SameBut(p, q)
                       /\ ~AtEnd(p.tlv_offset) => q.cursor = p.tlv_offset + RecordHead
                                                  /\ p.tlv_offset + area.total = l
         /\ ~Goes(q) => ~area_ok(p, area, l)
<1> DEFINE read == [p EXCEPT !.readTo = p.tlv_offset + RecordHead]
<1>0. p.tlv_offset \in Nat /\ area.total \in AreaSize
  BY DEF Fw, Area
<1>1. p.tlv_offset \in Nat /\ area.total \in Nat /\ p.tlv_offset + RecordHead \in Nat
  <2>1. area.total \in Nat
    BY <1>0, Fields
  <2> QED
    BY <1>0, <2>1, Constants
<1>2. CASE ~area_ok(p, area, l)
  <2>1. q = Reject(read)
    BY <1>2 DEF parse_area, Unless
  <2>2. SameBut(p, read) /\ read.readTo = p.tlv_offset + RecordHead /\ read.tlv_offset = p.tlv_offset
    BY <1>1, ReadMore
  <2>3. /\ q \in Fw /\ q.tlvs = p.tlvs /\ q.tlv_count = p.tlv_count
        /\ q.readTo = p.tlv_offset + RecordHead /\ q.tlv_offset = p.tlv_offset
        /\ q.verdict = "rejected" /\ ~Goes(q)
    BY <2>1, <2>2, Rejected DEF SameBut
  <2> HIDE DEF read
  <2> QED
    BY <1>2, <2>3
<1>3. CASE area_ok(p, area, l)
  <2> DEFINE at == (p.tlv_offset + RecordHead) % SizeModulus
  <2>1. (p.tlv_offset + area.total) % SizeModulus = l /\ RecordHead =< area.total
    BY <1>3 DEF area_ok
  <2>2. at \in Nat
    BY <1>1, Constants
  <2>3. /\ ~AtEnd(p.tlv_offset) => p.tlv_offset + area.total = l /\ at = p.tlv_offset + RecordHead
        /\ AtEnd(p.tlv_offset) => at = p.tlv_offset + RecordHead - SizeModulus
    <3>1. p.tlv_offset < SizeModulus /\ area.total < SizeModulus
      BY <1>0, <1>1, Fields, Constants
    <3>2. /\ p.tlv_offset + RecordHead =< l =>
                p.tlv_offset + area.total = l /\ at = p.tlv_offset + RecordHead
          /\ p.tlv_offset + RecordHead >= SizeModulus =>
                at = p.tlv_offset + RecordHead - SizeModulus
      <4>1. SizeModulus \in Nat /\ RecordHead \in Nat
        BY Constants
      <4> DEFINE a == p.tlv_offset
                 b == area.total
      <4>2. /\ a \in Nat /\ b \in Nat /\ a < SizeModulus /\ b < SizeModulus
            /\ RecordHead =< b /\ (a + b) % SizeModulus = l
        BY <1>1, <2>1, <3>1
      <4> HIDE DEF a, b
      <4>3. /\ a + RecordHead =< l => a + b = l /\ (a + RecordHead) % SizeModulus = a + RecordHead
            /\ a + RecordHead >= SizeModulus =>
                 (a + RecordHead) % SizeModulus = a + RecordHead - SizeModulus
        BY <4>1, <4>2, SizeSum
      <4> QED
        BY <4>3 DEF a, b
    <3> QED
      BY <3>2 DEF AtEnd
  <2>4. at =< l /\ (AtEnd(p.tlv_offset) => at < l)
    <3>1. CASE AtEnd(p.tlv_offset)
      <4>1. at < RecordHead
        BY <1>1, <2>3, <3>1, Constants
      <4> HIDE DEF at
      <4> QED
        BY <2>2, <4>1, Constants
    <3>2. CASE ~AtEnd(p.tlv_offset)
      <4> HIDE DEF at
      <4> QED
        BY <2>3, <3>2
    <3> QED
      BY <3>1, <3>2
  <2>5. q = [p EXCEPT !.readTo = p.tlv_offset + RecordHead, !.end = l, !.cursor = at]
    BY <1>3, <2>1 DEF parse_area, Unless
  <2> HIDE DEF at
  <2>6. /\ q \in Fw /\ q.tlvs = p.tlvs /\ q.tlv_count = p.tlv_count
        /\ q.readTo = p.tlv_offset + RecordHead
        /\ q.end = l /\ q.cursor = at /\ q.verdict = p.verdict
        /\ SameBut(p, q) /\ q.tlv_offset = p.tlv_offset
    BY <1>1, <2>2, <2>5 DEF Fw, SameBut
  <2> QED
    BY <1>3, <2>3, <2>4, <2>6 DEF Goes, Reading, Cursor
<1> QED
  BY <1>2, <1>3

LEMMA TlvTyped ==
  ASSUME NEW tlv \in Tlvs
  PROVE  tlv.length \in Nat /\ tlv.type \in TlvType
<1>1. tlv.length \in Length /\ tlv.type \in TlvType
  BY DEF Tlvs
<1> QED
  BY <1>1, Fields

LEMMA KnownParsed ==
  ASSUME NEW p \in Fw, Goes(p), NEW tlv \in Tlvs, NEW c, NEW q, q = known_tlv(p, tlv, c)
  PROVE  /\ q \in Fw /\ q.verdict \in {Reading, "rejected"}
         /\ q.tlvs = p.tlvs /\ q.tlv_count = p.tlv_count /\ q.readTo = p.readTo
         /\ q.tlv_offset = p.tlv_offset /\ q.end = p.end /\ q.cursor = p.cursor
<1>1. CASE q = p
  BY <1>1 DEF Goes
<1>2. CASE q = Reject(p)
  BY <1>2 DEF Reject, Fw, Verdict
<1>3. CASE q = [p EXCEPT !.digest_count = @ + 1,
                         !.digest_verified = @ \/ tlv.value = c]
  <2>1. p.digest_count + 1 \in Nat /\ (p.digest_verified \/ tlv.value = c) \in BOOLEAN
    BY DEF Fw
  <2> QED
    BY <1>3, <2>1 DEF Fw, Goes, Verdict
<1>4. CASE q = [p EXCEPT !.key_hash_count = @ + 1]
  <2>1. p.key_hash_count + 1 \in Nat
    BY DEF Fw
  <2> QED
    BY <1>4, <2>1 DEF Fw, Goes, Verdict
<1>5. CASE q = [p EXCEPT !.signature_count = @ + 1]
  <2>1. p.signature_count + 1 \in Nat
    BY DEF Fw
  <2> QED
    BY <1>5, <2>1 DEF Fw, Goes, Verdict
<1>6. \/ q = p \/ q = Reject(p)
      \/ q = [p EXCEPT !.digest_count = @ + 1, !.digest_verified = @ \/ tlv.value = c]
      \/ q = [p EXCEPT !.key_hash_count = @ + 1]
      \/ q = [p EXCEPT !.signature_count = @ + 1]
  <2>1. CASE tlv.type = "sha512"
    <3>1. q = digest_tlv(p, tlv, c)
      BY <2>1 DEF known_tlv, SignatureType
    <3> QED
      BY <3>1 DEF digest_tlv, Unless
  <2>2. CASE tlv.type \in {"sha256", "sha384"}
    BY <2>2 DEF known_tlv, SignatureType
  <2>3. CASE tlv.type = "key_hash"
    <3>1. q = key_hash_tlv(p, tlv)
      BY <2>3 DEF known_tlv, SignatureType
    <3> QED
      BY <3>1 DEF key_hash_tlv, Unless
  <2>4. CASE tlv.type \in SignatureType
    <3>1. q = signature_tlv(p, tlv)
      BY <2>4 DEF known_tlv, SignatureType
    <3> QED
      BY <3>1 DEF signature_tlv, Unless
  <2>5. CASE tlv.type \notin {"sha512", "sha256", "sha384", "key_hash"} \cup SignatureType
    BY <2>5 DEF known_tlv, SignatureType
  <2> QED
    BY <2>1, <2>2, <2>3, <2>4, <2>5
<1> QED
  BY <1>1, <1>2, <1>3, <1>4, <1>5, <1>6

LEMMA Recorded ==
  ASSUME NEW p \in Fw, Recording(p), NEW tlv \in Tlvs
  PROVE  /\ record_tlv(p, tlv) \in Seq([offset : Nat, type : TlvType])
         /\ Len(record_tlv(p, tlv)) =< p.tlv_count + 1
         /\ Len(record_tlv(p, tlv)) =< MaxTlvs
<1>1. /\ p.tlvs \in Seq([offset : Nat, type : TlvType]) /\ p.tlv_count \in Nat
      /\ p.cursor \in Nat
  BY DEF Fw
<1>2. [offset |-> p.cursor, type |-> tlv.type] \in [offset : Nat, type : TlvType]
  BY <1>1, TlvTyped
<1> DEFINE r == [offset |-> p.cursor, type |-> tlv.type]
<1>3. /\ Append(p.tlvs, r) \in Seq([offset : Nat, type : TlvType])
      /\ Len(Append(p.tlvs, r)) = Len(p.tlvs) + 1 /\ Len(p.tlvs) \in Nat
  BY <1>1, <1>2
<1>4. record_tlv(p, tlv) = IF p.tlv_count < MaxTlvs THEN Append(p.tlvs, r) ELSE p.tlvs
  BY DEF record_tlv
<1> HIDE DEF r
<1>5. CASE p.tlv_count < MaxTlvs
  BY <1>1, <1>3, <1>4, <1>5, Constants DEF Recording
<1>6. CASE ~(p.tlv_count < MaxTlvs)
  <2>1. Len(p.tlvs) \in Nat
    BY <1>1
  <2> QED
    BY <1>1, <1>4, <1>6, <2>1, Constants DEF Recording
<1> QED
  BY <1>5, <1>6

LEMMA TlvParsed ==
  ASSUME NEW p \in Fw, Goes(p), Recording(p),
         NEW tlv \in Tlvs, NEW c, NEW q, q = parse_tlv(p, tlv, c)
  PROVE  /\ q \in Fw /\ q.verdict \in {Reading, "rejected"}
         /\ Recording(q)
         /\ q.readTo =< p.end \/ q.readTo = p.readTo
         /\ q.tlv_offset = p.tlv_offset
         /\ Goes(q) => q.end = p.end /\ q.cursor =< p.end /\ tlv.pad = 0
<1> DEFINE started == [p EXCEPT !.readTo = p.cursor + RecordHead]
           taken == [started EXCEPT !.tlvs = record_tlv(p, tlv),
                                    !.tlv_count = @ + 1,
                                    !.cursor = value_end(p, tlv),
                                    !.readTo = value_end(p, tlv)]
<1>1. p.cursor \in Nat /\ p.end \in Nat /\ p.tlv_count \in Nat
      /\ p.tlvs \in Seq([offset : Nat, type : TlvType])
  BY DEF Fw
<1>2. p.cursor + RecordHead \in Nat /\ value_end(p, tlv) \in Nat
  BY <1>1, TlvTyped, Constants DEF value_end
<1>3. /\ SameBut(p, started) /\ started.readTo = p.cursor + RecordHead /\ started.end = p.end
      /\ started.tlv_offset = p.tlv_offset
  BY <1>2, ReadMore
<1>4. CASE p.cursor + RecordHead > p.end
  <2>1. q = Reject(p)
    BY <1>4 DEF parse_tlv
  <2> QED
    BY <2>1, Rejected DEF SameBut, Recording
<1>5. CASE ~(p.cursor + RecordHead > p.end) /\ ~(tlv.pad = 0 /\ tlv_fits(p, tlv))
  <2>1. q = Reject(started)
    BY <1>5 DEF parse_tlv, Unless
  <2>2. /\ q \in Fw /\ q.verdict = "rejected" /\ ~Goes(q)
        /\ q.tlvs = p.tlvs /\ q.tlv_count = p.tlv_count
        /\ q.readTo = p.cursor + RecordHead /\ q.tlv_offset = p.tlv_offset
    BY <1>3, <2>1, Rejected DEF SameBut
  <2> HIDE DEF started
  <2> QED
    BY <1>1, <1>2, <1>5, <2>2 DEF Recording
<1>6. CASE ~(p.cursor + RecordHead > p.end) /\ tlv.pad = 0 /\ tlv_fits(p, tlv)
  <2>1. q = known_tlv(taken, tlv, c)
    BY <1>6 DEF parse_tlv, Unless
  <2>2. /\ record_tlv(p, tlv) \in Seq([offset : Nat, type : TlvType])
        /\ Len(record_tlv(p, tlv)) =< p.tlv_count + 1
        /\ Len(record_tlv(p, tlv)) =< MaxTlvs
    BY Recorded
  <2>3. /\ taken \in Fw /\ Goes(taken) /\ taken.tlvs = record_tlv(p, tlv)
        /\ taken.tlv_count = p.tlv_count + 1
        /\ taken.cursor = value_end(p, tlv) /\ taken.readTo = value_end(p, tlv)
        /\ taken.end = p.end /\ taken.tlv_offset = p.tlv_offset
    <3>1. p.tlv_count + 1 \in Nat
      BY <1>1
    <3>2. taken = [p EXCEPT !.readTo = value_end(p, tlv), !.tlvs = record_tlv(p, tlv),
                            !.tlv_count = p.tlv_count + 1, !.cursor = value_end(p, tlv)]
      BY <1>2 DEF Fw
    <3> QED
      BY <1>1, <1>2, <2>2, <3>1, <3>2 DEF Fw, Goes
  <2>4. value_end(p, tlv) =< p.end
    BY <1>6 DEF tlv_fits
  <2> HIDE DEF taken, started
  <2> QED
    BY <1>6, <2>1, <2>2, <2>3, <2>4, KnownParsed DEF Recording
<1> QED
  BY <1>4, <1>5, <1>6

LEMMA EndParsed ==
  ASSUME NEW p \in Fw, Recording(p),
         NEW h \in [header_size : Nat, image_size : Nat],
         h.header_size + VectorSize =< p.tlv_offset,
         NEW v, NEW q, q = parse_end(p, h, v)
  PROVE  /\ q \in Fw /\ Recording(q) /\ q.tlv_offset = p.tlv_offset
         /\ q.readTo =< p.tlv_offset \/ q.readTo = p.readTo
         /\ q.verdict = IF counts_ok(p) /\ vectors_ok(v) THEN "accepted" ELSE "rejected"
<1> DEFINE read == [p EXCEPT !.readTo = h.header_size + VectorSize]
<1>1. h.header_size + VectorSize \in Nat
  <2>1. h.header_size \in Nat
    OBVIOUS
  <2> QED
    BY <2>1, Constants
<1>0. p.tlv_offset \in Nat /\ ~(h.header_size + VectorSize > p.tlv_offset)
  BY <1>1 DEF Fw
<1>2. /\ SameBut(p, read) /\ read.readTo = h.header_size + VectorSize
      /\ read.tlv_offset = p.tlv_offset
  BY <1>1, ReadMore
<1>3. CASE ~counts_ok(p)
  <2>1. q = Reject(p)
    BY <1>3 DEF parse_end
  <2> QED
    BY <1>3, <2>1, Rejected DEF SameBut, Recording
<1>4. CASE counts_ok(p) /\ ~vectors_ok(v)
  <2>1. q = Reject(read)
    BY <1>0, <1>4 DEF parse_end, Unless
  <2> HIDE DEF read
  <2> QED
    BY <1>2, <1>4, <2>1, Rejected DEF SameBut, Recording
<1>5. CASE counts_ok(p) /\ vectors_ok(v)
  <2>1. q = [read EXCEPT !.verdict = "accepted"]
    BY <1>0, <1>5 DEF parse_end, Unless
  <2>2. read \in Fw
    BY <1>2 DEF SameBut
  <2>3. /\ q \in Fw /\ q.tlvs = read.tlvs /\ q.tlv_count = read.tlv_count
        /\ q.readTo = read.readTo /\ q.tlv_offset = read.tlv_offset /\ q.verdict = "accepted"
    <3> HIDE DEF read
    <3> QED
      BY <2>1, <2>2 DEF Fw, Verdict
  <2> HIDE DEF read
  <2> QED
    BY <1>2, <1>5, <2>3 DEF SameBut, Recording
<1> QED
  BY <1>3, <1>4, <1>5
-----------------------------------------------------------------------------
\* The tool's types.
LEMMA Raised ==
  ASSUME NEW p \in Tool
  PROVE  Inspect!Raise(p) \in Tool /\ Inspect!Raise(p).verdict = "rejected"
BY DEF Inspect!Raise, Tool, Verdict

LEMMA ToolHeader ==
  ASSUME NEW p \in Tool, Goes(p), NEW h \in Header, NEW l, NEW q,
         q = Inspect!inspect_header(p, h, l)
  PROVE  q \in Tool /\ q.verdict \in {Reading, "rejected"}
<1>1. h.header_size \in HeaderSize /\ h.image_size \in ImageSize
  BY DEF Header
<1>2. h.header_size + h.image_size \in Nat
  <2>1. h.header_size \in Nat /\ h.image_size \in Nat
    BY <1>1, Fields
  <2> QED
    BY <2>1
<1>3. \/ q = Inspect!Raise(p) \/ q = [p EXCEPT !.tlv_offset = h.header_size + h.image_size]
  BY DEF Inspect!inspect_header, Inspect!Checked
<1>4. CASE q = [p EXCEPT !.tlv_offset = h.header_size + h.image_size]
  BY <1>2, <1>4 DEF Tool, Goes
<1> QED
  BY <1>3, <1>4, Raised

LEMMA ToolArea ==
  ASSUME NEW p \in Tool, Goes(p), NEW area \in Area, NEW l \in Nat, NEW q,
         q = Inspect!inspect_area(p, area, l)
  PROVE  q \in Tool /\ q.verdict \in {Reading, "rejected"}
<1>1. p.tlv_offset + RecordHead \in Nat
  <2>1. p.tlv_offset \in Nat
    BY DEF Tool
  <2> QED
    BY <2>1, Constants
<1>2. \/ q = Inspect!Raise(p)
      \/ q = [p EXCEPT !.cursor = p.tlv_offset + RecordHead, !.expected_end = l]
  BY DEF Inspect!inspect_area, Inspect!Checked
<1>3. CASE q = [p EXCEPT !.cursor = p.tlv_offset + RecordHead, !.expected_end = l]
  BY <1>1, <1>3 DEF Tool, Goes
<1> QED
  BY <1>2, <1>3, Raised

\* What the tool makes of a TLV it knows.
ToolKnown(p, q, tlv, c) ==
  \/ q = p \/ q = Inspect!Raise(p)
  \/ /\ tlv.type \in DOMAIN DigestLength
     /\ q = [p EXCEPT !.digest_count = @ + 1,
                      !.verified_digest = IF tlv.value = c THEN tlv.type ELSE @]
  \/ q = [p EXCEPT !.key_hash_count = @ + 1]
  \/ q = [p EXCEPT !.signature_count = @ + 1]

LEMMA KnownInspected ==
  ASSUME NEW p, NEW tlv, NEW c
  PROVE  ToolKnown(p, Inspect!inspect_known(p, tlv, c), tlv, c)
<1> DEFINE q == Inspect!inspect_known(p, tlv, c)
<1>1. DOMAIN DigestLength = {"sha256", "sha384", "sha512"}
  BY McuBootAssumption
<1>2. CASE tlv.type \in DOMAIN DigestLength
  BY <1>1, <1>2 DEF Inspect!inspect_known, Inspect!DigestTypes, Inspect!SignatureTypes,
     Inspect!Checked, ToolKnown
<1>3. CASE tlv.type = "key_hash"
  BY <1>1, <1>3 DEF Inspect!inspect_known, Inspect!DigestTypes, Inspect!SignatureTypes,
     Inspect!Checked, ToolKnown
<1>4. CASE tlv.type \in Inspect!SignatureTypes
  BY <1>1, <1>4 DEF Inspect!inspect_known, Inspect!DigestTypes, Inspect!SignatureTypes,
     Inspect!Checked, ToolKnown
<1>5. CASE tlv.type \notin DOMAIN DigestLength \cup {"key_hash"} \cup Inspect!SignatureTypes
  BY <1>5 DEF Inspect!inspect_known, Inspect!DigestTypes, ToolKnown
<1> QED
  BY <1>2, <1>3, <1>4, <1>5

LEMMA ToolTlv ==
  ASSUME NEW p \in Tool, Goes(p), NEW tlv \in Tlvs, NEW c, NEW q,
         q = Inspect!inspect_tlv(p, tlv, c)
  PROVE  q \in Tool /\ q.verdict \in {Reading, "rejected"}
<1> DEFINE at == p.cursor + RecordHead + tlv.length
           r == [p EXCEPT !.cursor = at]
<1>1. at \in Nat
  <2>1. p.cursor \in Nat
    BY DEF Tool
  <2> QED
    BY <2>1, TlvTyped, Constants
<1>2. r \in Tool /\ Goes(r)
  BY <1>1 DEF Tool, Goes
<1>3. q = Inspect!Raise(p) \/ q = Inspect!inspect_known(r, tlv, c)
  BY DEF Inspect!inspect_tlv, Inspect!Checked
<1> HIDE DEF r
<1>4. CASE q = r
  BY <1>2, <1>4 DEF Goes
<1>5. CASE q = [r EXCEPT !.digest_count = @ + 1,
                         !.verified_digest = IF tlv.value = c THEN tlv.type ELSE @]
             /\ tlv.type \in DOMAIN DigestLength
  <2>1. r.digest_count + 1 \in Nat
    BY <1>2 DEF Tool
  <2>2. (IF tlv.value = c THEN tlv.type ELSE r.verified_digest)
          \in {"none"} \cup DOMAIN DigestLength
    BY <1>2, <1>5 DEF Tool
  <2> QED
    BY <1>2, <1>5, <2>1, <2>2 DEF Tool, Goes
<1>6. CASE q = [r EXCEPT !.key_hash_count = @ + 1]
  <2>1. r.key_hash_count + 1 \in Nat
    BY <1>2 DEF Tool
  <2> QED
    BY <1>2, <1>6, <2>1 DEF Tool, Goes
<1>7. CASE q = [r EXCEPT !.signature_count = @ + 1]
  <2>1. r.signature_count + 1 \in Nat
    BY <1>2 DEF Tool
  <2> QED
    BY <1>2, <1>7, <2>1 DEF Tool, Goes
<1>8. CASE q = Inspect!Raise(p)
  BY <1>8, Raised
<1>9. CASE q = Inspect!Raise(r)
  BY <1>2, <1>9, Raised
<1>10. q = Inspect!inspect_known(r, tlv, c) => ToolKnown(r, q, tlv, c)
  BY KnownInspected
<1> QED
  BY <1>3, <1>4, <1>5, <1>6, <1>7, <1>8, <1>9, <1>10 DEF ToolKnown

LEMMA ToolEnd ==
  ASSUME NEW p \in Tool, NEW v, NEW q, q = Inspect!inspect_end(p, v)
  PROVE  q \in Tool /\ q.verdict \in {"accepted", "rejected"}
<1>1. q = Inspect!Raise(p) \/ q = [p EXCEPT !.verdict = "accepted"]
  BY DEF Inspect!inspect_end, Inspect!Checked
<1>2. CASE q = [p EXCEPT !.verdict = "accepted"]
  BY <1>2 DEF Tool, Verdict
<1> QED
  BY <1>1, <1>2, Raised
-----------------------------------------------------------------------------
LEMMA IndInit == Init => IndInv
<1> SUFFICES ASSUME Init PROVE IndInv
  OBVIOUS
<1>1. len \in FileSize /\ len \in Nat
  BY Fields DEF Init
<1>2. <<>> \in Seq(Tlvs)
  OBVIOUS
<1>3. Typed
  BY <1>1, <1>2, Fresh, Constants DEF Init, Typed, Recording
<1>4. Phased
  BY Fresh DEF Init, Phased
<1>5. Inside
  BY <1>1, Fresh, Constants DEF Init, Inside, ReadsInsideFile, StaysInside
<1> QED
  BY <1>3, <1>4, <1>5 DEF IndInv

\* Where the phase goes when both have read on.
LEMMA ThenGoes ==
  ASSUME NEW next \in {"area", "tlvs"}, Then(next)
  PROVE  /\ phase' \in {next, "done"}
         /\ phase' = "done" <=> ~Goes(fw') /\ ~Goes(tool')
BY DEF Then

LEMMA HeaderStep == IndInv /\ ReadHeader => IndInv'
<1> SUFFICES ASSUME IndInv, ReadHeader PROVE IndInv'
  OBVIOUS
<1> USE DEF IndInv
<1>1. PICK h \in Header :
        /\ fw' = parse_header(fw, h, len) /\ tool' = Inspect!inspect_header(tool, h, len)
        /\ header' = [header_size |-> h.header_size, image_size |-> h.image_size]
  BY DEF ReadHeader
<1>2. /\ phase = "header" /\ fw = Start /\ tool = Inspect!Begin /\ tlvs = <<>>
      /\ len' = len /\ tlvs' = tlvs /\ Then("area") /\ len \in FileSize
  BY DEF ReadHeader, Phased, Typed
<1>3. len \in Nat /\ h.header_size \in Nat /\ h.image_size \in Nat
  <2>1. h.header_size \in HeaderSize /\ h.image_size \in ImageSize
    BY DEF Header
  <2> QED
    BY <1>2, <2>1, Fields
<1>4. /\ fw' \in Fw /\ Recording(fw') /\ fw'.readTo =< len /\ fw'.tlv_offset < Word
      /\ Goes(fw') => Offset(fw', h, len)
  BY <1>1, <1>2, <1>3, HeaderParsed
<1>5. tool' \in Tool
  BY <1>1, <1>2, Fresh, ToolHeader
<1>6. /\ phase' \in {"area", "done"}
      /\ phase' = "done" <=> ~Goes(fw') /\ ~Goes(tool')
  BY <1>2, ThenGoes
<1>7. Recording(fw)'
  BY <1>4 DEF Recording
<1>8. Typed'
  BY <1>1, <1>2, <1>3, <1>4, <1>5, <1>6, <1>7 DEF Typed
<1>9. Phased'
  BY <1>2, <1>6 DEF Phased, Goes
<1>10. Inside'
  BY <1>1, <1>2, <1>4, <1>6 DEF Inside, Goes, Offset, AtEnd, ReadsInsideFile, StaysInside
<1> QED
  BY <1>8, <1>9, <1>10

LEMMA AreaStep == IndInv /\ ReadArea => IndInv'
<1> SUFFICES ASSUME IndInv, ReadArea PROVE IndInv'
  OBVIOUS
<1> USE DEF IndInv
<1>1. PICK area \in Area :
        /\ fw' = On(fw, parse_area(fw, area, len))
        /\ tool' = On(tool, Inspect!inspect_area(tool, area, len))
  BY DEF ReadArea
<1>2. /\ phase = "area" /\ tlvs = <<>> /\ len' = len /\ tlvs' = tlvs /\ header' = header
      /\ Then("tlvs") /\ len \in FileSize /\ fw \in Fw /\ tool \in Tool /\ Recording(fw)
      /\ fw.readTo =< len \/ AtEnd(fw.tlv_offset)
      /\ fw.tlv_offset < Word /\ (Goes(fw) => Offset(fw, header, len))
  BY DEF ReadArea, Phased, Typed, Inside, ReadsInsideFile, StaysInside
<1>3. len \in Nat /\ len < SizeModulus
  BY <1>2, Fields, Constants
<1>4. /\ fw' \in Fw /\ Recording(fw') /\ fw'.tlv_offset = fw.tlv_offset
      /\ fw'.readTo =< len \/ AtEnd(fw'.tlv_offset)
      /\ Goes(fw') => Goes(fw) /\ Cursor(fw', len)
  <2>1. CASE Goes(fw)
    <3>1. fw' = parse_area(fw, area, len)
      BY <1>1, <2>1 DEF On
    <3>2. HeaderMin =< len /\ (fw.tlv_offset + RecordHead =< len \/ AtEnd(fw.tlv_offset))
      BY <1>2, <2>1 DEF Offset
    <3>3. /\ fw' \in Fw /\ fw'.tlvs = fw.tlvs /\ fw'.tlv_count = fw.tlv_count
          /\ fw'.tlv_offset = fw.tlv_offset
          /\ fw'.readTo =< len \/ AtEnd(fw'.tlv_offset)
          /\ Goes(fw') => Cursor(fw', len)
      BY <1>2, <1>3, <2>1, <3>1, <3>2, AreaParsed
    <3> QED
      BY <1>2, <2>1, <3>3 DEF Recording
  <2>2. CASE ~Goes(fw)
    <3>1. fw' = fw
      BY <1>1, <2>2 DEF On
    <3> QED
      BY <1>2, <2>2, <3>1
  <2> QED
    BY <2>1, <2>2
<1>5. tool' \in Tool
  <2>1. CASE Goes(tool)
    BY <1>1, <1>2, <1>3, <2>1, ToolArea DEF On
  <2>2. CASE ~Goes(tool)
    BY <1>1, <1>2, <2>2 DEF On
  <2> QED
    BY <2>1, <2>2
<1>6. /\ phase' \in {"tlvs", "done"}
      /\ phase' = "done" <=> ~Goes(fw') /\ ~Goes(tool')
  BY <1>2, ThenGoes
<1>7. Recording(fw)'
  BY <1>4 DEF Recording
<1>8. Typed'
  BY <1>2, <1>4, <1>5, <1>6, <1>7 DEF Typed
<1>9. Phased'
  BY <1>6 DEF Phased, Goes
<1>10. Inside'
  BY <1>2, <1>4, <1>6 DEF Inside, Goes, Offset, Cursor, AtEnd, ReadsInsideFile, StaysInside
<1> QED
  BY <1>8, <1>9, <1>10

LEMMA TlvStep == IndInv /\ ReadTlv => IndInv'
<1> SUFFICES ASSUME IndInv, ReadTlv PROVE IndInv'
  OBVIOUS
<1> USE DEF IndInv
<1>1. PICK tlv \in Tlvs :
        /\ Goes(fw) /\ AtEnd(fw.tlv_offset) => tlv.pad # 0
        /\ fw' = On(fw, parse_tlv(fw, tlv, sha512(fw.tlv_offset)))
        /\ tool' = On(tool, Inspect!inspect_tlv(tool, tlv, hashlib(tool.tlv_offset)))
        /\ tlvs' = Append(tlvs, tlv)
  BY DEF ReadTlv
<1>2. /\ phase = "tlvs" /\ len' = len /\ header' = header /\ tlvs \in Seq(Tlvs)
      /\ Then("tlvs") /\ len \in FileSize /\ fw \in Fw /\ tool \in Tool /\ Recording(fw)
      /\ fw.readTo =< len \/ AtEnd(fw.tlv_offset)
      /\ fw.tlv_offset < Word
      /\ Goes(fw) => Offset(fw, header, len) /\ Cursor(fw, len)
  BY DEF ReadTlv, Typed, Inside, ReadsInsideFile, StaysInside
<1>3. len \in Nat /\ tlvs' \in Seq(Tlvs)
  BY <1>1, <1>2, Fields
<1>4. /\ fw' \in Fw /\ Recording(fw') /\ fw'.tlv_offset = fw.tlv_offset
      /\ fw'.readTo =< len \/ AtEnd(fw'.tlv_offset)
      /\ Goes(fw') => Goes(fw) /\ Cursor(fw', len)
  <2>1. CASE Goes(fw)
    <3>1. fw' = parse_tlv(fw, tlv, sha512(fw.tlv_offset))
      BY <1>1, <2>1 DEF On
    <3>2. fw.end = len
      BY <1>2, <2>1 DEF Cursor
    <3>3. /\ fw' \in Fw /\ Recording(fw') /\ fw'.tlv_offset = fw.tlv_offset
          /\ fw'.readTo =< fw.end \/ fw'.readTo = fw.readTo
          /\ Goes(fw') => fw'.end = fw.end /\ fw'.cursor =< fw.end /\ tlv.pad = 0
      BY <1>2, <2>1, <3>1, TlvParsed
    <3> QED
      BY <1>1, <1>2, <2>1, <3>2, <3>3 DEF Cursor
  <2>2. CASE ~Goes(fw)
    <3>1. fw' = fw
      BY <1>1, <2>2 DEF On
    <3> QED
      BY <1>2, <2>2, <3>1
  <2> QED
    BY <2>1, <2>2
<1>5. tool' \in Tool
  <2>1. CASE Goes(tool)
    BY <1>1, <1>2, <2>1, ToolTlv DEF On
  <2>2. CASE ~Goes(tool)
    BY <1>1, <1>2, <2>2 DEF On
  <2> QED
    BY <2>1, <2>2
<1>6. /\ phase' \in {"tlvs", "done"}
      /\ phase' = "done" <=> ~Goes(fw') /\ ~Goes(tool')
  BY <1>2, ThenGoes
<1>7. Recording(fw)'
  BY <1>4 DEF Recording
<1>8. header \in [header_size : Nat, image_size : Nat]
  BY DEF Typed
<1>9. Typed'
  BY <1>2, <1>3, <1>4, <1>5, <1>6, <1>7, <1>8 DEF Typed
<1>10. Phased'
  BY <1>6 DEF Phased, Goes
<1>11. Inside'
  BY <1>2, <1>4, <1>6 DEF Inside, Goes, Offset, AtEnd, ReadsInsideFile, StaysInside
<1> QED
  BY <1>9, <1>10, <1>11

LEMMA VectorStep == IndInv /\ ReadVectors => IndInv'
<1> SUFFICES ASSUME IndInv, ReadVectors PROVE IndInv'
  OBVIOUS
<1> USE DEF IndInv
<1>1. PICK v \in Vectors :
        /\ fw' = On(fw, parse_end(fw, header, v))
        /\ tool' = On(tool, Inspect!inspect_end(tool, v))
  BY DEF ReadVectors
<1>2. /\ phase = "tlvs" /\ phase' = "done" /\ len' = len /\ header' = header
      /\ tlvs' = tlvs /\ tlvs \in Seq(Tlvs) /\ len \in FileSize
      /\ fw \in Fw /\ tool \in Tool /\ Recording(fw)
      /\ header \in [header_size : Nat, image_size : Nat]
      /\ fw.readTo =< len \/ AtEnd(fw.tlv_offset)
      /\ fw.tlv_offset < Word
      /\ Goes(fw) => Offset(fw, header, len)
  BY DEF ReadVectors, Typed, Inside, ReadsInsideFile, StaysInside
<1>3. len \in Nat
  BY <1>2, Fields
<1>4. /\ fw' \in Fw /\ Recording(fw') /\ fw'.tlv_offset = fw.tlv_offset
      /\ fw'.readTo =< len \/ AtEnd(fw'.tlv_offset)
      /\ ~Goes(fw')
  <2>1. CASE Goes(fw)
    <3>1. fw' = parse_end(fw, header, v)
      BY <1>1, <2>1 DEF On
    <3>2. header.header_size + VectorSize =< fw.tlv_offset
      BY <1>2, <2>1 DEF Offset
    <3>3. /\ fw' \in Fw /\ Recording(fw') /\ fw'.tlv_offset = fw.tlv_offset /\ ~Goes(fw')
          /\ fw'.readTo =< fw.tlv_offset \/ fw'.readTo = fw.readTo
      BY <1>2, <3>1, <3>2, EndParsed DEF Goes, Reading
    <3>4. fw.tlv_offset =< len \/ AtEnd(fw.tlv_offset)
      <4>1. fw.tlv_offset \in Nat
        BY <1>2 DEF Fw
      <4> QED
        BY <1>2, <1>3, <2>1, <4>1, Constants DEF Offset
    <3>5. fw'.readTo \in Nat /\ fw.tlv_offset \in Nat
      BY <1>2, <3>3 DEF Fw
    <3> QED
      BY <1>2, <1>3, <3>3, <3>4, <3>5
  <2>2. CASE ~Goes(fw)
    <3>1. fw' = fw
      BY <1>1, <2>2 DEF On
    <3> QED
      BY <1>2, <2>2, <3>1
  <2> QED
    BY <2>1, <2>2
<1>5. tool' \in Tool /\ ~Goes(tool')
  <2>1. CASE Goes(tool)
    BY <1>1, <1>2, <2>1, ToolEnd DEF On, Goes, Reading
  <2>2. CASE ~Goes(tool)
    BY <1>1, <1>2, <2>2 DEF On
  <2> QED
    BY <2>1, <2>2
<1>6. Recording(fw)'
  BY <1>4 DEF Recording
<1>7. Typed'
  BY <1>2, <1>4, <1>5, <1>6 DEF Typed
<1>8. Phased'
  BY <1>2, <1>4, <1>5 DEF Phased, Goes
<1>9. Inside'
  BY <1>2, <1>4 DEF Inside, Goes, AtEnd, ReadsInsideFile, StaysInside
<1> QED
  BY <1>7, <1>8, <1>9

LEMMA FileStep == IndInv /\ NextFile => IndInv'
<1> SUFFICES ASSUME IndInv, NextFile PROVE IndInv'
  OBVIOUS
<1>1. len' \in FileSize /\ len' \in Nat
  BY Fields DEF NextFile
<1>2. <<>> \in Seq(Tlvs)
  OBVIOUS
<1>3. /\ phase' = "header" /\ tlvs' = <<>> /\ fw' = Start /\ tool' = Inspect!Begin
      /\ header' = [header_size |-> 0, image_size |-> 0]
  BY DEF NextFile
<1>4. /\ fw' \in Fw /\ tool' \in Tool /\ fw'.readTo = 0 /\ fw'.tlv_offset = 0
      /\ Goes(fw') /\ Goes(tool')
  BY <1>3, Fresh
<1>5. Recording(fw)'
  BY <1>3, Fresh, Constants DEF Recording
<1>6. Typed'
  BY <1>1, <1>2, <1>3, <1>4, <1>5 DEF Typed
<1>7. Phased'
  BY <1>3, <1>4 DEF Phased, Goes
<1>8. Inside'
  BY <1>1, <1>3, <1>4, Constants DEF Inside, Goes, ReadsInsideFile, StaysInside
<1> QED
  BY <1>6, <1>7, <1>8 DEF IndInv

LEMMA IndStays ==
  ASSUME IndInv, UNCHANGED <<len, header, tlvs, phase, fw, tool>>
  PROVE  IndInv'
BY DEF IndInv, Typed, Recording, Phased, Inside, Goes, Offset, Cursor, AtEnd,
       ReadsInsideFile, StaysInside

LEMMA IndNext == IndInv /\ [Next]_vars => IndInv'
<1> SUFFICES ASSUME IndInv, [Next]_vars PROVE IndInv'
  OBVIOUS
<1>1. CASE ReadHeader
  BY <1>1, HeaderStep
<1>2. CASE ReadArea
  BY <1>2, AreaStep
<1>3. CASE ReadTlv
  BY <1>3, TlvStep
<1>4. CASE ReadVectors
  BY <1>4, VectorStep
<1>5. CASE CompareVersions
  BY <1>5, IndStays DEF CompareVersions
<1>6. CASE NextFile
  BY <1>6, FileStep
<1>7. CASE UNCHANGED vars
  BY <1>7, IndStays DEF vars
<1> QED
  BY <1>1, <1>2, <1>3, <1>4, <1>5, <1>6, <1>7 DEF Next

LEMMA Invariance == Spec => []IndInv
BY IndInit, IndNext, PTL DEF Spec

(***************************************************************************)
(* Every value keeps its type, and nothing is listed past the end of the   *)
(* array of TLVs.  (g6he_mcuboot_parse, inspect_firmware)                  *)
(***************************************************************************)
THEOREM TypeCorrect == Spec => []TypeOK
<1>1. IndInv => TypeOK
  <2> SUFFICES ASSUME IndInv PROVE TypeOK
    OBVIOUS
  <2>1. len \in Nat /\ Typed /\ Phased
    BY Fields DEF IndInv, Typed
  <2> QED
    BY <2>1 DEF Typed, Phased, Recording, TypeOK, Fw, Tool, Verdict
<1> QED
  BY <1>1, Invariance, PTL

(***************************************************************************)
(* Whatever the header, the area and the TLVs of a file hold, and however  *)
(* their sums wrap, in 32 bits and in a size_t of any width, the parse     *)
(* reads nothing behind it but the head of an area that reaches the end of *)
(* the address space.  (g6he_mcuboot_parse)                                *)
(***************************************************************************)
THEOREM ParseStaysInside == Spec => []ReadsInsideFile
<1>1. IndInv => ReadsInsideFile
  BY DEF IndInv, Inside
<1> QED
  BY <1>1, Invariance, PTL

WideSize == Word + RecordHead =< SizeModulus

(***************************************************************************)
(* Where size_t holds the largest 32-bit offset and a head behind it, as   *)
(* with 64 bits, there is no such area: the parse stays inside the file,   *)
(* whatever it holds.  (g6he_mcuboot_parse)                                *)
(***************************************************************************)
THEOREM WideParseStaysInside == WideSize => (Spec => []StaysInside)
<1> SUFFICES ASSUME WideSize PROVE Spec => []StaysInside
  OBVIOUS
<1>1. IndInv => StaysInside
  <2> SUFFICES ASSUME IndInv PROVE ~AtEnd(fw.tlv_offset)
    BY DEF IndInv, Inside, ReadsInsideFile
  <2>1. fw.tlv_offset \in Nat /\ fw.tlv_offset < Word
    BY DEF IndInv, Inside, Typed, Fw
  <2> QED
    BY <2>1, Constants DEF WideSize, AtEnd
<1> QED
  BY <1>1, Invariance, PTL

(***************************************************************************)
(* Both digests of every file the parse gets to are the standard's, fed at *)
(* once or cut anywhere.  (g6he_sha512_update, _final, g6he_sha256_update, *)
(* _final)                                                                 *)
(***************************************************************************)
THEOREM DigestsOfFiles == Spec => []DigestsStandard
<1>1. IndInv => DigestsStandard
  <2> SUFFICES ASSUME IndInv, phase = "area", NEW k \in 0..fw.tlv_offset
               PROVE  InPiecesRight(k, fw.tlv_offset)
    BY DEF DigestsStandard, InPiecesRight
  <2>1. fw.tlv_offset \in Nat
    BY DEF IndInv, Typed, Fw
  <2> QED
    BY <2>1, PiecesRight
<1> QED
  BY <1>1, Invariance, PTL
-----------------------------------------------------------------------------
(***************************************************************************)
(* Firmware and tool go through a file side by side until one refuses it.  *)
(***************************************************************************)
Foreign == \E i \in 1..Len(tlvs) : tlvs[i].type \in {"sha256", "sha384"}

Together(p, q) ==
  /\ q.tlv_offset = p.tlv_offset /\ q.cursor = p.cursor /\ q.expected_end = p.end
  /\ q.digest_count = p.digest_count
  /\ q.verified_digest # "none" <=> p.digest_verified
  /\ q.key_hash_count = p.key_hash_count /\ q.signature_count = p.signature_count

Agreed ==
  /\ Goes(fw) => IF AtEnd(fw.tlv_offset) THEN tool.verdict = "rejected"
                 ELSE Goes(tool) /\ Together(fw, tool) /\ ~Foreign
  /\ fw.verdict = "rejected" => tool.verdict = "rejected" \/ Foreign
  /\ fw.verdict = "accepted" => tool.verdict = "accepted" /\ ~Foreign

\* The firmware adds in 32 bits: of a larger file only the tool could think well.
FilesFit == FileSize \subseteq 0..Word - 1

LEMMA BegunTogether == Together(Start, Inspect!Begin)
BY DEF Together, Start, Inspect!Begin

LEMMA HeadersAgree ==
  ASSUME NEW h \in Header, NEW l \in Nat, l < Word, l < SizeModulus,
         NEW p, p = parse_header(Start, h, l),
         NEW q, q = Inspect!inspect_header(Inspect!Begin, h, l)
  PROVE  /\ Goes(p) => IF AtEnd(p.tlv_offset) THEN q.verdict = "rejected"
                       ELSE Goes(q) /\ Together(p, q)
         /\ ~Goes(p) => q.verdict = "rejected"
<1> DEFINE ok == /\ HeaderMin =< l /\ h.magic
                 /\ HeaderMin =< h.header_size
                 /\ h.header_size =< l /\ h.header_size =< HeaderMax
                 /\ h.header_size % HeaderAlign = 0
                 /\ VectorSize =< h.image_size
                 /\ h.load_address \notin {0, Word - 1}
                 /\ h.protected_tlv_size = 0
                 /\ h.header_size + h.image_size + RecordHead =< l
           sum == h.header_size + h.image_size
<1>1. /\ h.header_size \in Nat /\ h.image_size \in Nat
      /\ h.header_size =< HeaderMax
  <2>1. h.header_size \in HeaderSize /\ h.image_size \in ImageSize
    BY DEF Header
  <2>2. h.header_size \in Nat /\ h.image_size \in Nat
    BY <2>1, Fields
  <2>3. h.header_size \in 0..HeaderMax
    BY <2>1, ImageCheckAssumption
  <2> QED
    BY <2>2, <2>3
<1>2. q = IF ok THEN [Inspect!Begin EXCEPT !.tlv_offset = sum]
          ELSE Inspect!Raise(Inspect!Begin)
  BY DEF Inspect!inspect_header, Inspect!Checked
<1>0. CASE Goes(p) /\ AtEnd(p.tlv_offset)
  <2>1. p.tlv_offset = sum
    BY <1>0, HeaderParsed
  <2>2. sum \in Nat /\ ~(sum + RecordHead =< l)
    BY <1>0, <1>1, <2>1, Constants DEF AtEnd
  <2>3. q = Inspect!Raise(Inspect!Begin)
    BY <1>2, <2>2
  <2> QED
    BY <1>0, <2>3, Fresh, Raised
<1>3. CASE Goes(p) /\ ~AtEnd(p.tlv_offset)
  <2>1. /\ p.tlv_offset = sum /\ Offset(p, h, l) /\ header_ok(h, l) /\ HeaderMin =< l
        /\ SameBut(Start, p) /\ p.cursor = 0 /\ p.end = 0
    BY <1>3, HeaderParsed
  <2>2. ok
    BY <1>1, <1>3, <2>1, Constants DEF header_ok, Offset
  <2>3. q = [Inspect!Begin EXCEPT !.tlv_offset = sum]
    BY <1>2, <2>2
  <2> HIDE DEF sum, ok
  <2> QED
    BY <1>3, <2>1, <2>3 DEF Start, Inspect!Begin, Together, Goes, Reading, SameBut
<1>4. CASE ~Goes(p)
  <2>1. ~(HeaderMin =< l /\ header_ok(h, l) /\ offset_ok(h, l))
    BY <1>4, HeaderParsed
  <2>2. ok => offset_ok(h, l)
    <3>1. SUFFICES ASSUME ok PROVE offset_ok(h, l)
      OBVIOUS
    <3>2. sum \in Nat /\ sum < Word
      BY <1>1, <3>1, Constants
    <3>3. sum % Word = sum
      BY <3>2, Constants
    <3>4. (sum + RecordHead) % SizeModulus = sum + RecordHead
      BY <3>1, <3>2, Constants
    <3> QED
      BY <1>1, <3>1, <3>3, <3>4, Constants DEF offset_ok
  <2>3. ok => header_ok(h, l)
    BY <1>1, Constants DEF header_ok
  <2>4. ~ok
    BY <2>1, <2>2, <2>3
  <2>5. q = Inspect!Raise(Inspect!Begin)
    BY <1>2, <2>4
  <2> QED
    BY <1>4, <2>5, Fresh, Raised
<1> QED
  BY <1>0, <1>3, <1>4

LEMMA AreasAgree ==
  ASSUME NEW p \in Fw, NEW q \in Tool, Goes(p), Goes(q), Together(p, q),
         NEW area \in Area, NEW l \in Nat, l < SizeModulus, HeaderMin =< l,
         p.tlv_offset < Word, p.tlv_offset + RecordHead =< l,
         NEW p2, p2 = parse_area(p, area, l),
         NEW q2, q2 = Inspect!inspect_area(q, area, l)
  PROVE  /\ Goes(p2) => Goes(q2) /\ Together(p2, q2)
         /\ ~Goes(p2) => q2.verdict = "rejected"
<1>1. q.tlv_offset = p.tlv_offset
  BY DEF Together
<1>0. ~AtEnd(p.tlv_offset)
  <2>1. p.tlv_offset \in Nat
    BY DEF Fw
  <2> QED
    BY <2>1, Constants DEF AtEnd
<1>5. area_ok(p, area, l)
        <=> area.magic /\ RecordHead =< area.total /\ p.tlv_offset + area.total = l
  <2>1. p.tlv_offset \in Nat /\ area.total \in AreaSize
    BY DEF Fw, Area
  <2>2. area.total \in Nat
    BY <2>1, Fields
  <2>3. ASSUME p.tlv_offset + area.total = l
        PROVE  (p.tlv_offset + area.total) % SizeModulus = l
    BY <2>3, Constants
  <2>4. area_ok(p, area, l) => p.tlv_offset + area.total = l
    <3>1. parse_area(p, area, l).tlv_offset = p.tlv_offset
      BY AreaParsed
    <3>2. area_ok(p, area, l) => Goes(parse_area(p, area, l))
      BY AreaParsed
    <3> QED
      BY <1>0, <3>2, AreaParsed
  <2> QED
    BY <2>3, <2>4 DEF area_ok
<1>2. q2 = IF area_ok(p, area, l)
           THEN [q EXCEPT !.cursor = q.tlv_offset + RecordHead, !.expected_end = l]
           ELSE Inspect!Raise(q)
  BY <1>1, <1>5 DEF Inspect!inspect_area, Inspect!Checked
<1>3. CASE Goes(p2)
  <2>1. /\ area_ok(p, area, l) /\ SameBut(p, p2) /\ p2.tlv_offset = p.tlv_offset
        /\ p2.end = l /\ p2.cursor = p.tlv_offset + RecordHead
    BY <1>0, <1>3, AreaParsed DEF Cursor
  <2>2. q2 = [q EXCEPT !.cursor = p.tlv_offset + RecordHead, !.expected_end = l]
    BY <1>1, <1>2, <2>1
  <2>4. /\ q2.expected_end = l /\ q2.cursor = p.tlv_offset + RecordHead
        /\ q2.tlv_offset = q.tlv_offset /\ q2.digest_count = q.digest_count
        /\ q2.verified_digest = q.verified_digest /\ q2.verdict = q.verdict
        /\ q2.key_hash_count = q.key_hash_count /\ q2.signature_count = q.signature_count
    BY <2>2 DEF Tool
  <2> QED
    BY <1>3, <2>1, <2>4 DEF Together, Goes, SameBut
<1>4. CASE ~Goes(p2)
  <2>1. ~area_ok(p, area, l)
    BY <1>4, AreaParsed
  <2> QED
    BY <1>2, <1>4, <2>1, Raised
<1> QED
  BY <1>3, <1>4

\* What two parses that stand together make of a TLV.
Alike(p, q, tlv) ==
  /\ Goes(p) => Goes(q) /\ Together(p, q) /\ tlv.type \notin {"sha256", "sha384"}
  /\ ~Goes(p) => q.verdict = "rejected" \/ tlv.type \in {"sha256", "sha384"}

LEMMA KnownAgree ==
  ASSUME NEW p \in Fw, NEW q \in Tool, Goes(p), Goes(q), Together(p, q),
         NEW tlv, NEW c,
         NEW p2, p2 = known_tlv(p, tlv, c),
         NEW q2, q2 = Inspect!inspect_known(q, tlv, c)
  PROVE  Alike(p2, q2, tlv)
<1>1. DOMAIN DigestLength = {"sha256", "sha384", "sha512"}
  BY McuBootAssumption
<1>2. ~Goes(Reject(p)) /\ Inspect!Raise(q).verdict = "rejected"
  BY Rejected, Raised
<1>3. CASE tlv.type = "sha512"
  <2>1. p2 = digest_tlv(p, tlv, c)
    BY <1>3 DEF known_tlv, SignatureType
  <2>2. q2 = IF tlv.length = DigestLength["sha512"]
             THEN [q EXCEPT !.digest_count = @ + 1,
                            !.verified_digest = IF tlv.value = c THEN "sha512" ELSE @]
             ELSE Inspect!Raise(q)
    BY <1>1, <1>3 DEF Inspect!inspect_known, Inspect!DigestTypes, Inspect!SignatureTypes,
       Inspect!Checked
  <2>3. CASE tlv.length # DigestLength["sha512"]
    BY <1>2, <1>3, <2>1, <2>2, <2>3 DEF digest_tlv, Unless, Alike
  <2>4. CASE tlv.length = DigestLength["sha512"]
    <3>1. p2 = [p EXCEPT !.digest_count = @ + 1,
                         !.digest_verified = @ \/ tlv.value = c]
      BY <2>1, <2>4 DEF digest_tlv, Unless
    <3>2. /\ p2.digest_count = p.digest_count + 1
          /\ p2.digest_verified <=> (p.digest_verified \/ tlv.value = c)
          /\ p2.tlv_offset = p.tlv_offset /\ p2.cursor = p.cursor /\ p2.end = p.end
          /\ p2.key_hash_count = p.key_hash_count
          /\ p2.signature_count = p.signature_count /\ p2.verdict = p.verdict
      BY <3>1 DEF Fw
    <3>3. /\ q2.digest_count = q.digest_count + 1
          /\ q2.verified_digest = IF tlv.value = c THEN "sha512" ELSE q.verified_digest
          /\ q2.tlv_offset = q.tlv_offset /\ q2.cursor = q.cursor
          /\ q2.expected_end = q.expected_end
          /\ q2.key_hash_count = q.key_hash_count
          /\ q2.signature_count = q.signature_count /\ q2.verdict = q.verdict
      BY <2>2, <2>4 DEF Tool
    <3> QED
      BY <1>3, <3>2, <3>3 DEF Together, Goes, Alike
  <2> QED
    BY <2>3, <2>4
<1>4. CASE tlv.type \in {"sha256", "sha384"}
  <2>1. p2 = Reject(p)
    BY <1>4 DEF known_tlv, SignatureType
  <2> QED
    BY <1>2, <1>4, <2>1 DEF Alike
<1>5. CASE tlv.type = "key_hash"
  <2>1. p2 = key_hash_tlv(p, tlv)
    BY <1>5 DEF known_tlv, SignatureType
  <2>2. q2 = IF tlv.length \in KeyHashLength THEN [q EXCEPT !.key_hash_count = @ + 1]
             ELSE Inspect!Raise(q)
    BY <1>1, <1>5 DEF Inspect!inspect_known, Inspect!DigestTypes, Inspect!SignatureTypes,
       Inspect!Checked
  <2>3. CASE tlv.length \notin KeyHashLength
    BY <1>2, <1>5, <2>1, <2>2, <2>3 DEF key_hash_tlv, Unless, Alike
  <2>4. CASE tlv.length \in KeyHashLength
    <3>1. p2 = [p EXCEPT !.key_hash_count = @ + 1]
      BY <2>1, <2>4 DEF key_hash_tlv, Unless
    <3>2. /\ p2.key_hash_count = p.key_hash_count + 1
          /\ p2.digest_count = p.digest_count /\ p2.digest_verified = p.digest_verified
          /\ p2.tlv_offset = p.tlv_offset /\ p2.cursor = p.cursor /\ p2.end = p.end
          /\ p2.signature_count = p.signature_count /\ p2.verdict = p.verdict
      BY <3>1 DEF Fw
    <3>3. /\ q2.key_hash_count = q.key_hash_count + 1
          /\ q2.digest_count = q.digest_count /\ q2.verified_digest = q.verified_digest
          /\ q2.tlv_offset = q.tlv_offset /\ q2.cursor = q.cursor
          /\ q2.expected_end = q.expected_end
          /\ q2.signature_count = q.signature_count /\ q2.verdict = q.verdict
      BY <2>2, <2>4 DEF Tool
    <3> QED
      BY <1>5, <3>2, <3>3 DEF Together, Goes, Alike
  <2> QED
    BY <2>3, <2>4
<1>6. CASE tlv.type \in SignatureType
  <2>1. p2 = signature_tlv(p, tlv)
    BY <1>6 DEF known_tlv, SignatureType
  <2>2. q2 = IF tlv.length # 0 THEN [q EXCEPT !.signature_count = @ + 1]
             ELSE Inspect!Raise(q)
    BY <1>1, <1>6 DEF Inspect!inspect_known, Inspect!DigestTypes, Inspect!SignatureTypes,
       Inspect!Checked, SignatureType
  <2>3. tlv.type \notin {"sha256", "sha384"}
    BY <1>6 DEF SignatureType
  <2>4. CASE tlv.length = 0
    BY <1>2, <2>1, <2>2, <2>3, <2>4 DEF signature_tlv, Unless, Alike
  <2>5. CASE tlv.length # 0
    <3>1. p2 = [p EXCEPT !.signature_count = @ + 1]
      BY <2>1, <2>5 DEF signature_tlv, Unless
    <3>2. /\ p2.signature_count = p.signature_count + 1
          /\ p2.digest_count = p.digest_count /\ p2.digest_verified = p.digest_verified
          /\ p2.tlv_offset = p.tlv_offset /\ p2.cursor = p.cursor /\ p2.end = p.end
          /\ p2.key_hash_count = p.key_hash_count /\ p2.verdict = p.verdict
      BY <3>1 DEF Fw
    <3>3. /\ q2.signature_count = q.signature_count + 1
          /\ q2.digest_count = q.digest_count /\ q2.verified_digest = q.verified_digest
          /\ q2.tlv_offset = q.tlv_offset /\ q2.cursor = q.cursor
          /\ q2.expected_end = q.expected_end
          /\ q2.key_hash_count = q.key_hash_count /\ q2.verdict = q.verdict
      BY <2>2, <2>5 DEF Tool
    <3> QED
      BY <2>3, <3>2, <3>3 DEF Together, Goes, Alike
  <2> QED
    BY <2>4, <2>5
<1>7. CASE tlv.type \notin {"sha512", "sha256", "sha384", "key_hash"} \cup SignatureType
  <2>1. p2 = p
    BY <1>7 DEF known_tlv
  <2>2. q2 = q
    BY <1>1, <1>7 DEF Inspect!inspect_known, Inspect!DigestTypes, Inspect!SignatureTypes,
       SignatureType
  <2> QED
    BY <1>7, <2>1, <2>2 DEF Alike
<1> QED
  BY <1>3, <1>4, <1>5, <1>6, <1>7

LEMMA TlvsAgree ==
  ASSUME NEW p \in Fw, NEW q \in Tool, Goes(p), Goes(q), Together(p, q), Recording(p),
         NEW tlv \in Tlvs, NEW c,
         NEW p2, p2 = parse_tlv(p, tlv, c),
         NEW q2, q2 = Inspect!inspect_tlv(q, tlv, c)
  PROVE  Alike(p2, q2, tlv)
<1> DEFINE at == value_end(p, tlv)
           started == [p EXCEPT !.readTo = p.cursor + RecordHead]
           taken == [started EXCEPT !.tlvs = record_tlv(p, tlv), !.tlv_count = @ + 1,
                                    !.cursor = at, !.readTo = at]
           moved == [q EXCEPT !.cursor = at]
           ok == p.cursor + RecordHead =< p.end /\ tlv.pad = 0 /\ at =< p.end
<1>1. /\ p.cursor \in Nat /\ p.end \in Nat /\ p.tlv_count \in Nat
      /\ q.cursor = p.cursor /\ q.expected_end = p.end
  BY DEF Fw, Together
<1>2. p.cursor + RecordHead \in Nat /\ at \in Nat
  BY <1>1, TlvTyped, Constants DEF value_end
<1>3. q2 = IF ok THEN Inspect!inspect_known(moved, tlv, c) ELSE Inspect!Raise(q)
  BY <1>1 DEF Inspect!inspect_tlv, Inspect!Checked, value_end
<1>4. CASE ~ok
  <2>1. p2 = Reject(p) \/ p2 = Reject(started)
    BY <1>1, <1>2, <1>4 DEF parse_tlv, Unless, tlv_fits
  <2>2. started \in Fw
    BY <1>2, ReadMore DEF SameBut
  <2>3. ~Goes(p2)
    BY <2>1, <2>2, Rejected
  <2>4. q2.verdict = "rejected"
    BY <1>3, <1>4, Raised
  <2> QED
    BY <2>3, <2>4 DEF Alike
<1>5. CASE ok
  <2>1. p2 = known_tlv(taken, tlv, c)
    BY <1>1, <1>2, <1>5 DEF parse_tlv, Unless, tlv_fits
  <2>2. q2 = Inspect!inspect_known(moved, tlv, c)
    BY <1>3, <1>5
  <2>3. /\ taken \in Fw /\ taken.cursor = at /\ taken.end = p.end
        /\ taken.tlv_offset = p.tlv_offset /\ taken.digest_count = p.digest_count
        /\ taken.digest_verified = p.digest_verified
        /\ taken.key_hash_count = p.key_hash_count
        /\ taken.signature_count = p.signature_count /\ taken.verdict = p.verdict
    <3>1. p.tlv_count + 1 \in Nat
      BY <1>1
    <3>2. taken = [p EXCEPT !.readTo = at, !.tlvs = record_tlv(p, tlv),
                            !.tlv_count = p.tlv_count + 1, !.cursor = at]
      BY <1>2 DEF Fw
    <3>3. record_tlv(p, tlv) \in Seq([offset : Nat, type : TlvType])
      BY Recorded
    <3> HIDE DEF at
    <3> QED
      BY <1>2, <3>1, <3>2, <3>3 DEF Fw
  <2>4. /\ moved \in Tool /\ moved.cursor = at /\ moved.expected_end = q.expected_end
        /\ moved.tlv_offset = q.tlv_offset /\ moved.digest_count = q.digest_count
        /\ moved.verified_digest = q.verified_digest
        /\ moved.key_hash_count = q.key_hash_count
        /\ moved.signature_count = q.signature_count /\ moved.verdict = q.verdict
    BY <1>2 DEF Tool
  <2> HIDE DEF taken, moved, at, started, ok
  <2>5. Goes(taken) /\ Goes(moved) /\ Together(taken, moved)
    BY <2>3, <2>4 DEF Together, Goes
  <2> QED
    BY <2>1, <2>2, <2>3, <2>4, <2>5, KnownAgree
<1> QED
  BY <1>4, <1>5

LEMMA EndsAgree ==
  ASSUME NEW p \in Fw, NEW q \in Tool, Goes(p), Goes(q), Together(p, q), Recording(p),
         NEW h \in [header_size : Nat, image_size : Nat],
         h.header_size + VectorSize =< p.tlv_offset, NEW v,
         NEW p2, p2 = parse_end(p, h, v),
         NEW q2, q2 = Inspect!inspect_end(q, v)
  PROVE  \/ p2.verdict = "accepted" /\ q2.verdict = "accepted"
         \/ p2.verdict = "rejected" /\ q2.verdict = "rejected"
<1>1. p2.verdict = IF counts_ok(p) /\ vectors_ok(v) THEN "accepted" ELSE "rejected"
  BY EndParsed
<1>2. q2 = IF counts_ok(p) /\ vectors_ok(v) THEN [q EXCEPT !.verdict = "accepted"]
           ELSE Inspect!Raise(q)
  BY DEF Inspect!inspect_end, Inspect!Checked, counts_ok, vectors_ok, Together
<1>3. [q EXCEPT !.verdict = "accepted"].verdict = "accepted"
  BY DEF Tool
<1> QED
  BY <1>1, <1>2, <1>3, Raised

LEMMA FitsWord ==
  ASSUME FilesFit, Typed
  PROVE  len \in Nat /\ len < Word /\ len < SizeModulus
BY Fields, Constants DEF FilesFit, Typed

LEMMA NoneForeign == ASSUME tlvs = <<>> PROVE ~Foreign
BY DEF Foreign

LEMMA ForeignGrows ==
  ASSUME NEW tlv \in Tlvs, tlvs \in Seq(Tlvs), tlvs' = Append(tlvs, tlv)
  PROVE  Foreign' <=> Foreign \/ tlv.type \in {"sha256", "sha384"}
<1>1. /\ Len(tlvs) \in Nat /\ Len(tlvs') = Len(tlvs) + 1
      /\ \A i \in 1..Len(tlvs) : tlvs'[i] = tlvs[i]
      /\ tlvs'[Len(tlvs) + 1] = tlv
  OBVIOUS
<1>2. 1..Len(tlvs') = 1..Len(tlvs) \cup {Len(tlvs) + 1}
  BY <1>1
<1> QED
  BY <1>1, <1>2 DEF Foreign

LEMMA BegunInside == ASSUME NEW n \in FileSize PROVE ~AtEnd(Start.tlv_offset)
BY Fields, Fresh, Constants DEF AtEnd

LEMMA AgreedInit == ASSUME Init PROVE Agreed
<1>1. /\ fw = Start /\ tool = Inspect!Begin /\ tlvs = <<>>
      /\ ~AtEnd(fw.tlv_offset)
  BY BegunInside DEF Init
<1> QED
  BY <1>1, Fresh, BegunTogether, NoneForeign DEF Agreed, Goes, Reading

LEMMA AgreedHeader == ASSUME FilesFit, IndInv, IndInv', ReadHeader PROVE Agreed'
<1>1. PICK h \in Header :
        fw' = parse_header(fw, h, len) /\ tool' = Inspect!inspect_header(tool, h, len)
  BY DEF ReadHeader
<1>2. /\ fw = Start /\ tool = Inspect!Begin /\ tlvs' = <<>>
      /\ len \in Nat /\ len < Word /\ len < SizeModulus
  BY FitsWord DEF ReadHeader, IndInv, Phased
<1>3. /\ Goes(fw') => IF AtEnd(fw'.tlv_offset) THEN tool'.verdict = "rejected"
                       ELSE Goes(tool') /\ Together(fw', tool')
      /\ ~Goes(fw') => tool'.verdict = "rejected"
  BY <1>1, <1>2, HeadersAgree
<1>4. fw'.verdict \in {Reading, "rejected"}
  BY <1>1, <1>2, HeaderParsed
<1>5. ~Foreign'
  BY <1>2 DEF Foreign
<1> QED
  BY <1>3, <1>4, <1>5 DEF Agreed, Goes, Reading, Together, AtEnd

LEMMA AgreedArea == ASSUME FilesFit, IndInv, Agreed, ReadArea PROVE Agreed'
<1>1. PICK area \in Area :
        /\ fw' = On(fw, parse_area(fw, area, len))
        /\ tool' = On(tool, Inspect!inspect_area(tool, area, len))
  BY DEF ReadArea
<1>2. /\ phase = "area" /\ tlvs = <<>> /\ tlvs' = <<>> /\ fw \in Fw /\ tool \in Tool
      /\ len \in Nat /\ len < SizeModulus /\ fw.tlv_offset < Word
      /\ Goes(fw) => Offset(fw, header, len)
  BY FitsWord DEF ReadArea, IndInv, Phased, Typed, Inside
<1>3. ~Foreign /\ ~Foreign'
  BY <1>2 DEF Foreign
<1>6. CASE Goes(fw) /\ AtEnd(fw.tlv_offset)
  <2>1. tool.verdict = "rejected" /\ fw' = parse_area(fw, area, len)
    BY <1>1, <1>6 DEF Agreed, On
  <2>2. tool' = tool
    BY <1>1, <2>1 DEF On, Goes, Reading
  <2>3. fw'.verdict \in {Reading, "rejected"} /\ fw'.tlv_offset = fw.tlv_offset
    BY <1>2, <1>6, <2>1, AreaParsed DEF Offset
  <2> QED
    BY <1>6, <2>1, <2>2, <2>3 DEF Agreed, Goes, Reading, AtEnd
<1>4. CASE Goes(fw) /\ ~AtEnd(fw.tlv_offset)
  <2>1. /\ Goes(tool) /\ Together(fw, tool) /\ HeaderMin =< len
        /\ fw.tlv_offset + RecordHead =< len
    BY <1>2, <1>4 DEF Agreed, Offset
  <2>2. fw' = parse_area(fw, area, len) /\ tool' = Inspect!inspect_area(tool, area, len)
    BY <1>1, <1>4, <2>1 DEF On
  <2>3. /\ Goes(fw') => Goes(tool') /\ Together(fw', tool')
        /\ ~Goes(fw') => tool'.verdict = "rejected"
    BY <1>2, <1>4, <2>1, <2>2, AreasAgree
  <2>4. fw'.verdict \in {Reading, "rejected"} /\ fw'.tlv_offset = fw.tlv_offset
    BY <1>2, <1>4, <2>1, <2>2, AreaParsed
  <2> QED
    BY <1>3, <1>4, <2>3, <2>4 DEF Agreed, Goes, Reading, Together, AtEnd
<1>5. CASE ~Goes(fw)
  <2>1. fw' = fw
    BY <1>1, <1>5 DEF On
  <2>2. ~Goes(tool)
    BY <1>2, <1>3, <1>5 DEF Agreed, Goes, Reading, Fw, Verdict
  <2>3. tool' = tool
    BY <1>1, <2>2 DEF On
  <2> QED
    BY <1>3, <1>5, <2>1, <2>3 DEF Agreed, Goes
<1> QED
  BY <1>4, <1>5, <1>6

LEMMA AgreedTlv == ASSUME FilesFit, IndInv, Agreed, ReadTlv PROVE Agreed'
<1>1. PICK tlv \in Tlvs :
        /\ Goes(fw) /\ AtEnd(fw.tlv_offset) => tlv.pad # 0
        /\ fw' = On(fw, parse_tlv(fw, tlv, sha512(fw.tlv_offset)))
        /\ tool' = On(tool, Inspect!inspect_tlv(tool, tlv, hashlib(tool.tlv_offset)))
        /\ tlvs' = Append(tlvs, tlv)
  BY DEF ReadTlv
<1>2. /\ phase = "tlvs" /\ tlvs \in Seq(Tlvs) /\ Left
      /\ fw \in Fw /\ tool \in Tool /\ Recording(fw) /\ fw.tlv_offset \in Nat
  BY DEF ReadTlv, IndInv, Typed, Fw
<1>3. sha512(fw.tlv_offset) = "file" /\ hashlib(tool.tlv_offset) = "file"
  BY <1>2, DigestRight DEF hashlib
<1>4. Foreign' <=> Foreign \/ tlv.type \in {"sha256", "sha384"}
  BY <1>1, <1>2, ForeignGrows
<1>7. CASE Goes(fw) /\ AtEnd(fw.tlv_offset)
  <2>1. tool.verdict = "rejected" /\ fw' = parse_tlv(fw, tlv, "file")
    BY <1>1, <1>3, <1>7 DEF Agreed, On
  <2>2. tool' = tool
    BY <1>1, <2>1 DEF On, Goes, Reading
  <2>3. fw'.verdict = "rejected"
    BY <1>1, <1>2, <1>7, <2>1, TlvParsed DEF Goes
  <2> QED
    BY <2>1, <2>2, <2>3 DEF Agreed, Goes, Reading
<1>5. CASE Goes(fw) /\ ~AtEnd(fw.tlv_offset)
  <2>1. Goes(tool) /\ Together(fw, tool) /\ ~Foreign
    BY <1>5 DEF Agreed
  <2>3. /\ fw' = parse_tlv(fw, tlv, "file")
        /\ tool' = Inspect!inspect_tlv(tool, tlv, "file")
    BY <1>1, <1>3, <1>5, <2>1 DEF On
  <2>4. Alike(fw', tool', tlv)
    BY <1>2, <1>5, <2>1, <2>3, TlvsAgree
  <2>5. fw'.verdict \in {Reading, "rejected"} /\ fw'.tlv_offset = fw.tlv_offset
    BY <1>2, <1>5, <2>3, TlvParsed
  <2> QED
    BY <1>4, <1>5, <2>1, <2>4, <2>5 DEF Agreed, Alike, Goes, Reading, Together, AtEnd
<1>6. CASE ~Goes(fw)
  <2>1. fw' = fw
    BY <1>1, <1>6 DEF On
  <2>2. Goes(tool)
    BY <1>2, <1>6 DEF Left
  <2>3. fw.verdict = "rejected" /\ Foreign
    BY <1>2, <1>6, <2>2 DEF Agreed, Goes, Reading, Fw, Verdict
  <2> QED
    BY <1>4, <2>1, <2>3 DEF Agreed, Goes, Reading
<1> QED
  BY <1>5, <1>6, <1>7

\* After a wrap there is a TLV to refuse first.
LEMMA ReadOut ==
  ASSUME IndInv, phase = "tlvs", ~Left, Goes(fw)
  PROVE  ~AtEnd(fw.tlv_offset) /\ fw.cursor = len
<1>1. fw.cursor \in Nat /\ len \in Nat
  BY Fields DEF IndInv, Typed, Fw
<1>2. Cursor(fw, len) /\ ~(fw.cursor < fw.end)
  BY DEF IndInv, Inside, Left
<1> QED
  BY <1>1, <1>2 DEF Cursor

LEMMA AgreedVectors == ASSUME FilesFit, IndInv, Agreed, ReadVectors PROVE Agreed'
<1>1. PICK v \in Vectors :
        /\ fw' = On(fw, parse_end(fw, header, v))
        /\ tool' = On(tool, Inspect!inspect_end(tool, v))
  BY DEF ReadVectors
<1>2. /\ phase = "tlvs" /\ ~Left /\ tlvs' = tlvs /\ fw \in Fw /\ tool \in Tool /\ Recording(fw)
      /\ header \in [header_size : Nat, image_size : Nat] /\ len \in Nat
  BY FitsWord DEF ReadVectors, IndInv, Typed
<1>3. Foreign' <=> Foreign
  BY <1>2 DEF Foreign
<1>4. CASE Goes(fw)
  <2>1. Goes(tool) /\ Together(fw, tool) /\ ~Foreign
    BY <1>2, <1>4, ReadOut DEF Agreed
  <2>2. header.header_size + VectorSize =< fw.tlv_offset
    BY <1>2, <1>4 DEF IndInv, Inside, Offset
  <2>3. fw' = parse_end(fw, header, v) /\ tool' = Inspect!inspect_end(tool, v)
    BY <1>1, <1>4, <2>1 DEF On
  <2>4. \/ fw'.verdict = "accepted" /\ tool'.verdict = "accepted"
        \/ fw'.verdict = "rejected" /\ tool'.verdict = "rejected"
    BY <1>2, <1>4, <2>1, <2>2, <2>3, EndsAgree
  <2> QED
    BY <1>3, <2>1, <2>4 DEF Agreed, Goes, Reading
<1>5. CASE ~Goes(fw)
  <2>1. fw' = fw
    BY <1>1, <1>5 DEF On
  <2>2. CASE Goes(tool)
    <3>1. fw.verdict = "rejected" /\ Foreign
      BY <1>2, <1>5, <2>2 DEF Agreed, Goes, Reading, Fw, Verdict
    <3> QED
      BY <1>3, <2>1, <3>1 DEF Agreed, Goes, Reading
  <2>3. CASE ~Goes(tool)
    <3>1. tool' = tool
      BY <1>1, <2>3 DEF On
    <3> QED
      BY <1>3, <1>5, <2>1, <3>1 DEF Agreed, Goes
  <2> QED
    BY <2>2, <2>3
<1> QED
  BY <1>4, <1>5

LEMMA AgreedFile == ASSUME NextFile PROVE Agreed'
<1>1. /\ fw' = Start /\ tool' = Inspect!Begin /\ tlvs' = <<>>
      /\ ~AtEnd(Start.tlv_offset)
  BY BegunInside DEF NextFile
<1>2. ~Foreign'
  BY <1>1 DEF Foreign
<1> QED
  BY <1>1, <1>2, Fresh, BegunTogether DEF Agreed, Goes, Reading, AtEnd

LEMMA AgreedStays ==
  ASSUME Agreed, UNCHANGED <<tlvs, fw, tool>>
  PROVE  Agreed'
BY DEF Agreed, Foreign, Goes, Together, AtEnd

LEMMA AgreedNext ==
  ASSUME FilesFit, IndInv, IndInv', Agreed, [Next]_vars
  PROVE  Agreed'
<1>1. CASE ReadHeader
  BY <1>1, AgreedHeader
<1>2. CASE ReadArea
  BY <1>2, AgreedArea
<1>3. CASE ReadTlv
  BY <1>3, AgreedTlv
<1>4. CASE ReadVectors
  BY <1>4, AgreedVectors
<1>5. CASE CompareVersions
  BY <1>5, AgreedStays DEF CompareVersions
<1>6. CASE NextFile
  BY <1>6, AgreedFile
<1>7. CASE UNCHANGED vars
  BY <1>7, AgreedStays DEF vars
<1> QED
  BY <1>1, <1>2, <1>3, <1>4, <1>5, <1>6, <1>7 DEF Next

(***************************************************************************)
(* Of every file smaller than 2^32 bytes, whatever its fields hold, the    *)
(* firmware accepts what the tool accepts, but for the digests only the    *)
(* tool knows.  (inspect_firmware, g6he_mcuboot_parse)                     *)
(***************************************************************************)
THEOREM ToolAndFirmwareAgree == FilesFit => (Spec => []ToolAgrees)
<1> SUFFICES ASSUME FilesFit PROVE Spec => []ToolAgrees
  OBVIOUS
<1>1. Init => Agreed
  BY AgreedInit
<1>2. IndInv /\ IndInv' /\ Agreed /\ [Next]_vars => Agreed'
  BY AgreedNext
<1>3. IndInv /\ Agreed => ToolAgrees
  <2> SUFFICES ASSUME IndInv, Agreed, phase = "done"
               PROVE  fw.verdict = "accepted" <=> tool.verdict = "accepted" /\ ~Foreign
    BY DEF ToolAgrees, Foreign
  <2>1. fw.verdict \in {"rejected", "accepted"}
    BY DEF IndInv, Typed, Phased, Goes, Fw, Verdict
  <2> QED
    BY <2>1 DEF Agreed
<1> QED
  BY <1>1, <1>2, <1>3, Invariance, PTL DEF Spec
-----------------------------------------------------------------------------
(***************************************************************************)
(* What was read of an accepted file: the counts of the parse against the   *)
(* TLVs themselves.                                                        *)
(***************************************************************************)
Places(s, T) == {i \in 1..Len(s) : s[i].type \in T}
Sizes(s) == [i \in 1..Len(s) |-> RecordHead + s[i].length]

LEMMA PlacesGrow ==
  ASSUME NEW s \in Seq(Tlvs), NEW tlv \in Tlvs, NEW T
  PROVE  /\ IsFiniteSet(Places(s, T)) /\ Cardinality(Places(s, T)) \in Nat
         /\ Places(Append(s, tlv), T)
              = Places(s, T) \cup {i \in {Len(s) + 1} : tlv.type \in T}
         /\ Cardinality(Places(Append(s, tlv), T))
              = Cardinality(Places(s, T)) + (IF tlv.type \in T THEN 1 ELSE 0)
<1> DEFINE t == Append(s, tlv)
           n == Len(s) + 1
<1>1. /\ Len(s) \in Nat /\ Len(t) = n /\ t[n] = tlv /\ \A i \in 1..Len(s) : t[i] = s[i]
      /\ 1..n = 1..Len(s) \cup {n} /\ n \notin 1..Len(s)
  OBVIOUS
<1>2. IsFiniteSet(Places(s, T)) /\ Cardinality(Places(s, T)) \in Nat
  <2>1. IsFiniteSet(1..Len(s))
    BY <1>1, FS_Interval
  <2>2. Places(s, T) \subseteq 1..Len(s)
    BY DEF Places
  <2> QED
    BY <2>1, <2>2, FS_Subset, FS_CardinalityType
<1> HIDE DEF t, n
<1>3. Places(t, T) = Places(s, T) \cup {i \in {n} : tlv.type \in T}
  BY <1>1 DEF Places
<1>4. n \notin Places(s, T)
  BY <1>1 DEF Places
<1>5. CASE tlv.type \in T
  <2>1. Places(t, T) = Places(s, T) \cup {n}
    BY <1>3, <1>5
  <2> QED
    BY <1>2, <1>3, <1>4, <1>5, <2>1, FS_AddElement DEF t, n
<1>6. CASE tlv.type \notin T
  <2>1. Places(t, T) = Places(s, T)
    BY <1>3, <1>6
  <2>2. Cardinality(Places(t, T))
          = Cardinality(Places(s, T)) + (IF tlv.type \in T THEN 1 ELSE 0)
    BY <1>2, <1>6, <2>1
  <2> QED
    BY <1>2, <1>3, <2>2 DEF t, n
<1> QED
  BY <1>5, <1>6

LEMMA NoPlaces ==
  ASSUME NEW T
  PROVE  Places(<<>>, T) = {} /\ Cardinality(Places(<<>>, T)) = 0
<1>1. Places(<<>>, T) = {}
  BY DEF Places
<1> QED
  BY <1>1, FS_EmptySet

LEMMA SizesGrow ==
  ASSUME NEW s \in Seq(Tlvs), NEW tlv \in Tlvs
  PROVE  /\ SumFunction(Sizes(s)) \in Nat
         /\ SumFunction(Sizes(Append(s, tlv)))
              = SumFunction(Sizes(s)) + RecordHead + tlv.length
<1> DEFINE t == Append(s, tlv)
           x == RecordHead + tlv.length
<1>1. \A u \in Tlvs : RecordHead + u.length \in Nat
  BY TlvTyped, Constants
<1>2. ASSUME NEW i \in 1..Len(s) PROVE RecordHead + s[i].length \in Nat
  <2>1. s[i] \in Tlvs
    OBVIOUS
  <2> QED
    BY <1>1, <2>1
<1>3. Sizes(s) \in Seq(Nat) /\ Len(Sizes(s)) = Len(s) /\ x \in Nat /\ Len(s) \in Nat
  BY <1>1, <1>2 DEF Sizes
<1>4. Sizes(t) = Append(Sizes(s), x)
  <2>1. /\ Len(t) = Len(s) + 1 /\ t[Len(s) + 1] = tlv
        /\ \A i \in 1..Len(s) : t[i] = s[i]
    OBVIOUS
  <2>2. Append(Sizes(s), x)
          = [i \in 1..Len(s) + 1 |-> IF i = Len(s) + 1 THEN x ELSE Sizes(s)[i]]
    BY <1>3
  <2>3. \A i \in 1..Len(s) : Sizes(s)[i] = RecordHead + s[i].length
    BY DEF Sizes
  <2>4. Sizes(t) = [i \in 1..Len(s) + 1 |-> RecordHead + t[i].length]
    BY <2>1 DEF Sizes
  <2> HIDE DEF t, x
  <2>5. ASSUME NEW i \in 1..Len(s) + 1
        PROVE  RecordHead + t[i].length = IF i = Len(s) + 1 THEN x ELSE Sizes(s)[i]
    <3>1. CASE i = Len(s) + 1
      BY <2>1, <3>1 DEF x
    <3>2. CASE i \in 1..Len(s)
      BY <1>3, <2>1, <2>3, <3>2
    <3> QED
      BY <1>3, <3>1, <3>2
  <2> QED
    BY <2>2, <2>4, <2>5
<1>5. SumFunction(Append(Sizes(s), x)) = SumFunction(Sizes(s)) + x
  BY <1>3, SumAppend
<1>6. SumFunction(Sizes(s)) \in Nat
  BY <1>3, SeqSum
<1>7. tlv.length \in Nat /\ RecordHead \in Nat
  BY TlvTyped, Constants
<1> QED
  BY <1>4, <1>5, <1>6, <1>7

LEMMA NoSizes == SumFunction(Sizes(<<>>)) = 0
<1>1. Sizes(<<>>) = <<>>
  BY DEF Sizes
<1>2. <<>> \in Seq(Nat) /\ 1..Len(<<>>) = {}
  OBVIOUS
<1> QED
  BY <1>1, <1>2, SeqSum, SumEmpty

\* What the firmware has counted, while it reads on, of the TLVs s.
Tallied(p, h, s) ==
  /\ p.tlv_offset = h.header_size + h.image_size
  /\ p.digest_count = Cardinality(Places(s, {"sha512"}))
  /\ p.digest_verified <=> \E i \in Places(s, {"sha512"}) : Genuine(s[i])
  /\ p.key_hash_count = Cardinality(Places(s, {"key_hash"}))
  /\ p.signature_count = Cardinality(Places(s, SignatureType))
Placed(p, s) == p.cursor = p.tlv_offset + RecordHead + SumFunction(Sizes(s))
Taken(tlv) ==
  /\ tlv.pad = 0 /\ tlv.type \notin {"sha256", "sha384"}
  /\ tlv.type = "key_hash" => tlv.length \in KeyHashLength
  /\ tlv.type \in SignatureType => tlv.length # 0
Counted(p, h, s) ==
  Tallied(p, h, s) /\ Placed(p, s) /\ \A i \in 1..Len(s) : Taken(s[i])

\* What one more TLV adds to the counts.
OneMore(p, q, tlv, c) ==
  /\ q.tlv_offset = p.tlv_offset
  /\ q.digest_count = p.digest_count + (IF tlv.type = "sha512" THEN 1 ELSE 0)
  /\ q.digest_verified <=> p.digest_verified \/ (tlv.type = "sha512" /\ tlv.value = c)
  /\ q.key_hash_count = p.key_hash_count + (IF tlv.type = "key_hash" THEN 1 ELSE 0)
  /\ q.signature_count
       = p.signature_count + (IF tlv.type \in SignatureType THEN 1 ELSE 0)

LEMMA KnownCounted ==
  ASSUME NEW p \in Fw, NEW tlv, tlv.pad = 0, NEW c,
         NEW q, q = known_tlv(p, tlv, c), Goes(q)
  PROVE  OneMore(p, q, tlv, c) /\ q.cursor = p.cursor /\ Taken(tlv)
<1>1. ~Goes(Reject(p))
  BY Rejected
<1>2. /\ p.digest_count \in Nat /\ p.digest_verified \in BOOLEAN
      /\ p.key_hash_count \in Nat /\ p.signature_count \in Nat
  BY DEF Fw
<1>3. CASE tlv.type = "sha512"
  <2>1. q = digest_tlv(p, tlv, c)
    BY <1>3 DEF known_tlv, SignatureType
  <2>2. q = [p EXCEPT !.digest_count = @ + 1, !.digest_verified = @ \/ tlv.value = c]
    BY <1>1, <2>1 DEF digest_tlv, Unless
  <2>3. /\ q.digest_count = p.digest_count + 1
        /\ q.digest_verified <=> (p.digest_verified \/ tlv.value = c)
        /\ q.tlv_offset = p.tlv_offset /\ q.cursor = p.cursor
        /\ q.key_hash_count = p.key_hash_count /\ q.signature_count = p.signature_count
    BY <2>2 DEF Fw
  <2> QED
    BY <1>2, <1>3, <2>3 DEF OneMore, Taken, SignatureType
<1>4. CASE tlv.type \in {"sha256", "sha384"}
  BY <1>1, <1>4 DEF known_tlv, SignatureType
<1>5. CASE tlv.type = "key_hash"
  <2>1. q = key_hash_tlv(p, tlv)
    BY <1>5 DEF known_tlv, SignatureType
  <2>2. q = [p EXCEPT !.key_hash_count = @ + 1] /\ tlv.length \in KeyHashLength
    BY <1>1, <2>1 DEF key_hash_tlv, Unless
  <2>3. /\ q.key_hash_count = p.key_hash_count + 1 /\ q.digest_count = p.digest_count
        /\ q.digest_verified = p.digest_verified
        /\ q.tlv_offset = p.tlv_offset /\ q.cursor = p.cursor
        /\ q.signature_count = p.signature_count
    BY <2>2 DEF Fw
  <2> QED
    BY <1>2, <1>5, <2>2, <2>3 DEF OneMore, Taken, SignatureType
<1>6. CASE tlv.type \in SignatureType
  <2>1. q = signature_tlv(p, tlv)
    BY <1>6 DEF known_tlv, SignatureType
  <2>2. q = [p EXCEPT !.signature_count = @ + 1] /\ tlv.length # 0
    BY <1>1, <2>1 DEF signature_tlv, Unless
  <2>3. /\ q.signature_count = p.signature_count + 1 /\ q.digest_count = p.digest_count
        /\ q.digest_verified = p.digest_verified
        /\ q.tlv_offset = p.tlv_offset /\ q.cursor = p.cursor
        /\ q.key_hash_count = p.key_hash_count
    BY <2>2 DEF Fw
  <2> QED
    BY <1>2, <1>6, <2>2, <2>3 DEF OneMore, Taken, SignatureType
<1>7. CASE tlv.type \notin {"sha512", "sha256", "sha384", "key_hash"} \cup SignatureType
  <2>1. q = p
    BY <1>7 DEF known_tlv, SignatureType
  <2> QED
    BY <1>2, <1>7, <2>1 DEF OneMore, Taken
<1> QED
  BY <1>3, <1>4, <1>5, <1>6, <1>7

\* One more TLV, after which the firmware reads on.
LEMMA TlvCounted ==
  ASSUME NEW p \in Fw, Goes(p), Recording(p), NEW tlv \in Tlvs, NEW c,
         NEW q, q = parse_tlv(p, tlv, c), Goes(q)
  PROVE  /\ OneMore(p, q, tlv, c) /\ Taken(tlv)
         /\ q.cursor = p.cursor + RecordHead + tlv.length
<1> DEFINE at == value_end(p, tlv)
           started == [p EXCEPT !.readTo = p.cursor + RecordHead]
           taken == [started EXCEPT !.tlvs = record_tlv(p, tlv), !.tlv_count = @ + 1,
                                    !.cursor = at, !.readTo = at]
<1>1. p.cursor \in Nat /\ p.tlv_count + 1 \in Nat
  BY DEF Fw
<1>2. p.cursor + RecordHead \in Nat /\ at \in Nat
  BY <1>1, TlvTyped, Constants DEF value_end
<1>3. started \in Fw
  BY <1>2, ReadMore DEF SameBut
<1>4. ~Goes(Reject(p)) /\ ~Goes(Reject(started))
  BY <1>3, Rejected
<1>5. q = known_tlv(taken, tlv, c) /\ tlv.pad = 0
  <2> HIDE DEF started, at
  <2>1. q = Reject(p) \/ q = Reject(started) \/ (q = known_tlv(taken, tlv, c) /\ tlv.pad = 0)
    BY DEF parse_tlv, Unless, started, at
  <2> QED
    BY <1>4, <2>1
<1>6. taken = [p EXCEPT !.readTo = at, !.tlvs = record_tlv(p, tlv),
                        !.tlv_count = p.tlv_count + 1, !.cursor = at]
  BY <1>2 DEF Fw
<1>7. record_tlv(p, tlv) \in Seq([offset : Nat, type : TlvType])
  BY Recorded
<1>8. /\ taken \in Fw /\ taken.cursor = at
      /\ taken.tlv_offset = p.tlv_offset /\ taken.digest_count = p.digest_count
      /\ taken.digest_verified = p.digest_verified
      /\ taken.key_hash_count = p.key_hash_count
      /\ taken.signature_count = p.signature_count
  <2> HIDE DEF at
  <2> QED
    BY <1>1, <1>2, <1>6, <1>7 DEF Fw
<1> HIDE DEF taken, started
<1>9. OneMore(taken, q, tlv, c) /\ q.cursor = at /\ Taken(tlv)
  BY <1>5, <1>8, KnownCounted
<1> QED
  BY <1>8, <1>9 DEF OneMore, value_end

\* And the counts are right again, of one TLV more.
LEMMA StillCounted ==
  ASSUME NEW p \in Fw, NEW h, NEW s \in Seq(Tlvs), Counted(p, h, s),
         NEW tlv \in Tlvs, NEW q,
         OneMore(p, q, tlv, "file"), Taken(tlv),
         q.cursor = p.cursor + RecordHead + tlv.length
  PROVE  Counted(q, h, Append(s, tlv))
<1> DEFINE t == Append(s, tlv)
<1>1. /\ Len(s) \in Nat /\ Len(t) = Len(s) + 1 /\ t[Len(s) + 1] = tlv
      /\ \A i \in 1..Len(s) : t[i] = s[i]
  OBVIOUS
<1>2. \A i \in 1..Len(t) : i \in 1..Len(s) \/ i = Len(s) + 1
  BY <1>1
<1>3. \A i \in 1..Len(t) : Taken(t[i])
  BY <1>1, <1>2 DEF Counted
<1>4. ASSUME NEW T
      PROVE  /\ Places(t, T) = Places(s, T) \cup {i \in {Len(s) + 1} : tlv.type \in T}
             /\ Cardinality(Places(t, T))
                  = Cardinality(Places(s, T)) + (IF tlv.type \in T THEN 1 ELSE 0)
  BY PlacesGrow
<1>5. /\ q.digest_count = Cardinality(Places(t, {"sha512"}))
      /\ q.key_hash_count = Cardinality(Places(t, {"key_hash"}))
      /\ q.signature_count = Cardinality(Places(t, SignatureType))
  <2> HIDE DEF t
  <2> QED
    BY <1>4 DEF Counted, Tallied, OneMore
<1>6. q.digest_verified <=> \E i \in Places(t, {"sha512"}) : Genuine(t[i])
  <2>1. \A i \in Places(s, {"sha512"}) : t[i] = s[i]
    BY <1>1 DEF Places
  <2> HIDE DEF t
  <2>2. (\E i \in Places(t, {"sha512"}) : Genuine(t[i]))
          <=> \/ \E i \in Places(s, {"sha512"}) : Genuine(s[i])
              \/ tlv.type = "sha512" /\ Genuine(tlv)
    BY <1>1, <1>4, <2>1
  <2> QED
    BY <2>2 DEF Counted, Tallied, OneMore, Genuine
<1>7. Tallied(q, h, t)
  BY <1>5, <1>6 DEF Counted, Tallied, OneMore
<1>8. Placed(q, t)
  <2>1. /\ SumFunction(Sizes(t)) = SumFunction(Sizes(s)) + RecordHead + tlv.length
        /\ SumFunction(Sizes(s)) \in Nat
    BY SizesGrow
  <2>2. p.tlv_offset \in Nat /\ tlv.length \in Nat /\ RecordHead \in Nat
    BY TlvTyped, Constants DEF Fw
  <2>3. p.cursor = p.tlv_offset + RecordHead + SumFunction(Sizes(s)) /\ q.tlv_offset = p.tlv_offset
    BY DEF Counted, Placed, OneMore
  <2> HIDE DEF t
  <2> QED
    BY <2>1, <2>2, <2>3 DEF Placed
<1> QED
  BY <1>3, <1>7, <1>8 DEF Counted

\* The counts are right as long as the firmware reads, and of what it accepts.
Signed ==
  /\ phase # "done" => fw.verdict # "accepted"
  /\ phase = "area" /\ Goes(fw) => Tallied(fw, header, <<>>)
  /\ phase = "tlvs" /\ Goes(fw) /\ ~AtEnd(fw.tlv_offset) => Counted(fw, header, tlvs)
  /\ fw.verdict = "accepted" =>
       Counted(fw, header, tlvs) /\ counts_ok(fw) /\ fw.cursor = len

LEMMA SignedInit == ASSUME Init PROVE Signed
BY DEF Init, Start, Signed, Reading

LEMMA StartTallied ==
  ASSUME NEW q, SameBut(Start, q), NEW h, q.tlv_offset = h.header_size + h.image_size
  PROVE  Tallied(q, h, <<>>)
<1>1. /\ q.digest_count = 0 /\ q.digest_verified = FALSE
      /\ q.key_hash_count = 0 /\ q.signature_count = 0
  BY DEF SameBut, Start
<1> QED
  BY <1>1, NoPlaces DEF Tallied

LEMMA SignedHeader == ASSUME IndInv, ReadHeader PROVE Signed'
<1>1. PICK h \in Header :
        /\ fw' = parse_header(fw, h, len)
        /\ header' = [header_size |-> h.header_size, image_size |-> h.image_size]
  BY DEF ReadHeader
<1>2. fw = Start /\ len \in Nat /\ phase' \in {"area", "done"}
  BY Fields, ThenGoes DEF ReadHeader, IndInv, Phased, Typed
<1>3. /\ fw'.verdict \in {Reading, "rejected"}
      /\ Goes(fw') => /\ fw'.tlv_offset = h.header_size + h.image_size
                      /\ SameBut(Start, fw')
  BY <1>1, <1>2, HeaderParsed
<1>4. fw'.verdict # "accepted"
  BY <1>3 DEF Reading
<1>5. Goes(fw') => Tallied(fw', header', <<>>)
  BY <1>1, <1>3, StartTallied
<1> QED
  BY <1>2, <1>4, <1>5 DEF Signed, Goes, Tallied, Places

LEMMA SignedArea == ASSUME IndInv, Signed, ReadArea PROVE Signed'
<1>1. PICK area \in Area : fw' = On(fw, parse_area(fw, area, len))
  BY DEF ReadArea
<1>2. /\ phase = "area" /\ tlvs' = <<>> /\ header' = header /\ fw \in Fw /\ len \in Nat
      /\ phase' \in {"tlvs", "done"} /\ fw.verdict # "accepted" /\ len \in FileSize
      /\ fw.tlv_offset < Word /\ (Goes(fw) => Offset(fw, header, len))
  BY Fields, ThenGoes DEF ReadArea, IndInv, Phased, Typed, Inside, Signed
<1>4. len < SizeModulus
  BY <1>2, Fields, Constants
<1>3. /\ fw'.verdict # "accepted"
      /\ Goes(fw') /\ ~AtEnd(fw'.tlv_offset) => Counted(fw', header', tlvs')
  <2>1. CASE Goes(fw)
    <3>1. fw' = parse_area(fw, area, len)
      BY <1>1, <2>1 DEF On
    <3>2. /\ fw'.verdict \in {Reading, "rejected"} /\ fw'.tlv_offset = fw.tlv_offset
          /\ Goes(fw') => SameBut(fw, fw')
          /\ Goes(fw') /\ ~AtEnd(fw.tlv_offset) => fw'.cursor = fw.tlv_offset + RecordHead
      BY <1>2, <1>4, <2>1, <3>1, AreaParsed DEF Offset
    <3>3. Tallied(fw, header, <<>>)
      BY <1>2, <2>1 DEF Signed
    <3>4. ASSUME Goes(fw'), ~AtEnd(fw'.tlv_offset) PROVE Counted(fw', header', tlvs')
      <4>1. Tallied(fw', header, <<>>)
        BY <3>2, <3>3, <3>4 DEF Tallied, SameBut
      <4>2. fw.tlv_offset + RecordHead = fw.tlv_offset + RecordHead + SumFunction(Sizes(<<>>))
        BY <1>2, NoSizes, Constants DEF Fw
      <4>3. Placed(fw', <<>>)
        BY <3>2, <3>4, <4>2 DEF Placed
      <4>4. Counted(fw', header, <<>>)
        BY <4>1, <4>3 DEF Counted
      <4> QED
        BY <1>2, <4>4
    <3> QED
      BY <3>2, <3>4 DEF Reading
  <2>2. CASE ~Goes(fw)
    BY <1>1, <1>2, <2>2 DEF On
  <2> QED
    BY <2>1, <2>2
<1> HIDE DEF Counted
<1> QED
  BY <1>2, <1>3 DEF Signed, AtEnd, Goes, Counted, Tallied, Placed, Taken, Places, Sizes

LEMMA SignedTlv == ASSUME IndInv, Signed, ReadTlv PROVE Signed'
<1>1. PICK tlv \in Tlvs :
        /\ Goes(fw) /\ AtEnd(fw.tlv_offset) => tlv.pad # 0
        /\ fw' = On(fw, parse_tlv(fw, tlv, sha512(fw.tlv_offset)))
        /\ tlvs' = Append(tlvs, tlv)
  BY DEF ReadTlv
<1>2. /\ phase = "tlvs" /\ tlvs \in Seq(Tlvs) /\ header' = header /\ fw \in Fw
      /\ phase' \in {"tlvs", "done"} /\ fw.verdict # "accepted" /\ Recording(fw)
  BY ThenGoes DEF ReadTlv, IndInv, Typed, Signed
<1>3. /\ fw'.verdict # "accepted"
      /\ Goes(fw') => Counted(fw', header', tlvs')
  <2>1. CASE Goes(fw)
    <3>1. fw' = parse_tlv(fw, tlv, sha512(fw.tlv_offset))
      BY <1>1, <2>1 DEF On
    <3>2. sha512(fw.tlv_offset) = "file"
      BY <1>2, DigestRight DEF Fw
    <3>4. fw'.verdict \in {Reading, "rejected"} /\ (Goes(fw') => tlv.pad = 0)
      BY <1>2, <2>1, <3>1, TlvParsed
    <3>5. Goes(fw') => Counted(fw, header, tlvs)
      BY <1>1, <1>2, <2>1, <3>4 DEF Signed
    <3>6. ASSUME Goes(fw') PROVE Counted(fw', header', tlvs')
      <4>1. /\ OneMore(fw, fw', tlv, "file") /\ Taken(tlv)
            /\ fw'.cursor = fw.cursor + RecordHead + tlv.length
        BY <1>2, <2>1, <3>1, <3>2, <3>6, TlvCounted
      <4>2. Counted(fw', header, Append(tlvs, tlv))
        BY <1>2, <3>5, <3>6, <4>1, StillCounted
      <4> QED
        BY <1>1, <1>2, <4>2
    <3> QED
      BY <3>4, <3>6 DEF Reading
  <2>2. CASE ~Goes(fw)
    BY <1>1, <1>2, <2>2 DEF On
  <2> QED
    BY <2>1, <2>2
<1> QED
  BY <1>2, <1>3 DEF Signed, AtEnd, Goes, Counted, Tallied, Placed, Taken, Places, Sizes

LEMMA SignedVectors == ASSUME IndInv, Signed, ReadVectors PROVE Signed'
<1>1. PICK v \in Vectors : fw' = On(fw, parse_end(fw, header, v))
  BY DEF ReadVectors
<1>2. /\ phase = "tlvs" /\ ~Left /\ phase' = "done" /\ header' = header /\ tlvs' = tlvs
      /\ len' = len /\ fw \in Fw /\ fw.verdict # "accepted" /\ Recording(fw)
      /\ len \in Nat /\ header \in [header_size : Nat, image_size : Nat]
  BY Fields DEF ReadVectors, IndInv, Typed, Signed
<1>3. ASSUME fw'.verdict = "accepted"
      PROVE  Counted(fw', header, tlvs) /\ counts_ok(fw') /\ fw'.cursor = len
  <2>1. Goes(fw) /\ fw' = parse_end(fw, header, v)
    BY <1>1, <1>2, <1>3 DEF On
  <2>2. header.header_size + VectorSize =< fw.tlv_offset
    BY <1>2, <2>1 DEF IndInv, Inside, Offset
  <2>3. counts_ok(fw) /\ vectors_ok(v)
    BY <1>2, <1>3, <2>1, <2>2, EndParsed
  <2>4. ~AtEnd(fw.tlv_offset) /\ fw.cursor = len
    BY <1>2, <2>1, ReadOut
  <2>5. Counted(fw, header, tlvs)
    BY <1>2, <2>1, <2>4 DEF Signed
  <2>6. fw' = [fw EXCEPT !.readTo = header.header_size + VectorSize, !.verdict = "accepted"]
    <3>1. header.header_size + VectorSize \in Nat /\ fw.tlv_offset \in Nat
      <4>1. header.header_size \in Nat
        BY <1>2
      <4> QED
        BY <1>2, <4>1, Constants DEF Fw
    <3> QED
      BY <2>1, <2>2, <2>3, <3>1 DEF parse_end, Unless
  <2>7. /\ fw'.tlv_offset = fw.tlv_offset /\ fw'.cursor = fw.cursor
        /\ fw'.digest_count = fw.digest_count
        /\ fw'.digest_verified = fw.digest_verified
        /\ fw'.key_hash_count = fw.key_hash_count
        /\ fw'.signature_count = fw.signature_count
    BY <1>2, <2>6 DEF Fw
  <2> QED
    BY <2>3, <2>4, <2>5, <2>7 DEF Counted, Tallied, Placed, counts_ok
<1> QED
  BY <1>2, <1>3 DEF Signed, AtEnd, Goes, Counted, Tallied, Placed, Taken, Places, Sizes, counts_ok

LEMMA SignedFile == ASSUME NextFile PROVE Signed'
BY DEF NextFile, Start, Signed, Reading

LEMMA SignedStays ==
  ASSUME Signed, UNCHANGED <<len, header, tlvs, phase, fw>>
  PROVE  Signed'
BY DEF Signed, AtEnd, Goes, Counted, Tallied, Placed, Taken, Places, Sizes, counts_ok

LEMMA SignedNext ==
  ASSUME IndInv, Signed, [Next]_vars
  PROVE  Signed'
<1>1. CASE ReadHeader
  BY <1>1, SignedHeader
<1>2. CASE ReadArea
  BY <1>2, SignedArea
<1>3. CASE ReadTlv
  BY <1>3, SignedTlv
<1>4. CASE ReadVectors
  BY <1>4, SignedVectors
<1>5. CASE CompareVersions
  BY <1>5, SignedStays DEF CompareVersions
<1>6. CASE NextFile
  BY <1>6, SignedFile
<1>7. CASE UNCHANGED vars
  BY <1>7, SignedStays DEF vars
<1> QED
  BY <1>1, <1>2, <1>3, <1>4, <1>5, <1>6, <1>7 DEF Next

(***************************************************************************)
(* Whatever is accepted is a whole, signed file.  (g6he_mcuboot_parse)     *)
(***************************************************************************)
THEOREM AcceptedFilesSigned == Spec => []AcceptedIsSigned
<1>1. IndInv /\ Signed => AcceptedIsSigned
  <2> SUFFICES ASSUME IndInv, Signed, fw.verdict = "accepted" PROVE AcceptedIsSigned
    BY DEF AcceptedIsSigned
  <2>1. Counted(fw, header, tlvs) /\ counts_ok(fw) /\ fw.cursor = len
    BY DEF Signed
  <2>2. /\ tlvs \in Seq(Tlvs) /\ fw \in Fw /\ header \in [header_size : Nat, image_size : Nat]
        /\ Len(tlvs) \in Nat
    BY DEF IndInv, Typed
  <2>3. header.header_size + header.image_size + Filled = len
    <3>1. SumFunction(Sizes(tlvs)) \in Nat
      <4>1. Sizes(tlvs) \in Seq(Nat)
        <5>1. ASSUME NEW i \in 1..Len(tlvs) PROVE RecordHead + tlvs[i].length \in Nat
          <6>1. tlvs[i] \in Tlvs
            BY <2>2
          <6> QED
            BY <6>1, TlvTyped, Constants
        <5> QED
          BY <2>2, <5>1 DEF Sizes
      <4> QED
        BY <4>1, SeqSum
    <3>2. Filled = RecordHead + SumFunction(Sizes(tlvs))
      BY DEF Filled, Sizes
    <3>3. len = fw.tlv_offset + RecordHead + SumFunction(Sizes(tlvs))
      BY <2>1 DEF Counted, Placed
    <3>4. fw.tlv_offset = header.header_size + header.image_size
      BY <2>1 DEF Counted, Tallied
    <3> QED
      BY <2>2, <3>1, <3>2, <3>3, <3>4, Constants
  <2>4. /\ Cardinality(Places(tlvs, {"sha512"})) = 1
        /\ Cardinality(Places(tlvs, {"key_hash"})) = 1
        /\ Cardinality(Places(tlvs, SignatureType)) = 1
        /\ \E i \in Places(tlvs, {"sha512"}) : Genuine(tlvs[i])
        /\ \A i \in 1..Len(tlvs) : Taken(tlvs[i])
    BY <2>1 DEF Counted, Tallied, counts_ok
  <2>5. {i \in 1..Len(tlvs) : IsDigest(tlvs[i])} = Places(tlvs, {"sha512"})
    <3>1. DOMAIN DigestLength = {"sha256", "sha384", "sha512"}
      BY McuBootAssumption
    <3> QED
      BY <2>4, <3>1 DEF IsDigest, Places, Taken
  <2>6. {i \in 1..Len(tlvs) : tlvs[i].type = "sha512" /\ Genuine(tlvs[i])}
          = Places(tlvs, {"sha512"})
    <3>1. IsFiniteSet(Places(tlvs, {"sha512"}))
      <4>1. IsFiniteSet(1..Len(tlvs)) /\ Places(tlvs, {"sha512"}) \subseteq 1..Len(tlvs)
        BY <2>2, FS_Interval DEF Places
      <4> QED
        BY <4>1, FS_Subset
    <3>2. PICK i \in Places(tlvs, {"sha512"}) : Genuine(tlvs[i])
      BY <2>4
    <3>3. Places(tlvs, {"sha512"}) = {i}
      BY <2>4, <3>1, <3>2, FS_Singleton
    <3> QED
      BY <3>2, <3>3 DEF Places
  <2>7. /\ {i \in 1..Len(tlvs) : tlvs[i].type = "key_hash"} = Places(tlvs, {"key_hash"})
        /\ {i \in 1..Len(tlvs) : tlvs[i].type \in SignatureType}
             = Places(tlvs, SignatureType)
    BY DEF Places
  <2>8. ASSUME NEW i \in 1..Len(tlvs)
        PROVE  CASE tlvs[i].type = "key_hash" -> tlvs[i].length \in KeyHashLength
                 [] tlvs[i].type \in SignatureType -> tlvs[i].length # 0
                 [] OTHER -> tlvs[i].pad = 0
    BY <2>4 DEF Taken, SignatureType
  <2> QED
    BY <2>3, <2>4, <2>5, <2>6, <2>7, <2>8 DEF AcceptedIsSigned, Only
<1> QED
  BY <1>1, SignedInit, SignedNext, Invariance, PTL DEF Spec
-----------------------------------------------------------------------------
(***************************************************************************)
(* The order of two versions, four numbers each.                           *)
(***************************************************************************)
Numbers == [1..4 -> Nat]

LEMMA FirstDiffers ==
  ASSUME NEW a \in Numbers, NEW b \in Numbers, Differ(a, b) # {}
  PROVE  LET i == First(Differ(a, b))
         IN /\ i \in 1..4 /\ a[i] # b[i]
            /\ \A j \in 1..i - 1 : a[j] = b[j]
<1> DEFINE D == Differ(a, b)
           i == First(D)
<1>1. D \subseteq 1..4
  BY DEF Differ
<1>2. \E k \in D : \A j \in D : k =< j
  <2>1. CASE 1 \in D
    BY <1>1, <2>1
  <2>2. CASE 1 \notin D /\ 2 \in D
    BY <1>1, <2>2
  <2>3. CASE 1 \notin D /\ 2 \notin D /\ 3 \in D
    BY <1>1, <2>3
  <2>4. CASE 1 \notin D /\ 2 \notin D /\ 3 \notin D
    BY <1>1, <2>4
  <2> QED
    BY <2>1, <2>2, <2>3, <2>4
<1>3. i \in D /\ \A j \in D : i =< j
  BY <1>2 DEF First
<1> HIDE DEF i
<1>4. i \in 1..4 /\ a[i] # b[i]
  BY <1>3 DEF Differ
<1>5. ASSUME NEW j \in 1..i - 1 PROVE a[j] = b[j]
  BY <1>3, <1>4 DEF Differ
<1> QED
  BY <1>4, <1>5 DEF i

LEMMA SameNumbers ==
  ASSUME NEW a \in Numbers, NEW b \in Numbers
  PROVE  Differ(a, b) = {} <=> a = b
<1>1. ASSUME Differ(a, b) = {} PROVE a = b
  BY <1>1 DEF Differ, Numbers
<1> QED
  BY <1>1 DEF Differ

\* The firmware's loop finds the order that Python gives tuples.
LEMMA OrderIsLexical ==
  ASSUME NEW a \in Numbers, NEW b \in Numbers
  PROVE  compare(a, b) = IF a = b THEN 0 ELSE IF Less(a, b) THEN -1 ELSE 1
<1>1. CASE a = b
  BY <1>1, SameNumbers DEF compare
<1>2. CASE a # b
  <2> DEFINE i == First(Differ(a, b))
  <2>1. Differ(a, b) # {}
    BY <1>2, SameNumbers
  <2>2. i \in 1..4 /\ a[i] # b[i] /\ \A j \in 1..i - 1 : a[j] = b[j]
    BY <2>1, FirstDiffers
  <2>3. compare(a, b) = IF a[i] < b[i] THEN -1 ELSE 1
    BY <2>1 DEF compare
  <2> HIDE DEF i
  <2>4. \A j \in 1..4 : a[j] \in Nat /\ b[j] \in Nat
    BY DEF Numbers
  <2>5. Less(a, b) <=> a[i] < b[i]
    <3>1. ASSUME a[i] < b[i] PROVE Less(a, b)
      BY <2>2, <3>1 DEF Less
    <3>2. ASSUME Less(a, b) PROVE a[i] < b[i]
      <4>1. PICK k \in 1..4 : a[k] < b[k] /\ \A j \in 1..k - 1 : a[j] = b[j]
        BY <3>2 DEF Less
      <4>2. ~(k < i)
        BY <2>2, <2>4, <4>1
      <4>3. ~(i < k)
        BY <2>2, <4>1
      <4>4. k = i
        BY <2>2, <4>1, <4>2, <4>3
      <4> QED
        BY <4>1, <4>4
    <3> QED
      BY <3>1, <3>2
  <2> QED
    BY <1>2, <2>3, <2>5
<1> QED
  BY <1>1, <1>2

LEMMA NumbersKept ==
  ASSUME NEW t, t.numbers \in Numbers, \A i \in 1..4 : t.numbers[i] < Word
  PROVE  parse_version(t) = t.numbers
<1>1. ASSUME NEW i \in 1..4 PROVE parse_u32_dec(t.numbers[i]) = t.numbers[i]
  <2>1. t.numbers[i] \in 0..Word - 1
    BY Constants DEF Numbers
  <2> QED
    BY <2>1, Constants DEF parse_u32_dec
<1> QED
  BY <1>1 DEF parse_version, Numbers

\* What was compared are a version of the device and one of the image.
Compared == versions = <<>> \/ versions \in DeviceVersion \X ImageVersion

LEMMA ComparedNext == ASSUME Compared, [Next]_vars PROVE Compared'
BY DEF Compared, Next, ReadHeader, ReadArea, ReadTlv, ReadVectors, CompareVersions,
       NextFile, vars

LEMMA RelationsAgree ==
  ASSUME NEW current \in DeviceVersion, NEW target \in ImageVersion,
         current.prefix # "V", TextLength(target) < VersionStringMax,
         \A i \in 1..4 : current.numbers[i] < Word
  PROVE  Relation(current, target) = ToolWord[_version_order(current, Text("", target))]
<1> DEFINE text == Text("", target)
<1>1. /\ current.numbers \in Numbers /\ target \in Numbers
      /\ \A i \in 1..4 : target[i] < Word
  <2>1. target \in [1..4 -> 0..Word - 1] /\ current.numbers \in [1..4 -> Nat]
    BY ImageCheckAssumption
  <2> QED
    BY <2>1, Constants DEF Numbers
<1>2. format_version(target) = text
  BY DEF format_version
<1>3. text.prefix = "" /\ text.numbers = target
  BY DEF Text
<1> HIDE DEF text
<1>4. parse_version(current) = current.numbers /\ parse_version(text) = target
  BY <1>1, <1>3, NumbersKept
<1>5. /\ Relation(current, target) = version_relation(current, text)
      /\ _version_order(current, text) = _version_order(current, Text("", target))
  BY <1>2 DEF Relation, text
<1>6. /\ ToolWord["same"] = "same" /\ ToolWord["newer"] = "upgrade"
      /\ ToolWord["older"] = "downgrade" /\ ToolWord["unknown"] = "unknown"
  BY DEF ToolWord
<1>7. CASE current.prefix \notin {"", "v"}
  <2>1. version_compare(current, text) = 2
    BY <1>7 DEF version_compare, Parses
  <2>2. version_relation(current, text) = "unknown"
    BY <2>1 DEF version_relation
  <2>3. _version_order(current, text) = "unknown"
    BY <1>7 DEF _version_order
  <2> QED
    BY <1>5, <1>6, <2>2, <2>3
<1>8. CASE current.prefix \in {"", "v"}
  <2> DEFINE a == current.numbers
  <2>1. version_compare(current, text)
          = IF a = target THEN 0 ELSE IF Less(a, target) THEN -1 ELSE 1
    BY <1>1, <1>3, <1>4, <1>8, OrderIsLexical DEF version_compare, Parses
  <2>2. _version_order(current, text)
          = IF a = target THEN "same" ELSE IF Less(a, target) THEN "newer" ELSE "older"
    BY <1>3, <1>8 DEF _version_order
  <2>3. version_relation(current, text)
          = IF a = target THEN "same" ELSE IF Less(a, target) THEN "upgrade" ELSE "downgrade"
    <3>1. CASE a = target
      BY <2>1, <3>1 DEF version_relation
    <3>2. CASE a # target /\ Less(a, target)
      BY <2>1, <3>2 DEF version_relation
    <3>3. CASE a # target /\ ~Less(a, target)
      BY <2>1, <3>3 DEF version_relation
    <3> QED
      BY <3>1, <3>2, <3>3
  <2> QED
    BY <1>5, <1>6, <2>2, <2>3
<1> QED
  BY <1>7, <1>8

(***************************************************************************)
(* Firmware and tool tell the same of every two versions both can read, of *)
(* any size.  (g6he_version_relation, _version_order)                      *)
(***************************************************************************)
THEOREM VersionOrderAgrees == Spec => []VersionsAgree
<1>1. Init => Compared
  BY DEF Init, Compared
<1>2. Compared => VersionsAgree
  <2> SUFFICES ASSUME versions \in DeviceVersion \X ImageVersion PROVE VersionsAgree
    BY DEF Compared, VersionsAgree
  <2>1. versions[1] \in DeviceVersion /\ versions[2] \in ImageVersion
    OBVIOUS
  <2> QED
    BY <2>1, RelationsAgree DEF VersionsAgree
<1> QED
  BY <1>1, <1>2, ComparedNext, PTL DEF Spec
=============================================================================
