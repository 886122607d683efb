------------------------------ MODULE McuBoot ------------------------------
(***************************************************************************)
(* g6he_mcuboot_parse: the firmware's check of an image container, one     *)
(* operator per read of the file, and the comparison of versions.  All     *)
(* rejections are one; what a field may hold is left to the caller.        *)
(*                                                                         *)
(* Offsets and sizes are scaled down by the constants.  What the code adds *)
(* in 32 bits wraps at Word; what it adds in size_t wraps at SizeModulus,   *)
(* which on the 32-bit target is Word too.  The sums of the loop over the   *)
(* TLVs have no room to wrap: see ImageCheckAssumption.                     *)
(***************************************************************************)
EXTENDS Integers, Sequences

CONSTANTS
  Word,              \* 2^32
  SizeModulus,       \* 2^32 or 2^64: what a size_t wraps at
  HeaderMin,         \* G6HE_MCUBOOT_HEADER_MIN_SIZE
  HeaderAlign,       \* 4
  RecordHead,        \* 4: the head of the TLV area, and of a TLV
  VectorSize,        \* 8: initial stack pointer and reset vector
  DigestLength,      \* the length of each digest type
  KeyHashLength,     \* {32, 48, 64}
  MaxTlvs            \* G6HE_MAX_TLVS

ASSUME McuBootAssumption ==
  /\ Word \in Nat \ {0} /\ HeaderMin \in Nat \ {0} /\ HeaderAlign \in Nat \ {0}
  /\ RecordHead \in Nat \ {0} /\ VectorSize \in Nat
  /\ SizeModulus \in Nat /\ Word =< SizeModulus /\ RecordHead =< HeaderMin
  /\ DigestLength \in [{"sha256", "sha384", "sha512"} -> Nat]
  /\ KeyHashLength \subseteq Nat /\ MaxTlvs \in Nat

Reading == "reading"
Reject(p) == [p EXCEPT !.verdict = "rejected"]
Unless(ok, p, next) == IF ok THEN next ELSE Reject(p)

\* out and the locals of the parse; readTo: the end of the latest read.
Start == [verdict |-> Reading, tlv_offset |-> 0, end |-> 0, cursor |-> 0,
          tlvs |-> <<>>, tlv_count |-> 0,
          digest_count |-> 0, digest_verified |-> FALSE,
          key_hash_count |-> 0, signature_count |-> 0, readTo |-> 0]
-----------------------------------------------------------------------------
header_ok(h, len) ==
  /\ h.magic
  /\ HeaderMin =< h.header_size /\ h.header_size =< len
  /\ h.header_size % HeaderAlign = 0
  /\ h.image_size >= VectorSize
  /\ h.load_address \notin {0, Word - 1}
  /\ h.protected_tlv_size = 0

offset_ok(h, len) ==
  LET tlv_offset == (h.header_size + h.image_size) % Word
  IN h.header_size =< tlv_offset /\ (tlv_offset + RecordHead) % SizeModulus =< len

parse_header(p, h, len) ==
  IF len < HeaderMin THEN Reject(p)
  ELSE Unless(header_ok(h, len) /\ offset_ok(h, len),
              [p EXCEPT !.readTo = HeaderMin],
              [p EXCEPT !.readTo = HeaderMin,
                        !.tlv_offset = (h.header_size + h.image_size) % Word])

area_ok_Within(p, area, len) ==  \* a defect: bytes may follow the area
  /\ area.magic /\ RecordHead =< area.total
  /\ (p.tlv_offset + area.total) % SizeModulus =< len
area_ok(p, area, len) ==
  /\ area.magic /\ RecordHead =< area.total
  /\ (p.tlv_offset + area.total) % SizeModulus = len

parse_area(p, area, len) ==
  LET q == [p EXCEPT !.readTo = p.tlv_offset + RecordHead]
  IN Unless(area_ok(p, area, len), q,
            [q EXCEPT !.end = (p.tlv_offset + area.total) % SizeModulus,
                      !.cursor = (p.tlv_offset + RecordHead) % SizeModulus])
-----------------------------------------------------------------------------
SignatureType == {"rsa2048", "ecdsa224", "ecdsa256", "rsa3072", "ed25519"}

\* The digest of the value read against the one of the bytes up to the area.
digest_tlv(p, tlv, computed) ==
  Unless(tlv.length = DigestLength["sha512"], p,
         [p EXCEPT !.digest_count = @ + 1,
                   !.digest_verified = @ \/ tlv.value = computed])

key_hash_tlv(p, tlv) ==
  Unless(tlv.length \in KeyHashLength, p, [p EXCEPT !.key_hash_count = @ + 1])

signature_tlv(p, tlv) ==
  Unless(tlv.length # 0, p, [p EXCEPT !.signature_count = @ + 1])

known_tlv(p, tlv, computed) ==
  CASE tlv.type = "sha512" -> digest_tlv(p, tlv, computed)
    [] tlv.type \in {"sha256", "sha384"} -> Reject(p)
    [] tlv.type = "key_hash" -> key_hash_tlv(p, tlv)
    [] tlv.type \in SignatureType -> signature_tlv(p, tlv)
    [] OTHER -> p

value_end(p, tlv) == p.cursor + RecordHead + tlv.length

record_tlv(p, tlv) ==
  IF p.tlv_count < MaxTlvs
  THEN Append(p.tlvs, [offset |-> p.cursor, type |-> tlv.type]) ELSE p.tlvs

\* One turn of the loop over the TLVs.
tlv_fits_Started(p, tlv) == p.cursor =< p.end  \* a defect
tlv_fits(p, tlv) == value_end(p, tlv) =< p.end

parse_tlv(p, tlv, computed) ==
  IF p.cursor + RecordHead > p.end THEN Reject(p)
  ELSE LET q == [p EXCEPT !.readTo = p.cursor + RecordHead]
       IN Unless(tlv.pad = 0 /\ tlv_fits(p, tlv), q,
                 known_tlv([q EXCEPT !.tlvs = record_tlv(p, tlv),
                                     !.tlv_count = @ + 1,
                                     !.cursor = value_end(p, tlv),
                                     !.readTo = value_end(p, tlv)],
                           tlv, computed))

counts_ok_AnyKeys(p) ==  \* a defect, as in v1.0.0: any number of the others
  p.digest_count = 1 /\ p.digest_verified
counts_ok(p) ==
  /\ p.digest_count = 1 /\ p.digest_verified
  /\ p.key_hash_count = 1
  /\ p.signature_count = 1

vectors_ok(v) ==
  /\ v.initial_sp \notin {0, Word - 1}
  /\ v.reset_vector \notin {0, Word - 1} /\ v.reset_vector % 2 = 1

\* Without room for them both vectors stay 0, which is refused.
parse_end(p, h, v) ==
  IF ~counts_ok(p) \/ h.header_size + VectorSize > p.tlv_offset THEN Reject(p)
  ELSE LET q == [p EXCEPT !.readTo = h.header_size + VectorSize]
       IN Unless(vectors_ok(v), q, [q EXCEPT !.verdict = "accepted"])
=============================================================================
