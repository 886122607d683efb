----------------------------- MODULE ImageCheck -----------------------------
(***************************************************************************)
(* A file is checked by both implementations, the firmware's McuBoot and   *)
(* the tool's InspectFirmware, field by field: what a field holds is chosen *)
(* when it is read, and both get to read the same.  The digest the firmware *)
(* computes is that of HashStream; the one in a genuine file, and the one   *)
(* the tool computes with hashlib, is the reference.                       *)
(*                                                                         *)
(* Where size_t is as narrow as the fields, the firmware may read the head  *)
(* of the area behind the file, wrapped to just before its first byte, and  *)
(* the TLVs from the file's own first bytes, the magic of its header.  None *)
(* of those is the other half of an area's magic, nor 0 as a pad must be.   *)
(***************************************************************************)
EXTENDS McuBoot, FiniteSets, SequencesExt

CONSTANTS
  HeaderMax,                         \* 0x10000
  BlockSize512, LengthSize512, BlockSize256, LengthSize256,
  FileSize, HeaderSize, ImageSize, AreaSize, Length,  \* what the fields may hold
  TlvType, Vector,
  Base, MaxDigits, VersionStringMax, ImageVersion, DeviceVersion

VARIABLES
  len, header, tlvs,  \* what was read of the file
  phase, fw, tool,
  versions            \* the device's version text, and the image's version

vars == <<len, header, tlvs, phase, fw, tool, versions>>

Inspect == INSTANCE InspectFirmware
INSTANCE Version
Sha512 == INSTANCE HashStream WITH BlockSize <- BlockSize512, LengthSize <- LengthSize512
Sha256 == INSTANCE HashStream WITH BlockSize <- BlockSize256, LengthSize <- LengthSize256

ASSUME ImageCheckAssumption ==
  /\ Sha512!HashSizes /\ Sha256!HashSizes
  /\ FileSize \subseteq Nat /\ AreaSize \subseteq 0..SizeModulus - 1 /\ Length \subseteq Nat
  \* A file in memory leaves the address space room for one field of 16 bits.
  /\ \A n \in FileSize, x \in Length \cup {0} : n + RecordHead + x < SizeModulus
  /\ HeaderSize \subseteq 0..Word - 1 /\ ImageSize \subseteq 0..Word - 1
  /\ HeaderSize \subseteq 0..HeaderMax
  /\ ImageVersion \subseteq [1..4 -> 0..Word - 1]
  /\ \A t \in DeviceVersion : t.numbers \in [1..4 -> Nat]

\* Two digests are equal iff they are of the same blocks; "file" is the one
\* the standard gives the bytes before the TLVs.
sha512(n) == IF Sha512!digest(n) = Sha512!Reference(n) THEN "file" ELSE "wrong"
hashlib(n) == "file"
sha512_InPieces(k, n) ==
  Sha512!final(Sha512!update(Sha512!update(Sha512!init, Sha512!Piece(0, k)),
                             Sha512!Piece(k, n - k)))
sha256_update(ctx, bytes) == Sha256!update(ctx, bytes)
sha256_final(ctx) == Sha256!final(ctx)
sha256_InPieces(k, n) ==
  sha256_final(sha256_update(sha256_update(Sha256!init, Sha256!Piece(0, k)),
                             Sha256!Piece(k, n - k)))

Header == [magic : BOOLEAN, header_size : HeaderSize, image_size : ImageSize,
           load_address : {0, 1, Word - 1}, protected_tlv_size : {0, 1}]
Area == [magic : BOOLEAN, total : AreaSize]
Vectors == [initial_sp : Vector, reset_vector : Vector]

\* A digest TLV holds the digest of the file, or another.
IsDigest(tlv) == tlv.type \in DOMAIN DigestLength
Genuine(tlv) == tlv.value = "file"
Tlvs == [type : TlvType, pad : {0, 1}, length : Length, value : {"other"}]
          \cup [type : TlvType \cap DOMAIN DigestLength, pad : {0}, length : Length,
                value : {"file"}]
-----------------------------------------------------------------------------
Init ==
  /\ len \in FileSize
  /\ header = [header_size |-> 0, image_size |-> 0]
  /\ phase = "header" /\ tlvs = <<>>
  /\ fw = Start /\ tool = Inspect!Begin
  /\ versions = <<>>

\* The area is so near the end of the address space that, added in size_t, the
\* end of its head wraps.
AtEnd(tlv_offset) == tlv_offset + RecordHead >= SizeModulus

\* The file is read on as long as either wants to.
Goes(p) == p.verdict = Reading
On(p, next) == IF Goes(p) THEN next ELSE p
Then(next) == phase' = IF Goes(fw') \/ Goes(tool') THEN next ELSE "done"

ReadHeader ==
  /\ phase = "header"
  /\ \E h \in Header :
       /\ fw' = parse_header(fw, h, len) /\ tool' = Inspect!inspect_header(tool, h, len)
       /\ header' = [header_size |-> h.header_size, image_size |-> h.image_size]
  /\ Then("area")
  /\ UNCHANGED <<len, tlvs, versions>>

ReadArea ==
  /\ phase = "area"
  /\ \E area \in Area :
       /\ Goes(fw) /\ fw.tlv_offset = SizeModulus - 1 => ~area.magic
       /\ fw' = On(fw, parse_area(fw, area, len))
       /\ tool' = On(tool, Inspect!inspect_area(tool, area, len))
  /\ Then("tlvs")
  /\ UNCHANGED <<len, header, tlvs, versions>>

Left == \/ Goes(fw) /\ fw.cursor < fw.end
        \/ Goes(tool) /\ tool.cursor < tool.expected_end

ReadTlv ==
  /\ phase = "tlvs" /\ Left
  /\ LET computed == sha512(fw.tlv_offset) IN \E tlv \in Tlvs :
       /\ Goes(fw) /\ AtEnd(fw.tlv_offset) => tlv.pad # 0
       /\ fw' = On(fw, parse_tlv(fw, tlv, computed))
       /\ tool' = On(tool, Inspect!inspect_tlv(tool, tlv, hashlib(tool.tlv_offset)))
       /\ tlvs' = Append(tlvs, tlv)
  /\ Then("tlvs")
  /\ UNCHANGED <<len, header, versions>>

ReadVectors ==
  /\ phase = "tlvs" /\ ~Left
  /\ \E v \in Vectors :
       /\ fw' = On(fw, parse_end(fw, header, v))
       /\ tool' = On(tool, Inspect!inspect_end(tool, v))
  /\ phase' = "done"
  /\ UNCHANGED <<len, header, tlvs, versions>>

CompareVersions ==
  /\ phase = "done" /\ fw.verdict = "accepted" /\ versions = <<>>
  /\ versions' \in DeviceVersion \X ImageVersion
  /\ UNCHANGED <<len, header, tlvs, phase, fw, tool>>

NextFile ==
  /\ phase = "done"
  /\ len' \in FileSize
  /\ header' = [header_size |-> 0, image_size |-> 0]
  /\ phase' = "header" /\ tlvs' = <<>>
  /\ fw' = Start /\ tool' = Inspect!Begin
  /\ versions' = <<>>

Next == \/ ReadHeader \/ ReadArea \/ ReadTlv \/ ReadVectors
        \/ CompareVersions \/ NextFile

Spec == Init /\ [][Next]_vars
-----------------------------------------------------------------------------
TypeOK ==
  /\ len \in Nat
  /\ phase \in {"header", "area", "tlvs", "done"}
  /\ \A p \in {fw, tool} : p.verdict \in {Reading, "rejected", "accepted"}
  /\ phase = "done" <=> ~Goes(fw) /\ ~Goes(tool)
  /\ fw.tlv_count \in Nat /\ fw.digest_count \in Nat
  /\ fw.key_hash_count \in Nat /\ fw.signature_count \in Nat
  /\ Len(fw.tlvs) =< MaxTlvs

(***************************************************************************)
(* The firmware's parse reads no byte behind the end of the file, whatever *)
(* its fields hold, but for an area whose head reaches the end of a 32-bit  *)
(* address space: the sum that should refuse it wraps, and its head is read *)
(* at an offset far behind the file.  (g6he_mcuboot_parse)                  *)
(***************************************************************************)
StaysInside == fw.readTo =< len
ReadsInsideFile == StaysInside \/ AtEnd(fw.tlv_offset)

(***************************************************************************)
(* What the firmware accepts is a whole, signed file: its TLVs fill the    *)
(* rest of it to the last byte, and among them are one digest, which is the *)
(* file's, one key hash of a possible length and one signature.            *)
(* (g6he_mcuboot_parse; g6he_mcuboot.h, "exactly one digest, key-hash and  *)
(* signature TLV")                                                         *)
(***************************************************************************)
Only(test(_)) == Cardinality({i \in 1..Len(tlvs) : test(tlvs[i])}) = 1
Filled == RecordHead + SumFunction([i \in 1..Len(tlvs) |-> RecordHead + tlvs[i].length])
AcceptedIsSigned ==
  fw.verdict = "accepted" =>
    /\ header.header_size + header.image_size + Filled = len
    /\ Only(IsDigest)
    /\ Only(LAMBDA t : t.type = "sha512" /\ Genuine(t))
    /\ Only(LAMBDA t : t.type = "key_hash")
    /\ Only(LAMBDA t : t.type \in SignatureType)
    /\ \A i \in 1..Len(tlvs) :
          CASE tlvs[i].type = "key_hash" -> tlvs[i].length \in KeyHashLength
            [] tlvs[i].type \in SignatureType -> tlvs[i].length # 0
            [] OTHER -> tlvs[i].pad = 0

(***************************************************************************)
(* The two implementations agree on every file, but for the digests that   *)
(* only the tool knows.  (inspect_firmware, g6he_mcuboot_parse)            *)
(***************************************************************************)
ToolAgrees ==
  phase = "done" =>
    (fw.verdict = "accepted" <=>
       /\ tool.verdict = "accepted"
       /\ \A i \in 1..Len(tlvs) : tlvs[i].type \notin {"sha256", "sha384"})

(***************************************************************************)
(* Where both can tell, they tell the same of two versions.  They cannot   *)
(* where a number of the device's text overflows, where the text is of a   *)
(* shape only one knows, and for the longest version, which does not fit.  *)
(* (g6he_version_relation, g6he_mcuboot_format_version, _version_order)    *)
(***************************************************************************)
Relation(current, v) == version_relation(current, format_version(v))
ToolWord == [same |-> "same", newer |-> "upgrade", older |-> "downgrade",
             unknown |-> "unknown"]
VersionsAgree ==
  versions # <<>> =>
    LET current == versions[1]
        target == versions[2]
    IN /\ current.prefix # "V" /\ TextLength(target) < VersionStringMax
       /\ \A i \in 1..4 : current.numbers[i] < Word
       => Relation(current, target)
            = ToolWord[_version_order(current, Text("", target))]

(***************************************************************************)
(* The digests of the bytes before the TLVs are those of the standard, fed *)
(* in one piece or cut in two anywhere.  (g6he_sha512_update, _final,      *)
(* g6he_sha256_update, _final)                                             *)
(***************************************************************************)
DigestsStandard ==
  phase = "area" => \A k \in 0..fw.tlv_offset :
    /\ sha512_InPieces(k, fw.tlv_offset) = Sha512!Reference(fw.tlv_offset)
    /\ sha256_InPieces(k, fw.tlv_offset) = Sha256!Reference(fw.tlv_offset)
=============================================================================
