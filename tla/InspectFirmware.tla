-------------------------- MODULE InspectFirmware --------------------------
(***************************************************************************)
(* inspect_firmware (g6he_mac_tool.py): the desktop tool's check of the    *)
(* same containers, with Python's unbounded integers and all three digests. *)
(* All FirmwareErrors are one.                                             *)
(***************************************************************************)
EXTENDS Integers

CONSTANTS HeaderMin, HeaderMax, HeaderAlign, RecordHead, VectorSize, Word,
          DigestLength, KeyHashLength

Begin == [verdict |-> "reading", tlv_offset |-> 0, expected_end |-> 0, cursor |-> 0,
          digest_count |-> 0, verified_digest |-> "none",
          key_hash_count |-> 0, signature_count |-> 0]
Raise(p) == [p EXCEPT !.verdict = "rejected"]
Checked(ok, p, next) == IF ok THEN next ELSE Raise(p)

inspect_header(p, h, len) ==
  Checked(/\ HeaderMin =< len
          /\ h.magic
          /\ HeaderMin =< h.header_size
          /\ h.header_size =< len /\ h.header_size =< HeaderMax
          /\ h.header_size % HeaderAlign = 0
          /\ VectorSize =< h.image_size
          /\ h.load_address \notin {0, Word - 1}
          /\ h.protected_tlv_size = 0
          /\ h.header_size + h.image_size + RecordHead =< len,
          p, [p EXCEPT !.tlv_offset = h.header_size + h.image_size])

inspect_area(p, area, len) ==
  Checked(area.magic /\ RecordHead =< area.total /\ p.tlv_offset + area.total = len,
          p, [p EXCEPT !.cursor = p.tlv_offset + RecordHead, !.expected_end = len])

DigestTypes == DOMAIN DigestLength
SignatureTypes == {"rsa2048", "ecdsa224", "ecdsa256", "rsa3072", "ed25519"}

inspect_known(p, tlv, computed) ==
  CASE tlv.type \in DigestTypes ->
         Checked(tlv.length = DigestLength[tlv.type], p,
                 [p EXCEPT !.digest_count = @ + 1,
                           !.verified_digest = IF tlv.value = computed THEN tlv.type ELSE @])
    [] tlv.type = "key_hash" ->
         Checked(tlv.length \in KeyHashLength, p, [p EXCEPT !.key_hash_count = @ + 1])
    [] tlv.type \in SignatureTypes ->
         Checked(tlv.length # 0, p, [p EXCEPT !.signature_count = @ + 1])
    [] OTHER -> p

inspect_tlv(p, tlv, computed) ==
  LET value_end == p.cursor + RecordHead + tlv.length
  IN Checked(p.cursor + RecordHead =< p.expected_end /\ tlv.pad = 0
               /\ value_end =< p.expected_end,
             p, inspect_known([p EXCEPT !.cursor = value_end], tlv, computed))

inspect_end(p, v) ==
  Checked(/\ p.digest_count = 1 /\ p.verified_digest # "none"
          /\ p.key_hash_count = 1 /\ p.signature_count = 1
          /\ v.initial_sp \notin {0, Word - 1}
          /\ v.reset_vector \notin {0, Word - 1} /\ v.reset_vector % 2 = 1,
          p, [p EXCEPT !.verdict = "accepted"])
=============================================================================
