------------------------------- MODULE Codec -------------------------------
(***************************************************************************)
(* The reports between the tool and the mouse, byte for byte: requests of  *)
(* one report, responses cut over several.  The firmware's half is         *)
(* g6he_protocol.c, the tool's g6he_mac_tool.py.  Report sizes and the     *)
(* range of a byte are constants.                                          *)
(*                                                                         *)
(* A report is a function from 0 on, as in the code; payloads and streams  *)
(* are sequences.  Invalid stands for every error.                         *)
(***************************************************************************)
EXTENDS Integers, Sequences, SequencesExt

CONSTANTS
  ByteModulus,            \* 256
  ReportSize,             \* G6HE_REPORT_SIZE
  IdOut, IdIn, Marker,    \* G6HE_REPORT_ID_OUT, _IN, G6HE_FRAME_MARKER
  KindNormal, KindUpdate  \* G6HE_FRAME_KIND_NORMAL, _UPDATE

Byte == 0..ByteModulus - 1
Index == 0..ReportSize - 1
Report == [Index -> Byte]

ASSUME CodecAssumption ==
  /\ ReportSize \in Nat /\ 10 =< ReportSize
  /\ ByteModulus \in Nat /\ ReportSize =< ByteModulus
  /\ {IdOut, IdIn, Marker, KindNormal, KindUpdate} \subseteq Byte
  /\ KindNormal # KindUpdate

MaxRequestPayload == ReportSize - 8
FirstStream == ReportSize - 6  \* G6HE_FIRST_REPORT_STREAM: bytes 6..32
NextStream == ReportSize - 1   \* G6HE_NEXT_REPORT_STREAM: bytes 1..32
Invalid == [valid |-> FALSE]

payload_checksum(bytes) == SumFunction(bytes) % (ByteModulus * ByteModulus)
checksum_bytes(bytes) ==
  <<payload_checksum(bytes) % ByteModulus, payload_checksum(bytes) \div ByteModulus>>
Not(byte) == ByteModulus - 1 - byte
frame_kind(update) == IF update THEN KindUpdate ELSE KindNormal

\* The head of six bytes, and the stream from byte 6 on.
Frame(id, kind, length, sequence, stream, pad) ==
  [i \in Index |->
     CASE i = 0 -> id [] i = 1 -> Marker [] i = 2 -> kind
       [] i = 3 -> length [] i = 4 -> Not(length) [] i = 5 -> sequence
       [] OTHER -> IF i - 5 =< Len(stream) THEN stream[i - 5] ELSE pad]
-----------------------------------------------------------------------------
\* Requests
frame_build(sequence, payload, update) ==
  Frame(IdOut, frame_kind(update), Len(payload) + 2, sequence,
        payload \o checksum_bytes(payload), 0)

LengthOk_Trusted(report) ==  \* a defect: the complement is not looked at
  2 =< report[3]
LengthOk(report) ==
  (report[3] + report[4]) % ByteModulus = ByteModulus - 1 /\ 2 =< report[3]

ChecksumOk_HighByte(bytes, received) ==  \* a defect: half of it is compared
  received[2] = checksum_bytes(bytes)[2]
ChecksumOk(bytes, received) == received = checksum_bytes(bytes)

Request(sequence, payload, update) ==
  [valid |-> TRUE, sequence |-> sequence, payload |-> payload, update |-> update]

frame_parse(report) ==
  LET n == report[3] - 2
      payload == [i \in 1..n |-> report[5 + i]]
  IN IF /\ report[0] = IdOut /\ report[1] = Marker
        /\ report[2] \in {KindNormal, KindUpdate}
        /\ LengthOk(report) /\ n =< MaxRequestPayload
        /\ ChecksumOk(payload, <<report[6 + n], report[7 + n]>>)
     THEN Request(report[5], payload, report[2] = KindUpdate)
     ELSE Invalid
-----------------------------------------------------------------------------
\* Responses.  logical: type, sequence, command, status, and the data.
response_fits(logical) == Len(logical) + 2 =< ByteModulus - 1

\* How many reports follow the first.
Following(n) ==
  IF n =< FirstStream THEN 0
  ELSE (n - FirstStream + NextStream - 1) \div NextStream

\* What the stack held fills a first report that the stream does not.
response_encode(logical, update, stack) ==
  LET stream == logical \o checksum_bytes(logical)
      sent(r) == FirstStream + (r - 2) * NextStream
  IN [r \in 1..1 + Following(Len(stream)) |->
        IF r = 1
        THEN Frame(IdIn, frame_kind(update), Len(stream), logical[2], stream, stack)
        ELSE [i \in Index |->
                CASE i = 0 -> IdIn
                  [] i # 0 /\ sent(r) + i =< Len(stream) -> stream[sent(r) + i]
                  [] OTHER -> 0]]

\* The streams of the reports put together again.
Collected(reports) ==
  [i \in 1..FirstStream + (Len(reports) - 1) * NextStream |->
     IF i =< FirstStream THEN reports[1][5 + i]
     ELSE reports[2 + (i - FirstStream - 1) \div NextStream]
                 [1 + ((i - FirstStream - 1) % NextStream)]]

Payload(bytes) == [valid |-> TRUE, logical |-> bytes]

Stitched(reports, n) ==
  LET stream == Collected(reports)
      bytes == SubSeq(stream, 1, n)
  IN IF ChecksumOk(bytes, <<stream[n + 1], stream[n + 2]>>) THEN Payload(bytes)
     ELSE Invalid

response_decode_AnyFollowing(reports) ==  \* a defect: whose the others are
  LET n == reports[1][3] - 2
  IN IF /\ reports # <<>> /\ reports[1][0] = IdIn /\ reports[1][1] = Marker
        /\ LengthOk(reports[1]) /\ 4 =< n
        /\ 1 + Following(n + 2) =< Len(reports)
     THEN Stitched(reports, n) ELSE Invalid
response_decode(reports) ==
  LET n == reports[1][3] - 2
      used == 1 + Following(n + 2)
  IN IF /\ reports # <<>> /\ reports[1][0] = IdIn /\ reports[1][1] = Marker
        /\ LengthOk(reports[1]) /\ 4 =< n
        /\ used =< Len(reports)
        /\ \A r \in 2..used : reports[r][0] = IdIn
     THEN Stitched(reports, n) ELSE Invalid

\* The tool's: it reads as many reports as it needs, and what called it refuses
\* a payload without a status.
_read_response(reports) ==
  IF /\ reports # <<>> /\ reports[1][0] = IdIn /\ reports[1][1] = Marker
     /\ (reports[1][3] + reports[1][4]) % ByteModulus = ByteModulus - 1
  THEN LET n == reports[1][3] - 2
           used == 1 + Following(n + 2)
       IN IF /\ 4 =< n
             /\ used =< Len(reports)
             /\ \A r \in 2..used : reports[r][0] = IdIn
          THEN Stitched(reports, n) ELSE Invalid
  ELSE Invalid
=============================================================================
