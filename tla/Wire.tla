-------------------------------- MODULE Wire --------------------------------
(***************************************************************************)
(* A request and a response on their way through the link, which may do    *)
(* one thing to each: change a byte, lose a report, or let another report  *)
(* of the mouse in between.                                                *)
(***************************************************************************)
EXTENDS Codec

CONSTANTS
  Sequence, RequestPayload, ResponsePayload,
  Stack,         \* what an uninitialized byte may hold
  ForeignReport  \* reports of the mouse that are no responses

ASSUME WireAssumption ==
  /\ Sequence \subseteq Byte /\ Stack \subseteq Byte
  /\ \A p \in RequestPayload : p \in Seq(Byte) /\ Len(p) =< MaxRequestPayload
  /\ \A l \in ResponsePayload : l \in Seq(Byte) /\ 4 =< Len(l)
  /\ \A f \in ForeignReport : f \in Report /\ f[0] # IdIn

VARIABLES
  phase, harm,              \* harm: the one thing the link did, or "none"
  request, frame, parsed,   \* asked, on the link, and as the mouse reads it
  response, reports,        \* answered, and on the link
  decoded, read             \* as response_decode and as the tool reads it

requestVars == <<request, frame, parsed>>
responseVars == <<response, reports, decoded, read>>
vars == <<phase, harm, requestVars, responseVars>>

None == <<>>

Init ==
  /\ phase = "idle" /\ harm = "none"
  /\ request = None /\ frame = None /\ parsed = None
  /\ response = None /\ reports = None /\ decoded = None /\ read = None

Ask ==
  /\ phase = "idle" /\ phase' = "asked"
  /\ \E s \in Sequence, p \in RequestPayload, u \in BOOLEAN :
       request' = Request(s, p, u) /\ frame' = frame_build(s, p, u)
  /\ UNCHANGED <<harm, parsed, responseVars>>

HarmRequest ==
  /\ phase = "asked" /\ harm = "none" /\ harm' = "changed"
  /\ \E i \in Index, b \in Byte : frame' = [frame EXCEPT ![i] = b]
  /\ UNCHANGED <<phase, request, parsed, responseVars>>

Parse ==
  /\ phase = "asked" /\ phase' = "parsed"
  /\ parsed' = frame_parse(frame)
  /\ UNCHANGED <<harm, request, frame, responseVars>>

Answer ==
  /\ phase = "idle" /\ phase' = "answered"
  /\ \E l \in ResponsePayload, u \in BOOLEAN, b \in Stack :
       /\ response_fits(l)
       /\ response' = Payload(l) /\ reports' = response_encode(l, u, b)
  /\ UNCHANGED <<harm, decoded, read, requestVars>>

HarmResponse ==
  /\ phase = "answered" /\ harm = "none"
  /\ \/ \E r \in DOMAIN reports, i \in Index, b \in Byte :
          reports' = [reports EXCEPT ![r][i] = b] /\ harm' = "changed"
     \/ \E r \in DOMAIN reports :
          /\ reports' = RemoveAt(reports, r)
          /\ harm' = IF r = 1 THEN "head lost" ELSE "lost"
     \/ \E r \in 1..Len(reports) + 1, f \in ForeignReport :
          reports' = InsertAt(reports, r, f) /\ harm' = "inserted"
  /\ UNCHANGED <<phase, requestVars, response, decoded, read>>

Read ==
  /\ phase = "answered" /\ phase' = "read"
  /\ decoded' = response_decode(reports) /\ read' = _read_response(reports)
  /\ UNCHANGED <<harm, requestVars, response, reports>>

Done ==
  /\ phase \in {"parsed", "read"} /\ phase' = "idle" /\ harm' = "none"
  /\ request' = None /\ frame' = None /\ parsed' = None
  /\ response' = None /\ reports' = None /\ decoded' = None /\ read' = None

Next == Ask \/ HarmRequest \/ Parse \/ Answer \/ HarmResponse \/ Read \/ Done
Spec == Init /\ [][Next]_vars
-----------------------------------------------------------------------------
TypeOK ==
  /\ phase \in {"idle", "asked", "parsed", "answered", "read"}
  /\ harm \in {"none", "changed", "lost", "head lost", "inserted"}
  /\ phase \in {"asked", "parsed"} => frame \in Report
  /\ phase \in {"answered", "read"} => reports \in Seq(Report)

(***************************************************************************)
(* The mouse reads the request that was asked; of one with a byte changed, *)
(* it reads nothing, or at least nothing but the payload that was asked.   *)
(* (g6he_frame_build, g6he_frame_parse)                                    *)
(***************************************************************************)
RequestIntact ==
  phase = "parsed" =>
    IF harm = "none" THEN parsed = request
    ELSE parsed.valid => parsed.payload = request.payload

(***************************************************************************)
(* A response of any length arrives as it was sent, over however many      *)
(* reports and whatever is in the bytes between; one that was harmed is     *)
(* refused, or arrives all the same.  Only where the first of several       *)
(* reports is lost does nothing tell the second from a first one, and data  *)
(* that looks like a response is taken for one.  (g6he_response_encode,     *)
(* g6he_response_decode)                                                   *)
(***************************************************************************)
HeadTaken == harm = "head lost" /\ reports # <<>>
ResponseIntact ==
  phase = "read" =>
    IF harm = "none" THEN decoded = response
    ELSE decoded.valid => decoded = response \/ HeadTaken

(***************************************************************************)
(* Tool and firmware understand a response alike.  (_read_response,        *)
(* g6he_response_decode)                                                   *)
(***************************************************************************)
ReadersAgree == phase = "read" => read = decoded
=============================================================================
