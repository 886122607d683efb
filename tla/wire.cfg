SPECIFICATION Spec
CONSTANTS
  ByteModulus = 32
  ReportSize = 14
  IdOut = 18
  IdIn = 17
  Marker = 10
  KindNormal = 21
  KindUpdate = 22
  Sequence = {1, 31}
  RequestPayload <- Requests
  ResponsePayload <- Responses
  Stack = {0, 7}
  ForeignReport <- Foreign
INVARIANTS
  RequestIntact
  ResponseIntact
  ReadersAgree
