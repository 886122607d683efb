SPECIFICATION Spec
CONSTANTS
  Word = 32
  SizeModulus = 32
  HeaderMin = 4
  HeaderMax = 31
  HeaderAlign = 4
  RecordHead = 2
  VectorSize = 2
  DigestLength <- Lengths
  KeyHashLength = {1, 2}
  MaxTlvs = 3
  BlockSize512 = 4
  LengthSize512 = 2
  BlockSize256 = 3
  LengthSize256 = 1
  FileSize = {3, 6, 18, 19, 20, 22}
  HeaderSize = {0, 4, 5, 8}
  ImageSize = {1, 2, 3, 4, 5, 26, 27, 30}
  AreaSize = {1, 2, 6, 8, 12, 13, 14, 16}
  Length = {0, 1, 2}
  TlvType = {"sha256", "sha512", "key_hash", "ed25519", "other"}
  Vector = {0, 1, 2, 31}
  Base = 2
  MaxDigits = 5
  VersionStringMax = 12
  ImageVersion <- Images
  DeviceVersion <- Devices
INVARIANTS
  ReadsInsideFile
  AcceptedIsSigned
  ToolAgrees
  VersionsAgree
  DigestsStandard
