CONSTANTS
  None = None
  NonFinite = NonFinite
  Sizes <- MCSizes
  BASE = 8
  BadNames = {"Door"}
  MAGIC = 1
  VERSION = 1
  MAX_FRAMES = 3
  MAX_DATAGRAM_LEN = 15
  U16Len = 1
  U64Len = 1
  ONE = 32
  EXACT = 32
  Ulps <- MCUlps
  FloatMax = 253952
  I128Max = 1023
  Floats <- MCFloats
  F32Limit = 960
  Docs <- MCDocs
  Readings <- MCReadings
  Stamps = {0, 1}
  RandomDatagrams <- MCRandomDatagrams
  OTHER_MAGIC = 6
  FirstUnknown = 6
  MaxExtra = 3
SPECIFICATION Spec
CHECK_DEADLOCK FALSE
INVARIANTS
  TypeOK
  BytesAccounted
  FramesAccounted
  KindHitsItsPath
  CatalogUsable
  RoundTrip
  EncodesBack
