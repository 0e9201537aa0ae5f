SPECIFICATION FairSpec
CONSTANTS
  PayloadBits = 7
  WideBits = 16
  NarrowBits = 8
  Fixed64 = 2
  Fixed32 = 1
  Schemas <- MessageKinds
  Canonical <- MCCanonical
  ZeroInteger <- MCZero
  Samples <- MCSamples
  Extensions <- MCExtensions
  RawMessages <- MCRawMessages
  RawBytes <- MCRawBytes
  MaxRaw = 4
CHECK_DEADLOCK FALSE
INVARIANTS
  ArrivesAsSent
  NothingSentIsRejected
  CutMessagesAreParts
  SizeIsExact
  ReadsInside
PROPERTIES
  DecodingEnds
