CONSTANTS
  SrcBuf = {s1}
  DstBuf = {d1, d2, d3}
  NoBuf = nobuf
  VififoSize = 4
  Internal = 1
  Reserve = 1
  MaxUsed = 3
  PacketSize <- MCPacketSize
  Payload <- MCPayload
  WriteFails = TRUE
  Commands = TRUE
  Reorder = 1
  MaxLsb = 4
  Poc <- MCPoc
  MaxRefs = 1
SYMMETRY BufSymmetry
SPECIFICATION Spec
INVARIANTS BufferConservation OwnTimestamp InOrder ReferencesReach
PROPERTIES Throttled
CHECK_DEADLOCK FALSE
