CONSTANTS
  SrcBuf = {s1}
  DstBuf = {d1, d2, d3}
  NoBuf = nobuf
  VififoSize = 4
  Internal = 1
  Reserve = 1
  MaxUsed = 1
  PacketSize <- MCPacketSize
  Payload <- MCPayload
  WriteFails = FALSE
  Commands = FALSE
  HeaderSize = 2
  MinPacket = 6
  PatternLen = 2
  MaxFrames = 3
  MaxSize = 3
  MaxPlane = 18
  RefSlot = {r1, r2}
SYMMETRY SlotSymmetry
SPECIFICATION Spec
INVARIANT KeepsDecoding

CHECK_DEADLOCK FALSE
