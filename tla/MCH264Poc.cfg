CONSTANTS
  PocTypes = {0, 1, 2}
  HalfLsb = 4
  MaxFrameNum = 4
  PocWidth = 24
  Cycle <- MCCycle
  OffsetNonRef <- MCNonRef
  OffsetBottom = 1
  Deltas <- MCDeltas
  MaxFrames = 10
SPECIFICATION Spec
INVARIANT DecodedRight
CHECK_DEADLOCK FALSE
