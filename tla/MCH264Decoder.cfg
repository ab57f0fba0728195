CONSTANTS
  SrcBuf = {s1}
  DstBuf = {d1, d2}
  NoBuf = nobuf
  Frame = {d1, d2}
  NoFrame = nobuf
  NumSlots = 2
  MaxRefs = 1
  MaxFrameNum = 2
  ListSize = 1
  PocMod = 4
  SequenceMod = 3
  Streams <- FramesOrFields
  Sizes = {2}
  MaxPosts = 3
  MaxIdr = 1
  MbWidth = 4
  MbHeight = 4
  NumBuffers = 3
  MaxEntries = 3
  MaxCount = 2
SYMMETRY BufSymmetry
SPECIFICATION Spec
INVARIANTS BufferConservation ReferencesBacked NoCrash
CHECK_DEADLOCK FALSE
