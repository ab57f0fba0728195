CONSTANTS
  SrcBuf = {s1}
  DstBuf = {d1, d2}
  NoBuf = nobuf
  Frame = {d1, d2}
  NoFrame = nobuf
  NumPics = 2
  PocMod = 2
  SeqMod = 2
  PicType = {"I", "B"}
  Poc = {0, 1}
  MayFail = TRUE
  MaxAsks = 1
SPECIFICATION FairSpec
INVARIANTS RefsInUse BufferConservation NoCrash
PROPERTIES StopHidesNothing NoReferenceOutput StreamOffReturns
CHECK_DEADLOCK FALSE
