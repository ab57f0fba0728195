CONSTANTS
  SrcBuf = {s1}
  DstBuf = {d1}
  NoBuf = nobuf
  Controls <- SomeControls
  IdMod = 2
  MayFail = FALSE
SPECIFICATION FairSpec
PROPERTIES StreamOffReturns
CHECK_DEADLOCK FALSE
