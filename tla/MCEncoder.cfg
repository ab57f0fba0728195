CONSTANTS
  SrcBuf = {s1}
  DstBuf = {d1, d2}
  NoBuf = nobuf
  Controls <- SomeControls
  IdMod = 2
  MayFail = TRUE
SPECIFICATION FairSpec
INVARIANTS BufferConservation NoCrash GroupsInOrder BoostedOnce RateFollows
PROPERTIES HeaderThenIdr JobEnds
CHECK_DEADLOCK FALSE
