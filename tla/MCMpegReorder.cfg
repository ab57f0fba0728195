CONSTANTS
  NumPics = 5
  PocMod = 6
  SeqMod = 11
  Frame = {f1, f2, f3, f4, f5}
  NoFrame = noframe
  MaxB = 2
  MaxPics = 10
SYMMETRY FrameSymmetry
SPECIFICATION ReorderSpec
INVARIANTS NothingHeldBack
PROPERTY InDisplayOrder
CHECK_DEADLOCK FALSE
