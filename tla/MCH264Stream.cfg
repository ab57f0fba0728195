CONSTANTS
  NumSlots = 8
  MaxRefs = 3
  MaxFrameNum = 4
  ListSize = 2
  PocMod = 10
  SequenceMod = 11
  Frame = {}
  NoFrame = noframe
  Groups = {0, 1, 2}
  Buffers = 8
  Size = 8
  Kinds = {"plain", "pyramid"}
  MaxPics = 9
SPECIFICATION StreamSpec
INVARIANTS NothingHeldBack ReferencesChosen
PROPERTY InDisplayOrder
CHECK_DEADLOCK FALSE
