CONSTANTS
  NumSlots = 5
  MaxRefs = 2
  MaxFrameNum = 16
  ListSize = 2
  PocMod = 10
  SequenceMod = 11
  Frame = {}
  NoFrame = noframe
  Groups = {0, 1}
  Buffers = 5
  Size = 5
  Kinds = {"commands"}
  MaxPics = 9
SPECIFICATION StreamSpec
INVARIANT ParametersObeyed
CHECK_DEADLOCK FALSE
