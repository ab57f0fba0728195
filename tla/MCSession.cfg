\* two files, a cut-down table of the gxl codecs
CONSTANTS
  Sessions = {a, b}
  NoSession = nosession
  Codec = {"vdec1", "hcodec"}
  NoCodec = nocodec
  Table <- Pairs
  MaxPrepared = 2
  MaxIrregular = 1
  Codecs <- GxlCodecs
  AskedPix = {"", "NV12", "YUV420", "other"}
  AskedSizes <- MCSizes
  MaxCalls = 2
SPECIFICATION Spec
SYMMETRY SessionSymmetry
INVARIANTS StatusAgrees HardwareHeld Balanced PoweredDown Exclusive ResourcesReturned FormatsAgree
CHECK_DEADLOCK FALSE
