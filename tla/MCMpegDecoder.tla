---------------------------- MODULE MCMpegDecoder ----------------------------
(* A small instance of MpegDecoder: as many slots as CAPTURE buffers.  The   *)
(* slot of a reference stays in use when its buffer has been given back, so *)
(* that the picture buffer can be full; and sequence numbers wrap.          *)
EXTENDS MpegDecoder, TLC

BufSymmetry == Permutations(SrcBuf) \cup Permutations(DstBuf)
=============================================================================
