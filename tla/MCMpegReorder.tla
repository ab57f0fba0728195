---------------------------- MODULE MCMpegReorder ----------------------------
(* Two B pictures between anchors and exactly as many slots and buffers as  *)
(* the stream needs.                                                        *)
EXTENDS MpegReorder, TLC

FrameSymmetry == Permutations(Frame)
=============================================================================
