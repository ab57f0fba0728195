--------------------------- MODULE MCHevcDecoder ---------------------------
(* A small instance of HevcDecoder, and the tables its hardware is given.   *)
EXTENDS HevcDecoder

MCPacketSize == <<1, 2, 1, 1>>
MCPayload    == <<1, 1, 1, 1>>
MCPoc        == {-1, 0, 1, 2, 4}
BufSymmetry == Permutations(SrcBuf) \cup Permutations(DstBuf)

Refs   == INSTANCE HevcRefs
Memory == INSTANCE FrameMemory
Slice  == INSTANCE SliceSetup

\* When the interrupt thread has set up a picture, the reference lists are right, the
\* hardware finds through them the samples and the motion vectors where they were
\* written, in memory that holds them, and filters as the slice header says: see
\* HevcRefs, HevcBuffers, FrameMemory and SliceSetup.  Not claimed, because the code
\* does not do it: that the MMU of a ten bit HEVC stream has its map (AreasGiven), that
\* the table of frames is right for buffers queued out of order (TableFinds), that
\* resuming in place leaks nothing (MemoryReturned), that the co-located picture of an
\* I slice is still there (ListsRight).
ReferencesReach ==
  codec = "idle" /\ frames # {} =>
    /\ Refs!ListsRight
    /\ Memory!MemoryReturned /\ Memory!TableFinds /\ Memory!MemoryRight
    /\ Slice!SliceRight
=============================================================================
