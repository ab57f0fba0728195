---------------------------- MODULE MCH264Decoder ----------------------------
(* Small instances of H264Decoder: streams of frames and streams of fields.  *)
EXTENDS H264Decoder, TLC

\* a header without commands
Plain(idr, ref, structure, slice, num, poc) ==
  [idr |-> idr, ref |-> ref, structure |-> structure, slice |-> slice, num |-> num,
   poc |-> poc, longTerm |-> FALSE, commands |-> << >>, reorder0 |-> << >>,
   reorder1 |-> << >>]

\* an IDR picture, a P picture and a B picture displayed before it; the P picture
\* may become a long-term reference
Frames ==
  LET i == Plain(TRUE, TRUE, "frame", "I", 0, 0)
      p == Plain(FALSE, TRUE, "frame", "P", 1, 2)
  IN  {i, p, Plain(FALSE, FALSE, "frame", "B", 0, 1),
       [p EXCEPT !.commands = <<[op |-> "current_long", args |-> <<0>>]>>]}

\* the two fields of a frame, and the first field of another
RefFields == {Plain(TRUE, TRUE, "top", "I", 0, 0), Plain(FALSE, TRUE, "bottom", "P", 0, 1),
              Plain(FALSE, TRUE, "top", "P", 1, 2)}

JustFrames     == {Frames}
FramesOrFields == {Frames, RefFields}

BufSymmetry == Permutations(SrcBuf) \cup Permutations(DstBuf)
=============================================================================
