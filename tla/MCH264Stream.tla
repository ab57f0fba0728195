----------------------------- MODULE MCH264Stream -----------------------------
(* Streams of up to MaxPics frames; the cfg says which kinds.                 *)
EXTENDS H264Stream
=============================================================================
