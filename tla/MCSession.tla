------------------------------- MODULE MCSession -------------------------------
(* The table of gxl_codecs cut down to a decoder and an encoder, which have  *)
(* a core each; in full for the formats; and what a session gets and gives   *)
(* back.                                                                     *)
EXTENDS Session, TLC

Pairs == <<[src |-> "h264", dst |-> "nv12", codec |-> "vdec1"],
           [src |-> "nv12", dst |-> "h264", codec |-> "hcodec"]>>

Pair(src, dst, maxW, maxH) == [pix |-> [src |-> src, dst |-> dst], maxW |-> maxW, maxH |-> maxH]
GxlCodecs ==
  <<Pair("mpeg1", "nv12", 1920, 1080), Pair("mpeg2", "nv12", 1920, 1080),
    Pair("h264", "nv12", 3840, 2160), Pair("h264", "nv21", 3840, 2160),
    Pair("vp9", "nv12", 3840, 2160), Pair("hevc", "nv12", 3840, 2160),
    Pair("nv12", "h264", 1920, 1280), Pair("yuv420", "h264", 1920, 1280)>>

\* too small, odd, between the limits of the codecs, too large
MCSizes == {<<0, 0>>, <<720, 577>>, <<1921, 1200>>, <<4096, 2304>>}

SessionSymmetry == Permutations(Sessions)

R == INSTANCE Resources

\* With a file open, whatever a call gets is given back by its counterpart or when
\* a later step fails, but for the exceptions listed: see Resources.
ResourcesReturned == opened # {} => R!ResourcesReturned
=============================================================================
