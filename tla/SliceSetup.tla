----------------------------- MODULE SliceSetup -----------------------------
(***************************************************************************)
(* What HEVC and VP9 tell the hardware about the references of a slice and *)
(* about its deblocking (vdec/codec_hevc.c, codec_vp9.c): the table of     *)
(* canvases, the cache of reference pictures that looks into it, the order *)
(* counts for motion prediction, VP9's scale factors, and the words of     *)
(* the deblocking filter.                                                  *)
(*                                                                         *)
(* A picture stands for its buffer, its canvas and its order count; lists  *)
(* have up to three entries; the table starts with what an earlier slice   *)
(* left.                                                                   *)
(***************************************************************************)
EXTENDS Integers, SequencesExt, FiniteSetsExt

Picture == 1 .. 3  \* that the stream refers to
Stale   == 0       \* what an earlier slice left in an entry of a table
Entry   == 0 .. 31
List    == UNION {[1 .. n -> Picture] : n \in 1 .. 3}

-----------------------------------------------------------------------------
(* The table of canvases: the first list is at entry 0, the second at 16.  *)

\* codec_hevc_set_ref_list, codec_vp9_set_refs: the hardware moves on by itself to
\* the next entry, and a picture that is not found writes none
WriteFrom(table, at, refs, found) ==
  LET ids == SelectSeq(refs, LAMBDA r : r \in found)
  IN  [e \in Entry |-> IF e - at + 1 \in DOMAIN ids THEN ids[e - at + 1] ELSE table[e]]

\* codec_hevc_set_mc
HevcMc(table, type, l0, l1, found) ==
  LET first == WriteFrom(table, 0, l0, found)
  IN  CASE type = "I" -> table
        [] type = "P" -> first
        [] type = "B" -> WriteFrom(first, 16, l1, found)

\* codec_vp9_set_mc, the canvases: both lists are the three references
Vp9Mc(table, refs, found) == WriteFrom(WriteFrom(table, 0, refs, found), 16, refs, found)

\* codec_hevc_set_mcrcc: the two canvases that the cache serves; a second read of the
\* table gives the next entry.  For B slices the driver reads an entry of the second
\* list, and does not use it.
HevcMcrcc(table, type, num0, compressed) ==
  LET cnt == IF compressed THEN 0 ELSE num0
  IN  CASE type = "I" -> << >>
        [] type = "P" -> <<table[0], IF cnt = 1 THEN table[0] ELSE table[1]>>
        [] type = "B" -> <<table[0], table[0]>>

\* codec_vp9_set_mcrcc
Vp9Mcrcc(table, key, intraOnly) == IF key \/ intraOnly THEN << >> ELSE <<table[0], table[1]>>

\* codec_hevc_set_mpred: which entries of a list are enabled, as bits, and the order
\* count of each
RefEn(num)   == 2^num - 1
Bit(word, i) == (word \div 2^i) % 2 = 1
RefPocs(l)   == [i \in 0 .. 15 |-> IF i < Len(l) THEN l[i + 1] ELSE Stale]

\* codec_hevc_set_mpred_ctrl: what depends on the kind of slice
MpredCtrl(type, colFromL0, tmvp, ldc, dependent, address) ==
  {"ABOVE_EN", "MV_WR_EN", "BUF_LINEAR"}
    \cup (IF type # "I" THEN {"MV_RD_EN"} ELSE {})
    \cup (IF colFromL0 THEN {"COL_FROM_L0"} ELSE {})
    \cup (IF tmvp THEN {"TMVP"} ELSE {})
    \cup (IF ldc THEN {"LDC"} ELSE {})
    \cup (IF dependent THEN {"NEW_SLI_SEG"} ELSE {})
    \cup (IF address = 0 THEN {"NEW_PIC", "NEW_TILE"} ELSE {})

-----------------------------------------------------------------------------
(* VP9's scaled references.                                                *)

One == 2^14

\* codec_vp9_set_mc, VP9D_MPP_REFINFO_DATA: of a reference of size "ref"
RefInfo(ref, now) == <<(ref[1] * One) \div now[1], (ref[2] * One) \div now[2]>>

\* VP9D_MPP_REF_SCALE_ENBL
ScaleEnabled(refs, now) == \E i \in DOMAIN refs : refs[i] # now

-----------------------------------------------------------------------------
(* HEVC's deblocking.                                                      *)

\* the bits of misc_flag0 that the words depend on
Flags == [ppsAcross : BOOLEAN, overrideEnabled : BOOLEAN, override : BOOLEAN,
          ppsDisabled : BOOLEAN, sliceDisabled : BOOLEAN, saoLuma : BOOLEAN,
          saoChroma : BOOLEAN, sliceAcross : BOOLEAN]

\* codec_hevc_set_sao: HEVC_DBLK_CFG9, whose bit 1 HEVC_SAO_CTRL0 repeats
Deblock(f) ==
  LET own      == f.overrideEnabled /\ f.override
      disabled == IF own THEN f.sliceDisabled ELSE f.ppsDisabled
  IN  [disabled |-> disabled,
       offsets  |-> IF disabled THEN "none" ELSE IF own THEN "slice" ELSE "pps",
       across   |-> IF f.ppsAcross /\ (f.saoLuma \/ f.saoChroma \/ ~f.sliceDisabled)
                      THEN f.sliceAcross
                    ELSE f.ppsAcross]

\* codec_hevc_set_sao: the units of the memory between rows of blocks
SaoMemUnit(lcu) == (IF lcu = 16 THEN 9 ELSE IF lcu = 32 THEN 14 ELSE 24) * 16
SaoVbSize(lcu, h) == (SaoMemUnit(lcu) + 32) * ((h + lcu - 1) \div lcu)
SaoVbMemory == 192 * 1024

-----------------------------------------------------------------------------
(* What is promised.                                                       *)

\* the entries of a list up to its first missing picture name its pictures, so that
\* a vector's reference index finds the picture whose order count it was scaled with
Agree(table, at, l, found) ==
  \A i \in DOMAIN l : (\A j \in 1 .. i : l[j] \in found) => table[at + i - 1] = l[i]

Left == [e \in Entry |-> Stale]

\* the hardware looks up every reference index in the right entry
CanvasesName ==
  \A l0, l1 \in List, found \in SUBSET Picture :
    /\ \A type \in {"P", "B"} :
         LET table == HevcMc(Left, type, l0, l1, found)
         IN  /\ Agree(table, 0, l0, found)
             /\ type = "B" => Agree(table, 16, l1, found)
             /\ \A i \in 0 .. 15 : Bit(RefEn(Len(l0)), i) <=> RefPocs(l0)[i] # Stale
    /\ LET table == Vp9Mc(Left, l0, found)
       IN  Agree(table, 0, l0, found) /\ Agree(table, 16, l0, found)

\* when no picture is missing, the cache serves references of the slice; only that a
\* compressed stream with a single one caches an entry that may be an earlier slice's
CacheServes ==
  \A l0, l1 \in List, compressed \in BOOLEAN :
    /\ \A type \in {"P", "B"} :
         LET served == HevcMcrcc(HevcMc(Left, type, l0, l1, Picture), type, Len(l0), compressed)
         IN  /\ served[1] = l0[1]
             /\ served[2] \in ToSet(l0) \/ (type = "P" /\ compressed /\ Len(l0) = 1)
    /\ HevcMcrcc(HevcMc(Left, "I", l0, l1, Picture), "I", 0, compressed) = << >>
    /\ Len(l0) = 3 => Vp9Mcrcc(Vp9Mc(Left, l0, Picture), FALSE, FALSE) = <<l0[1], l0[2]>>

\* vectors are read only for slices that can use them, and a dependent segment never
\* starts a picture
PredictionStarts ==
  \A type \in {"I", "P", "B"}, c, t, l \in BOOLEAN, address \in {0, 1} :
    \A dependent \in {address # 0, FALSE} :
      LET ctrl == MpredCtrl(type, c, t, l, dependent, address)
      IN  /\ "MV_RD_EN" \in ctrl <=> type \in {"P", "B"}
          /\ ~({"NEW_PIC", "NEW_SLI_SEG"} \subseteq ctrl)

Dim == {64, 1279, 1280, 1920, 3839, 3840}

\* scaling is on exactly if a reference's factor is not one, and a factor fits the
\* 16 bits of its field for the ratios that VP9 allows
ScaleRight ==
  \A w, h, rw, rh \in Dim :
    LET info == RefInfo(<<rw, rh>>, <<w, h>>)
    IN  /\ ScaleEnabled(<<<<w, h>>, <<rw, rh>>>>, <<w, h>>) <=> info # <<One, One>>
        /\ rw <= 2 * w /\ w <= 16 * rw => info[1] \in 1024 .. 2 * One

\* what the slice header leaves out is inferred as in the standard (7.4.7.1), as long
\* as the firmware has left zero or the inferred value in the bits of absent elements
Absent(f) ==
  LET own      == f.overrideEnabled /\ f.override
      disabled == IF own THEN f.sliceDisabled ELSE f.ppsDisabled
      present  == f.ppsAcross /\ (f.saoLuma \/ f.saoChroma \/ ~disabled)
  IN  /\ ~f.overrideEnabled => ~f.override
      /\ ~own => f.sliceDisabled \in {FALSE, f.ppsDisabled}
      /\ ~present => f.sliceAcross \in {FALSE, f.ppsAcross}

\* the flags of a slice that is filtered at all follow the standard
DeblockFollows ==
  \A f \in Flags : Absent(f) =>
    LET own      == f.overrideEnabled /\ f.override
        disabled == IF own THEN f.sliceDisabled ELSE f.ppsDisabled
        filtered == f.saoLuma \/ f.saoChroma \/ ~disabled
        word     == Deblock(f)
    IN  /\ word.disabled = disabled
        /\ word.offsets = IF disabled THEN "none" ELSE IF own THEN "slice" ELSE "pps"
        /\ filtered => word.across = (f.ppsAcross /\ f.sliceAcross)

SaoFits == \A lcu \in {16, 32, 64}, h \in {144, 1080, 2160} : SaoVbSize(lcu, h) <= SaoVbMemory

\* A slice's reference indices, its cache, its scaling and its deblocking are those of
\* its header.
\* Code: set_ref_list, set_refs, set_mc, set_mcrcc, set_mpred, set_sao.
SliceRight ==
  CanvasesName /\ CacheServes /\ PredictionStarts /\ ScaleRight /\ DeblockFollows /\ SaoFits
=============================================================================
