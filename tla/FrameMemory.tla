----------------------------- MODULE FrameMemory -----------------------------
(***************************************************************************)
(* The registers that HEVC and VP9 set up for a picture                    *)
(* (vdec/codec_hevc.c, codec_vp9.c, codec_hevc_common.c): where it is      *)
(* written and its references are read, where the motion vectors of both   *)
(* are, which references the lists name, and how HEVC deblocks.            *)
(*                                                                         *)
(* An address is a memory and an offset in it.  Sizes are the ones of      *)
(* "Sizes", up to the largest of gxl_codecs; a table of canvases has the   *)
(* entries of both lists, and a list up to three pictures.                 *)
(***************************************************************************)
EXTENDS HevcBuffers

Newer(mode) == mode.revision = "G12A"
None        == <<"none", 0>>

\* the memories of a CAPTURE buffer: its planes, and those of HevcBuffers
Luma(idx)   == <<"luma", idx>>
Chroma(idx) == <<"chroma", idx>>
Fbc(idx)    == <<"fbc", idx>>
Hdr(idx)    == <<"header", idx>>

-----------------------------------------------------------------------------
(* Where a picture is written, and its references are read.                *)

\* HEVC_CM_BODY_START_ADDR, HEVC_CM_HEADER_START_ADDR, HEVC_SAO_Y_ and _C_START_ADDR
Addresses(mode, idx) ==
  [body   |-> IF Compressed(mode) THEN Fbc(idx) ELSE None,
   hdr    |-> IF UseMmu(mode) THEN Hdr(idx) ELSE None,
   luma   |-> Luma(idx),
   chroma |-> Chroma(idx)]

\* HEVC_DBLK_CFGB of the newer platforms: bit 8 enables the compressed write, bit 9
\* the plain one, bit 4 a faster mode; HEVC sets it for the first slice of a picture
HevcCfgB(mode, w) ==
  (IF Compressed(mode) THEN {8} ELSE {}) \cup {9} \cup (IF w >= 1280 THEN {4} ELSE {})

\* VP9 changes these bits of what the last picture left
Vp9CfgB(mode, w, left) ==
  (left \ {4, 5, 8, 9}) \cup (IF Compressed(mode) THEN {8} ELSE {}) \cup {9}
     \cup (IF w >= 1280 THEN {4} ELSE {})

\* bit 0 of HEVC_SAO_CTRL1 on the older ones switches the compression off
SaoCtrl1(mode) == IF ~Newer(mode) /\ ~Compressed(mode) THEN {0} ELSE {}

Writes(mode, cfgb) ==
  [compressed |-> IF Newer(mode) THEN 8 \in cfgb ELSE 0 \notin SaoCtrl1(mode),
   plain      |-> Newer(mode) => 9 \in cfgb]

\* codec_hevc_setup_decode_head
DecodeHead(mode) ==
  IF ~Compressed(mode) THEN "planes" ELSE IF UseMmu(mode) THEN "mmu" ELSE "body"

\* what the table of frames holds for the two planes of a buffer
ReadGxbb(mode, idx) == IF Compressed(mode) THEN <<Fbc(idx)>> ELSE <<Luma(idx), Chroma(idx)>>
ReadGxl(mode, idx)  ==
  IF Compressed(mode) THEN <<IF UseMmu(mode) THEN Hdr(idx) ELSE Fbc(idx)>>
  ELSE <<Luma(idx), Chroma(idx)>>
ReadFrom(mode, idx) == IF mode.revision = "GXBB" THEN ReadGxbb(mode, idx) ELSE ReadGxl(mode, idx)

-----------------------------------------------------------------------------
(* Sizes.                                                                  *)

Align(n, a)   == ((n + a - 1) \div a) * a
Blocks(n, a)  == Align(n, a) \div a
KiB           == 1024
PageSize      == 4 * KiB
HeaderMemory  == 288 * KiB   \* MMU_COMPRESS_HEADER_SIZE
MapEntries    == (18 * KiB) \div 4  \* MMU_MAP_SIZE, words
MaxRefPicNum  == 24

BlockBytes(mode) == IF mode.tenBit THEN 4096 ELSE IF UseMmu(mode) THEN 3200 ELSE 3072
BodySize(mode, w, h) == BlockBytes(mode) * Blocks(w, 64) * Blocks(h, 32)
HeadSize(w, h)       == 32 * Blocks(w, 128) * Blocks(h, 64)
AmfbcSize(mode, w, h) == Align(BodySize(mode, w, h) + HeadSize(w, h), 64 * KiB)
OutputSize(w, h)      == Align(w * h, 64 * KiB)

\* codec_hevc_fill_mmu_map: the pages of a picture's compressed buffer, in order
FillMmuMap(mode, idx, w, h) ==
  [p \in 0 .. AmfbcSize(mode, w, h) \div PageSize - 1 |-> <<Fbc(idx), p * PageSize>>]

-----------------------------------------------------------------------------
(* The workspace: named areas one after the other.                         *)

MvSlot == 1152 * KiB  \* MPRED_MV_BUF_SIZE

Common == <<<<"IPP", 16 * KiB>>, <<"SAO_ABV", 192 * KiB>>, <<"SAO_VB", 192 * KiB>>,
            <<"SH_TM_RPS", 2 * KiB>>, <<"VPS", 2 * KiB>>, <<"SPS", 2 * KiB>>, <<"PPS", 8 * KiB>>,
            <<"SAO_UP", 10 * KiB>>, <<"SWAP_BUF", 2 * KiB>>, <<"SWAP_BUF2", 2 * KiB>>,
            <<"SCALELUT", 32 * KiB>>>>

HevcLayout ==
  Common \o <<<<"DBLK_PARA", 128 * KiB>>, <<"DBLK_DATA", 512 * KiB>>, <<"DBLK_DATA2", 512 * KiB>>,
              <<"MMU_VBH", 20 * KiB>>, <<"MPRED_ABV", 32 * KiB>>,
              <<"MPRED_MV", MvSlot * MaxRefPicNum>>, <<"RPM", 256>>, <<"LMEM", 2560>>>>

Vp9Layout ==
  Common \o <<<<"DBLK_PARA", 512 * KiB>>, <<"DBLK_DATA", 512 * KiB>>, <<"SEG_MAP", 54 * KiB>>,
              <<"PROB", 20 * KiB>>, <<"COUNT", 12 * KiB>>, <<"MMU_VBH", 20 * KiB>>,
              <<"MPRED_ABV", 64 * KiB>>, <<"MPRED_MV", MvSlot * MaxRefPicNum>>,
              <<"RPM", 256>>, <<"LMEM", 2048>>>>

LengthOf(area) == area[2]
StartOf(layout, i) == FoldLeft(LAMBDA sum, area : sum + LengthOf(area), 0, SubSeq(layout, 1, i - 1))
AreaAt(layout, name) == CHOOSE i \in DOMAIN layout : layout[i][1] = name
WorkspaceSize(layout) == Align(StartOf(layout, Len(layout) + 1), 64 * KiB)

\* codec_hevc_setup_workspace, called when the stream starts, with is_10bit still 0
HevcWorkspace(mode) ==
  LET at_start == [mode EXCEPT !.tenBit = FALSE]
  IN  {"IPP", "RPM", "SH_TM_RPS", "VPS", "SPS", "PPS", "SAO_UP", "SCALELUT", "DBLK_PARA",
       "DBLK_DATA", "LMEM"}
      \cup (IF UseMmu(at_start) THEN {"MMU_VBH", "map"}
            ELSE IF ~Newer(mode) THEN {"SWAP_BUF", "SWAP_BUF2"} ELSE {})
      \cup (IF Newer(mode) THEN {"DBLK_DATA2"} ELSE {})

\* codec_vp9_setup_workspace, called again when the depth is known
Vp9Workspace(mode) ==
  {"IPP", "RPM", "SH_TM_RPS", "PPS", "SAO_UP", "SWAP_BUF", "SWAP_BUF2", "SCALELUT", "DBLK_PARA",
   "DBLK_DATA", "SEG_MAP", "PROB", "COUNT", "LMEM"}
  \cup (IF UseMmu(mode) THEN {"MMU_VBH", "map"} ELSE {})

\* get_frame_mv_paddr, of the workspace
MvStart(layout, idx) == StartOf(layout, AreaAt(layout, "MPRED_MV")) + idx * MvSlot

-----------------------------------------------------------------------------
(* Motion vectors.                                                         *)

\* codec_hevc_process_rpm, codec_vp9_process_rpm: lcu_total
HevcLcus(w, h, lcu) == Blocks(w, lcu) * Blocks(h, lcu)
Vp9Lcus(w, h)       == Blocks(Align(w, 64), 64) * Blocks(Align(h, 32), 64)

HevcMvUnit(lcu) == IF lcu = 64 THEN 512 ELSE IF lcu = 32 THEN 128 ELSE 32
Vp9MvUnit       == 576

\* codec_hevc_set_mpred_mv: "lcuAt" is slice_addr, 0 also for the later segments of
\* a slice that starts the picture; "new" says that the segment starts it.  The
\* write pointer is set then, and moves on by itself.
HevcMpredMv(idx, col, lcu, total, lcuAt, new) ==
  LET own  == MvStart(HevcLayout, idx)
      from == MvStart(HevcLayout, col)
      off  == lcuAt * HevcMvUnit(lcu)
  IN  [write |-> own,
       wptr  |-> IF new THEN {own + off} ELSE {},
       rptr  |-> IF new THEN from ELSE from + off,
       read  |-> from,
       readEnd |-> from + total * HevcMvUnit(lcu)]

\* codec_vp9_set_mpred_mv
UsePrevMvs(now, prev) ==
  /\ prev.w = now.w /\ prev.h = now.h
  /\ ~prev.intraOnly /\ prev.show /\ ~prev.key

Vp9MpredMv(idx, prevIdx, total) ==
  [write |-> MvStart(Vp9Layout, idx), read |-> MvStart(Vp9Layout, prevIdx),
   readEnd |-> MvStart(Vp9Layout, prevIdx) + total * Vp9MvUnit]

-----------------------------------------------------------------------------
(* What is promised.                                                       *)

Sizes == {<<256, 144>>, <<1278, 718>>, <<1280, 720>>, <<1920, 1080>>, <<3838, 2158>>, <<3840, 2160>>}

\* the registers of a picture of either decoder, after those of an earlier stream
Pictures(mode, w) ==
  {Writes(mode, HevcCfgB(mode, w))} \cup
    {Writes(mode, Vp9CfgB(mode, w, left)) : left \in SUBSET {4, 5, 8, 9}}

\* a picture that is a reference later is read from where it was written, in the
\* form in which it was written, and userspace gets a plain one
ReadWhereWritten ==
  \A mode \in Mode, idx \in Index :
    LET to == Addresses(mode, idx)
    IN  /\ \A size \in Sizes : \A on \in Pictures(mode, size[1]) :
             on.plain /\ (on.compressed <=> DecodeHead(mode) # "planes")
        /\ CASE DecodeHead(mode) = "planes" -> ReadFrom(mode, idx) = <<to.luma, to.chroma>>
             [] DecodeHead(mode) = "body"   -> ReadFrom(mode, idx) = <<to.body>>
             [] DecodeHead(mode) = "mmu"    ->
                  /\ ReadFrom(mode, idx) = <<to.hdr>>
                  /\ \A size \in Sizes : \A p \in DOMAIN FillMmuMap(mode, idx, size[1], size[2]) :
                       FillMmuMap(mode, idx, size[1], size[2])[p][1] = to.body

\* what the hardware writes for a picture fits the memory it is given
MemoryFits ==
  \A mode \in Mode, size \in Sizes :
    LET w == size[1]
        h == size[2]
    IN  /\ BodySize(mode, w, h) + HeadSize(w, h) <= AmfbcSize(mode, w, h)
        /\ UseMmu(mode) =>
             /\ Cardinality(DOMAIN FillMmuMap(mode, 0, w, h)) <= MapEntries
             /\ HeadSize(w, h) <= HeaderMemory
        /\ OutputSize(w, h) >= w * h

\* the motion vectors of a buffer stay in its slot, and the slots in the workspace
VectorsFit ==
  /\ \A size \in Sizes :
       /\ \A lcu \in {16, 32, 64} : HevcLcus(size[1], size[2], lcu) * HevcMvUnit(lcu) <= MvSlot
       /\ Vp9Lcus(size[1], size[2]) * Vp9MvUnit <= MvSlot
  /\ \A layout \in {HevcLayout, Vp9Layout} :
       MvStart(layout, MaxRefPicNum) = StartOf(layout, AreaAt(layout, "RPM"))

\* while a segment is decoded, vectors are read from the slot of the co-located
\* picture, from the place of its slice and not beyond its end
VectorsRead ==
  /\ \A idx, col \in Index, lcu \in {16, 32, 64}, size \in Sizes, new \in BOOLEAN :
       LET total == HevcLcus(size[1], size[2], lcu)
       IN  \A lcuAt \in IF new THEN {0} ELSE {0, 1, total \div 2, total - 1} :
             LET mv == HevcMpredMv(idx, col, lcu, total, lcuAt, new)
             IN  /\ mv.read <= mv.rptr /\ mv.rptr < mv.readEnd /\ mv.readEnd <= mv.read + MvSlot
                 /\ idx # col => mv.write + MvSlot <= mv.read \/ mv.readEnd <= mv.write
                 /\ mv.wptr \subseteq {mv.write}
  /\ \A idx, prevIdx \in Index, size \in Sizes :
       LET mv == Vp9MpredMv(idx, prevIdx, Vp9Lcus(size[1], size[2]))
       IN  /\ mv.read < mv.readEnd /\ mv.readEnd <= mv.read + MvSlot
           /\ idx # prevIdx => mv.write + MvSlot <= mv.read \/ mv.readEnd <= mv.write

\* Every area that a stream's features need is given to the hardware.  Of HEVC this is
\* claimed only for the streams that do not use the MMU: its workspace is set up before
\* the depth is known and never again, so the MMU gets no map.
AreasGiven ==
  \A mode \in Mode :
    /\ UseMmu(mode) => {"MMU_VBH", "map"} \subseteq Vp9Workspace(mode)
    /\ ~UseMmu(mode) => "map" \notin Vp9Workspace(mode)
    /\ ~Newer(mode) => {"SWAP_BUF", "SWAP_BUF2"} \subseteq HevcWorkspace(mode)
    /\ \A area \in HevcWorkspace(mode) : \E i \in DOMAIN HevcLayout : HevcLayout[i][1] = area
    /\ \A area \in Vp9Workspace(mode) \ {"map"} : \E i \in DOMAIN Vp9Layout : Vp9Layout[i][1] = area

\* A picture is written to memory that holds it, and found there when it is a
\* reference: its samples through the table of frames, its motion vectors in the
\* slot of its buffer; with the exception of AreasGiven for HEVC.
\* Code: set_sao, setup_buffers, setup_decode_head, fill_mmu_map, set_mpred_mv.
MemoryRight ==
  ReadWhereWritten /\ MemoryFits /\ VectorsFit /\ VectorsRead /\ AreasGiven
=============================================================================
