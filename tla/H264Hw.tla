-------------------------------- MODULE H264Hw --------------------------------
(***************************************************************************)
(* What the H.264 decoder tells the hardware about the pictures of its     *)
(* buffer before a picture is decoded (decoder_h264.c): their canvases and *)
(* descriptions, the reference lists, and the addresses at which the       *)
(* motion vectors of the picture are written and those of its co-located   *)
(* picture are read.                                                       *)
(*                                                                         *)
(* A picture has the index of its CAPTURE buffer, a structure, a mark for  *)
(* long-term references and the counts of its fields.  A slice may start   *)
(* with any macroblock.  The module that instantiates this one assumes of  *)
(* the constants what the code does.                                       *)
(***************************************************************************)
EXTENDS Integers, SequencesExt, FiniteSetsExt

CONSTANTS MbWidth,    \* mb_width
          MbHeight,   \* mb_height
          NumBuffers, \* CAPTURE buffers
          MaxEntries, \* entries of a reference list, 32 in the code
          MaxCount    \* counts are from -MaxCount to MaxCount

Buffer    == 0 .. NumBuffers - 1
Fields    == {"top", "bottom"}
Width     == MbWidth
Total     == MbWidth * MbHeight  \* mb_total
MbMvSize  == 96
MaxFrames == 32  \* MAX_DPB_FRAMES, and the indices of vb2

Pictures == [buffer : Buffer, structure : {"top", "bottom", "frame", "mbaff"}, long : BOOLEAN,
             top : -MaxCount .. MaxCount, bottom : -MaxCount .. MaxCount]

\* the 16 bits of frame_poc, top_poc and bottom_poc
Stored(count) == count % 65536

-----------------------------------------------------------------------------
(* Canvases, descriptions and lists.                                       *)

\* vdec_h264_header_done, config_decode_canvas: ANC0_CANVAS_ADDR of every buffer
\* that the pictures hold
Canvases(pics, before) ==
  [b \in Buffer |-> IF \E i \in DOMAIN pics : pics[i].buffer = b THEN b ELSE before[b]]

\* configure_buffer_info: the description of picture "pic"; its structure and its
\* counts are those of the picture that is decoded, "now"
Info(now, pic) ==
  [structure |-> now.structure,
   counts    |-> <<Stored(now.top), Stored(now.bottom)>>,
   bottomFirst |-> Stored(now.bottom) < Stored(now.top),
   own       |-> pic.buffer = now.buffer,
   longField |-> pic.long,
   longFrame |-> pic.long /\ pic.structure \in {"frame", "mbaff"}]

\* one for every picture in use, the one that is decoded among them
InfoTable(now, pics) == [i \in DOMAIN pics |-> Info(now, pics[i])]

\* configure_reference_buffers: the index of the buffer, and the fields that are used
RefEntry(pic) ==
  <<pic.buffer, IF pic.structure = "top" THEN {"top"}
                ELSE IF pic.structure = "bottom" THEN {"bottom"} ELSE Fields>>
NoEntry == <<0, {}>>

LastEntry(list) == IF list = << >> THEN NoEntry ELSE RefEntry(Last(list))

\* four entries to a word; the last word is filled up with the last entry
InWords(list) == 0 .. 4 * ((Len(list) + 3) \div 4) - 1

\* the first list has all of its eight words written, the second only its own
ListTable0(list) ==
  [i \in 0 .. 31 |-> IF i < Len(list) THEN RefEntry(list[i + 1]) ELSE LastEntry(list)]
ListTable1(list, before) ==
  [i \in 0 .. 31 |-> IF i < Len(list) THEN RefEntry(list[i + 1])
                     ELSE IF i \in InWords(list) THEN LastEntry(list) ELSE before[i]]

-----------------------------------------------------------------------------
(* Motion vectors: configure_colocated_buffers.                            *)

\* "bool shift = 2" holds 1: with direct_8x8_inference half of the size, where the
\* hardware, storing a quarter of the vectors, needs a quarter
Shifted(bytes, inference) == IF inference THEN bytes \div 2 ELSE bytes

AreaOf(buf, inference) == Shifted(Total * MbMvSize * buf, inference)

\* H264_CO_MB_WR_ADDR; a macroblock of a field or a pair counts twice
WriteStep(structure) == IF structure = "frame" THEN MbMvSize ELSE 2 * MbMvSize
WriteAddr(buf, structure, firstMb, inference) ==
  AreaOf(buf, inference) + Shifted(WriteStep(structure), inference) * firstMb

\* in macroblocks of a frame
ReadOffset(now, col, firstMb) ==
  LET mby == firstMb \div Width
      mbx == firstMb % Width
  IN  IF now \in Fields
        THEN IF col = "frame" THEN 2 * mby * Width + mbx ELSE 2 * firstMb
      ELSE IF col \in Fields
        THEN IF now = "frame" THEN 2 * (mby * Width + mbx) ELSE 2 * ((mby \div 2) * Width + mbx)
      ELSE IF now = "frame" THEN firstMb ELSE 2 * firstMb

\* H264_CO_MB_RD_ADDR
ReadAddr(now, col, firstMb, inference, buf) ==
  AreaOf(buf, inference) + Shifted(ReadOffset(now, col, firstMb) * MbMvSize, inference)

Distance(a, b) == IF a < b THEN b - a ELSE a - b

\* bit 29 of it, 0 for the top field of the co-located picture.  For a frame it is
\* the field that is nearer; for a field the driver sets it the other way round.
FieldBit(now, col, count, top, bottom) ==
  IF now \in Fields THEN IF col = "bottom" THEN 0 ELSE 1
  ELSE IF Distance(Stored(count), Stored(top)) < Distance(Stored(count), Stored(bottom)) THEN 0 ELSE 1

-----------------------------------------------------------------------------
(* What is promised.                                                       *)

\* counts of one sign keep their distances when they are stored
OneSign(counts) == (\A c \in counts : c >= 0) \/ (\A c \in counts : c < 0)

Lists == UNION {[1 .. n -> [buffer : Buffer, structure : {"top", "bottom", "frame"}]] :
                  n \in 0 .. MaxEntries}

\* every entry that the hardware may look up in a list names a reference in it, and
\* the canvas of that reference is the one of its buffer
ListsName ==
  \A list \in Lists :
    LET t0 == ListTable0(list)
        t1 == ListTable1(list, [i \in 0 .. 31 |-> NoEntry])
        canvas == Canvases(list, [b \in Buffer |-> -1])
    IN  /\ \A i \in DOMAIN list : t0[i - 1] = RefEntry(list[i]) /\ t1[i - 1] = RefEntry(list[i])
        /\ list # << >> =>
             /\ \A i \in 0 .. 31 : \E j \in DOMAIN list : t0[i] = RefEntry(list[j])
             /\ \A i \in InWords(list) : \E j \in DOMAIN list : t1[i] = RefEntry(list[j])
             /\ \A i \in 0 .. 31 : canvas[t0[i][1]] = t0[i][1]

\* the two pictures of a frame's fields share the mark of the current buffer, and a
\* long-term field is never described as a long-term frame
InfoMarks ==
  \A now, other \in Pictures :
    LET table == InfoTable(now, <<other, now>>)
    IN  /\ table[2].own
        /\ table[1].own <=> other.buffer = now.buffer
        /\ table[1].longFrame => table[1].longField /\ other.structure \notin Fields
        /\ OneSign({now.top, now.bottom}) => (table[2].bottomFirst <=> now.bottom < now.top)

\* a frame of the stream is coded with pairs of macroblocks or without
Kinds(pairs) == Fields \cup {IF pairs THEN "mbaff" ELSE "frame"}
FirstMbs(structure) == 0 .. (IF structure = "frame" THEN Total ELSE Total \div 2) - 1

\* the macroblock of the co-located picture that the standard means (8.4.1.2.1)
MeantMb(now, col, firstMb) ==
  IF now \in Fields /\ col = "frame"
    THEN 2 * Width * (firstMb \div Width) + (firstMb % Width)
  ELSE IF now = "frame" /\ col \in Fields
    THEN Width * (firstMb \div (2 * Width)) + (firstMb % Width)
  ELSE firstMb

\* the driver halves the row for pairs of macroblocks, and not for frames: a slice of
\* a frame whose co-located picture is a field is right only in the first row
RowMatters(now, col, firstMb) == now \notin Fields /\ col \in Fields /\ firstMb >= Width

\* the vectors of a slice's co-located macroblock are read where a slice that starts
\* there has had them written
VectorsRead ==
  \A pairs, inference \in BOOLEAN :
    \A now, col \in Kinds(pairs), buf \in Buffer : \A firstMb \in FirstMbs(now) :
      ~RowMatters(now, col, firstMb) =>
        ReadAddr(now, col, firstMb, inference, buf) =
          WriteAddr(buf, col, MeantMb(now, col, firstMb), inference)

\* no slice starts to write outside the area of its buffer, and all areas fit
VectorsFit ==
  \A inference \in BOOLEAN, buf \in 0 .. MaxFrames - 1 :
    /\ \A structure \in {"top", "frame", "mbaff"} : \A firstMb \in FirstMbs(structure) :
         WriteAddr(buf, structure, firstMb, inference)
           \in AreaOf(buf, inference) .. AreaOf(buf + 1, inference) - 1
    /\ AreaOf(buf + 1, inference) <= Total * MbMvSize * MaxFrames

\* a direct-mode frame uses the field that is not farther from it, the bottom one if
\* both are as far, as long as no count has another sign than the others
NearerChosen ==
  \A now \in {"frame", "mbaff"}, count, top, bottom \in -MaxCount .. MaxCount :
    OneSign({count, top, bottom}) =>
      LET bit    == FieldBit(now, "frame", count, top, bottom)
          chosen == IF bit = 0 THEN top ELSE bottom
      IN  /\ Distance(count, chosen) <= Distance(count, top)
          /\ Distance(count, chosen) <= Distance(count, bottom)
          /\ Distance(count, top) = Distance(count, bottom) => bit = 1

\* The registers of a picture name the references of its lists and the motion vectors
\* of its co-located picture.
\* Code: configure_buffer_info, configure_reference_buffers,
\* configure_colocated_buffers, config_decode_canvas.
RegistersRight == ListsName /\ InfoMarks /\ VectorsRead /\ VectorsFit /\ NearerChosen
=============================================================================
