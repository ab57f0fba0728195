----------------------------- MODULE Superframe -----------------------------
(***************************************************************************)
(* What the parser does to a packet before it fetches it (vdec/esparser.c):*)
(* vp9_update_header puts the header the firmware wants before each frame  *)
(* of a VP9 packet, in the buffer itself, and esparser_pad_start_code pads *)
(* the packet and appends the start code the search ends at.  A buffer is  *)
(* a sequence of cells, here <<kind, frame, place in it>>.  The module that*)
(* instantiates this one assumes of the constants what the code does.      *)
(***************************************************************************)
EXTENDS Integers, Sequences

CONSTANTS
  HeaderSize,  \* VP9_HEADER_SIZE
  MinPacket,   \* ESPARSER_MIN_PACKET_SIZE
  PatternLen,  \* SEARCH_PATTERN_LEN
  MaxFrames,   \* frames of a packet, eight in the code
  MaxSize,     \* bound: cells of a frame
  MaxPlane     \* bound: cells of a buffer

\* the sizes of a packet's frames; an index is at the end if there are several,
\* and perhaps if there is one.  "broken": the index begins with another marker.
FrameSizes == UNION {[1 .. n -> 1 .. MaxSize] : n \in 1 .. MaxFrames}
Index(sizes) == IF Len(sizes) > 1 THEN {"good", "broken"} ELSE {"good", "broken", "none"}

\* tot_frame_size, counted from 1, and 0 before the first frame
Totals(sizes) ==
  LET total[f \in 0 .. Len(sizes)] == IF f = 0 THEN 0 ELSE total[f - 1] + sizes[f]
  IN  total

SumOf(sizes) == Totals(sizes)[Len(sizes)]

\* what userspace has put into the buffer
IndexSize(sizes, index) == IF index = "none" THEN 0 ELSE 2 + Len(sizes)
DataSize(sizes, index)  == SumOf(sizes) + IndexSize(sizes, index)

\* tot_frame_size - framesize
OldOffset(sizes, f) == Totals(sizes)[f - 1]

\* outheaderoff
HeaderOffset(sizes, f) == OldOffset(sizes, f) + (f - 1) * HeaderSize

FrameAt(sizes, p) == CHOOSE f \in DOMAIN sizes : p \in OldOffset(sizes, f) .. OldOffset(sizes, f) + sizes[f] - 1

Given(sizes, index, plane) ==
  [p \in 0 .. plane - 1 |->
     IF p < SumOf(sizes)
       THEN <<"data", FrameAt(sizes, p), p - OldOffset(sizes, FrameAt(sizes, p))>>
     ELSE IF p < DataSize(sizes, index) THEN <<"index", 0, 0>>
     ELSE <<"stale", 0, 0>>]

-----------------------------------------------------------------------------
(* vp9_update_header.                                                      *)

\* the memmove of one frame and its header
Move(cells, sizes, f) ==
  LET old == OldOffset(sizes, f)
      out == HeaderOffset(sizes, f)
  IN  [p \in DOMAIN cells |->
         IF p \in out .. out + HeaderSize - 1 THEN <<"header", f, sizes[f]>>
         ELSE IF p \in out + HeaderSize .. out + HeaderSize + sizes[f] - 1
           THEN cells[p - out - HeaderSize + old]
         ELSE cells[p]]

\* mutant: the first frame is moved first
MoveForward(cells, sizes) ==
  LET moved[f \in 0 .. Len(sizes)] ==
        IF f = 0 THEN cells ELSE Move(moved[f - 1], sizes, f)
  IN  moved[Len(sizes)]

\* "for (cur_frame = num_frames - 1; cur_frame >= 0; cur_frame--)"
MoveAll(cells, sizes) ==
  LET moved[f \in 1 .. Len(sizes) + 1] ==
        IF f > Len(sizes) THEN cells ELSE Move(moved[f + 1], sizes, f)
  IN  moved[1]

NewSize(sizes) == SumOf(sizes) + Len(sizes) * HeaderSize

\* the payload is 0 when it fails
UpdateHeader(sizes, index, plane) ==
  LET given == Given(sizes, index, plane)
  IN  IF DataSize(sizes, index) = plane \/ index = "broken" \/ NewSize(sizes) >= plane
        THEN [payload |-> 0, cells |-> given]
      ELSE [payload |-> NewSize(sizes), cells |-> MoveAll(given, sizes)]

-----------------------------------------------------------------------------
(* esparser_pad_start_code; the plane has room for the smallest packet.    *)

PadSize(payload) == IF payload < MinPacket THEN MinPacket - payload ELSE 0

PadStartCode(packet) ==
  LET code == packet.payload + PadSize(packet.payload)
      room == code + PatternLen - 1 \in DOMAIN packet.cells
  IN  [packet EXCEPT !.cells =
         [p \in DOMAIN @ |->
            IF p \in packet.payload .. code - 1 THEN <<"zero", 0, 0>>
            ELSE IF room /\ p \in code .. code + PatternLen - 1
              THEN <<"start", 0, p - code>>
            ELSE @[p]]]

-----------------------------------------------------------------------------
(* What the firmware reads.                                                *)

Before(sizes, f) == OldOffset(sizes, f) + (f - 1) * HeaderSize

FramesThere(sizes, packet) ==
  \A f \in DOMAIN sizes :
    /\ \A k \in 0 .. HeaderSize - 1 : packet.cells[Before(sizes, f) + k] = <<"header", f, sizes[f]>>
    /\ \A k \in 0 .. sizes[f] - 1 :
         packet.cells[Before(sizes, f) + HeaderSize + k] = <<"data", f, k>>

\* the next thing after the last frame that is not padding is the start code
EndThere(packet) ==
  LET code == packet.payload + PadSize(packet.payload)
  IN  /\ \A p \in packet.payload .. code - 1 : packet.cells[p] = <<"zero", 0, 0>>
      /\ code + PatternLen - 1 \in DOMAIN packet.cells =>
           packet.cells[code] = <<"start", 0, 0>>

\* Every frame of a packet is where the firmware looks for it, behind a header
\* with its size, with its data intact although the frames were moved within the
\* buffer that holds them; the frames follow each other without the gaps and the
\* overwriting the code watches for, and padding and start code follow them.
\* Code: vp9_update_header ("data has gaps", "data overwritten"),
\* esparser_pad_start_code.
PacketIntact ==
  \A sizes \in FrameSizes : \A index \in Index(sizes) : \A plane \in MinPacket + PatternLen .. MaxPlane :
    DataSize(sizes, index) <= plane =>
      LET packet == UpdateHeader(sizes, index, plane)
      IN  packet.payload > 0 =>
            /\ FramesThere(sizes, PadStartCode(packet))
            /\ EndThere(PadStartCode(packet))
=============================================================================
