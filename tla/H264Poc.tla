------------------------------- MODULE H264Poc -------------------------------
(***************************************************************************)
(* Picture order counts of the H.264 decoder: amlvdec_h264_dpb_decode_poc  *)
(* (amlvdec_h264_dpb.c) fed by a conforming stream.  The stream knows the  *)
(* true order of its pictures and sends what the three POC types code of   *)
(* it; the decoder has to come back to the truth.                          *)
(***************************************************************************)
EXTENDS Integers, Sequences

CONSTANTS
  PocTypes,       \* the values of pic_order_cnt_type: 0, 1 and 2
  HalfLsb,        \* half of MaxPicOrderCntLsb: 2^3 .. 2^15 in the code
  MaxFrameNum,    \* 2^4 .. 2^16 in the code
  PocWidth,       \* values of the uint16_t fields of a picture: 2^16
  Cycle,          \* offset_for_ref_frame, as a sequence
  OffsetNonRef,   \* offset_for_non_ref_pic
  OffsetBottom,   \* offset_for_top_to_bottom_field
  Deltas,         \* delta_pic_order_cnt_* the stream sends
  MaxFrames       \* bound: reference frames between two IDR pictures

ASSUME PocAssumption ==
  /\ PocTypes \subseteq 0 .. 2
  /\ HalfLsb \in Nat \ {0} /\ MaxFrameNum \in Nat \ {0, 1} /\ PocWidth \in Nat \ {0}
  /\ Cycle \in Seq(Int) /\ OffsetNonRef \in Int /\ OffsetBottom \in Int
  /\ Deltas \subseteq Int
  /\ MaxFrames \in Nat

MaxLsb == 2 * HalfLsb

VARIABLES
  pocType,    \* pic_order_cnt_type of the stream
  poc,        \* the persistent half of poc_state_t
  decoded,    \* the POCs of the last picture
  truth,      \* what they should be
  disturbed,  \* a picture since the last IDR carried MMCO 5
  refPoc,     \* the stream: POC of its last reference picture
  frames,     \* the stream: frame number since the last IDR, never wrapped
  lastRef     \* the stream: the last picture was a reference

vars == <<pocType, poc, decoded, truth, disturbed, refPoc, frames, lastRef>>

\* what a stream sends of a POC and of a frame number
LsbOf(x)      == x % MaxLsb
FrameNumOf(n) == n % MaxFrameNum

Structure == {"frame", "top", "bottom"}
NoPoc     == [top |-> 0, bottom |-> 0, frame |-> 0]
PocResult == [top : Int, bottom : Int, frame : Int]

TypeOK ==
  /\ pocType \in PocTypes
  /\ poc \in [msb : Int, lsb : 0 .. (MaxLsb - 1),
              frameNum : 0 .. (MaxFrameNum - 1), offset : Int]
  /\ decoded \in PocResult /\ truth \in PocResult
  /\ disturbed \in BOOLEAN /\ lastRef \in BOOLEAN
  /\ refPoc \in Int /\ frames \in Nat

Init ==
  /\ pocType \in PocTypes
  /\ poc = [msb |-> 0, lsb |-> 0, frameNum |-> 0, offset |-> 0]
  /\ decoded = NoPoc /\ truth = NoPoc
  /\ disturbed = FALSE
  /\ refPoc = 0 /\ frames = 0 /\ lastRef = FALSE

-----------------------------------------------------------------------------
(* The decoder.                                                            *)

\* assignment to a uint16_t field
Trunc(x) == x % PocWidth

Least(a, b) == IF a < b THEN a ELSE b

\* the fields a picture of this structure gets; a fresh slot has zeroes
Fields(structure, top, bottom) ==
  IF structure = "frame"
    THEN [top |-> Trunc(top), bottom |-> Trunc(bottom),
          frame |-> Least(Trunc(top), Trunc(bottom))]
  ELSE IF structure = "top"
    THEN [top |-> Trunc(top), bottom |-> 0, frame |-> Trunc(top)]
  ELSE [top |-> 0, bottom |-> Trunc(bottom), frame |-> Trunc(bottom)]

\* POC mode 0: the most significant part, from the last reference picture
Msb(prev, lsb) ==
  IF lsb < prev.lsb /\ prev.lsb - lsb >= HalfLsb THEN prev.msb + MaxLsb
  ELSE IF lsb > prev.lsb /\ lsb - prev.lsb > HalfLsb THEN prev.msb - MaxLsb
  ELSE prev.msb

\* last_pic_bottom_field is never set and a fresh slot has top_poc 0: after an
\* MMCO 5 both branches of the code reset msb and lsb to 0
PrevMsbLsb(p, pic, reset) ==
  IF pic.idr \/ reset THEN [msb |-> 0, lsb |-> 0] ELSE [msb |-> p.msb, lsb |-> p.lsb]

\* POC modes 1 and 2: FrameNumOffset
FrameNumOffset(p, pic, reset) ==
  IF pic.idr THEN 0
  ELSE LET prev == IF reset THEN [num |-> 0, offset |-> 0]
                   ELSE [num |-> p.frameNum, offset |-> p.offset]
       IN  IF pic.frameNum < prev.num THEN prev.offset + MaxFrameNum ELSE prev.offset

\* sum of the first n offsets of the cycle
Partial[n \in 0 .. Len(Cycle)] == IF n = 0 THEN 0 ELSE Partial[n - 1] + Cycle[n]

\* mutant: the cycle of the picture itself is not counted
ExpectedOneShort(abs) ==
  IF abs = 0 THEN 0
  ELSE ((abs - 1) \div Len(Cycle)) * Partial[Len(Cycle)]
         + Partial[(abs - 1) % Len(Cycle)]

\* POC mode 1: ExpectedPicOrderCnt of a reference frame
ExpectedPoc(abs) ==
  IF abs = 0 THEN 0
  ELSE ((abs - 1) \div Len(Cycle)) * Partial[Len(Cycle)]
         + Partial[((abs - 1) % Len(Cycle)) + 1]

AbsFrameNum(offset, pic) ==
  LET abs == IF Cycle # << >> THEN offset + pic.frameNum ELSE 0
  IN  IF ~pic.ref /\ abs > 0 THEN abs - 1 ELSE abs

\* the three modes: the fields of the picture
PocMode0(p, pic, reset) ==
  LET top == Msb(PrevMsbLsb(p, pic, reset), pic.lsb) + pic.lsb
  IN  Fields(pic.structure, top,
             IF pic.structure = "frame" THEN Trunc(top) + pic.delta0 ELSE top)

PocMode1(p, pic, reset) ==
  LET expected == ExpectedPoc(AbsFrameNum(FrameNumOffset(p, pic, reset), pic))
                    + (IF pic.ref THEN 0 ELSE OffsetNonRef)
      top == expected + pic.delta0
  IN  Fields(pic.structure, top,
             IF pic.structure = "frame" THEN Trunc(top) + OffsetBottom + pic.delta1
             ELSE expected + OffsetBottom + pic.delta0)

PocMode2(p, pic, reset) ==
  LET abs  == FrameNumOffset(p, pic, reset) + pic.frameNum
      this == IF pic.idr THEN 0 ELSE IF pic.ref THEN 2 * abs ELSE 2 * abs - 1
  IN  IF pic.idr THEN NoPoc ELSE Fields(pic.structure, this, this)

DecodePoc(p, pic, reset) ==
  IF pocType = 0 THEN PocMode0(p, pic, reset)
  ELSE IF pocType = 1 THEN PocMode1(p, pic, reset)
  ELSE PocMode2(p, pic, reset)

\* what they leave behind for the next picture
PocState(p, pic, reset) ==
  IF pocType = 0
    THEN LET prev == PrevMsbLsb(p, pic, reset)
         IN  [p EXCEPT !.frameNum = pic.frameNum,
                !.msb = IF pic.ref THEN Msb(prev, pic.lsb) ELSE prev.msb,
                !.lsb = IF pic.ref THEN pic.lsb ELSE prev.lsb]
    ELSE [p EXCEPT !.frameNum = pic.frameNum, !.offset = FrameNumOffset(p, pic, reset)]

-----------------------------------------------------------------------------
(* The stream.                                                             *)

\* The offset of every reference frame since the IDR, added one by one
Walk[n \in Nat] ==
  IF n = 0 THEN 0
  ELSE Walk[n - 1] + (IF Cycle = << >> THEN 0 ELSE Cycle[((n - 1) % Len(Cycle)) + 1])

\* The POC of the top field (of the bottom field of a bottom field picture),
\* for frame number n since the IDR; in mode 0 the encoder chose it.
TruePoc(n, ref, structure, chosen, delta0) ==
  IF pocType = 0 THEN chosen
  ELSE IF pocType = 2 THEN IF ref THEN 2 * n ELSE 2 * n - 1
  ELSE (IF ref THEN Walk[n] ELSE Walk[n - 1] + OffsetNonRef) + delta0
         + (IF structure = "bottom" THEN OffsetBottom ELSE 0)

TrueBottom(top, delta0, delta1) ==
  IF pocType = 0 THEN top + delta0
  ELSE IF pocType = 1 THEN top + OffsetBottom + delta1
  ELSE top

\* every POC fits the field it is stored in
Fits(x) == x \in 0 .. (PocWidth - 1)

\* new_pic of the next picture.  The memory management of the picture itself
\* runs before its POC is decoded, so the decoder's "reset" is the picture's own
\* MMCO 5, where the standard means the one of the reference picture before it.
Picture(idr, ref, structure, chosen, delta0, delta1, mmco5) ==
  LET n   == IF idr THEN 0 ELSE IF lastRef THEN frames + 1 ELSE frames
      top == TruePoc(n, ref, structure, chosen, delta0)
      bot == IF structure = "frame" THEN TrueBottom(top, delta0, delta1) ELSE top
      pic == [idr |-> idr, ref |-> ref, structure |-> structure,
              lsb |-> LsbOf(top), frameNum |-> FrameNumOf(n),
              delta0 |-> delta0, delta1 |-> delta1]
  IN
  /\ idr => ~mmco5
  /\ idr \/ mmco5 => ref
  /\ n <= MaxFrames
  /\ Fits(top) /\ Fits(bot)
  /\ decoded' = DecodePoc(poc, pic, mmco5)
  /\ truth' = [top    |-> IF structure = "bottom" THEN 0 ELSE top,
               bottom |-> IF structure = "top" THEN 0 ELSE bot,
               frame  |-> Least(top, bot)]
  /\ poc' = PocState(poc, pic, mmco5)
  /\ disturbed' = (mmco5 \/ (disturbed /\ ~idr))
  /\ refPoc' = IF ref THEN top ELSE refPoc
  /\ frames' = n
  /\ lastRef' = ref
  /\ UNCHANGED pocType

Idr == \E d0, d1 \in Deltas : Picture(TRUE, TRUE, "frame", 0, d0, d1, FALSE)

\* a POC is coded by its distance to the last reference picture: it has to be
\* closer than half the range; only mode 0 has a choice.  A stream starts with an
\* IDR picture.
NonIdr ==
  /\ frames > 0 \/ lastRef
  /\ \E ref \in BOOLEAN, structure \in Structure, d \in (1 - HalfLsb) .. HalfLsb,
        d0, d1 \in Deltas, mmco5 \in BOOLEAN :
       /\ d # 0 => pocType = 0
       /\ Picture(FALSE, ref, structure, refPoc + d, d0, d1, mmco5)

Next == Idr \/ NonIdr

Spec == Init /\ [][Next]_vars

-----------------------------------------------------------------------------
\* From every IDR picture to the first MMCO 5 the decoder finds the POC the
\* encoder meant, for frames and for fields, through every wrap of
\* pic_order_cnt_lsb and of frame_num, in all three modes, whatever an MMCO 5
\* left behind before.  Code: amlvdec_h264_dpb_decode_poc.
DecodedRight == ~disturbed => decoded = truth

\* the decoder's idea of the last reference picture (mode 0) or of the frame
\* number (modes 1 and 2) is the encoder's
Synced ==
  IF pocType = 0
    THEN poc.msb + poc.lsb = refPoc /\ poc.lsb = LsbOf(refPoc)
    ELSE poc.offset + poc.frameNum = frames /\ poc.frameNum = FrameNumOf(frames)

\* Between two pictures of such a stream the decoder keeps step with the encoder.
\* Code: the "update previous values" of amlvdec_h264_dpb_decode_poc.
InStep == ~disturbed => Synced
=============================================================================
