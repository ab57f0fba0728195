---------------------------- MODULE Vp9LoopFilter ----------------------------
(***************************************************************************)
(* The deblocking limits and levels that the VP9 decoder gives the         *)
(* hardware before each frame (vdec/codec_vp9.c, vp9_loop_filter_init,     *)
(* vp9_loop_filter_frame_init, codec_vp9_process_lf).  The limits depend   *)
(* on the sharpness and are written only when it changes; the levels       *)
(* depend on the frame's level, the segment, the reference and the mode.   *)
(***************************************************************************)
EXTENDS Integers, SequencesExt

Level == 0 .. 63  \* 0 .. MAX_LOOP_FILTER

Clamp(v) == IF v < 0 THEN 0 ELSE IF v > 63 THEN 63 ELSE v

-----------------------------------------------------------------------------
(* Limits, by sharpness.                                                   *)

\* vp9_update_sharpness
InsideLimit(lvl, sharp) ==
  LET shifted == lvl \div (IF sharp > 4 THEN 4 ELSE IF sharp > 0 THEN 2 ELSE 1)
      capped  == IF sharp > 0 /\ shifted > 9 - sharp THEN 9 - sharp ELSE shifted
  IN  IF capped < 1 THEN 1 ELSE capped

Limits(sharp) == [lvl \in Level |-> [lim   |-> InsideLimit(lvl, sharp),
                                     mblim |-> 2 * (lvl + 2) + InsideLimit(lvl, sharp)]]

\* vp9_loop_filter_init: what the registers HEVC_DBLK_CFG9 hold, and the
\* sharpness that vp9->lf remembers
FilterInit == [regs |-> Limits(0), last |-> 0]

\* vp9_loop_filter_frame_init, "update limits if sharpness has changed"
FrameInit(filter, sharp) ==
  IF filter.last = sharp THEN filter ELSE [regs |-> Limits(sharp), last |-> sharp]

-----------------------------------------------------------------------------
(* Levels.  A segment is what process_lf makes of the firmware's word: the *)
(* feature's bit, the sign and six bits of data.                           *)

Word == [active : BOOLEAN, negative : BOOLEAN, data : {0, 1, 40, 63}]

\* codec_vp9_process_lf
SegData(word) == IF word.negative THEN -word.data ELSE word.data

\* segfeature_active and get_segdata
SegLevel(default, enabled, absolute, word) ==
  IF ~enabled \/ ~word.active THEN default
  ELSE Clamp(IF absolute THEN SegData(word) ELSE default + SegData(word))

Scale(default) == IF default \div 32 = 0 THEN 1 ELSE 2

\* the levels of one segment; "ref" 0 is the intra frame, whose delta is the
\* only one that counts
LevelsOf(default, base, deltas, refDelta, modeDelta) ==
  [ref \in 0 .. 3, mode \in 0 .. 1 |->
     IF ~deltas THEN base
     ELSE IF ref = 0 THEN Clamp(base + refDelta[0] * Scale(default))
     ELSE Clamp(base + refDelta[ref] * Scale(default) + modeDelta[mode] * Scale(default))]

\* what HEVC_DBLK_CFGA gets for a segment and a mode; the intra level of mode 1
\* is what an earlier frame left, and not used
LevelWord(default, levels, mode) ==
  [ref \in 0 .. 3 |-> IF default = 0 THEN 0 ELSE levels[ref, mode]]

-----------------------------------------------------------------------------
(* What the filter promises.                                               *)

\* the limits the hardware has are those of the frame's sharpness, whatever
\* frames came before
LimitsCurrent ==
  \A before \in 0 .. 7, sharp \in 0 .. 7, again \in 0 .. 7 :
    FrameInit(FrameInit(FrameInit(FilterInit, before), sharp), again).regs = Limits(again)

\* they fit the fields of 6 and 8 bits, and a higher level never filters less
LimitsFit ==
  \A sharp \in 0 .. 7, lvl \in Level :
    LET l == Limits(sharp)
    IN  /\ l[lvl].lim \in 1 .. 63 /\ l[lvl].mblim \in 0 .. 255
        /\ sharp > 0 => l[lvl].lim <= 9 - sharp
        /\ lvl > 0 => l[lvl - 1].lim <= l[lvl].lim /\ l[lvl - 1].mblim < l[lvl].mblim

\* a frame that is not filtered is not filtered in any segment, and a segment's
\* own absolute level replaces the frame's
LevelsFit ==
  \A default \in {0, 1, 31, 32, 63}, enabled, absolute, deltas \in BOOLEAN, word \in Word :
    LET base   == SegLevel(default, enabled, absolute, word)
        levels == LevelsOf(default, base, deltas, [r \in 0 .. 3 |-> IF r = 0 THEN 63 ELSE -r * 20],
                           [m \in 0 .. 1 |-> -m])
    IN  /\ \A r \in 0 .. 3, m \in 0 .. 1 :
             /\ LevelWord(default, levels, m)[r] \in Level
             /\ default = 0 => LevelWord(default, levels, m)[r] = 0
        /\ enabled /\ absolute /\ word.active /\ ~word.negative => base = word.data

\* The hardware deblocks every frame with the limits of that frame's sharpness
\* and with levels that fit its registers.
\* Code: vp9_loop_filter_init, vp9_loop_filter_frame_init, vp9_update_sharpness.
FilterFollows == LimitsCurrent /\ LimitsFit /\ LevelsFit
=============================================================================
