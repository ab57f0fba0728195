---------------------------------- MODULE Cbr ----------------------------------
(***************************************************************************)
(* The rate control of the H.264 encoder (amlvenc_h264_cbr.c): how a       *)
(* picture is cut into blocks, what quantisers and how many bits each      *)
(* block gets, and what a frame that is done teaches about the next one.   *)
(* Numbers are the code's, in samples small enough for 32 bits; its own    *)
(* overflows are out of reach.                                             *)
(***************************************************************************)
EXTENDS Integers, SequencesExt

CeilDiv(n, d) == (n + d - 1) \div d     \* DIV_ROUND_UP
Nearest(n, d) == (n + (d \div 2)) \div d  \* DIV_ROUND_CLOSEST
AtLeast(n, m) == IF n < m THEN m ELSE n
Clip(n, lo, hi) == IF n > hi THEN hi ELSE IF n < lo THEN lo ELSE n

\* C rounds towards zero
Quot(n, d) == IF n < 0 THEN -((-n) \div d) ELSE n \div d

-----------------------------------------------------------------------------
(* Blocks.                                                                 *)

\* int_sqrt(2^24 * a / b) >> 8
RootOf(a, b) == LET x == (16777216 * a) \div b
                IN  CHOOSE n \in 0 .. 180 : 65536 * n * n <= x /\ x < 65536 * (n + 1) * (n + 1)

BlockSize(size, other) ==
  AtLeast(CeilDiv(size, AtLeast(RootOf(size, other), size \div 32)), 4)

\* amlvenc_h264_cbr_calculate_cbr_blocks
Blocks(w, h) ==
  LET bw == BlockSize(w, h)
      bh == BlockSize(h, w)
  IN  [width |-> bw, height |-> bh, cols |-> CeilDiv(w, bw), rows |-> CeilDiv(h, bh)]

BlockIndex(blocks, x, y) == (y \div blocks.height) * blocks.cols + (x \div blocks.width)

-----------------------------------------------------------------------------
(* Statistics.  A macroblock is [type, intra, inter, ex].                  *)

MbSad(mb, weight) ==
  CASE mb.type = "i4"   -> AtLeast(mb.intra - weight.i4, 0)
    [] mb.type = "i16"  -> AtLeast(mb.intra - weight.i16, 0)
    [] mb.type = "p"    -> AtLeast(mb.inter - weight.me, 0)
    [] mb.type = "p8x8" -> AtLeast(mb.ex - weight.me, 0)
    [] mb.type = "auto" -> AtLeast(IF mb.inter < mb.intra THEN mb.inter - weight.me
                                   ELSE mb.intra - weight.i16, 0)
    [] OTHER            -> 0

\* amlvenc_h264_cbr_update_stats
Stats(blocks, w, h, mb, weight) ==
  LET Sad(x, y) == MbSad(mb[x, y], weight)
      Over(In(_, _)) ==
        MapThenSumSet(LAMBDA y : MapThenSumSet(LAMBDA x : IF In(x, y) THEN Sad(x, y) ELSE 0,
                                               0 .. w - 1), 0 .. h - 1)
  IN  [total |-> Over(LAMBDA x, y : TRUE),
       block |-> [i \in 0 .. (blocks.cols * blocks.rows) - 1 |->
                    Over(LAMBDA x, y : BlockIndex(blocks, x, y) = i)]]

-----------------------------------------------------------------------------
(* Bits of each block.                                                     *)

\* amlvenc_h264_cbr_update_mb_sizes; the division of the target by the size of
\* a block keeps 16 bits after the point, the model none.  The memset counts
\* bytes: it reaches half of the table.
MbSizes(old, applyRc, blocks, stats, target) ==
  LET n    == blocks.cols * blocks.rows
      Fill(v) == [i \in DOMAIN old |-> IF 2 * i + 1 < n THEN v ELSE old[i]]
      each == (32 * target) \div (blocks.width * blocks.height)
      Share(i) == (each * stats.block[i]) \div stats.total
  IN  IF applyRc /\ stats.total > 0
        THEN [i \in DOMAIN old |-> IF i < n THEN Clip(Share(i), 0, 65535) ELSE old[i]]
        ELSE Fill(IF applyRc THEN 0 ELSE 65535)

-----------------------------------------------------------------------------
(* Quantisers: of eight rows of four cells, the four bytes of a word each. *)

Cell == (0 .. 7) \X (0 .. 3)

AdjIdr == [c \in Cell |-> c[1]]

AdjNonIdr == [c \in Cell |->
  CASE c[1] < 2 -> c[1]
    [] c[1] \in {2, 3} -> 2 * c[1] - 2 + (c[2] \div 2)
    [] OTHER -> c[1] + 2]

AdjI4I16 == [c \in Cell |->
  CASE c[1] < 2 -> c[1]
    [] c[1] = 7 -> 7
    [] OTHER -> c[1] + (c[2] \div 2)]

\* amlvenc_h264_cbr_clamp_qptbl
ClampQp(tbl, min, max) == [c \in Cell |-> Clip(tbl[c], min, max)]

\* the step to the table after block i
QpStep(isIdr, i) ==
  IF i \in (IF isIdr THEN {4, 6, 8} \cup 10 .. 15 ELSE {1, 3, 5} \cup 6 .. 15) THEN 1 ELSE 0

\* init_curve_quant and init_fixed_quant, the table of the frame
FrameQuant(applyRc, qp, adj, min, max) ==
  IF applyRc THEN ClampQp([c \in Cell |-> qp + adj[c]], min, max) ELSE [c \in Cell |-> qp]

\* amlvenc_h264_cbr_update_quant_tables, for one of the two tables: the sixteen
\* the hardware chooses from
QuantTables(applyRc, qp, isIdr, adj, min, max) ==
  LET first == [c \in Cell |-> IF applyRc THEN AtLeast(qp - 8, 0) + adj[c] ELSE qp]
      table[i \in 0 .. 15] ==
        IF i = 0 THEN ClampQp(first, min, max)
        ELSE ClampQp([c \in Cell |-> table[i - 1][c] + QpStep(isIdr, i - 1)], min, max)
  IN  table

-----------------------------------------------------------------------------
(* The state after a frame.  "p" are the parameters: bitrate, num and den    *)
(* of the frame rate, min and max quantiser.                                *)

\* DIV_SCALED(target_bitrate * frame_rate_den, frame_rate_num)
AvgBits(p) == (p.bitrate * p.den) \div p.num

Fps(p) == Nearest(p.num, p.den)

\* amlvenc_h264_cbr_init
RcInit(p) == [total |-> 0, errorSum |-> 0, lastError |-> 0, count |-> 0, qpCount |-> 0,
              target |-> AvgBits(p), qp |-> Nearest(p.min + p.max, 2)]

\* mutant: the moving total forgets nothing
TotalKept(s, fps, bits) == s.total + bits

\* the moving total of amlvenc_h264_cbr_adjust_rate: a full second's worth
MovingTotal(s, fps, bits) ==
  LET sum == s.total + bits
  IN  IF s.count >= fps THEN sum - (sum \div fps) ELSE sum

\* rc_frame_count, a byte
FrameCount(s, fps) == (IF s.count + 1 < fps THEN s.count + 1 ELSE fps) % 256

\* amlvenc_h264_cbr_adjust_rate.  "fullness" is clamped between target_bitrate
\* and target_bitrate.
AdjustRate(s, p, bits) ==
  LET fps   == Fps(p)
      avg   == AvgBits(p)
      total == MovingTotal(s, fps, bits)
      count == FrameCount(s, fps)
      error == avg - (total \div count)
      sum   == s.errorSum + error
      adjustment == Quot(400 * error, 1000) + Quot(25 * sum, 1000)
                      + Quot(50 * (error - s.lastError), 1000)
  IN  [s EXCEPT !.total = total, !.count = count, !.errorSum = sum, !.lastError = error,
                !.target = Clip(avg + adjustment - (p.bitrate \div fps), avg \div 2, 2 * avg)]

\* amlvenc_h264_cbr_adjust_qp
AdjustQp(s, p) ==
  LET avg       == AvgBits(p)
      deviation == Quot(100 * ((s.total \div s.count) - avg), avg)
      change == IF deviation > 12 THEN Clip(deviation \div 12, 1, 6)
                ELSE IF deviation < -10 THEN Clip(Quot(deviation, 10), -4, -1) ELSE 0
      qp     == Clip(s.qp + change, p.min, p.max)
      seen   == [s EXCEPT !.qpCount = (s.qpCount + 1) % 256]
  IN  IF seen.qpCount < Fps(p) THEN seen
      ELSE IF qp = s.qp THEN seen
      ELSE [seen EXCEPT !.qp = qp, !.qpCount = 0, !.errorSum = 0]

\* amlvenc_h264_cbr_frame_done
FrameDone(s, p, bits) == AdjustQp(AdjustRate(s, p, bits), p)

-----------------------------------------------------------------------------
(* Properties.                                                             *)

\* each macroblock of each size of picture the encoder takes is in one of the
\* 256 blocks the table has room for
BlocksFit ==
  \A w \in 20 .. 120, h \in 15 .. 80 :
    LET b == Blocks(w, h)
    IN  /\ b.cols * b.rows <= 256
        /\ BlockIndex(b, w - 1, h - 1) = (b.cols * b.rows) - 1

Mb == [x \in 0 .. 39, y \in 0 .. 17 |->
  [type  |-> <<"i4", "i16", "p", "p8x8", "auto", "other">>[1 + ((x + 2 * y) % 6)],
   intra |-> 37 * x, inter |-> 61 * y, ex |-> 11 * (x + y)]]

\* the blocks' shares of the target do not exceed it, and fall short of it by
\* less than the rounding; without rate control the second half of the table
\* stays as it was
SharesFit ==
  \A size \in {<<20, 15>>, <<22, 18>>, <<40, 16>>}, weight \in {0, 400} :
    LET b     == Blocks(size[1], size[2])
        n     == b.cols * b.rows
        stats == Stats(b, size[1], size[2], Mb, [i4 |-> weight, i16 |-> weight, me |-> weight])
        old   == [i \in 0 .. 255 |-> 7]
    IN  /\ stats.total = MapThenSumSet(LAMBDA i : stats.block[i], DOMAIN stats.block)
        /\ \A target \in {1000, 8000} :
             LET new == MbSizes(old, TRUE, b, stats, target)
                 sum == b.width * b.height * MapThenSumSet(LAMBDA i : new[i], 0 .. n - 1)
             IN  stats.total > 0 =>
                   sum \in (32 * target) - (b.width * b.height * (n + 1)) .. 32 * target
        /\ LET new == MbSizes(old, FALSE, b, stats, 1000)
           IN  {i \in 0 .. n - 1 : new[i] = 7} = CeilDiv(n - 1, 2) .. n - 1

\* the quantisers stay between the bounds of the controls, and a later table or
\* row never has a smaller one
QuantsRight(rc, isIdr, adj, min, max, qp) ==
  LET in    == Clip(qp, min, max)
      table == QuantTables(rc, in, isIdr, adj, min, max)
      frame == FrameQuant(rc, in, adj, min, max)
  IN  /\ \A c \in Cell : frame[c] \in min .. max
      /\ \A i \in 0 .. 15, c \in Cell :
           /\ table[i][c] \in min .. max
           /\ i > 0 => table[i][c] >= table[i - 1][c]
           /\ c[1] > 0 => table[i][c] >= table[i][<<c[1] - 1, c[2]>>]

QuantsOrdered ==
  \A rc \in BOOLEAN, isIdr \in BOOLEAN, adj \in {AdjIdr, AdjNonIdr, AdjI4I16},
     bound \in {<<0, 51>>, <<10, 40>>, <<26, 26>>}, qp \in {0, 7, 8, 26, 45, 51} :
    QuantsRight(rc, isIdr, adj, bound[1], bound[2], qp)

Rate == [bitrate : {100000, 1000000}, num : {1, 2, 4, 25, 30000, 255}, den : {1, 2, 1001},
         min : {10}, max : {26, 40}]

\* states that respect the invariant of the moving total, for frames of at most
\* "most" bits
Some(p, most) ==
  LET fps == Fps(p)
      Counted(n) ==
        {[RcInit(p) EXCEPT !.total = t, !.count = n, !.qp = q, !.qpCount = k, !.errorSum = e] :
           t \in {0, (n * most) \div 2, n * most},
           q \in {p.min, p.max}, k \in {0, 254, 255}, e \in {-1000, 100000}}
  IN  UNION {Counted(n) : n \in {0, 1, fps - 1, fps} \cap 0 .. fps}

\* The moving average never exceeds the largest frame, the target stays within
\* half and twice the average, the quantiser within its bounds, and it rises only
\* when too many bits were spent.
FrameRight(s, p, most, bits) ==
  LET new == FrameDone(s, p, bits)
  IN  /\ new.count \in 1 .. Fps(p) /\ new.total <= new.count * most
      /\ new.target \in AvgBits(p) \div 2 .. 2 * AvgBits(p)
      /\ new.qp \in p.min .. p.max
      /\ new.qp > s.qp => new.total \div new.count > AvgBits(p)
      /\ new.qp < s.qp => new.total \div new.count < AvgBits(p)

OneFrame ==
  \A p \in Rate : Fps(p) \in 1 .. 255 =>
    \A most \in {AvgBits(p) \div 2, 2 * AvgBits(p)} :
      \A s \in Some(p, most), bits \in {0, most \div 2, most} : FrameRight(s, p, most, bits)

\* Frames of one size: the average settles one part in fps below it, which at one
\* frame per second is nothing at all.
Steady ==
  \A p \in {p \in Rate : Fps(p) \in 1 .. 4} : \A bits \in {1000, 90000} :
    LET fps == Fps(p)
        end == FoldSeq(LAMBDA b, s : FrameDone(s, p, b), RcInit(p),
                       [i \in 1 .. 6 * fps |-> bits])
        mean == end.total \div end.count
    IN  /\ mean <= bits /\ mean + 1 >= ((fps - 1) * bits) \div fps
        /\ fps = 1 => mean = 0

\* the counter of frames, by which the total is divided, is never zero for the
\* frame rates from one to 255, and only for them
Divisors ==
  \A fps \in 0 .. 300 :
    fps \in 1 .. 255 <=> \A n \in 0 .. 255 : FrameCount([count |-> n], fps) # 0

\* The rate control keeps what it promises the hardware: every macroblock has a
\* block, the blocks share the target, quantisers are ordered and bounded, and
\* the target follows a moving average that the frame rates 1 .. 255 keep
\* defined.  Code: amlvenc_h264_cbr_calculate_cbr_blocks, _update_stats,
\* _update_mb_sizes, _update_quant_tables, _adjust_rate, _adjust_qp.
RateFollows == BlocksFit /\ SharesFit /\ QuantsOrdered /\ OneFrame /\ Steady /\ Divisors

=============================================================================
