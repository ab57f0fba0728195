-------------------------- MODULE H264DecoderProofs --------------------------
(*****************************************************************************)
(* The H.264 decoder job conserves buffers and dereferences nothing it       *)
(* should not, for any number of buffers and slots and any stream, until     *)
(* the job's thread is overrun or a header finds no CAPTURE buffer.          *)
(*                                                                           *)
(* What is not obvious is that a slot whose picture was given back is left   *)
(* alone by the marking of later pictures, that a second field never joins   *)
(* such a slot (FieldInv), and that the current picture itself may be given  *)
(* back before it is decoded: decoder_done then marks an empty slot, which   *)
(* the flush that follows outputs first (SlotInv).                           *)
(*                                                                           *)
(* The second half is about streams of frames (H264Stream).  They come out   *)
(* in display order, none missing (FramesInv), with no more of them waiting  *)
(* than the order and the references ask for (SpanInv), and where only       *)
(* anchors are references the lists name those a stream means (PlainInv).    *)
(*                                                                           *)
(* The last part is about what the hardware reads of any stream: the entries *)
(* of the lists stay references until it does (ListedInv), and every picture *)
(* in use has a buffer, its own or that of a field which is output later     *)
(* (BackedInv) - the latter as long as headers conform.                      *)
(*****************************************************************************)
EXTENDS H264Decoder, H264Stream, M2mLemmas, FiniteSetTheorems

Picture == [state : SlotState, type : {"non", "short", "long"}, idx : Int,
            num : 0 .. (MaxFrameNum - 1), structure : Structure, poc : 0 .. (PocMod - 1),
            seq : 0 .. (SequenceMod - 1), buffer : Frame \cup {NoFrame}, output : BOOLEAN]

TypeInv ==
  /\ stream \in [Queue -> {"idle", "on", "cancel", "off"}]
  /\ slots \in [Slot -> Picture] /\ size \in 0 .. NumSlots /\ sequence \in 0 .. (SequenceMod - 1)
  /\ reason \in Reason
  /\ srcBuf \in SrcBuf \cup {NoBuf}
  /\ dpbPic \in Slot \cup {NoSlot} /\ pendingField \in Slot \cup {NoSlot}
  /\ headers \in Streams
  /\ status = "picture" => command = "newpic"

\* where the thread is, and what it has
JobInv ==
  /\ pc # "oops"
  /\ job = "running" <=> pc \in {"wait", "flush"}
  /\ pc # "idle" => allocated
  /\ srcBuf # NoBuf <=> pc = "wait" \/ (pc = "flush" /\ reason = "header")
  /\ (pc = "wait" /\ command = "newpic") \/ (pc = "flush" /\ reason = "header") =>
       dpbPic \in 1 .. size

StreamInv ==
  /\ \A q \in Queue : job = "running" => stream[q] \in {"on", "cancel"}
  /\ \A q \in Queue : stream[q] \in {"on", "cancel"} => allocated
  /\ stream["dst"] \in {"idle", "off"} => \A s \in Slot : slots[s].state = "unused"

\* amlvdec_h264_dpb_recycle_pic leaves this of a slot
Vacant(pic) == pic.type = "non" /\ pic.poc = 0 /\ pic.seq = 0 /\ pic.buffer = NoFrame /\ ~pic.output

\* decoder_done has marked a slot the picture of which was given back
Ghost(pic) == pic.state = "output_ready" /\ Vacant(pic)

SlotInv ==
  \A s \in Slot :
    /\ slots[s].state = "unused" => Vacant(slots[s])
    /\ slots[s].state # "unused" => s <= size
    /\ slots[s].state # "unused" /\ slots[s].buffer = NoFrame =>
         Ghost(slots[s]) /\ pc = "flush" /\ reason = "done"

\* a first field that still waits is a picture that owns its buffer
FieldInv ==
  pendingField # NoSlot /\ slots[pendingField].seq # 0 =>
    /\ slots[pendingField].state # "unused" /\ slots[pendingField].output
    /\ slots[pendingField].buffer # NoFrame

OwnerIn(f) == {s \in Slot : f[s].output}
OwnedIn(f) == {f[s].buffer : s \in OwnerIn(f)}
Distinct(f) == \A s, t \in OwnerIn(f) : f[s].buffer = f[t].buffer => s = t

BufferInv == Balanced(vb, rdy, InTask, OwnedIn(slots), dropped) /\ Distinct(slots)

SafeInv == TypeInv /\ JobInv /\ StreamInv /\ SlotInv /\ FieldInv /\ BufferInv
IInv    == ~overrun /\ ~starved => SafeInv

-----------------------------------------------------------------------------
(* What the operations of the picture buffer do.                           *)

\* amlvdec_h264_dpb_alloc_pic returns a slot that is free.
LEMMA FirstFreeFacts ==
  ASSUME TypeInv, Free # {}
  PROVE  FirstFree \in Free /\ Free \subseteq Slot /\ slots[FirstFree].state = "unused"
<1>1. Free \subseteq Nat /\ Free \subseteq Slot
  BY H264DpbAssumption DEF Free, TypeInv, Slot, H264DpbAssumption
<1>2. \E s \in Free : \A t \in Free : s <= t
  BY <1>1, LeastExists
<1>3. QED
  BY <1>1, <1>2 DEF FirstFree, Free, InUse, InUseOf

\* The marking of references: the array g is f, in which pictures that are in use
\* may be marked otherwise.
Remarked(f, g) ==
  /\ g \in [Slot -> Picture]
  /\ \A s \in Slot :
       /\ g[s].buffer = f[s].buffer /\ g[s].output = f[s].output
       /\ g[s].seq = f[s].seq /\ g[s].poc = f[s].poc
       /\ g[s].num = f[s].num /\ g[s].structure = f[s].structure
       /\ f[s].state = "unused" => g[s] = f[s]
       /\ f[s].state # "unused" => g[s].state # "unused"

LEMMA RemarkedAgain ==
  ASSUME NEW f, NEW g, NEW h, Remarked(f, g), Remarked(g, h)
  PROVE  Remarked(f, h)
BY DEF Remarked

\* A picture that is marked otherwise is the same in everything else.
Same(x, y) ==
  /\ y \in Picture
  /\ y.buffer = x.buffer /\ y.output = x.output /\ y.seq = x.seq /\ y.poc = x.poc
  /\ y.num = x.num /\ y.structure = x.structure

\* mark_short_term_unused, mark_long_term_unused and the sliding window
LEMMA ReleasedFacts ==
  ASSUME NEW f \in [Slot -> Picture], NEW S, \A s \in S : f[s].state # "unused"
  PROVE  Remarked(f, Released(f, S)) /\ Remarked(f, ReleasedLong(f, S))
<1>1. Remarked(f, Released(f, S))
  BY DEF Remarked, Released, Picture, SlotState
<1>2. Remarked(f, ReleasedLong(f, S))
  <2>1. ASSUME NEW s \in Slot
        PROVE  LET y == [f[s] EXCEPT !.state = "output_ready", !.idx = NoIdx]
               IN  Same(f[s], y) /\ y.state = "output_ready"
    <3>1. f[s] \in Picture /\ "output_ready" \in SlotState /\ NoIdx \in Int
          /\ "non" \in {"non", "short", "long"}
      BY DEF SlotState, NoIdx
    <3> DEFINE x == f[s]
    <3> HIDE DEF x
    <3>2. LET y == [x EXCEPT !.state = "output_ready", !.idx = NoIdx]
          IN  Same(x, y) /\ y.state = "output_ready"
      <4>1. x \in Picture
        BY <3>1 DEF x
      <4>2. QED
        BY <3>1, <4>1 DEF Same, Picture
    <3>3. QED
      BY <3>2 DEF x
  <2>2. QED
    BY <2>1 DEF Remarked, ReleasedLong, Same
<1>3. QED
  BY <1>1, <1>2

\* mark_all_unused
LEMMA MarkAllUnusedFacts ==
  ASSUME NEW f \in [Slot -> Picture]
  PROVE  Remarked(f, MarkAllUnused(f))
<1>1. \A s \in RefsOf(f, "short") \cup RefsOf(f, "long") : f[s].state # "unused"
  BY DEF RefsOf
<1>2. QED
  BY <1>1, ReleasedFacts DEF MarkAllUnused

\* One memory management command, on an array none of whose unused slots is in the
\* current sequence.
LEMMA CommandFacts ==
  ASSUME NEW f \in [Slot -> Picture], NEW p \in Slot, f[p].state # "unused",
         \A s \in Slot : f[s].state = "unused" => f[s].seq # sequence,
         size \in 0 .. NumSlots, NEW c \in MemoryCommand
  PROVE  Remarked(f, Command(f, p, c))
<1>1. c.op \in {"short_unused", "long_unused", "assign_long", "max_long_idx", "reset",
                "current_long"} /\ c.args \in Seq(Int) /\ (c.op = "assign_long" => c.args # << >>)
  BY DEF MemoryCommand
<1>2. FirstArg(c) \in Int
  BY <1>1 DEF FirstArg, OpCode
<1>3. CASE c.op \in {"short_unused", "long_unused", "max_long_idx"}
  <2>1. \A s \in RefsOf(f, "short") \cup RefsOf(f, "long") : f[s].state # "unused"
    BY DEF RefsOf
  <2>2. CASE c.op = "short_unused"
    <3> DEFINE S == {s \in RefsOf(f, "short") \cap InSequence(f) :
                       f[s].num = PicNum(f[p], FirstArg(c))}
    <3>1. Command(f, p, c) = Released(f, S)
      BY <2>2 DEF Command
    <3> HIDE DEF S
    <3>2. \A s \in S : f[s].state # "unused"
      BY <2>1 DEF S
    <3>3. QED
      BY <3>1, <3>2, ReleasedFacts
  <2>3. CASE c.op = "long_unused"
    <3> DEFINE S == {s \in RefsOf(f, "long") \cap InSequence(f) : f[s].num = FirstArg(c)}
    <3>1. Command(f, p, c) = ReleasedLong(f, S)
      BY <2>3 DEF Command
    <3> HIDE DEF S
    <3>2. \A s \in S : f[s].state # "unused"
      BY <2>1 DEF S
    <3>3. QED
      BY <3>1, <3>2, ReleasedFacts
  <2>4. CASE c.op = "max_long_idx"
    <3> DEFINE S == {s \in RefsOf(f, "long") \cap InSequence(f) : f[s].idx > FirstArg(c) - 1}
    <3>1. Command(f, p, c) = ReleasedLong(f, S)
      BY <2>4 DEF Command
    <3> HIDE DEF S
    <3>2. \A s \in S : f[s].state # "unused"
      BY <2>1 DEF S
    <3>3. QED
      BY <3>1, <3>2, ReleasedFacts
  <2>5. QED
    BY <1>3, <2>2, <2>3, <2>4
<1>4. CASE c.op = "assign_long"
  <2>1. c.args[1] \in Int
    BY <1>1, <1>4, ElementOfSeq, EmptySeq, LenProperties
  <2> DEFINE i == c.args[1]
             n == PicNum(f[p], FirstArg(c))
  <2>2. Command(f, p, c) =
          [s \in Slot |-> IF s \in InSequence(f) /\ f[s].num = n
             THEN [f[s] EXCEPT !.state = "ref_in_use", !.type = "long", !.idx = i] ELSE f[s]]
    BY <1>4 DEF Command
  <2>3. \A s \in InSequence(f) : s \in Slot => f[s].state # "unused"
    BY DEF InSequence
  <2> HIDE DEF i, n
  <2>4. i \in Int
    BY <2>1 DEF i
  <2>5. ASSUME NEW s \in Slot
        PROVE  LET y == [f[s] EXCEPT !.state = "ref_in_use", !.type = "long", !.idx = i]
               IN  Same(f[s], y) /\ y.state = "ref_in_use"
    <3>1. f[s] \in Picture /\ "ref_in_use" \in SlotState /\ "long" \in {"non", "short", "long"}
      BY DEF SlotState
    <3> DEFINE x == f[s]
    <3> HIDE DEF x
    <3>2. LET z == [x EXCEPT !.state = "ref_in_use", !.type = "long", !.idx = i]
          IN  Same(x, z) /\ z.state = "ref_in_use"
      <4>1. x \in Picture /\ i \in Int
        BY <2>4, <3>1 DEF x
      <4>2. QED
        BY <3>1, <4>1 DEF Same, Picture
    <3>3. QED
      BY <3>2 DEF x
  <2> DEFINE Y(s) == [f[s] EXCEPT !.state = "ref_in_use", !.type = "long", !.idx = i]
             S    == {s \in InSequence(f) : f[s].num = n}
             g    == [s \in Slot |-> IF s \in S THEN Y(s) ELSE f[s]]
  <2>6. Command(f, p, c) = g
    BY <2>2
  <2>7. \A s \in Slot : Same(f[s], Y(s)) /\ Y(s).state = "ref_in_use"
    BY <2>5
  <2>8. \A s \in S : s \in Slot => f[s].state # "unused"
    BY <2>3
  <2> HIDE DEF Y, S
  <2>9. Remarked(f, g)
    <3>1. \A s \in Slot : g[s] = IF s \in S THEN Y(s) ELSE f[s]
      OBVIOUS
    <3>2. g \in [Slot -> Picture]
      BY <2>7 DEF Same
    <3> HIDE DEF g
    <3>3. QED
      BY <2>7, <2>8, <3>1, <3>2 DEF Remarked, Same
  <2>10. QED
    BY <2>6, <2>9
<1>5. CASE c.op = "reset"
  BY <1>5, MarkAllUnusedFacts DEF Command
<1>6. CASE c.op = "current_long"
  <2> DEFINE y == [f[p] EXCEPT !.state = "ref_in_use", !.type = "long", !.idx = FirstArg(c)]
  <2>1. Same(f[p], y) /\ y.state = "ref_in_use"
    <3>1. f[p] \in Picture /\ "ref_in_use" \in SlotState /\ "long" \in {"non", "short", "long"}
      BY DEF SlotState
    <3> DEFINE x == f[p]
               j == FirstArg(c)
    <3> HIDE DEF x, j
    <3>2. LET z == [x EXCEPT !.state = "ref_in_use", !.type = "long", !.idx = j]
          IN  Same(x, z) /\ z.state = "ref_in_use"
      <4>1. x \in Picture /\ j \in Int
        BY <1>2, <3>1 DEF x, j
      <4>2. QED
        BY <3>1, <4>1 DEF Same, Picture
    <3>3. QED
      BY <3>2 DEF x, j
  <2>2. Command(f, p, c) = [f EXCEPT ![p] = y]
    BY <1>6 DEF Command
  <2> HIDE DEF y
  <2>3. QED
    BY <2>1, <2>2 DEF Remarked, Same
<1>7. QED
  BY <1>1, <1>3, <1>4, <1>5, <1>6

\* adaptive_memory_management, command by command.
LEMMA AdaptiveSteps ==
  ASSUME NEW f \in [Slot -> Picture], NEW p \in Slot, f[p].state # "unused",
         \A s \in Slot : f[s].state = "unused" => f[s].seq # sequence,
         size \in 0 .. NumSlots, NEW cs \in Seq(MemoryCommand)
  PROVE  \E after : /\ Adaptive(f, p, cs) = after[Len(cs)]
                    /\ \A i \in 0 .. Len(cs) :
                         /\ after[i] = IF i = 0 THEN f ELSE Command(after[i - 1], p, cs[i])
                         /\ Remarked(f, after[i])
<1> DEFINE Steps(g, m) ==
      g = [i \in 0 .. m |-> IF i = 0 THEN f ELSE Command(g[i - 1], p, cs[i])]
           n == Len(cs)
           after == CHOOSE g : Steps(g, n)
<1>1. n \in Nat /\ \A i \in 1 .. n : cs[i] \in MemoryCommand
  BY ElementOfSeq, LenProperties
<1>2. ASSUME NEW m \in Nat
      PROVE  \E g : Steps(g, m)
  <2> DEFINE Bad == {k \in Nat : ~ \E g : Steps(g, k)}
  <2>1. SUFFICES ASSUME Bad # {}
                 PROVE  FALSE
    OBVIOUS
  <2>2. PICK k \in Bad : \A l \in Bad : k <= l
    BY <2>1, LeastExists
  <2>3. CASE k = 0
    <3>1. Steps([i \in 0 .. 0 |-> f], 0)
      OBVIOUS
    <3>2. QED
      BY <2>2, <2>3, <3>1
  <2>4. CASE k # 0
    <3>1. k - 1 \in Nat /\ k - 1 \notin Bad
      BY <2>2, <2>4
    <3>2. PICK g : Steps(g, k - 1)
      BY <3>1
    <3> DEFINE h == [i \in 0 .. k |-> IF i = k THEN Command(g[k - 1], p, cs[k]) ELSE g[i]]
    <3>3. Steps(h, k)
      <4>1. ASSUME NEW i \in 0 .. k
            PROVE  h[i] = IF i = 0 THEN f ELSE Command(h[i - 1], p, cs[i])
        <5>1. CASE i = k
          <6>1. h[k] = Command(g[k - 1], p, cs[k]) /\ h[k - 1] = g[k - 1]
            BY <2>4, <3>1
          <6>2. QED
            BY <2>4, <5>1, <6>1
        <5>2. CASE i # k
          <6>1. i \in 0 .. (k - 1) /\ h[i] = g[i] /\ (i # 0 => h[i - 1] = g[i - 1])
            BY <3>1, <5>2
          <6>2. g[i] = IF i = 0 THEN f ELSE Command(g[i - 1], p, cs[i])
            BY <3>2, <6>1
          <6>3. QED
            BY <6>1, <6>2
        <5>3. QED
          BY <5>1, <5>2
      <4>2. QED
        BY <4>1
    <3>4. QED
      BY <2>2, <3>3
  <2>5. QED
    BY <2>3, <2>4
<1>3. Steps(after, n)
  BY <1>1, <1>2
<1>4. Adaptive(f, p, cs) = after[n]
  BY DEF Adaptive
<1> HIDE DEF after
<1>5. \A i \in 0 .. n : after[i] = IF i = 0 THEN f ELSE Command(after[i - 1], p, cs[i])
  BY <1>3
<1>6. \A i \in 0 .. n : Remarked(f, after[i])
  <2> DEFINE Bad == {i \in 0 .. n : ~Remarked(f, after[i])}
  <2>1. SUFFICES ASSUME Bad # {}
                 PROVE  FALSE
    OBVIOUS
  <2>a. Bad \subseteq Nat
    BY <1>1
  <2>2. PICK k \in Bad : \A l \in Bad : k <= l
    BY <2>a, <2>1, LeastExists
  <2>3. k # 0
    BY <1>1, <1>5 DEF Remarked
  <2>4. k - 1 \in 0 .. n /\ k - 1 \notin Bad /\ k \in 1 .. n
    BY <1>1, <2>2, <2>3
  <2>5. Remarked(f, after[k - 1])
    BY <2>4
  <2>6. /\ after[k - 1] \in [Slot -> Picture] /\ after[k - 1][p].state # "unused"
        /\ \A s \in Slot : after[k - 1][s].state = "unused" => after[k - 1][s].seq # sequence
    BY <2>5 DEF Remarked
  <2>7. Remarked(after[k - 1], Command(after[k - 1], p, cs[k]))
    BY <1>1, <2>4, <2>6, CommandFacts
  <2>8. Remarked(f, after[k])
    BY <1>5, <2>3, <2>4, <2>5, <2>7, RemarkedAgain
  <2>9. QED
    BY <2>2, <2>8
<1>7. QED
  BY <1>4, <1>5, <1>6

\* So do all the commands of a picture.
LEMMA AdaptiveFacts ==
  ASSUME NEW f \in [Slot -> Picture], NEW p \in Slot, f[p].state # "unused",
         \A s \in Slot : f[s].state = "unused" => f[s].seq # sequence,
         size \in 0 .. NumSlots, NEW cs \in Seq(MemoryCommand)
  PROVE  Remarked(f, Adaptive(f, p, cs))
<1>1. PICK after : /\ Adaptive(f, p, cs) = after[Len(cs)]
                   /\ \A i \in 0 .. Len(cs) : Remarked(f, after[i])
  BY AdaptiveSteps
<1>2. Len(cs) \in 0 .. Len(cs)
  BY LenProperties
<1>3. QED
  BY <1>1, <1>2

-----------------------------------------------------------------------------
\* The sequence of a picture is never 0, which is that of an empty slot: a stream
\* begins with an IDR picture.
LEMMA SequenceFacts ==
  ASSUME TypeInv, NEW h \in Coming
  PROVE  /\ h \in Header
         /\ SequenceAfter(h) \in 1 .. (SequenceMod - 1)
         /\ ~h.idr => sequence # 0
<1>1. h \in Header /\ h \in headers
  BY H264Assumption DEF TypeInv, H264Assumption, Coming
<1>2. IF h.idr THEN sequence < MaxIdr ELSE sequence > 0
  BY DEF Coming
<1>3. /\ MaxIdr \in 0 .. (SequenceMod - 1) /\ sequence \in 0 .. (SequenceMod - 1)
      /\ SequenceMod \in Nat \ {0}
  BY H264Assumption, H264DpbAssumption DEF TypeInv, H264Assumption, H264DpbAssumption
<1>4. CASE h.idr
  <2>1. sequence + 1 \in 1 .. (SequenceMod - 1)
    BY <1>2, <1>3, <1>4
  <2>2. (sequence + 1) % SequenceMod = sequence + 1
    BY <1>3, <2>1
  <2>3. QED
    BY <1>1, <1>4, <2>1, <2>2 DEF SequenceAfter
<1>5. CASE ~h.idr
  BY <1>1, <1>2, <1>3, <1>5 DEF SequenceAfter
<1>6. QED
  BY <1>4, <1>5

\* amlvdec_h264_dpb_store_pic fills one free slot.
LEMMA StoredFacts ==
  ASSUME TypeInv, SlotInv, NEW p \in Slot, slots[p].state = "unused", NEW h \in Coming
  PROVE  LET f == Stored(p, h)
         IN  /\ f \in [Slot -> Picture] /\ \A s \in Slot \ {p} : f[s] = slots[s]
             /\ f[p].state = "init" /\ f[p].output /\ f[p].buffer = NoFrame
             /\ f[p].structure = h.structure /\ f[p].seq = 0
<1> DEFINE x == slots[p]
           f == Stored(p, h)
<1>1. x \in Picture /\ Vacant(x) /\ h \in Header /\ slots \in [Slot -> Picture]
  BY SequenceFacts DEF TypeInv, SlotInv
<1>2. PICK y \in Picture : /\ f = [slots EXCEPT ![p] = y]
                           /\ y.state = "init" /\ y.output /\ y.buffer = NoFrame
                           /\ y.structure = h.structure /\ y.seq = 0
  <2> DEFINE z == [x EXCEPT !.num = h.num, !.structure = h.structure, !.state = "init",
                            !.type = IF h.ref THEN "short" ELSE x.type, !.output = TRUE]
  <2>1. f = [slots EXCEPT ![p] = z]
    BY DEF Stored
  <2> HIDE DEF x, f
  <2>2. h.num \in 0 .. (MaxFrameNum - 1) /\ h.structure \in Structure
    BY <1>1 DEF Header
  <2>3. z \in Picture
    BY <1>1, <2>2 DEF Picture, SlotState
  <2>4. z.state = "init" /\ z.buffer = NoFrame /\ z.structure = h.structure /\ z.seq = 0
    BY <1>1 DEF Picture, Vacant
  <2>5. z.output
    BY <1>1 DEF Picture
  <2> HIDE DEF z
  <2>6. QED
    BY <2>1, <2>3, <2>4, <2>5
<1> HIDE DEF f
<1>3. QED
  BY <1>1, <1>2 DEF f

\* amlvdec_h264_dpb_new_pic fills one free slot, with a picture that will own its
\* buffer, and changes the marking of pictures in use.
LEMMA AddedFacts ==
  ASSUME TypeInv, SlotInv, NEW p \in Slot, slots[p].state = "unused", NEW h \in Coming
  PROVE  LET g == Added(p, h)
         IN  /\ g \in [Slot -> Picture]
             /\ \A s \in Slot \ {p} :
                  /\ g[s].buffer = slots[s].buffer /\ g[s].output = slots[s].output
                  /\ g[s].seq = slots[s].seq /\ g[s].poc = slots[s].poc
                  /\ slots[s].state = "unused" => g[s] = slots[s]
                  /\ slots[s].state # "unused" => g[s].state # "unused"
             /\ g[p].state # "unused" /\ g[p].output /\ g[p].buffer = NoFrame
             /\ g[p].seq = SequenceAfter(h) /\ g[p].structure = h.structure
             /\ g[p].poc = h.poc /\ g[p].state = Marked(p, h)[p].state
<1> DEFINE x == slots[p]
           f == Stored(p, h)
           g == Marked(p, h)
<1>1. x \in Picture /\ h \in Header /\ slots \in [Slot -> Picture]
  BY SequenceFacts DEF TypeInv
<1>2. /\ f \in [Slot -> Picture] /\ \A s \in Slot \ {p} : f[s] = slots[s]
      /\ f[p].state = "init" /\ f[p].output /\ f[p].buffer = NoFrame
      /\ f[p].structure = h.structure
  BY StoredFacts
<1> HIDE DEF f
<1>3. Remarked(f, g)
  <2>1. CASE h.idr
    <3> DEFINE a == MarkAllUnused(f)
    <3>1. Remarked(f, a)
      BY <1>2, MarkAllUnusedFacts
    <3>2. CASE h.longTerm
      <4>1. g = [a EXCEPT ![p] = [@ EXCEPT !.type = "long", !.idx = 0]]
        BY <2>1, <3>2 DEF Marked, IdrMarking, f
      <4> DEFINE b == a[p]
                 c == [b EXCEPT !.type = "long", !.idx = 0]
      <4>2. b \in Picture /\ a \in [Slot -> Picture]
        BY <3>1 DEF Remarked
      <4>3. g = [a EXCEPT ![p] = c]
        BY <4>1
      <4> HIDE DEF a, b
      <4>4. c \in Picture /\ c.state = b.state /\ Same(b, c)
        <5> DEFINE i == 0
        <5>1. i \in Int
          OBVIOUS
        <5> HIDE DEF i
        <5>2. LET d == [b EXCEPT !.type = "long", !.idx = i]
              IN  d.state = b.state /\ Same(b, d)
          BY <4>2, <5>1 DEF Same, Picture
        <5>3. QED
          BY <5>2 DEF i, Same
      <4>5. b.state # "unused"
        BY <1>2, <3>1 DEF Remarked, b
      <4> HIDE DEF c, g
      <4>6. Remarked(a, g)
        BY <4>2, <4>3, <4>4, <4>5 DEF Remarked, Same, b
      <4>7. QED
        BY <3>1, <4>6, RemarkedAgain
    <3>3. CASE ~h.longTerm
      BY <2>1, <3>1, <3>3 DEF Marked, IdrMarking, f
    <3>4. QED
      BY <3>2, <3>3
  <2>2. CASE ~h.idr
    <3>1. \A s \in Slot : f[s].state = "unused" => f[s].seq # sequence
      <4>1. sequence # 0
        BY <2>2, SequenceFacts
      <4>2. QED
        BY <1>2, <4>1 DEF SlotInv, Vacant
    <3>2. h.commands \in Seq(MemoryCommand) /\ f[p].state # "unused" /\ size \in 0 .. NumSlots
      BY <1>1, <1>2 DEF Header, TypeInv
    <3>3. Remarked(f, Adaptive(f, p, h.commands))
      BY <1>2, <3>1, <3>2, AdaptiveFacts
    <3>4. QED
      BY <2>2, <3>3 DEF Marked, f
  <2>3. QED
    BY <2>1, <2>2
<1> HIDE DEF g
<1>4. PICK z \in Picture : /\ Added(p, h) = [g EXCEPT ![p] = z]
                           /\ z.state = g[p].state /\ z.output = g[p].output
                           /\ z.buffer = g[p].buffer /\ z.structure = g[p].structure
                           /\ z.seq = SequenceAfter(h) /\ z.poc = h.poc
  <2> DEFINE b == g[p]
             z == [b EXCEPT !.poc = h.poc, !.seq = SequenceAfter(h)]
  <2>1. Added(p, h) = [g EXCEPT ![p] = z]
    BY DEF Added, g
  <2>2. b \in Picture
    BY <1>3 DEF Remarked
  <2>3. h.poc \in 0 .. (PocMod - 1) /\ SequenceAfter(h) \in 0 .. (SequenceMod - 1)
    BY <1>1, SequenceFacts, H264DpbAssumption DEF Header, H264DpbAssumption
  <2> HIDE DEF b
  <2>4. /\ z \in Picture /\ z.state = b.state /\ z.output = b.output /\ z.buffer = b.buffer
        /\ z.structure = b.structure /\ z.seq = SequenceAfter(h) /\ z.poc = h.poc
    BY <2>2, <2>3 DEF Picture
  <2> HIDE DEF z
  <2>5. QED
    BY <2>1, <2>4 DEF b
<1>5. QED
  BY <1>2, <1>3, <1>4 DEF Remarked, g
-----------------------------------------------------------------------------
\* The slots that are in use, and those that own a buffer.
LEMMA OwnerFacts ==
  ASSUME TypeInv, SlotInv
  PROVE  /\ InUse = {s \in Slot : slots[s].state # "unused"}
         /\ Owner = OwnerIn(slots) /\ Owned = OwnedIn(slots)
<1>1. size \in Nat /\ 1 .. size \subseteq Slot
  BY H264DpbAssumption DEF TypeInv, Slot, H264DpbAssumption
<1>2. InUse = {s \in Slot : slots[s].state # "unused"}
  BY <1>1 DEF InUse, InUseOf, SlotInv, Slot
<1>3. Owner = OwnerIn(slots)
  BY <1>2 DEF Owner, OwnerIn, SlotInv, Vacant
<1>4. QED
  BY <1>2, <1>3 DEF Owned, OwnedIn

\* The keys of the pictures are numbers.
LEMMA KeyFacts ==
  ASSUME NEW x \in Picture
  PROVE  KeyOf(x) \in Nat /\ (Vacant(x) => KeyOf(x) = 0)
<1>1. x.seq \in Nat /\ x.poc \in Nat /\ PocMod \in Nat
  BY H264DpbAssumption DEF Picture, H264DpbAssumption
<1>2. x.seq * PocMod \in Nat /\ 0 * PocMod = 0
  BY <1>1
<1>3. QED
  BY <1>1, <1>2 DEF KeyOf, Vacant

\* A complete flush ends only when the picture buffer is empty, any other only when
\* no ghost is left.
LEMMA FlushFacts ==
  ASSUME TypeInv, SlotInv
  PROVE  /\ Outputs(TRUE) = {} => \A s \in Slot : slots[s].state = "unused"
         /\ Outputs(FALSE) = {} => \A s \in Slot : ~Ghost(slots[s])
         /\ \A all \in BOOLEAN : \A s \in Outputs(all) : s \in Slot /\ slots[s].state # "unused"
<1> DEFINE Keys == {KeyOf(slots[s]) : s \in InUse}
<1>1. InUse = {s \in Slot : slots[s].state # "unused"}
  BY OwnerFacts
<1>2. \A s \in Slot : KeyOf(slots[s]) \in Nat
  BY KeyFacts DEF TypeInv
<1>3. ASSUME InUse # {}
      PROVE  Outputs(TRUE) # {}
  <2>1. Keys \subseteq Nat /\ Keys # {}
    BY <1>1, <1>2, <1>3
  <2>2. PICK k \in Keys : \A l \in Keys : k <= l
    BY <2>1, LeastExists
  <2>3. PICK s \in InUse : k = KeyOf(slots[s])
    BY <2>2
  <2>4. \A t \in InUse : KeyOf(slots[t]) >= KeyOf(slots[s])
    BY <1>1, <1>2, <2>2, <2>3
  <2>5. QED
    BY <2>3, <2>4 DEF Outputs
<1>4. ASSUME NEW s \in Slot, Ghost(slots[s])
      PROVE  Outputs(FALSE) # {}
  <2>1. s \in InUse /\ slots[s].state = "output_ready" /\ KeyOf(slots[s]) = 0
    BY <1>1, <1>4, KeyFacts DEF Ghost, TypeInv
  <2>2. \A t \in InUse : KeyOf(slots[t]) >= KeyOf(slots[s])
    BY <1>1, <1>2, <2>1
  <2>3. QED
    BY <2>1, <2>2 DEF Outputs
<1>5. QED
  BY <1>1, <1>3, <1>4 DEF Outputs

\* sliding_window_reference releases a reference, or nothing.
LEMMA SlidingFacts ==
  ASSUME NEW f \in [Slot -> Picture], size \in 0 .. NumSlots
  PROVE  /\ Remarked(f, SlidingWindow(f))
         /\ \A s \in Slot : f[s].type = "non" => SlidingWindow(f)[s] = f[s]
<1> DEFINE short == RefsOf(f, "short")
           first == {s \in short : \A t \in short : KeyOf(f[s]) <= KeyOf(f[t])}
           c     == CHOOSE s \in first : \A t \in first : s <= t
           Keys  == {KeyOf(f[s]) : s \in short}
<1>1. short \subseteq Nat /\ short \subseteq Slot
  BY H264DpbAssumption DEF RefsOf, InUseOf, Slot, H264DpbAssumption
<1>2. \A s \in short : KeyOf(f[s]) \in Nat
  BY <1>1, KeyFacts
<1>3. CASE Cardinality(short) > MaxRefs
  <2>1. short # {}
    BY <1>3, FS_EmptySet, H264DpbAssumption DEF H264DpbAssumption
  <2>2. Keys \subseteq Nat /\ Keys # {}
    BY <1>2, <2>1
  <2>3. PICK k \in Keys : \A l \in Keys : k <= l
    BY <2>2, LeastExists
  <2>4. PICK s \in short : k = KeyOf(f[s])
    BY <2>3
  <2>5. s \in first
    BY <2>3, <2>4
  <2>6. first \subseteq Nat /\ first # {}
    BY <1>1, <2>5
  <2> HIDE DEF first
  <2>7. \E m \in first : \A t \in first : m <= t
    BY <2>6, LeastExists
  <2>8. c \in first
    BY <2>7
  <2> HIDE DEF c
  <2>9. c \in short
    BY <2>8 DEF first
  <2>10. SlidingWindow(f) = Released(f, {c})
    BY <1>3 DEF SlidingWindow, c, first
  <2>11. f[c].state # "unused" /\ f[c].type = "short"
    BY <2>9 DEF RefsOf
  <2>12. Remarked(f, Released(f, {c}))
    BY <2>11, ReleasedFacts
  <2>13. QED
    BY <2>10, <2>11, <2>12 DEF Released
<1>4. CASE ~(Cardinality(short) > MaxRefs)
  <2>1. SlidingWindow(f) = f
    BY <1>4 DEF SlidingWindow
  <2>2. QED
    BY <2>1 DEF Remarked
<1>5. QED
  BY <1>3, <1>4

\* amlvdec_h264_dpb_pic_done marks the picture, or makes a ghost of an empty slot.
LEMMA PicDoneFacts ==
  ASSUME TypeInv, SlotInv, NEW p \in Slot, PicDone(p)
  PROVE  /\ slots' \in [Slot -> Picture]
         /\ \A s \in Slot : /\ slots'[s].buffer = slots[s].buffer /\ slots'[s].output = slots[s].output
                            /\ slots'[s].seq = slots[s].seq /\ slots'[s].poc = slots[s].poc
         /\ \A s \in Slot \ {p} : /\ slots[s].state = "unused" => slots'[s] = slots[s]
                                  /\ slots[s].state # "unused" => slots'[s].state # "unused"
         /\ slots'[p].state # "unused"
         /\ slots[p].state = "unused" => Ghost(slots'[p])
<1> DEFINE x == slots[p]
           a == IF x.type = "non" THEN "output_ready" ELSE "ref_in_use"
           y == [x EXCEPT !.state = a]
           f == [slots EXCEPT ![p] = y]
<1>1. x \in Picture /\ slots \in [Slot -> Picture] /\ (x.state = "unused" => Vacant(x))
  BY DEF TypeInv, SlotInv
<1>2. slots' = SlidingWindow(f)
  BY DEF PicDone
<1> HIDE DEF x
<1>3. a \in SlotState /\ a # "unused"
  BY DEF SlotState
<1> HIDE DEF a
<1>4. Same(x, y) /\ y.state = a /\ y.type = x.type
  BY <1>1, <1>3 DEF Same, Picture
<1> HIDE DEF y
<1>5. /\ f \in [Slot -> Picture] /\ f[p] = y /\ \A s \in Slot \ {p} : f[s] = slots[s]
  BY <1>1, <1>4 DEF Same
<1> HIDE DEF f
<1>6. size \in 0 .. NumSlots
  BY DEF TypeInv
<1>7. Remarked(f, slots') /\ \A s \in Slot : f[s].type = "non" => slots'[s] = f[s]
  BY <1>2, <1>5, <1>6, SlidingFacts
<1>8. slots[p].state = "unused" => Ghost(slots'[p])
  <2>1. SUFFICES ASSUME x.state = "unused"
                 PROVE  Ghost(slots'[p])
    BY DEF x
  <2>2. Vacant(x) /\ a = "output_ready"
    BY <1>1, <2>1 DEF a, Vacant
  <2>3. slots'[p] = y
    BY <1>4, <1>5, <1>7, <2>2 DEF Vacant
  <2>4. QED
    BY <1>4, <2>2, <2>3 DEF Ghost, Vacant, Same
<1>9. QED
  BY <1>3, <1>4, <1>5, <1>7, <1>8 DEF Remarked, Same, x

\* One iteration of amlvdec_h264_dpb_flush_output empties one slot, and gives the
\* buffer back if the picture owns it.
LEMMA OutputFacts ==
  ASSUME SafeInv, NEW s \in Slot, slots[s].state # "unused", OutputPicture(s),
         UNCHANGED <<rdy, srcBuf, dropped>>
  PROVE  /\ slots' \in [Slot -> Picture] /\ UNCHANGED <<size, sequence>>
         /\ \A t \in Slot \ {s} : slots'[t] = slots[t]
         /\ slots'[s].state = "unused" /\ Vacant(slots'[s])
         /\ ~Faults(s)
         /\ BufferInv'
<1> DEFINE x == slots[s]
           y == Recycled(x.structure)
<1>1. slots' = [slots EXCEPT ![s] = y] /\ UNCHANGED <<size, sequence>>
  BY DEF OutputPicture, RecyclePic
<1>2. slots \in [Slot -> Picture] /\ x \in Picture
  BY DEF SafeInv, TypeInv
<1>3. y \in Picture /\ y.state = "unused" /\ Vacant(y) /\ ~y.output
  <2>1. /\ 0 \in 0 .. (MaxFrameNum - 1) /\ 0 \in 0 .. (PocMod - 1) /\ 0 \in 0 .. (SequenceMod - 1)
        /\ NoIdx \in Int /\ x.structure \in Structure
    BY <1>2, H264DpbAssumption DEF H264DpbAssumption, NoIdx, Picture
  <2>2. QED
    BY <2>1 DEF Recycled, Picture, SlotState, Vacant
<1>4. x.output => x.buffer # NoBuf
  BY H264Assumption DEF SafeInv, SlotInv, Ghost, Vacant, H264Assumption
<1> HIDE DEF y
<1>5. /\ slots' \in [Slot -> Picture]
      /\ \A t \in Slot \ {s} : slots'[t] = slots[t]
      /\ slots'[s] = y
  BY <1>1, <1>2, <1>3
<1>6. CASE x.output
  <2>1. PICK state \in VbState \ {"active"} : vb' = [vb EXCEPT ![x.buffer] = state]
    <3> DEFINE done == IF x.state = "init" THEN "error" ELSE "done"
    <3>1. vb' = BufDone(vb, x.buffer, done)
      BY <1>6 DEF OutputPicture
    <3>2. done \in VbState \ {"active"}
      BY DEF VbState
    <3> HIDE DEF done, x
    <3>3. vb' = [vb EXCEPT ![x.buffer] = done]
      BY <1>4, <1>6, <3>1 DEF BufDone
    <3>4. QED
      BY <3>2, <3>3
  <2>2. x.buffer \in OwnedIn(slots)
    BY <1>6 DEF OwnedIn, OwnerIn
  <2>3. x.buffer \notin InTask
    BY <2>2, BufAssumption DEF BufAssumption, SafeInv, BufferInv, Balanced, InTask, TypeInv
  <2>4. OwnedIn(slots') = OwnedIn(slots) \ {x.buffer} /\ Distinct(slots')
    BY <1>3, <1>5, <1>6 DEF OwnedIn, OwnerIn, Distinct, SafeInv, BufferInv
  <2>5. Balanced([vb EXCEPT ![x.buffer] = state], rdy, InTask \ {x.buffer},
                 OwnedIn(slots) \ {x.buffer}, dropped)
    BY <2>2, BufAssumption, DoneKeepsBalance DEF SafeInv, BufferInv
  <2>6. InTask \ {x.buffer} = InTask /\ InTask' = InTask
    BY <2>3 DEF InTask
  <2>7. BufferInv'
    BY <2>1, <2>4, <2>5, <2>6 DEF BufferInv
  <2>8. QED
    BY <1>1, <1>3, <1>4, <1>5, <2>7 DEF Faults
<1>7. CASE ~x.output
  <2>1. vb' = vb
    BY <1>7 DEF OutputPicture
  <2>2. OwnedIn(slots') = OwnedIn(slots) /\ Distinct(slots') /\ InTask' = InTask
    BY <1>3, <1>5, <1>7 DEF OwnedIn, OwnerIn, Distinct, SafeInv, BufferInv, InTask
  <2>3. BufferInv'
    BY <2>1, <2>2 DEF SafeInv, BufferInv
  <2>4. QED
    BY <1>1, <1>3, <1>5, <1>7, <2>3 DEF Faults
<1>8. QED
  BY <1>6, <1>7

-----------------------------------------------------------------------------
(* The invariant, one operation after the other.                           *)

\* The slots of a picture buffer that has just been set up.
LEMMA EmptySlotFacts ==
  \A s \in Slot : Empty[s].state = "unused" /\ Vacant(Empty[s]) /\ Empty[s] \in Picture
<1> DEFINE x == Recycled("top")
           i == 0
           y == [x EXCEPT !.idx = i]
<1>1. 0 \in 0 .. (MaxFrameNum - 1) /\ 0 \in 0 .. (PocMod - 1) /\ 0 \in 0 .. (SequenceMod - 1)
      /\ NoIdx \in Int /\ "top" \in Structure
  BY H264DpbAssumption DEF H264DpbAssumption, NoIdx, Structure
<1>2. x \in Picture /\ x.state = "unused" /\ Vacant(x)
  BY <1>1 DEF Recycled, Picture, SlotState, Vacant
<1>3. \A s \in Slot : Empty[s] = y
  BY DEF Empty
<1>4. i \in Int
  OBVIOUS
<1> HIDE DEF x, i
<1>5. y \in Picture /\ y.state = "unused" /\ Vacant(y)
  BY <1>2, <1>4 DEF Picture, Vacant
<1> HIDE DEF y
<1>6. QED
  BY <1>3, <1>5

LEMMA InitInv == Init => IInv
<1> SUFFICES ASSUME Init
             PROVE  SafeInv
  BY DEF IInv
<1> USE DEF Init, M2mInit, DpbInit
<1>1. \A s \in Slot : slots[s].state = "unused" /\ Vacant(slots[s]) /\ slots[s] \in Picture
  BY EmptySlotFacts
<1>2. TypeInv
  BY <1>1, H264DpbAssumption DEF TypeInv, H264DpbAssumption, Empty, Reason
<1>3. JobInv /\ StreamInv /\ SlotInv /\ FieldInv
  BY <1>1 DEF JobInv, StreamInv, SlotInv, FieldInv, Queue, NoSlot
<1>4. BufferInv
  <2>1. << >> \in Seq(Buf) /\ << >> \in Seq(SrcBuf) /\ << >> \in Seq(DstBuf)
        /\ Range(<< >>) = {} /\ IsInjective(<< >>)
    BY EmptyFacts
  <2>2. QueuesOK(rdy) /\ Queued(rdy) = {} /\ ActiveIn(vb) = {}
    BY <2>1 DEF QueuesOK, QueuesTyped, Queued, ActiveIn, Queue, BufOf
  <2>3. OwnerIn(slots) = {}
    BY <1>1 DEF OwnerIn, Vacant
  <2>4. QED
    BY <2>2, <2>3 DEF BufferInv, Balanced, OwnedIn, Distinct, InTask, VbState
<1>5. QED
  BY <1>2, <1>3, <1>4 DEF SafeInv

\* A step that moves no buffer.
LEMMA BuffersKept ==
  ASSUME BufferInv, UNCHANGED <<vb, rdy, srcBuf, dropped, slots>>
  PROVE  BufferInv'
BY DEF BufferInv, InTask, OwnedIn, OwnerIn, Distinct

\* H264_CONFIG_REQUEST enlarges the picture buffer; the data interrupts only start
\* the hardware again.
LEMMA LoopSteps ==
  ASSUME SafeInv, ConfigRequest \/ IgnoreData
  PROVE  SafeInv'
<1>1. size' \in 0 .. NumSlots /\ size' >= size
  BY H264DpbAssumption, H264Assumption
     DEF SafeInv, TypeInv, ConfigRequest, IgnoreData, AdjustedSize, dpbVars, H264Assumption,
         H264DpbAssumption
<1>2. /\ pc = "wait" /\ pc' = "wait" /\ status' = "none" /\ command' \in {"search", command}
      /\ UNCHANGED <<m2mVars, slots, sequence, srcBuf, dpbPic, pendingField, reason, allocated,
                     headers>>
      /\ command' # "search" => size' = size
  BY DEF ConfigRequest, IgnoreData, Woken, DecoderLoop, history, dpbVars
<1>3. BufferInv'
  BY <1>2, BuffersKept DEF SafeInv, m2mVars
<1>4. TypeInv' /\ StreamInv' /\ FieldInv'
  BY <1>1, <1>2 DEF SafeInv, TypeInv, StreamInv, FieldInv, m2mVars
<1>5. JobInv'
  BY <1>1, <1>2 DEF SafeInv, JobInv, m2mVars, TypeInv
<1>6. SlotInv'
  <2>1. size \in Nat /\ size' \in Nat /\ Slot \subseteq Nat
    BY <1>1, H264DpbAssumption DEF SafeInv, TypeInv, Slot, H264DpbAssumption
  <2>2. \A s \in Slot : s <= size => s <= size'
    BY <1>1, <2>1
  <2>3. slots' = slots /\ pc = "wait"
    BY <1>2
  <2>4. \A s \in Slot : slots[s].state # "unused" => slots[s].buffer # NoFrame
    BY <2>3 DEF SafeInv, SlotInv
  <2>5. QED
    BY <2>2, <2>3, <2>4 DEF SafeInv, SlotInv
<1>7. QED
  BY <1>3, <1>4, <1>5, <1>6 DEF SafeInv

\* The hardware is told to decode only when every picture has a buffer.
LEMMA DecodeStep ==
  ASSUME SafeInv, DecodeNewPic
  PROVE  SafeInv'
<1>1. /\ pc = "flush" /\ reason = "header"
      /\ UNCHANGED <<m2mVars, dpbVars, srcBuf, dpbPic, pendingField, reason, allocated, headers>>
  BY DEF DecodeNewPic, history
<1>2. \A s \in InUse : slots[s].buffer # NoBuf
  <2>1. InUse = {s \in Slot : slots[s].state # "unused"}
    BY OwnerFacts DEF SafeInv
  <2>2. QED
    BY <1>1, <2>1, H264Assumption DEF SafeInv, SlotInv, H264Assumption
<1>3. DecoderLoop("newpic")
  BY <1>2 DEF DecodeNewPic
<1>4. BufferInv'
  BY <1>1, BuffersKept DEF SafeInv, m2mVars, dpbVars
<1>5. TypeInv' /\ StreamInv' /\ FieldInv' /\ SlotInv'
  BY <1>1, <1>3 DEF SafeInv, TypeInv, StreamInv, FieldInv, SlotInv, m2mVars, dpbVars, DecoderLoop
<1>6. JobInv'
  BY <1>1, <1>3 DEF SafeInv, JobInv, m2mVars, dpbVars, DecoderLoop
<1>7. QED
  BY <1>4, <1>5, <1>6 DEF SafeInv

\* The end of decoder_done leaves no ghost behind: it has the key 0, so the flush
\* outputs it first.
LEMMA FinishStep ==
  ASSUME SafeInv, FinishJob
  PROVE  SafeInv'
<1>1. /\ pc = "flush" /\ reason # "header" /\ job' = "none"
      /\ pc' = IF reason = "abort" THEN "eos" ELSE "idle"
      /\ dpbPic' \in {dpbPic, NoSlot}
      /\ UNCHANGED <<vb, rdy, stream, dropped, dpbVars, srcBuf, pendingField, reason, allocated,
                     headers, status, command>>
  BY DEF FinishJob, JobFinish, history, hwVars
<1>2. BufferInv'
  BY <1>1, BuffersKept DEF SafeInv, dpbVars
<1>3. TypeInv' /\ StreamInv' /\ FieldInv'
  BY <1>1 DEF SafeInv, TypeInv, StreamInv, FieldInv, dpbVars
<1>4. JobInv'
  BY <1>1 DEF SafeInv, JobInv
<1>5. ASSUME NEW s \in Slot, slots[s].state # "unused", slots[s].buffer = NoFrame
      PROVE  FALSE
  <2>1. Ghost(slots[s]) /\ reason = "done"
    BY <1>5 DEF SafeInv, SlotInv
  <2>2. Outputs(FALSE) = {}
    BY <2>1 DEF FinishJob, FlushAll
  <2>3. QED
    BY <2>1, <2>2, FlushFacts DEF SafeInv
<1>6. SlotInv'
  BY <1>1, <1>5 DEF SafeInv, SlotInv, dpbVars
<1>7. QED
  BY <1>2, <1>3, <1>4, <1>6 DEF SafeInv

\* The end-of-stream event; the interrupt; a context that is gone.
LEMMA ThreadSteps ==
  ASSUME SafeInv, QueueEos \/ UseAfterFree \/ Isr
  PROVE  SafeInv'
<1>1. ~UseAfterFree
  BY DEF SafeInv, JobInv, UseAfterFree
<1>2. /\ UNCHANGED <<m2mVars, dpbVars, srcBuf, dpbPic, pendingField, reason, allocated, headers,
                     command>>
      /\ \/ pc = "eos" /\ pc' = "idle" /\ status' = status
         \/ pc' = pc /\ (status' = "picture" => command = "newpic")
  BY <1>1 DEF QueueEos, Isr, history, hwVars, jobVars
<1>3. BufferInv'
  BY <1>2, BuffersKept DEF SafeInv, m2mVars, dpbVars
<1>4. TypeInv' /\ StreamInv' /\ FieldInv'
  BY <1>2 DEF SafeInv, TypeInv, StreamInv, FieldInv, dpbVars, m2mVars
<1>5. JobInv'
  BY <1>2 DEF SafeInv, JobInv, dpbVars, m2mVars
<1>6. SlotInv'
  BY <1>2 DEF SafeInv, SlotInv, dpbVars
<1>7. QED
  BY <1>3, <1>4, <1>5, <1>6 DEF SafeInv

\* STREAMOFF begins; formats and buffers are set up anew; DECODER_CMD START.
LEMMA ControlSteps ==
  ASSUME SafeInv, ~overrun',
         (\E q \in Queue : StreamOff(q)) \/ Reconfigure
         \/ (CmdStart /\ UNCHANGED <<dpbVars, jobVars, hwVars, allocated, history>>)
  PROVE  SafeInv'
<1>1. UNCHANGED <<vb, rdy, dropped, dpbVars, srcBuf, dpbPic, pendingField, reason, pc, allocated,
                  headers, command, status>>
  BY DEF StreamOff, Reconfigure, CmdStart, history, hwVars, jobVars
<1>2. BufferInv'
  BY <1>1, BuffersKept DEF SafeInv, dpbVars
<1>3. FieldInv' /\ SlotInv'
  BY <1>1 DEF SafeInv, FieldInv, SlotInv, dpbVars
<1>4. TypeInv' /\ JobInv' /\ StreamInv'
  <2>1. CASE \E q \in Queue : StreamOff(q)
    <3>1. PICK q \in Queue : StreamOff(q)
      BY <2>1
    <3>2. /\ stream[q] = "on" /\ stream' = [stream EXCEPT ![q] = "cancel"]
          /\ job' = IF hasStopped THEN "none" ELSE job
          /\ ~(job = "running" /\ hasStopped)
      BY <3>1 DEF StreamOff
    <3>3. TypeInv'
      BY <1>1, <3>2 DEF SafeInv, TypeInv, dpbVars
    <3>4. job' = "running" <=> job = "running"
      BY <3>2
    <3>5. JobInv'
      BY <1>1, <3>4 DEF SafeInv, JobInv, dpbVars
    <3>6. StreamInv'
      BY <1>1, <3>2, <3>4 DEF SafeInv, StreamInv, dpbVars, TypeInv
    <3>7. QED
      BY <3>3, <3>5, <3>6
  <2>2. CASE Reconfigure
    BY <1>1, <2>2 DEF SafeInv, TypeInv, JobInv, StreamInv, dpbVars, Reconfigure, Queue
  <2>3. CASE CmdStart
    BY <1>1, <2>3 DEF SafeInv, TypeInv, JobInv, StreamInv, dpbVars, CmdStart
  <2>4. QED
    BY <2>1, <2>2, <2>3
<1>5. QED
  BY <1>2, <1>3, <1>4 DEF SafeInv

\* A job takes its OUTPUT buffer.
LEMMA StartStep ==
  ASSUME SafeInv, DecoderStart
  PROVE  SafeInv'
<1>1. /\ pc = "idle" /\ pc' = "wait" /\ job' = "running" /\ rdy["src"] # << >>
      /\ srcBuf' = Head(rdy["src"]) /\ rdy' = [rdy EXCEPT !["src"] = Tail(@)]
      /\ command' = "search" /\ status' = "none"
      /\ stream["src"] = "on" /\ stream["dst"] = "on"
      /\ UNCHANGED <<vb, stream, dropped, dpbVars, dpbPic, pendingField, reason, allocated,
                     headers>>
  BY DEF DecoderStart, JobReady, Ready, Removed, AfterRemove, DecoderLoop, history
<1>2. srcBuf = NoBuf
  BY <1>1 DEF SafeInv, JobInv
<1>3. srcBuf' \in SrcBuf /\ Balanced(vb, rdy', {srcBuf'}, OwnedIn(slots), dropped)
  <2>1. Balanced(vb, rdy, {}, OwnedIn(slots), dropped)
    BY <1>2 DEF SafeInv, BufferInv, InTask
  <2>2. "src" \in Queue /\ BufOf("src") = SrcBuf
    BY DEF Queue, BufOf
  <2>3. srcBuf' \in SrcBuf /\ Balanced(vb, rdy', {} \cup {srcBuf'}, OwnedIn(slots), dropped)
    BY <1>1, <2>1, <2>2, BufAssumption, TakeKeepsBalance
  <2>4. {} \cup {srcBuf'} = {srcBuf'}
    OBVIOUS
  <2>5. QED
    BY <2>3, <2>4
<1>4. srcBuf' # NoBuf
  BY <1>3, BufAssumption DEF BufAssumption
<1>5. BufferInv'
  <2>1. InTask' = {srcBuf'}
    BY <1>4 DEF InTask
  <2>2. OwnedIn(slots)' = OwnedIn(slots) /\ Distinct(slots)' = Distinct(slots)
    BY <1>1 DEF dpbVars, OwnedIn, OwnerIn, Distinct
  <2>3. QED
    BY <1>1, <1>3, <2>1, <2>2 DEF BufferInv, SafeInv
<1>6. TypeInv' /\ FieldInv' /\ SlotInv'
  BY <1>1, <1>3 DEF SafeInv, TypeInv, FieldInv, SlotInv, dpbVars
<1>7. StreamInv' /\ JobInv'
  BY <1>1, <1>4 DEF SafeInv, StreamInv, JobInv, dpbVars, Queue
<1>8. QED
  BY <1>5, <1>6, <1>7 DEF SafeInv

\* The OUTPUT buffer of the job goes back.
LEMMA SourceDone ==
  ASSUME SafeInv, pc = "wait", NEW state \in VbState \ {"active"},
         vb' = BufDone(vb, srcBuf, state), srcBuf' = NoBuf, UNCHANGED <<rdy, dropped>>
  PROVE  Balanced(vb', rdy', InTask', OwnedIn(slots), dropped')
<1>1. srcBuf \in SrcBuf /\ srcBuf # NoBuf
  BY DEF SafeInv, JobInv, TypeInv
<1>2. vb' = [vb EXCEPT ![srcBuf] = state]
  BY <1>1 DEF BufDone
<1>3. InTask = {srcBuf} /\ InTask' = {}
  BY <1>1 DEF InTask
<1>4. Balanced([vb EXCEPT ![srcBuf] = state], rdy, InTask \ {srcBuf},
               OwnedIn(slots) \ {srcBuf}, dropped)
  <2>1. srcBuf \in InTask \cup OwnedIn(slots)
    BY <1>3
  <2>2. QED
    BY <2>1, BufAssumption, DoneKeepsBalance DEF SafeInv, BufferInv
<1>5. OwnedIn(slots) \ {srcBuf} = OwnedIn(slots) /\ InTask \ {srcBuf} = {}
  BY <1>1, <1>3, BufAssumption DEF SafeInv, BufferInv, Balanced, BufAssumption
<1>6. QED
  BY <1>2, <1>3, <1>4, <1>5

\* decoder_abort up to its flush, which leaves the picture buffer alone unless a
\* header was being added.
LEMMA AbortSteps ==
  ASSUME SafeInv, Timeout \/ DecodeError \/ PictureBufferFull
  PROVE  SafeInv'
<1>1. /\ pc = "wait" /\ pc' = "flush" /\ reason' = "abort"
      /\ vb' = BufDone(vb, srcBuf, "error") /\ srcBuf' = NoBuf
      /\ dpbPic' \in {dpbPic, NoSlot}
      /\ UNCHANGED <<rdy, stream, job, dropped, dpbVars, pendingField, allocated, headers,
                     command, status>>
  BY DEF Timeout, DecodeError, PictureBufferFull, Woken, Abort
<1>2. BufferInv'
  <2>1. "error" \in VbState \ {"active"}
    BY DEF VbState
  <2>2. Balanced(vb', rdy', InTask', OwnedIn(slots), dropped')
    BY <1>1, <2>1, SourceDone
  <2>3. OwnedIn(slots)' = OwnedIn(slots) /\ Distinct(slots)' = Distinct(slots)
    BY <1>1 DEF dpbVars, OwnedIn, OwnerIn, Distinct
  <2>4. QED
    BY <2>2, <2>3 DEF BufferInv, SafeInv
<1>3. TypeInv' /\ FieldInv' /\ SlotInv'
  BY <1>1 DEF SafeInv, TypeInv, FieldInv, SlotInv, dpbVars, Reason
<1>4. StreamInv' /\ JobInv'
  BY <1>1 DEF SafeInv, StreamInv, JobInv, dpbVars
<1>5. QED
  BY <1>2, <1>3, <1>4 DEF SafeInv

\* decoder_done marks the picture, or an empty slot if the picture was given back.
LEMMA DoneStep ==
  ASSUME SafeInv, DecoderDone
  PROVE  SafeInv'
<1>1. /\ pc = "wait" /\ pc' = "flush" /\ reason' = "done"
      /\ vb' = BufDone(vb, srcBuf, "done") /\ srcBuf' = NoBuf
      /\ PicDone(dpbPic)
      /\ UNCHANGED <<rdy, stream, job, dropped, dpbPic, pendingField, allocated, headers,
                     command, status, size, sequence>>
  BY DEF DecoderDone, Woken, PicDone, history
<1>2. dpbPic \in 1 .. size /\ dpbPic \in Slot /\ size \in 0 .. NumSlots
  BY H264DpbAssumption DEF DecoderDone, Woken, SafeInv, JobInv, TypeInv, Slot, NoSlot,
                           H264DpbAssumption
<1> DEFINE p == dpbPic
<1>3. /\ slots' \in [Slot -> Picture]
      /\ \A s \in Slot : /\ slots'[s].buffer = slots[s].buffer /\ slots'[s].output = slots[s].output
                         /\ slots'[s].seq = slots[s].seq
      /\ \A s \in Slot \ {p} : /\ slots[s].state = "unused" => slots'[s] = slots[s]
                               /\ slots[s].state # "unused" => slots'[s].state # "unused"
      /\ slots'[p].state # "unused"
      /\ slots[p].state = "unused" => Ghost(slots'[p])
  BY <1>1, <1>2, PicDoneFacts DEF SafeInv
<1>4. \A s \in Slot : slots[s].state # "unused" => slots[s].buffer # NoFrame /\ s <= size
  BY <1>1 DEF SafeInv, SlotInv
<1>5. SlotInv'
  <2>1. ASSUME NEW s \in Slot
        PROVE  /\ slots'[s].state = "unused" => Vacant(slots'[s])
               /\ slots'[s].state # "unused" => s <= size
               /\ slots'[s].state # "unused" /\ slots'[s].buffer = NoFrame => Ghost(slots'[s])
    <3>1. CASE s = p
      BY <1>2, <1>3, <1>4, <3>1
    <3>2. CASE s # p /\ slots[s].state = "unused"
      BY <1>3, <3>2 DEF SafeInv, SlotInv
    <3>3. CASE s # p /\ slots[s].state # "unused"
      BY <1>3, <1>4, <3>3
    <3>4. QED
      BY <3>1, <3>2, <3>3
  <2>2. QED
    BY <1>1, <2>1 DEF SlotInv
<1>6. BufferInv'
  <2>1. "done" \in VbState \ {"active"}
    BY DEF VbState
  <2>2. Balanced(vb', rdy', InTask', OwnedIn(slots), dropped')
    BY <1>1, <2>1, SourceDone
  <2>3. OwnerIn(slots') = OwnerIn(slots)
    BY <1>3 DEF OwnerIn
  <2>4. OwnedIn(slots') = OwnedIn(slots) /\ Distinct(slots')
    BY <1>3, <2>3 DEF OwnedIn, OwnerIn, Distinct, SafeInv, BufferInv
  <2>5. QED
    BY <2>2, <2>4 DEF BufferInv
<1>7. FieldInv'
  <2>1. SUFFICES ASSUME pendingField # NoSlot, slots'[pendingField].seq # 0
                 PROVE  /\ slots'[pendingField].state # "unused" /\ slots'[pendingField].output
                        /\ slots'[pendingField].buffer # NoFrame
    BY <1>1 DEF FieldInv
  <2>2. pendingField \in Slot
    BY <2>1 DEF SafeInv, TypeInv
  <2>3. QED
    BY <1>3, <2>1, <2>2 DEF SafeInv, FieldInv
<1>8. TypeInv'
  BY <1>1, <1>3 DEF SafeInv, TypeInv, Reason
<1>9. StreamInv' /\ JobInv'
  <2>1. stream["dst"] \notin {"idle", "off"}
    BY <1>1 DEF SafeInv, StreamInv, JobInv, Queue
  <2>2. QED
    BY <1>1, <2>1 DEF SafeInv, StreamInv, JobInv
<1>10. QED
  BY <1>5, <1>6, <1>7, <1>8, <1>9 DEF SafeInv

\* One iteration of a flush, of the job's or of decoder_h264_stop's.
LEMMA FlushSteps ==
  ASSUME SafeInv, FlushStep \/ StopFlushStep
  PROVE  SafeInv'
<1>1. PICK s \in Outputs(TRUE) \cup Outputs(FALSE) :
        OutputPicture(s) /\ pc' = IF Faults(s) THEN "oops" ELSE pc
  <2>1. FlushAll \in BOOLEAN
    BY DEF FlushAll
  <2>2. QED
    BY <2>1 DEF FlushStep, StopFlushStep
<1>2. s \in Slot /\ slots[s].state # "unused"
  BY <1>1, FlushFacts DEF SafeInv
<1>3. UNCHANGED <<rdy, stream, job, dropped, srcBuf, dpbPic, pendingField, reason, allocated,
                  headers, command, status>>
  BY DEF FlushStep, StopFlushStep, hwVars, history
<1>4. /\ slots' \in [Slot -> Picture] /\ UNCHANGED <<size, sequence>>
      /\ \A t \in Slot \ {s} : slots'[t] = slots[t]
      /\ slots'[s].state = "unused" /\ Vacant(slots'[s])
      /\ ~Faults(s)
      /\ BufferInv'
  BY <1>1, <1>2, <1>3, OutputFacts
<1>5. pc' = pc
  BY <1>1, <1>4
<1>6. SlotInv'
  BY <1>3, <1>4, <1>5 DEF SafeInv, SlotInv
<1>7. FieldInv'
  BY <1>3, <1>4 DEF SafeInv, FieldInv, Vacant, TypeInv
<1>8. TypeInv' /\ StreamInv' /\ JobInv'
  BY <1>3, <1>4, <1>5 DEF SafeInv, TypeInv, StreamInv, JobInv
<1>9. QED
  BY <1>4, <1>6, <1>7, <1>8 DEF SafeInv

\* The slot of a new picture is filled, and the other slots in use stay in use.
LEMMA HeaderFacts ==
  ASSUME SafeInv, pc = "wait", Free # {}, NEW h \in Coming
  PROVE  LET p == FirstFree
             g == Added(p, h)
         IN  /\ p \in 1 .. size /\ p \in Slot /\ ~slots[p].output
             /\ SequenceAfter(h) \in 1 .. (SequenceMod - 1)
             /\ g \in [Slot -> Picture]
             /\ \A s \in Slot \ {p} :
                  /\ g[s].buffer = slots[s].buffer /\ g[s].output = slots[s].output
                  /\ g[s].seq = slots[s].seq
                  /\ g[s].state = "unused" => Vacant(g[s])
                  /\ slots[s].state # "unused" => g[s].state # "unused"
                  /\ g[s].state # "unused" => s <= size /\ g[s].buffer # NoFrame
             /\ g[p].state # "unused" /\ g[p].output /\ g[p].structure = h.structure
<1> DEFINE p == FirstFree
           g == Added(p, h)
<1>1. p \in Free /\ p \in Slot /\ slots[p].state = "unused"
  BY FirstFreeFacts DEF SafeInv
<1>2. p \in 1 .. size /\ ~slots[p].output
  BY <1>1 DEF Free, SafeInv, SlotInv, Vacant
<1> HIDE DEF p
<1>3. /\ g \in [Slot -> Picture]
      /\ \A s \in Slot \ {p} :
           /\ g[s].buffer = slots[s].buffer /\ g[s].output = slots[s].output
           /\ g[s].seq = slots[s].seq
           /\ slots[s].state = "unused" => g[s] = slots[s]
           /\ slots[s].state # "unused" => g[s].state # "unused"
      /\ g[p].state # "unused" /\ g[p].output /\ g[p].structure = h.structure
  BY <1>1, AddedFacts DEF SafeInv
<1> HIDE DEF g
<1>4. ASSUME NEW s \in Slot \ {p}
      PROVE  /\ g[s].state = "unused" => Vacant(g[s])
             /\ g[s].state # "unused" => s <= size /\ g[s].buffer # NoFrame
  <2>1. CASE slots[s].state = "unused"
    BY <1>3, <1>4, <2>1 DEF SafeInv, SlotInv
  <2>2. CASE slots[s].state # "unused"
    BY <1>3, <1>4, <2>2 DEF SafeInv, SlotInv
  <2>3. QED
    BY <2>1, <2>2
<1>5. SequenceAfter(h) \in 1 .. (SequenceMod - 1)
  BY SequenceFacts DEF SafeInv
<1>6. QED
  BY <1>1, <1>2, <1>3, <1>4, <1>5 DEF p, g

\* What every header step does to the thread.
LEMMA HeaderThread ==
  ASSUME SafeInv, HeaderDone, slots'[FirstFree].buffer # NoBuf, FirstFree \in 1 .. size,
         FirstFree \in Slot, size' = size
  PROVE  JobInv' /\ StreamInv'
<1>1. /\ pc = "wait" /\ pc' = "flush" /\ reason' = "header" /\ dpbPic' = FirstFree
      /\ UNCHANGED <<stream, job, srcBuf, command, allocated>>
  BY DEF HeaderDone, Woken, hwVars
<1>2. JobInv'
  BY <1>1 DEF SafeInv, JobInv
<1>3. StreamInv'
  BY <1>1 DEF SafeInv, JobInv, StreamInv, Queue
<1>4. QED
  BY <1>2, <1>3

\* A second field joins a picture that owns its buffer, and takes the buffer over.
LEMMA SecondFieldStep ==
  ASSUME SafeInv, HeaderDone, NEW h \in Coming, SecondField(FirstFree, h)
  PROVE  SafeInv'
<1> DEFINE p == FirstFree
           g == Added(p, h)
           f == pendingField
<1>1. /\ pc = "wait" /\ Free # {} /\ reason' = "header" /\ dpbPic' = p
      /\ UNCHANGED <<stream, dropped, srcBuf, command, status, headers, vb, rdy, size>>
      /\ pendingField' = NoSlot /\ sequence' = SequenceAfter(h)
      /\ pc' = IF slots'[p].buffer = NoBuf THEN "oops" ELSE "flush"
  BY DEF HeaderDone, Woken, hwVars, history, SecondField, NewPic
<1>2. /\ slots' = [g EXCEPT ![p] = [@ EXCEPT !.buffer = g[f].buffer],
                            ![f] = [@ EXCEPT !.output = FALSE]]
      /\ Matches(g, SequenceAfter(h), f, h)
  BY DEF SecondField, IsSecondField
<1>3. /\ p \in 1 .. size /\ p \in Slot /\ ~slots[p].output
      /\ SequenceAfter(h) \in 1 .. (SequenceMod - 1)
      /\ g \in [Slot -> Picture]
      /\ \A s \in Slot \ {p} :
           /\ g[s].buffer = slots[s].buffer /\ g[s].output = slots[s].output
           /\ g[s].seq = slots[s].seq
           /\ g[s].state = "unused" => Vacant(g[s])
           /\ slots[s].state # "unused" => g[s].state # "unused"
           /\ g[s].state # "unused" => s <= size /\ g[s].buffer # NoFrame
      /\ g[p].state # "unused" /\ g[p].output /\ g[p].structure = h.structure
  BY <1>1, HeaderFacts
<1> HIDE DEF p, g
<1>4. f \in Slot /\ f # p
  <2>1. f # NoSlot /\ {g[f].structure, h.structure} = {"top", "bottom"}
    BY <1>2 DEF Matches
  <2>2. f \in Slot
    BY <2>1 DEF SafeInv, TypeInv
  <2>3. g[f].structure # h.structure
    BY <2>1
  <2>4. QED
    BY <1>3, <2>2, <2>3
<1>5. /\ slots[f].state # "unused" /\ slots[f].output /\ slots[f].buffer # NoFrame
      /\ slots[f].buffer \in Frame
  <2>1. g[f].seq # 0
    BY <1>2, <1>3 DEF Matches
  <2>2. slots[f].state # "unused" /\ slots[f].output /\ slots[f].buffer # NoFrame
    BY <1>3, <1>4, <2>1 DEF SafeInv, FieldInv, NoSlot, Slot
  <2>3. slots[f] \in Picture
    BY <1>4 DEF SafeInv, TypeInv
  <2>4. QED
    BY <2>2, <2>3 DEF Picture
<1> DEFINE b == slots[f].buffer
           x == g[p]
           y == g[f]
<1>6. PICK u \in Picture, v \in Picture :
        /\ slots' = [[g EXCEPT ![p] = u] EXCEPT ![f] = v]
        /\ u.state # "unused" /\ u.output /\ u.buffer = b
        /\ v.state # "unused" /\ ~v.output /\ v.buffer = b
  <2> DEFINE u == [x EXCEPT !.buffer = b]
             v == [y EXCEPT !.output = FALSE]
  <2>1. slots' = [[g EXCEPT ![p] = u] EXCEPT ![f] = v]
    BY <1>2, <1>3, <1>4
  <2>2. /\ x \in Picture /\ y \in Picture /\ b \in Frame /\ x.state # "unused" /\ x.output
        /\ y.state # "unused" /\ y.buffer = b
    BY <1>3, <1>4, <1>5
  <2> HIDE DEF x, y, b
  <2>3. u \in Picture /\ u.state # "unused" /\ u.output /\ u.buffer = b
    BY <2>2 DEF Picture
  <2> DEFINE no == FALSE
  <2>4. no \in BOOLEAN /\ ~no
    OBVIOUS
  <2> HIDE DEF no
  <2>5. LET w == [y EXCEPT !.output = no]
        IN  w \in Picture /\ w.state # "unused" /\ ~w.output /\ w.buffer = b
    BY <2>2, <2>4 DEF Picture
  <2>6. v \in Picture /\ v.state # "unused" /\ ~v.output /\ v.buffer = b
    BY <2>5 DEF no
  <2> HIDE DEF u, v
  <2>7. QED
    BY <2>1, <2>3, <2>6
<1>7. /\ slots' \in [Slot -> Picture] /\ slots'[p] = u /\ slots'[f] = v
      /\ \A s \in Slot \ {p, f} : slots'[s] = g[s]
  BY <1>3, <1>4, <1>6
<1>8. BufferInv'
  <2>1. OwnerIn(slots') = (OwnerIn(slots) \ {f}) \cup {p} /\ f \in OwnerIn(slots)
        /\ p \notin OwnerIn(slots)
    <3>1. \A s \in Slot \ {p, f} : slots'[s].output = slots[s].output
      BY <1>3, <1>7
    <3>2. slots'[p].output /\ ~slots'[f].output /\ slots[f].output /\ ~slots[p].output
      BY <1>3, <1>5, <1>6, <1>7
    <3> HIDE DEF f
    <3>3. QED
      BY <1>3, <1>4, <3>1, <3>2 DEF OwnerIn
  <2>2. \A s \in OwnerIn(slots) \ {f} : slots'[s].buffer = slots[s].buffer
    BY <1>3, <1>7, <2>1 DEF OwnerIn
  <2>3. slots'[p].buffer = slots[f].buffer
    BY <1>6, <1>7
  <2>4. OwnedIn(slots') = OwnedIn(slots)
    BY <2>1, <2>2, <2>3 DEF OwnedIn
  <2>5. Distinct(slots')
    BY <2>1, <2>2, <2>3 DEF Distinct, SafeInv, BufferInv
  <2>6. QED
    BY <1>1, <2>4, <2>5 DEF BufferInv, SafeInv, InTask
<1>9. pc' = "flush" /\ slots'[p].buffer # NoBuf
  BY <1>1, <1>5, <1>6, <1>7, H264Assumption DEF H264Assumption
<1>10. SlotInv'
  <2>1. ASSUME NEW s \in Slot
        PROVE  /\ slots'[s].state = "unused" => Vacant(slots'[s])
               /\ slots'[s].state # "unused" => s <= size /\ slots'[s].buffer # NoFrame
    <3>1. CASE s = p
      BY <1>3, <1>5, <1>6, <1>7, <3>1
    <3>2. CASE s = f
      BY <1>3, <1>4, <1>5, <1>6, <1>7, <3>2
    <3>3. CASE s \notin {p, f}
      BY <1>3, <1>7, <3>3
    <3>4. QED
      BY <3>1, <3>2, <3>3
  <2>2. QED
    BY <1>1, <2>1 DEF SlotInv
<1>11. TypeInv'
  <2>1. SequenceAfter(h) \in 0 .. (SequenceMod - 1)
    BY <1>3, H264DpbAssumption DEF H264DpbAssumption
  <2>2. QED
    BY <1>1, <1>3, <1>7, <2>1 DEF SafeInv, TypeInv, Reason
<1>12. FieldInv'
  BY <1>1 DEF FieldInv
<1>13. JobInv' /\ StreamInv'
  BY <1>1, <1>3, <1>9, HeaderThread DEF p
<1>14. QED
  BY <1>8, <1>10, <1>11, <1>12, <1>13 DEF SafeInv

\* Every other picture takes a CAPTURE buffer, which it owns.
LEMMA FirstFieldStep ==
  ASSUME SafeInv, HeaderDone, NEW h \in Coming, Ready("dst"), FirstField(FirstFree, h)
  PROVE  SafeInv'
<1> DEFINE p == FirstFree
           g == Added(p, h)
           b == Head(rdy["dst"])
<1>1. /\ pc = "wait" /\ Free # {} /\ reason' = "header" /\ dpbPic' = p
      /\ UNCHANGED <<stream, dropped, srcBuf, command, status, headers, vb, size>>
      /\ pendingField' \in {NoSlot, p} /\ sequence' = SequenceAfter(h)
      /\ pc' = IF slots'[p].buffer = NoBuf THEN "oops" ELSE "flush"
      /\ rdy["dst"] # << >> /\ rdy' = [rdy EXCEPT !["dst"] = Tail(@)]
  BY DEF HeaderDone, Woken, hwVars, history, FirstField, NewPic, AfterRemove, Ready
<1>2. slots' = [g EXCEPT ![p] = [@ EXCEPT !.buffer = b]]
  BY DEF FirstField, Removed
<1>3. /\ p \in 1 .. size /\ p \in Slot /\ ~slots[p].output
      /\ SequenceAfter(h) \in 1 .. (SequenceMod - 1)
      /\ g \in [Slot -> Picture]
      /\ \A s \in Slot \ {p} :
           /\ g[s].buffer = slots[s].buffer /\ g[s].output = slots[s].output
           /\ g[s].seq = slots[s].seq
           /\ g[s].state = "unused" => Vacant(g[s])
           /\ slots[s].state # "unused" => g[s].state # "unused"
           /\ g[s].state # "unused" => s <= size /\ g[s].buffer # NoFrame
      /\ g[p].state # "unused" /\ g[p].output /\ g[p].structure = h.structure
  BY <1>1, HeaderFacts
<1> HIDE DEF p, g
<1>4. /\ b \in DstBuf /\ b \notin OwnedIn(slots)
      /\ Balanced(vb, rdy', InTask, OwnedIn(slots) \cup {b}, dropped)
  <2>1. "dst" \in Queue /\ BufOf("dst") = DstBuf
    BY DEF Queue, BufOf
  <2>2. QED
    BY <1>1, <2>1, BufAssumption, TakeKeepsBalance DEF SafeInv, BufferInv
<1>5. b \in Frame /\ b # NoFrame /\ b # NoBuf
  BY <1>4, H264Assumption, BufAssumption DEF H264Assumption, BufAssumption
<1> DEFINE x == g[p]
<1>6. PICK u \in Picture : /\ slots' = [g EXCEPT ![p] = u]
                           /\ u.state # "unused" /\ u.output /\ u.buffer = b
  <2> DEFINE u == [x EXCEPT !.buffer = b]
  <2>1. slots' = [g EXCEPT ![p] = u]
    BY <1>2
  <2>2. x \in Picture /\ x.state # "unused" /\ x.output
    BY <1>3
  <2> HIDE DEF x, b
  <2>3. u \in Picture /\ u.state # "unused" /\ u.output /\ u.buffer = b
    BY <1>5, <2>2 DEF Picture
  <2> HIDE DEF u
  <2>4. QED
    BY <2>1, <2>3
<1> HIDE DEF b
<1>7. /\ slots' \in [Slot -> Picture] /\ slots'[p] = u
      /\ \A s \in Slot \ {p} : slots'[s] = g[s]
  BY <1>3, <1>6
<1>8. BufferInv'
  <2>1. OwnerIn(slots') = OwnerIn(slots) \cup {p} /\ p \notin OwnerIn(slots)
    BY <1>3, <1>6, <1>7 DEF OwnerIn
  <2>2. \A s \in OwnerIn(slots) : slots'[s].buffer = slots[s].buffer
    BY <1>3, <1>7, <2>1 DEF OwnerIn
  <2>3. slots'[p].buffer = b
    BY <1>6, <1>7
  <2>4. OwnedIn(slots') = OwnedIn(slots) \cup {b}
    BY <2>1, <2>2, <2>3 DEF OwnedIn
  <2>5. \A s \in OwnerIn(slots) : slots[s].buffer # b
    BY <1>4 DEF OwnedIn
  <2>6. Distinct(slots')
    BY <2>1, <2>2, <2>3, <2>5 DEF Distinct, SafeInv, BufferInv
  <2>7. InTask' = InTask
    BY <1>1 DEF InTask
  <2>8. QED
    BY <1>1, <1>4, <2>4, <2>6, <2>7 DEF BufferInv
<1>9. pc' = "flush" /\ slots'[p].buffer # NoBuf
  BY <1>1, <1>5, <1>6, <1>7
<1>10. SlotInv'
  <2>1. ASSUME NEW s \in Slot
        PROVE  /\ slots'[s].state = "unused" => Vacant(slots'[s])
               /\ slots'[s].state # "unused" => s <= size /\ slots'[s].buffer # NoFrame
    <3>1. CASE s = p
      BY <1>3, <1>5, <1>6, <1>7, <3>1
    <3>2. CASE s # p
      BY <1>3, <1>7, <3>2
    <3>3. QED
      BY <3>1, <3>2
  <2>2. QED
    BY <1>1, <2>1 DEF SlotInv
<1>11. TypeInv'
  <2>1. SequenceAfter(h) \in 0 .. (SequenceMod - 1)
    BY <1>3, H264DpbAssumption DEF H264DpbAssumption
  <2>2. QED
    BY <1>1, <1>3, <1>7, <2>1 DEF SafeInv, TypeInv, Reason
<1>12. FieldInv'
  BY <1>1, <1>5, <1>6, <1>7 DEF FieldInv
<1>13. JobInv' /\ StreamInv'
  BY <1>1, <1>3, <1>9, HeaderThread DEF p
<1>14. QED
  BY <1>8, <1>10, <1>11, <1>12, <1>13 DEF SafeInv

\* vdec_h264_header_done up to its flush; one without a CAPTURE buffer starves.
LEMMA HeaderSteps ==
  ASSUME SafeInv, ~starved', HeaderDone \/ NoDestination
  PROVE  SafeInv'
<1>1. HeaderDone
  BY DEF NoDestination
<1>2. PICK h \in Coming : \/ SecondField(FirstFree, h)
                          \/ Ready("dst") /\ FirstField(FirstFree, h)
  BY <1>1 DEF HeaderDone
<1>3. QED
  BY <1>1, <1>2, SecondFieldStep, FirstFieldStep

\* QBUF queues a buffer, or drops it.
LEMMA QBufStep ==
  ASSUME SafeInv, NEW b \in Buf, UserQBuf(b)
  PROVE  SafeInv'
<1>1. UNCHANGED <<dpbVars, srcBuf, dpbPic, pendingField, reason, pc, job, stream, allocated,
                  headers, command, status>>
  BY DEF UserQBuf, QBuf, jobVars, hwVars, history
<1>2. BufferInv'
  <2>1. /\ vb' = [vb EXCEPT ![b] = "active"] /\ vb[b] # "active"
        /\ \/ dropped' = dropped \cup {b} /\ rdy' = rdy
           \/ rdy' = [rdy EXCEPT ![QueueOf(b)] = Append(@, b)] /\ dropped' = dropped
    BY DEF UserQBuf, QBuf
  <2>2. Balanced(vb, rdy, InTask, OwnedIn(slots), dropped)
    BY DEF SafeInv, BufferInv
  <2>3. /\ Balanced([vb EXCEPT ![b] = "active"], [rdy EXCEPT ![QueueOf(b)] = Append(@, b)],
                    InTask, OwnedIn(slots), dropped)
        /\ Balanced([vb EXCEPT ![b] = "active"], rdy, InTask, OwnedIn(slots), dropped \cup {b})
    BY <2>1, <2>2, BufAssumption, QueueKeepsBalance
  <2>4. InTask' = InTask /\ slots' = slots
    BY <1>1 DEF InTask, dpbVars
  <2>5. QED
    BY <2>1, <2>3, <2>4 DEF BufferInv, SafeInv
<1>3. TypeInv' /\ JobInv' /\ StreamInv' /\ SlotInv' /\ FieldInv'
  BY <1>1 DEF SafeInv, TypeInv, JobInv, StreamInv, SlotInv, FieldInv, dpbVars
<1>4. QED
  BY <1>2, <1>3 DEF SafeInv

\* DECODER_CMD STOP gives a CAPTURE buffer back if no OUTPUT buffer waits.
LEMMA CmdStopStep ==
  ASSUME SafeInv, CmdStop, UNCHANGED <<dpbVars, jobVars, hwVars, allocated, history>>
  PROVE  SafeInv'
<1>1. UNCHANGED <<dpbVars, srcBuf, dpbPic, pendingField, reason, pc, job, stream, allocated,
                  headers, command, status, dropped>>
  BY DEF CmdStop, jobVars, hwVars, history
<1>2. BufferInv'
  <2>1. CASE UNCHANGED <<vb, rdy>>
    BY <1>1, <2>1, BuffersKept DEF SafeInv, dpbVars
  <2>2. CASE ~UNCHANGED <<vb, rdy>>
    <3>1. rdy["dst"] # << >> /\ vb' = BufDone(vb, Head(rdy["dst"]), "done")
          /\ rdy' = [rdy EXCEPT !["dst"] = Tail(@)]
      BY <2>2 DEF CmdStop, Removed, AfterRemove, Ready, BufDone
    <3>2. "dst" \in Queue /\ BufOf("dst") = DstBuf /\ "done" \in VbState \ {"active"}
      BY DEF Queue, BufOf, VbState
    <3>3. /\ Head(rdy["dst"]) \in DstBuf
          /\ \A state \in VbState \ {"active"} :
               Balanced([vb EXCEPT ![Head(rdy["dst"])] = state], [rdy EXCEPT !["dst"] = Tail(@)],
                        InTask, OwnedIn(slots), dropped)
      BY <3>1, <3>2, BufAssumption, TakeKeepsBalance DEF SafeInv, BufferInv
    <3>4. vb' = [vb EXCEPT ![Head(rdy["dst"])] = "done"]
      BY <3>1, <3>3, BufAssumption DEF BufAssumption, BufDone
    <3>5. InTask' = InTask /\ slots' = slots /\ dropped' = dropped
      BY <1>1 DEF InTask, dpbVars
    <3>6. QED
      BY <3>1, <3>2, <3>3, <3>4, <3>5 DEF BufferInv, SafeInv
  <2>3. QED
    BY <2>1, <2>2
<1>3. TypeInv' /\ JobInv' /\ StreamInv' /\ SlotInv' /\ FieldInv'
  BY <1>1 DEF SafeInv, TypeInv, JobInv, StreamInv, SlotInv, FieldInv, dpbVars
<1>4. QED
  BY <1>2, <1>3 DEF SafeInv

\* Preparing the codec loses no picture: the CAPTURE queue was off.
LEMMA StreamOnStep ==
  ASSUME SafeInv, NEW q \in Queue, StreamOn(q)
  PROVE  SafeInv'
<1>1. /\ stream[q] = "idle" /\ stream' = [stream EXCEPT ![q] = "on"] /\ allocated' = TRUE
      /\ \A r \in Queue : stream[r] # "cancel"
      /\ UNCHANGED <<vb, rdy, job, dropped, pc, srcBuf, reason, headers, command, status>>
  BY DEF StreamOn, StreamOnQueue, LockFree, hwVars, history
<1>2. CASE stream[Other(q)] = "on"
  <2>1. UNCHANGED <<dpbVars, dpbPic, pendingField>>
    BY <1>2 DEF StreamOn
  <2>2. BufferInv'
    BY <1>1, <2>1, BuffersKept DEF SafeInv, dpbVars
  <2>3. TypeInv' /\ JobInv' /\ StreamInv' /\ SlotInv' /\ FieldInv'
    BY <1>1, <2>1 DEF SafeInv, TypeInv, JobInv, StreamInv, SlotInv, FieldInv, dpbVars, Queue
  <2>4. QED
    BY <2>2, <2>3 DEF SafeInv
<1>3. CASE stream[Other(q)] # "on"
  <2>1. /\ slots' = Empty /\ size' = 0 /\ sequence' = 0 /\ dpbPic' = NoSlot
        /\ pendingField' = NoSlot
    BY <1>3 DEF StreamOn, DpbReset
  <2>2. job # "running"
    BY <1>1 DEF SafeInv, StreamInv
  <2>3. stream["dst"] \in {"idle", "off"}
    BY <1>1, <1>3 DEF SafeInv, TypeInv, Other, Queue
  <2>4. \A s \in Slot : slots[s].state = "unused" /\ ~slots[s].output
    BY <2>3 DEF SafeInv, StreamInv, SlotInv, Vacant
  <2>5. \A s \in Slot : slots'[s].state = "unused" /\ Vacant(slots'[s]) /\ slots'[s] \in Picture
    BY <2>1, EmptySlotFacts
  <2>6. OwnerIn(slots) = {} /\ OwnerIn(slots') = {}
    BY <2>4, <2>5 DEF OwnerIn, Vacant
  <2>7. BufferInv'
    BY <1>1, <2>6 DEF SafeInv, BufferInv, OwnedIn, Distinct, InTask
  <2>8. TypeInv'
    <3>1. slots' \in [Slot -> Picture]
      BY <2>1, <2>5 DEF Empty
    <3>2. 0 \in 0 .. NumSlots /\ 0 \in 0 .. (SequenceMod - 1)
      BY H264DpbAssumption DEF H264DpbAssumption
    <3>3. QED
      BY <1>1, <2>1, <3>1, <3>2 DEF SafeInv, TypeInv
  <2>9. JobInv' /\ StreamInv'
    BY <1>1, <2>1, <2>2, <2>5 DEF SafeInv, TypeInv, JobInv, StreamInv
  <2>10. SlotInv' /\ FieldInv'
    BY <2>1, <2>5 DEF SlotInv, FieldInv
  <2>11. QED
    BY <2>7, <2>8, <2>9, <2>10 DEF SafeInv
<1>4. QED
  BY <1>2, <1>3

\* The end of STREAMOFF: vb2 takes by force what is left, and nothing of it is in
\* the picture buffer.
LEMMA StopStep ==
  ASSUME SafeInv, NEW q \in Queue, StopStreaming(q), ~overrun'
  PROVE  SafeInv'
<1> DEFINE taken == IF StopTakesDst(q) THEN Removed("dst") ELSE NoBuf
           g == [b \in Buf |-> IF QueueOf(b) = q /\ vb[b] = "active" THEN "error" ELSE vb[b]]
           s == [rdy EXCEPT ![q] = << >>]
           l == {b \in dropped : QueueOf(b) # q}
           held == OwnedIn(slots)
<1>1. /\ stream[q] = "cancel" /\ job = "none" /\ stream' = [stream EXCEPT ![q] = "off"]
      /\ StopFlushed(q) /\ dropped' = l
      /\ allocated' = (allocated /\ ~(stream[Other(q)] = "off"))
      /\ (stream[Other(q)] = "off" => pc = "idle")
      /\ UNCHANGED <<job, dpbVars, pc, srcBuf, reason, dpbPic, pendingField, headers, command,
                     status>>
  BY DEF StopStreaming, jobVars, hwVars
<1>2. srcBuf = NoBuf /\ InTask = {} /\ InTask' = {}
  BY <1>1 DEF SafeInv, JobInv, InTask
<1>3. q = "dst" => \A t \in Slot : slots[t].state = "unused" /\ ~slots[t].output
  BY <1>1, FlushFacts DEF SafeInv, SlotInv, Vacant, StopFlushed
<1>4. Balanced(vb, rdy, {}, held, dropped) /\ (q = "dst" => held = {})
  BY <1>2, <1>3 DEF SafeInv, BufferInv, OwnedIn, OwnerIn
<1>5. Balanced(g, s, {}, held, l)
  <2>1. /\ g = [b \in Buf |-> IF QueueOf(b) = q /\ vb[b] = "active" THEN "error" ELSE vb[b]]
        /\ s = [rdy EXCEPT ![q] = << >>]
        /\ l = {b \in dropped : QueueOf(b) # q}
    OBVIOUS
  <2> HIDE DEF g, s, l, held
  <2>2. Balanced(vb, rdy, InTask, held, dropped)
    BY <1>2, <1>4
  <2>3. /\ q = "src" => Balanced(g, s, {}, held, l)
        /\ q = "dst" => Balanced(g, s, InTask, {}, l)
    BY <2>1, <2>2, BufAssumption, ForceKeepsBalance
  <2>4. QED
    BY <1>2, <1>4, <2>3 DEF Queue
<1>6. rdy \in [Queue -> Seq(Buf)]
  BY <1>4 DEF Balanced, QueuesOK, QueuesTyped
<1> DEFINE balanced == Balanced(vb', rdy', {}, held, l)
<1>7. ASSUME taken = NoBuf
      PROVE  balanced
  <2>1. vb' = g
    <3>1. \A b \in Buf : b # NoBuf
      BY BufAssumption DEF BufAssumption, Buf
    <3>2. QED
      BY <1>7, <3>1 DEF StopStreaming
  <2>2. rdy' = s
    BY <1>6, <1>7 DEF StopStreaming
  <2>3. QED
    BY <1>5, <2>1, <2>2 DEF balanced
<1>8. ASSUME taken # NoBuf
      PROVE  balanced
  <2>1. q = "src" /\ rdy["dst"] # << >> /\ taken = Head(rdy["dst"])
    BY <1>8 DEF StopTakesDst, Removed, Ready
  <2> DEFINE b0 == Head(s["dst"])
  <2>2. s["dst"] = rdy["dst"] /\ b0 = taken /\ s["src"] = << >>
    BY <1>6, <2>1 DEF Queue
  <2>3. "dst" \in Queue /\ BufOf("dst") = DstBuf /\ "done" \in VbState \ {"active"}
    BY DEF Queue, BufOf, VbState
  <2> HIDE DEF g, s, l, held
  <2>4. /\ b0 \in DstBuf
        /\ Balanced([g EXCEPT ![b0] = "done"], [s EXCEPT !["dst"] = Tail(@)], {}, held, l)
    BY <1>5, <2>1, <2>2, <2>3, BufAssumption, TakeKeepsBalance
  <2> USE DEF g, s
  <2>5. vb' = [g EXCEPT ![b0] = "done"]
    BY <2>2, <2>4 DEF StopStreaming, Buf
  <2>6. rdy' = [s EXCEPT !["dst"] = Tail(@)]
    BY <1>6, <1>8, <2>1, <2>2 DEF StopStreaming, Queue
  <2>7. QED
    BY <2>4, <2>5, <2>6 DEF balanced
<1>9. BufferInv'
  <2>1. slots' = slots
    BY <1>1 DEF dpbVars
  <2>2. QED
    BY <1>1, <1>2, <1>7, <1>8, <2>1 DEF balanced, SafeInv, BufferInv
<1>10. SlotInv' /\ FieldInv' /\ TypeInv'
  BY <1>1 DEF SafeInv, SlotInv, FieldInv, TypeInv, dpbVars
<1>11. JobInv'
  BY <1>1 DEF SafeInv, JobInv, dpbVars
<1>12. StreamInv'
  BY <1>1, <1>3 DEF SafeInv, StreamInv, TypeInv, Other, Queue, dpbVars
<1>13. QED
  BY <1>9, <1>10, <1>11, <1>12 DEF SafeInv

-----------------------------------------------------------------------------
LEMMA SameInv == SafeInv /\ UNCHANGED vars => SafeInv'
<1> SUFFICES ASSUME SafeInv, UNCHANGED vars
             PROVE  SafeInv'
  OBVIOUS
<1>1. UNCHANGED <<dpbVars, srcBuf, dpbPic, pendingField, reason, pc, job, stream, allocated,
                  headers, command, status, dropped, vb, rdy>>
  BY DEF vars, m2mVars, jobVars, hwVars, history
<1>2. BufferInv'
  BY <1>1, BuffersKept DEF SafeInv, dpbVars
<1>3. QED
  BY <1>1, <1>2 DEF SafeInv, TypeInv, JobInv, StreamInv, SlotInv, FieldInv, dpbVars

LEMMA StepInv == IInv /\ [Next]_vars => IInv'
<1> SUFFICES ASSUME IInv, [Next]_vars, ~overrun', ~starved'
             PROVE  SafeInv'
  BY DEF IInv
<1>1. CASE UNCHANGED vars
  BY <1>1, SameInv DEF IInv, vars, history
<1>2. CASE Next
  <2>1. SafeInv
    <3>1. overrun' = overrun \/ overrun' = (overrun \/ (job = "running" /\ hasStopped))
          \/ \E q \in Queue : StopStreaming(q)
      BY <1>2 DEF Next, Job, Isr, Stop, Ioctl, DecoderStart, Timeout, DecodeError, Abort,
                  ConfigRequest, IgnoreData, PictureBufferFull, HeaderDone, NoDestination,
                  DecoderDone, FlushStep, DecodeNewPic, FinishJob, QueueEos, UseAfterFree,
                  StopFlushStep, UserQBuf, StreamOn, StreamOff, DecoderCmd, Reconfigure, history
    <3>2. ~overrun
      BY <3>1 DEF StopStreaming
    <3>3. ~starved
      BY <1>2 DEF Next, Job, Isr, Stop, Ioctl, DecoderStart, Timeout, DecodeError,
                  ConfigRequest, IgnoreData, PictureBufferFull, HeaderDone, NoDestination,
                  DecoderDone, FlushStep, DecodeNewPic, FinishJob, QueueEos, UseAfterFree,
                  StopFlushStep, StopStreaming, UserQBuf, StreamOn, StreamOff, DecoderCmd,
                  Reconfigure, history
    <3>4. QED
      BY <3>2, <3>3 DEF IInv
  <2>2. CASE Job
    BY <2>1, <2>2, StartStep, AbortSteps, LoopSteps, HeaderSteps, DoneStep, FlushSteps, DecodeStep,
       FinishStep, ThreadSteps DEF Job
  <2>3. CASE Isr
    BY <2>1, <2>3, ThreadSteps
  <2>4. CASE Stop
    BY <2>1, <2>4, FlushSteps, StopStep DEF Stop
  <2>5. CASE Ioctl
    BY <2>1, <2>5, QBufStep, StreamOnStep, ControlSteps, CmdStopStep DEF Ioctl, DecoderCmd
  <2>6. QED
    BY <1>2, <2>2, <2>3, <2>4, <2>5 DEF Next
<1>3. QED
  BY <1>1, <1>2

\* The invariant holds in every reachable state.
THEOREM Invariant == Spec => []IInv
<1>1. QED
  BY InitInv, StepInv, PTL DEF Spec

\* Every buffer the driver was given is in one place, also when two fields share it:
\* for any number of buffers, slots and any stream (every v4l2_m2m_buf_done and
\* *_buf_remove of decoder_h264.c, is_output).
THEOREM BuffersConserved == Spec => []BufferConservation
<1>1. ASSUME IInv
      PROVE  BufferConservation
  <2> SUFFICES ASSUME SafeInv
               PROVE  Conserved
    BY <1>1 DEF IInv, BufferConservation
  <2>1. Owner = OwnerIn(slots) /\ Owned = OwnedIn(slots)
    BY OwnerFacts DEF SafeInv
  <2>2. Active = ActiveIn(vb) /\ InReady = Queued(rdy)
    BY DEF Active, ActiveIn, InReady, Queued
  <2>3. \A s, t \in Owner : s # t => slots[s].buffer # slots[t].buffer
    BY <2>1 DEF SafeInv, BufferInv, Distinct
  <2>4. QED
    BY <2>1, <2>2, <2>3 DEF Conserved, SafeInv, BufferInv, Balanced, QueuesOK
<1>2. QED
  BY <1>1, Invariant, PTL

\* The job dereferences no NULL buffer and no freed context, as long as its thread is
\* not overrun and every header finds a CAPTURE buffer (picture_done,
\* config_decode_canvas, decoder_h264_unprepare).
THEOREM NeverCrashes == Spec => []NoCrash
<1>1. IInv => NoCrash
  BY DEF IInv, SafeInv, JobInv, NoCrash
<1>2. QED
  BY <1>1, Invariant, PTL

-----------------------------------------------------------------------------
(* Streams of frames (H264Stream): display order, how long pictures stay,    *)
(* and the references they are predicted from.                              *)

InJob         == phase \in {"lists", "decode"}
Short         == RefsOf(slots, "short")
NumbersOf(S)  == {number[s] : s \in S}

\* the references, and the picture that is being decoded if it will be one
Kept == {s \in InUse : slots[s].type = "short" /\ slots[s].state \in {"init", "ref_in_use"}}

\* pictures decoded and not shown, by display number
Due == {n \in Nat : shown <= n /\ n < next /\ n \notin bs}

\* B pictures still to come are those before the last anchor, but for one that is
\* a reference and came first
GroupInv ==
  /\ phase \in {"header", "lists", "decode", "output", "drain"} /\ kind \in Kinds
  /\ refs \in Seq(Nat)
  /\ next \in Nat /\ base \in 0 .. next /\ shown \in 0 .. next
  /\ bs \subseteq Nat /\ \A b \in bs : shown <= b /\ base <= b /\ b < next - 1
  /\ \A b \in bs, c \in Nat :
       (kind # "pyramid" \/ current.slice # "B") /\ b <= c /\ c < next - 1 => c \in bs
  /\ \A b \in bs, c, d \in Nat :
       b < c /\ c < next - 1 /\ c \notin bs /\ b < d /\ d < next - 1 /\ d \notin bs => c = d
  /\ phase = "drain" => bs = {}

\* each picture that was decoded and not shown is in one slot; short-term references
\* only; the picture that is being decoded is not done
WaitInv ==
  /\ slots \in [Slot -> Picture] /\ size \in 0 .. NumSlots
  /\ sequence \in 0 .. (SequenceMod - 1) /\ number \in [Slot -> Nat]
  /\ \A s \in Slot : /\ slots[s].type # "long"
                     /\ slots[s].state = "unused" => slots[s].type = "non"
                     /\ slots[s].state = "ref_in_use" => slots[s].type = "short"
                     /\ slots[s].state # "unused" => s \in InUse
                     /\ s \in InUse => (slots[s].state = "init" <=> InJob /\ s = slot)
  /\ \A s, t \in InUse : number[s] = number[t] => s = t
  /\ NumbersOf(InUse) = Due

\* the picture that is being decoded
CurrentInv ==
  InJob =>
    /\ slot \in InUse /\ (current.ref <=> slots[slot].type = "short")
    /\ current.slice # "B" => current.ref /\ number[slot] = next - 1
    /\ ~current.ref => \A b \in bs : number[slot] < b
    /\ current.idr => current.ref /\ base = number[slot] /\ next = base + 1

\* order keys follow display numbers; those of this sequence count from its base
KeyInv ==
  /\ \A s, t \in InUse : number[s] < number[t] => KeyOf(slots[s]) < KeyOf(slots[t])
  /\ \A s \in InUse : IF number[s] < base THEN KeyOf(slots[s]) < sequence * PocMod
                      ELSE slots[s].seq = sequence /\ slots[s].poc = number[s] - base

\* what is displayed after a B picture still to come is a reference; there are at
\* most MaxRefs; a flush has left nothing that may be given out
KeptInv ==
  /\ \A b \in bs, s \in InUse : number[s] > b => slots[s].state # "output_ready"
  /\ \A s \in Kept : number[s] >= base
  /\ Cardinality(Short) <= MaxRefs

FlushedInv == phase = "header" => Outputs(FALSE) = {}

FramesInv == GroupInv /\ WaitInv /\ CurrentInv /\ KeyInv /\ KeptInv /\ FlushedInv

\* without commands the references kept are those displayed last, and between two of
\* them are no more than MaxB other pictures
Later(s) == {t \in Kept : number[t] > number[s]}
Reach(s) == 1 + (MaxB + 1) * Cardinality(Later(s))

SpanInv ==
  /\ \A b \in bs : next - 1 - MaxB <= b
  /\ kind # "commands" => \A s \in Kept : next - number[s] <= Reach(s)

\* the anchors of the sequence, in the order they were coded in
Anchors == IF ~(InJob /\ current.ref) THEN refs
           ELSE IF current.idr THEN <<number[slot]>> ELSE Append(refs, number[slot])

\* the anchor displayed last was coded last; what is still to come is displayed after
\* the one before it
AnchorInv ==
  /\ marked = {} /\ current.commands = << >> /\ (current.idr => current.slice = "I")
  /\ \A i, j \in DOMAIN Anchors : i < j => Anchors[i] < Anchors[j]
  /\ \A i \in DOMAIN Anchors : Anchors[i] < next
  /\ Len(Anchors) <= next /\ next <= MaxPics
  /\ next > 0 => Len(Anchors) > 0 /\ Anchors[Len(Anchors)] = next - 1
  /\ \A b \in bs : Len(Anchors) > 1 /\ Anchors[Len(Anchors) - 1] < b

NewestOf(s) == {s[i] : i \in {j \in DOMAIN s : j > Len(s) - MaxRefs}}

\* the references are the newest anchors, and have their frame numbers
RefNumbersInv ==
  /\ InJob /\ current.idr => Short = {}
  /\ ~(InJob /\ current.idr) => NumbersOf(Short) = NewestOf(refs)
  /\ \A s \in Kept : \E i \in DOMAIN Anchors :
       Anchors[i] = number[s] /\ slots[s].num = (i - 1) % MaxFrameNum

\* the lists of a B picture start with the references displayed next to it
NextToInv ==
  MaxRefs >= 2 /\ InJob /\ current.slice = "B" =>
    /\ list0 # << >> /\ list0[1] \in Short /\ number[list0[1]] < number[slot]
    /\ \A s \in Short : number[s] < number[slot] => number[s] <= number[list0[1]]
    /\ list1 # << >> /\ list1[1] \in Short /\ number[slot] < number[list1[1]]
    /\ \A s \in Short : number[slot] < number[s] => number[list1[1]] <= number[s]

\* that of a P picture has the references in reverse, as long as frame_num has not wrapped
\* between the oldest of them and the picture
Held   == IF Len(refs) > MaxRefs THEN MaxRefs ELSE Len(refs)
Listed == IF Held > ListSize THEN ListSize ELSE Held

ReverseInv ==
  InJob /\ current.slice = "P" /\ Held <= current.num =>
    /\ Len(list0) = Listed /\ DOMAIN list0 = 1 .. Listed
    /\ \A i \in 1 .. Listed : list0[i] \in Short /\ number[list0[i]] = refs[Len(refs) + 1 - i]

PlainInv ==
  kind = "plain" /\ phase # "drain" => AnchorInv /\ RefNumbersInv /\ NextToInv /\ ReverseInv

\* amlvdec_h264_dpb_alloc_pic returns a slot that is free.
LEMMA FreeFacts ==
  ASSUME size \in 0 .. NumSlots, Free # {}
  PROVE  FirstFree \in Free /\ FirstFree \in 1 .. size /\ FirstFree \in Slot
         /\ FirstFree \notin InUse /\ slots[FirstFree].state = "unused"
<1>1. Free \subseteq Nat /\ Free \subseteq Slot
  BY H264DpbAssumption DEF Free, Slot, H264DpbAssumption
<1>2. \E s \in Free : \A t \in Free : s <= t
  BY <1>1, LeastExists
<1>3. FirstFree \in Free
  BY <1>2 DEF FirstFree
<1>4. QED
  BY <1>1, <1>3 DEF Free, InUse, InUseOf

\* The commands of a picture, where there is at most one.
LEMMA FewCommands ==
  ASSUME NEW f, NEW p, NEW c
  PROVE  Adaptive(f, p, << >>) = f /\ Adaptive(f, p, <<c>>) = Command(f, p, c)
<1>1. ASSUME NEW cs, Len(cs) = 0
      PROVE  Adaptive(f, p, cs) = f
  <2> DEFINE Steps(g) == g = [i \in 0 .. Len(cs) |-> IF i = 0 THEN f ELSE Command(g[i - 1], p, cs[i])]
             after == CHOOSE g : Steps(g)
  <2>1. Steps([i \in 0 .. 0 |-> f])
    BY <1>1
  <2>2. Steps(after)
    BY <2>1
  <2>3. Adaptive(f, p, cs) = after[Len(cs)]
    BY DEF Adaptive
  <2> HIDE DEF after
  <2>4. after[0] = f
    BY <1>1, <2>2
  <2>5. QED
    BY <1>1, <2>3, <2>4
<1>2. ASSUME NEW cs, Len(cs) = 1
      PROVE  Adaptive(f, p, cs) = Command(f, p, cs[1])
  <2> DEFINE Steps(g) == g = [i \in 0 .. Len(cs) |-> IF i = 0 THEN f ELSE Command(g[i - 1], p, cs[i])]
             after == CHOOSE g : Steps(g)
             h == [i \in 0 .. 1 |-> IF i = 0 THEN f ELSE Command(f, p, cs[i])]
  <2>1. Steps(h)
    <3>1. ASSUME NEW i \in 0 .. Len(cs)
          PROVE  h[i] = IF i = 0 THEN f ELSE Command(h[i - 1], p, cs[i])
      <4>1. i = 0 \/ i = 1
        BY <1>2
      <4>2. h[0] = f
        OBVIOUS
      <4>3. QED
        BY <4>1, <4>2
    <3>2. QED
      BY <1>2, <3>1
  <2>2. Steps(after)
    BY <2>1
  <2>3. Adaptive(f, p, cs) = after[Len(cs)]
    BY DEF Adaptive
  <2> HIDE DEF after
  <2>4. after[0] = f /\ after[1] = Command(after[0], p, cs[1])
    BY <1>2, <2>2
  <2>5. QED
    BY <1>2, <2>3, <2>4
<1>3. Len(<< >>) = 0 /\ Len(<<c>>) = 1 /\ <<c>>[1] = c
  OBVIOUS
<1>4. QED
  BY <1>1, <1>2, <1>3

\* The headers of the stream: one command to mark a reference unused, at most.
HeaderOK(h) ==
  /\ h.structure = "frame" /\ h.longTerm = FALSE
  /\ h.num \in 0 .. (MaxFrameNum - 1) /\ h.poc \in 0 .. (PocMod - 1)
  /\ h.idr \in BOOLEAN /\ h.ref \in BOOLEAN
  /\ h.idr => sequence + 1 < SequenceMod
  /\ \/ h.commands = << >>
     \/ kind = "commands" /\ \E c : h.commands = <<c>> /\ c.op = "short_unused"
  /\ h.reorder0 = << >>
  /\ kind # "commands" => h.reorder1 = << >>

\* Marking that only takes references away: g is f but for that.
Less(f, g) ==
  /\ g \in [Slot -> Picture]
  /\ \A s \in Slot :
       /\ g[s].seq = f[s].seq /\ g[s].poc = f[s].poc /\ g[s].num = f[s].num
       /\ g[s].type = f[s].type
       /\ \/ g[s].state = f[s].state
          \/ f[s].state = "ref_in_use" /\ g[s].state = "output_ready"

\* mark_short_term_unused, mark_all_unused and the sliding window release the
\* references they mean, and do nothing else.
LEMMA ReleasedLess ==
  ASSUME NEW f \in [Slot -> Picture], NEW S, \A s \in S : f[s].state = "ref_in_use"
  PROVE  /\ Less(f, Released(f, S)) /\ Less(f, ReleasedLong(f, S))
         /\ \A s \in Slot \cap S : /\ Released(f, S)[s].state = "output_ready"
                                   /\ ReleasedLong(f, S)[s].state = "output_ready"
         /\ \A s \in Slot \ S : Released(f, S)[s] = f[s] /\ ReleasedLong(f, S)[s] = f[s]
<1> DEFINE Y(x) == [x EXCEPT !.state = "output_ready"]
           Z(x) == [x EXCEPT !.state = "output_ready", !.idx = NoIdx]
<1>1. "output_ready" \in SlotState
  BY DEF SlotState
<1>2. NoIdx \in Int
  BY DEF NoIdx
<1>4. ASSUME NEW x \in Picture
      PROVE  /\ Y(x) \in Picture /\ Y(x).state = "output_ready" /\ Y(x).type = x.type
             /\ Y(x).seq = x.seq /\ Y(x).poc = x.poc /\ Y(x).num = x.num
  BY <1>1 DEF Picture
<1>5. ASSUME NEW x \in Picture
      PROVE  /\ Z(x) \in Picture /\ Z(x).state = "output_ready" /\ Z(x).type = x.type
             /\ Z(x).seq = x.seq /\ Z(x).poc = x.poc /\ Z(x).num = x.num
  BY <1>1, <1>2 DEF Picture
<1>6. Released(f, S) = [s \in Slot |-> IF s \in S THEN Y(f[s]) ELSE f[s]]
  BY DEF Released
<1>7. ReleasedLong(f, S) = [s \in Slot |-> IF s \in S THEN Z(f[s]) ELSE f[s]]
  BY DEF ReleasedLong
<1> HIDE DEF Y, Z
<1>8. QED
  BY <1>4, <1>5, <1>6, <1>7 DEF Less

\* amlvdec_h264_dpb_new_pic for a frame: it fills one slot; an IDR picture releases
\* all references, and another one those its commands mean.
LEMMA AddedPicture ==
  ASSUME WaitInv, NEW h, HeaderOK(h), NEW p \in Slot, p \notin InUse, p \in 1 .. size,
         sequence' = SequenceAfter(h), size' = size, slots' = Added(p, h)
  PROVE  /\ slots' \in [Slot -> Picture] /\ InUse' = InUse \cup {p}
         /\ sequence' = (IF h.idr THEN sequence + 1 ELSE sequence)
         /\ sequence' \in 0 .. (SequenceMod - 1)
         /\ slots'[p].state = "init" /\ slots'[p].type = (IF h.ref THEN "short" ELSE "non")
         /\ slots'[p].num = h.num /\ slots'[p].poc = h.poc /\ slots'[p].seq = sequence'
         /\ \A s \in Slot \ {p} :
              /\ slots'[s].seq = slots[s].seq /\ slots'[s].poc = slots[s].poc
              /\ slots'[s].num = slots[s].num /\ slots'[s].type = slots[s].type
              /\ \/ slots'[s].state = slots[s].state
                 \/ slots[s].state = "ref_in_use" /\ slots'[s].state = "output_ready"
              /\ h.idr => slots'[s].state # "ref_in_use"
              /\ ~h.idr /\ h.commands = << >> => slots'[s] = slots[s]
<1> DEFINE x == slots[p]
           f == Stored(p, h)
           g == Marked(p, h)
<1>1. x \in Picture /\ slots \in [Slot -> Picture] /\ size \in 0 .. NumSlots
      /\ x.state = "unused" /\ x.type = "non"
  BY DEF WaitInv, InUse, InUseOf
<1>2. PICK y \in Picture : /\ f = [slots EXCEPT ![p] = y]
                           /\ y.state = "init" /\ y.type = (IF h.ref THEN "short" ELSE "non")
                           /\ y.num = h.num
  <2> DEFINE type == IF h.ref THEN "short" ELSE x.type
             z == [x EXCEPT !.num = h.num, !.structure = h.structure, !.state = "init",
                            !.type = type, !.output = TRUE]
  <2>1. f = [slots EXCEPT ![p] = z]
    BY DEF Stored
  <2>2. type = IF h.ref THEN "short" ELSE "non"
    BY <1>1
  <2> HIDE DEF x, f, type
  <2>3. h.num \in 0 .. (MaxFrameNum - 1) /\ h.structure \in Structure
        /\ type \in {"non", "short", "long"} /\ "init" \in SlotState
    BY <2>2 DEF HeaderOK, Structure, SlotState
  <2>4. z \in Picture /\ z.state = "init" /\ z.type = type /\ z.num = h.num
    BY <1>1, <2>3 DEF Picture
  <2> HIDE DEF z
  <2>5. QED
    BY <2>1, <2>2, <2>4
<1> HIDE DEF f
<1>3. f \in [Slot -> Picture] /\ f[p] = y /\ \A s \in Slot \ {p} : f[s] = slots[s]
  BY <1>1, <1>2
<1>4. Less(f, g) /\ (h.idr => \A s \in Slot \ {p} : g[s].state # "ref_in_use")
      /\ (~h.idr /\ h.commands = << >> => g = f)
  <2>1. CASE h.idr
    <3> DEFINE S == RefsOf(f, "short") \cup RefsOf(f, "long")
    <3>1. g = ReleasedLong(f, S)
      BY <2>1 DEF Marked, IdrMarking, HeaderOK, f, MarkAllUnused
    <3>2. \A s \in S : f[s].state = "ref_in_use"
      BY DEF RefsOf
    <3>3. \A s \in Slot \ {p} : f[s].state = "ref_in_use" => s \in S
      <4> SUFFICES ASSUME NEW s \in Slot \ {p}, f[s].state = "ref_in_use"
                   PROVE  s \in S
        OBVIOUS
      <4>1. f[s].type = "short" /\ s \in InUse
        <5>1. slots[s].state = "ref_in_use"
          BY <1>3
        <5>2. slots[s].type = "short"
          BY <5>1 DEF WaitInv
        <5>3. s \in InUse
          BY <5>1, <5>2 DEF WaitInv
        <5>4. QED
          BY <1>3, <5>2, <5>3
      <4>2. QED
        BY <4>1 DEF RefsOf, InUse, InUseOf
    <3> HIDE DEF S, g
    <3>4. \A s \in Slot \ {p} : g[s].state # "ref_in_use"
      BY <1>3, <3>1, <3>2, <3>3, ReleasedLess
    <3>5. QED
      BY <1>3, <2>1, <3>1, <3>2, <3>4, ReleasedLess
  <2>2. CASE ~h.idr /\ h.commands = << >>
    <3>1. g = f
      BY <2>2, FewCommands DEF Marked, f
    <3>2. QED
      BY <1>3, <2>2, <3>1 DEF Less
  <2>3. CASE ~h.idr /\ \E c : h.commands = <<c>> /\ c.op = "short_unused"
    <3>1. PICK c : h.commands = <<c>> /\ c.op = "short_unused"
      BY <2>3
    <3>2. g = Command(f, p, c)
      BY <2>3, <3>1, FewCommands DEF Marked, f
    <3> DEFINE S == {s \in RefsOf(f, "short") \cap InSequence(f) :
                       f[s].num = PicNum(f[p], FirstArg(c))}
    <3>3. g = Released(f, S)
      BY <3>1, <3>2 DEF Command
    <3>4. \A s \in S : f[s].state = "ref_in_use"
      BY DEF RefsOf
    <3> HIDE DEF S, g
    <3>5. h.commands # << >>
      BY <3>1
    <3>6. QED
      BY <1>3, <2>3, <3>3, <3>4, <3>5, ReleasedLess
  <2>4. QED
    BY <2>1, <2>2, <2>3 DEF HeaderOK
<1> HIDE DEF g
<1>5. sequence' = (IF h.idr THEN sequence + 1 ELSE sequence) /\ sequence' \in 0 .. (SequenceMod - 1)
  <2>1. sequence \in 0 .. (SequenceMod - 1) /\ SequenceMod \in Nat
    BY H264DpbAssumption DEF WaitInv, H264DpbAssumption
  <2>2. h.idr => sequence + 1 \in 1 .. (SequenceMod - 1)
    BY <2>1 DEF HeaderOK
  <2>3. h.idr => (sequence + 1) % SequenceMod = sequence + 1
    BY <2>1, <2>2
  <2>4. QED
    BY <2>1, <2>2, <2>3 DEF SequenceAfter
<1>6. PICK z \in Picture : /\ slots' = [g EXCEPT ![p] = z]
                           /\ z.state = g[p].state /\ z.type = g[p].type /\ z.num = g[p].num
                           /\ z.poc = h.poc /\ z.seq = sequence'
  <2> DEFINE b == g[p]
             z == [b EXCEPT !.poc = h.poc, !.seq = sequence']
  <2>1. slots' = [g EXCEPT ![p] = z]
    BY DEF Added, g
  <2>2. b \in Picture
    BY <1>4 DEF Less
  <2>3. h.poc \in 0 .. (PocMod - 1)
    BY DEF HeaderOK
  <2> HIDE DEF b
  <2>4. /\ z \in Picture /\ z.state = b.state /\ z.type = b.type /\ z.num = b.num
        /\ z.poc = h.poc /\ z.seq = sequence'
    BY <1>5, <2>2, <2>3 DEF Picture
  <2> HIDE DEF z
  <2>5. QED
    BY <2>1, <2>4 DEF b
<1>7. slots' \in [Slot -> Picture] /\ slots'[p] = z /\ \A s \in Slot \ {p} : slots'[s] = g[s]
  BY <1>4, <1>6 DEF Less
<1>8. g[p].state = "init" /\ g[p].type = (IF h.ref THEN "short" ELSE "non") /\ g[p].num = h.num
  BY <1>2, <1>3, <1>4 DEF Less
<1>9. \A s \in Slot \ {p} :
              /\ slots'[s].seq = slots[s].seq /\ slots'[s].poc = slots[s].poc
              /\ slots'[s].num = slots[s].num /\ slots'[s].type = slots[s].type
              /\ \/ slots'[s].state = slots[s].state
                 \/ slots[s].state = "ref_in_use" /\ slots'[s].state = "output_ready"
              /\ h.idr => slots'[s].state # "ref_in_use"
              /\ ~h.idr /\ h.commands = << >> => slots'[s] = slots[s]
  BY <1>3, <1>4, <1>7 DEF Less
<1>10. InUse' = InUse \cup {p}
  <2>1. 1 .. size \subseteq Slot
    BY <1>1, H264DpbAssumption DEF H264DpbAssumption, Slot
  <2>2. \A s \in Slot \ {p} : slots'[s].state = "unused" <=> slots[s].state = "unused"
    BY <1>9
  <2>3. slots'[p].state # "unused"
    BY <1>6, <1>7, <1>8
  <2>4. QED
    BY <2>1, <2>2, <2>3 DEF InUse, InUseOf
<1>11. QED
  BY <1>5, <1>6, <1>7, <1>8, <1>9, <1>10

\* What is in use and how, in the terms of the invariant.
LEMMA KeptFacts ==
  ASSUME WaitInv
  PROVE  /\ InUse \subseteq Slot /\ IsFiniteSet(InUse) /\ IsFiniteSet(Kept) /\ IsFiniteSet(Short)
         /\ Kept = Short \cup {s \in InUse : slots[s].state = "init" /\ slots[s].type = "short"}
         /\ Short = {s \in InUse : slots[s].state = "ref_in_use"}
         /\ \A s \in InUse : slots[s].state \in {"init", "ref_in_use", "output_ready"}
         /\ \A s \in InUse : KeyOf(slots[s]) \in Nat
<1>1. size \in 0 .. NumSlots /\ slots \in [Slot -> Picture] /\ NumSlots \in Nat
  BY H264DpbAssumption DEF WaitInv, H264DpbAssumption
<1>2. InUse \subseteq 1 .. size /\ 1 .. size \subseteq Slot
  BY <1>1 DEF InUse, InUseOf, Slot
<1>3. IsFiniteSet(InUse)
  <2>1. IsFiniteSet(1 .. size)
    BY <1>1, FS_Interval
  <2>2. QED
    BY <1>2, <2>1, FS_Subset
<1>4. Short = {s \in InUse : slots[s].state = "ref_in_use"}
  BY <1>2 DEF Short, RefsOf, InUse, WaitInv
<1>5. Kept \subseteq InUse /\ Short \subseteq InUse
  BY <1>4 DEF Kept
<1>6. \A s \in InUse : slots[s].state \in {"init", "ref_in_use", "output_ready"}
  BY <1>1, <1>2 DEF InUse, InUseOf, Picture, SlotState
<1>7. Kept = Short \cup {s \in InUse : slots[s].state = "init" /\ slots[s].type = "short"}
  BY <1>2, <1>4 DEF Kept, WaitInv
<1>8. \A s \in InUse : KeyOf(slots[s]) \in Nat
  BY <1>1, <1>2, KeyFacts
<1>9. QED
  BY <1>2, <1>3, <1>4, <1>5, <1>6, <1>7, <1>8, FS_Subset

KeptShape ==
  /\ Kept = Short \cup {s \in InUse : slots[s].state = "init" /\ slots[s].type = "short"}
  /\ Short = {s \in InUse : slots[s].state = "ref_in_use"}
  /\ InUse \subseteq Slot /\ IsFiniteSet(InUse)

LEMMA KeptAlways == WaitInv => KeptShape
BY KeptFacts DEF KeptShape

KeysShape == IsFiniteSet(Short) /\ \A s \in InUse : KeyOf(slots[s]) \in Nat

LEMMA KeysAlways == WaitInv => KeysShape
BY KeptFacts DEF KeysShape

\* amlvdec_h264_dpb_pic_done: the picture becomes a reference or is ready for output,
\* and of too many references the one displayed first goes.
LEMMA DonePicture ==
  ASSUME WaitInv, InJob, slot \in InUse, PicDone(slot)
  PROVE  /\ slots' \in [Slot -> Picture] /\ InUse' = InUse
         /\ \A s \in Slot :
              /\ slots'[s].seq = slots[s].seq /\ slots'[s].poc = slots[s].poc
              /\ slots'[s].num = slots[s].num /\ slots'[s].type = slots[s].type
         /\ \E D \in SUBSET Kept :
              /\ \A s \in Slot : slots'[s].state = (IF s \notin InUse THEN "unused"
                                                    ELSE IF s \in Kept \ D THEN "ref_in_use"
                                                    ELSE "output_ready")
              /\ IF Cardinality(Kept) <= MaxRefs THEN D = {}
                 ELSE \E d \in Kept : /\ D = {d}
                                      /\ \A t \in Kept : KeyOf(slots[d]) <= KeyOf(slots[t])
<1> DEFINE x == slots[slot]
           a == IF x.type = "non" THEN "output_ready" ELSE "ref_in_use"
           y == [x EXCEPT !.state = a]
           f == [slots EXCEPT ![slot] = y]
           short == RefsOf(f, "short")
           first == {s \in short : \A t \in short : KeyOf(f[s]) <= KeyOf(f[t])}
           c == CHOOSE s \in first : \A t \in first : s <= t
<1>1. /\ slots \in [Slot -> Picture] /\ slot \in Slot /\ x \in Picture /\ x.state = "init"
      /\ InUse \subseteq Slot /\ size \in 0 .. NumSlots /\ x.type \in {"non", "short"}
  BY KeptFacts DEF WaitInv, Picture
<1>2. slots' = SlidingWindow(f) /\ UNCHANGED <<size, sequence>>
  BY DEF PicDone
<1>3. a \in SlotState /\ a # "unused"
  BY DEF SlotState
<1> HIDE DEF x, a
<1>4. /\ y \in Picture /\ y.state = a /\ y.type = x.type /\ y.seq = x.seq /\ y.poc = x.poc
      /\ y.num = x.num
  BY <1>1, <1>3 DEF Picture
<1> HIDE DEF y
<1>5. f \in [Slot -> Picture] /\ f[slot] = y /\ \A s \in Slot \ {slot} : f[s] = slots[s]
  BY <1>1, <1>4
<1> HIDE DEF f
<1>6. \A s \in Slot : /\ f[s].seq = slots[s].seq /\ f[s].poc = slots[s].poc
                      /\ f[s].num = slots[s].num /\ f[s].type = slots[s].type
                      /\ KeyOf(f[s]) = KeyOf(slots[s])
  BY <1>4, <1>5 DEF x, KeyOf
<1>7. \A s \in Slot : f[s].state = (IF s \notin InUse THEN "unused"
                                    ELSE IF s \in Kept THEN "ref_in_use" ELSE "output_ready")
  <2>1. f[slot].state = IF slot \in Kept THEN "ref_in_use" ELSE "output_ready"
    BY <1>1, <1>4, <1>5 DEF a, x, Kept
  <2>2. ASSUME NEW s \in Slot \ {slot}
        PROVE  f[s].state = (IF s \notin InUse THEN "unused"
                             ELSE IF s \in Kept THEN "ref_in_use" ELSE "output_ready")
    <3>1. CASE s \notin InUse
      BY <1>5, <3>1 DEF WaitInv
    <3>2. CASE s \in InUse
      <4>1. slots[s].state # "init"
        BY <3>2 DEF WaitInv
      <4>2. QED
        BY <1>5, <3>2, <4>1, KeptFacts
    <3>3. QED
      BY <3>1, <3>2
  <2>3. QED
    BY <2>1, <2>2
<1>8. short = Kept
  <2>1. 1 .. size \subseteq Slot
    BY <1>1, H264DpbAssumption DEF H264DpbAssumption, Slot
  <2>2. InUseOf(f) = InUse
    BY <1>7, <2>1 DEF InUseOf, InUse
  <2>3. \A s \in Kept : s \in InUse /\ slots[s].type = "short"
    BY DEF Kept
  <2>4. QED
    BY <1>1, <1>6, <1>7, <2>2, <2>3 DEF RefsOf
<1>9. CASE Cardinality(Kept) <= MaxRefs
  <2>1. ~(Cardinality(Kept) > MaxRefs)
    BY <1>9, KeptFacts, FS_CardinalityType, H264DpbAssumption DEF H264DpbAssumption
  <2>2. slots' = f
    BY <1>2, <1>8, <2>1 DEF SlidingWindow
  <2>3. InUse' = InUse
    BY <1>2, <1>5, <1>7, <2>2, H264DpbAssumption DEF InUse, InUseOf, Slot, WaitInv, H264DpbAssumption
  <2>4. \A s \in Slot : slots'[s].state = (IF s \notin InUse THEN "unused"
                                           ELSE IF s \in Kept \ {} THEN "ref_in_use"
                                           ELSE "output_ready")
    BY <1>7, <2>2
  <2>5. {} \in SUBSET Kept
    OBVIOUS
  <2>6. QED
    BY <1>5, <1>6, <1>9, <2>2, <2>3, <2>4, <2>5
<1>10. CASE ~(Cardinality(Kept) <= MaxRefs)
  <2>1. Cardinality(short) > MaxRefs
    BY <1>8, <1>10, KeptFacts, FS_CardinalityType, H264DpbAssumption DEF H264DpbAssumption
  <2> DEFINE Keys == {KeyOf(f[s]) : s \in short}
  <2>2. short # {}
    BY <2>1, FS_EmptySet, H264DpbAssumption DEF H264DpbAssumption
  <2>3. short \subseteq Slot /\ Slot \subseteq Nat
    <3>1. Kept \subseteq InUse /\ Slot \subseteq Nat
      BY H264DpbAssumption DEF Kept, Slot, H264DpbAssumption
    <3>2. QED
      BY <1>1, <1>8, <3>1
  <2>4. Keys \subseteq Nat /\ Keys # {}
    BY <1>5, <2>2, <2>3, KeyFacts
  <2>5. PICK k \in Keys : \A l \in Keys : k <= l
    BY <2>4, LeastExists
  <2>6. PICK s \in short : k = KeyOf(f[s])
    BY <2>5
  <2>7. s \in first
    BY <2>5, <2>6
  <2>8. first \subseteq Nat /\ first # {}
    BY <2>3, <2>7
  <2> HIDE DEF first
  <2>9. \E m \in first : \A t \in first : m <= t
    BY <2>8, LeastExists
  <2>10. c \in first
    BY <2>9
  <2>11. slots' = Released(f, {c})
    BY <1>2, <2>1 DEF SlidingWindow, c, first
  <2> HIDE DEF c
  <2>12. c \in short /\ \A t \in short : KeyOf(f[c]) <= KeyOf(f[t])
    BY <2>10 DEF first
  <2>13. c \in Kept /\ c \in Slot /\ c \in InUse
    BY <1>8, <2>3, <2>12 DEF Kept
  <2>14. \A t \in Kept : KeyOf(slots[c]) <= KeyOf(slots[t])
    BY <1>6, <1>8, <2>3, <2>12
  <2>15. f[c].state = "ref_in_use"
    BY <1>7, <2>13
  <2>16. /\ slots' \in [Slot -> Picture]
         /\ \A t \in Slot : /\ slots'[t].seq = f[t].seq /\ slots'[t].poc = f[t].poc
                            /\ slots'[t].num = f[t].num /\ slots'[t].type = f[t].type
         /\ slots'[c].state = "output_ready"
         /\ \A t \in Slot \ {c} : slots'[t] = f[t]
    BY <1>5, <2>11, <2>13, <2>15, ReleasedLess DEF Less
  <2>17. \A t \in Slot : slots'[t].state = (IF t \notin InUse THEN "unused"
                                            ELSE IF t \in Kept \ {c} THEN "ref_in_use"
                                            ELSE "output_ready")
    BY <1>7, <2>13, <2>16
  <2>18. InUse' = InUse
    BY <1>1, <1>2, <2>17, H264DpbAssumption DEF InUse, InUseOf, Slot, H264DpbAssumption
  <2>19. {c} \in SUBSET Kept
    BY <2>13
  <2>20. QED
    BY <1>6, <1>10, <2>13, <2>14, <2>16, <2>17, <2>18, <2>19
<1>11. QED
  BY <1>9, <1>10

\* a header without commands
PlainHeader ==
  [idr : BOOLEAN, ref : BOOLEAN, structure : {"frame"}, slice : {"I", "P", "B"}, num : Int,
   poc : Int, longTerm : {FALSE}, commands : {<< >>}, reorder0 : {<< >>}, reorder1 : {<< >>}]

\* The headers of anchors and of B pictures that carry no command.
AnchorOf(x, idr, slice, num, poc) ==
  [x EXCEPT !.idr = idr, !.ref = TRUE, !.slice = slice, !.num = num, !.poc = poc]
BOf(x, ref, num, poc) ==
  [x EXCEPT !.idr = FALSE, !.ref = ref, !.slice = "B", !.num = num, !.poc = poc]

Carries(g, idr, ref, slice, num, poc) ==
  /\ g \in PlainHeader /\ g.idr = idr /\ g.ref = ref /\ g.slice = slice
  /\ g.num = num /\ g.poc = poc

LEMMA AnchorHeader ==
  ASSUME NEW x \in PlainHeader, NEW idr \in BOOLEAN, NEW slice \in {"I", "P"},
         NEW num \in Int, NEW poc \in Int
  PROVE  Carries(AnchorOf(x, idr, slice, num, poc), idr, TRUE, slice, num, poc)
BY DEF PlainHeader, AnchorOf, Carries

LEMMA BHeader ==
  ASSUME NEW x \in PlainHeader, NEW ref \in BOOLEAN, NEW num \in Int, NEW poc \in Int
  PROVE  Carries(BOf(x, ref, num, poc), FALSE, ref, "B", num, poc)
BY DEF PlainHeader, BOf, Carries

LEMMA HeaderNumber ==
  ASSUME NEW idr \in BOOLEAN, NEW b \in Int
  PROVE  (IF idr THEN 0 ELSE b) \in Int /\ (IF idr THEN 0 ELSE b) \in {0, b}
OBVIOUS

\* The headers that vdec_h264_header_done finds.
LEMMA VariantFacts ==
  ASSUME GroupInv, NEW g \in PlainHeader, NEW h \in Variants(g), g.num \in {0, FrameNum},
         g.poc \in Nat, h.poc < PocMod, g.idr => g.slice = "I" /\ sequence + 1 < SequenceMod
  PROVE  /\ HeaderOK(h) /\ h.idr = g.idr /\ h.ref = g.ref /\ h.slice = g.slice
         /\ h.poc = g.poc /\ h.num = g.num
         /\ kind # "commands" \/ g.slice = "B" => h.commands = << >>
<1>1. /\ g.structure = "frame" /\ g.longTerm = FALSE /\ g.commands = << >>
      /\ g.reorder0 = << >> /\ g.reorder1 = << >> /\ g.idr \in BOOLEAN /\ g.ref \in BOOLEAN
      /\ \A c : /\ [g EXCEPT !.commands = c].idr = g.idr /\ [g EXCEPT !.commands = c].ref = g.ref
                /\ [g EXCEPT !.commands = c].slice = g.slice
                /\ [g EXCEPT !.commands = c].poc = g.poc
                /\ [g EXCEPT !.commands = c].num = g.num
                /\ [g EXCEPT !.commands = c].structure = "frame"
                /\ [g EXCEPT !.commands = c].longTerm = FALSE
                /\ [g EXCEPT !.commands = c].commands = c
                /\ [g EXCEPT !.commands = c].reorder0 = << >>
      /\ \A c : /\ [g EXCEPT !.reorder1 = c].idr = g.idr /\ [g EXCEPT !.reorder1 = c].ref = g.ref
                /\ [g EXCEPT !.reorder1 = c].slice = g.slice
                /\ [g EXCEPT !.reorder1 = c].poc = g.poc
                /\ [g EXCEPT !.reorder1 = c].num = g.num
                /\ [g EXCEPT !.reorder1 = c].structure = "frame"
                /\ [g EXCEPT !.reorder1 = c].longTerm = FALSE
                /\ [g EXCEPT !.reorder1 = c].commands = << >>
                /\ [g EXCEPT !.reorder1 = c].reorder0 = << >>
  BY DEF PlainHeader
<1>2. \/ h = g
      \/ /\ kind = "commands" /\ g.slice # "B"
         /\ \E diff : h = [g EXCEPT !.commands = <<[op |-> "short_unused", args |-> <<diff>>]>>]
      \/ kind = "commands" /\ \E c : h = [g EXCEPT !.reorder1 = c]
  BY <1>1 DEF Variants
<1>3. g.num \in 0 .. (MaxFrameNum - 1)
  <2>1. Len(refs) \in Nat /\ MaxFrameNum \in Nat \ {0}
    BY H264DpbAssumption DEF GroupInv, H264DpbAssumption
  <2>2. QED
    BY <2>1 DEF FrameNum
<1>4. h.poc \in Nat => h.poc \in 0 .. (PocMod - 1)
  BY H264DpbAssumption DEF H264DpbAssumption
<1>5. CASE h = g
  BY <1>1, <1>3, <1>4, <1>5 DEF HeaderOK
<1>6. CASE kind = "commands" /\ g.slice # "B"
           /\ \E diff : h = [g EXCEPT !.commands = <<[op |-> "short_unused", args |-> <<diff>>]>>]
  <2>1. PICK diff : h = [g EXCEPT !.commands = <<[op |-> "short_unused", args |-> <<diff>>]>>]
    BY <1>6
  <2> DEFINE c == [op |-> "short_unused", args |-> <<diff>>]
  <2>2. c.op = "short_unused" /\ h = [g EXCEPT !.commands = <<c>>]
    BY <2>1
  <2> HIDE DEF c
  <2>3. /\ h.idr = g.idr /\ h.ref = g.ref /\ h.slice = g.slice /\ h.poc = g.poc /\ h.num = g.num
        /\ h.structure = "frame" /\ h.longTerm = FALSE /\ h.commands = <<c>> /\ h.reorder0 = << >>
    BY <1>1, <2>2
  <2>4. QED
    BY <1>1, <1>3, <1>4, <1>6, <2>2, <2>3 DEF HeaderOK
<1>7. CASE kind = "commands" /\ \E c : h = [g EXCEPT !.reorder1 = c]
  <2>1. PICK c : h = [g EXCEPT !.reorder1 = c]
    BY <1>7
  <2>2. /\ h.idr = g.idr /\ h.ref = g.ref /\ h.slice = g.slice /\ h.poc = g.poc /\ h.num = g.num
        /\ h.structure = "frame" /\ h.longTerm = FALSE /\ h.commands = << >> /\ h.reorder0 = << >>
    BY <1>1, <2>1
  <2>3. QED
    BY <1>1, <1>3, <1>4, <1>7, <2>2 DEF HeaderOK
<1>8. QED
  BY <1>2, <1>5, <1>6, <1>7

\* vdec_h264_header_done puts picture n of the stream in a free slot, and its key among
\* the others'.
LEMMA NewWaiting ==
  ASSUME GroupInv, WaitInv, KeyInv, NEW n \in Nat, NEW h, HeaderOK(h), NewPicture(n, h),
         phase = "header", base' \in Nat, h.poc = n - base',
         n \notin Due, Due' = Due \cup {n},
         IF h.idr THEN base' = n /\ \A m \in Due : m < n ELSE base' = base
  PROVE  /\ WaitInv' /\ KeyInv' /\ InUse' = InUse \cup {slot'} /\ slot' \in Slot \ InUse
         /\ number'[slot'] = n /\ \A s \in Slot \ {slot'} : number'[s] = number[s]
         /\ slots'[slot'].state = "init" /\ slots'[slot'].num = h.num
         /\ slots'[slot'].type = (IF h.ref THEN "short" ELSE "non")
         /\ \A s \in Slot \ {slot'} :
              /\ slots'[s].num = slots[s].num /\ slots'[s].type = slots[s].type
              /\ slots'[s].poc = slots[s].poc
              /\ \/ slots'[s].state = slots[s].state
                 \/ slots[s].state = "ref_in_use" /\ slots'[s].state = "output_ready"
              /\ h.idr => slots'[s].state # "ref_in_use"
              /\ ~h.idr /\ h.commands = << >> => slots'[s] = slots[s]
         /\ slots'[slot'].poc = h.poc
         /\ phase' = "lists" /\ current' = h /\ shown' = shown
<1> DEFINE p == FirstFree
<1>1. /\ p \in Slot /\ p \notin InUse /\ p \in 1 .. size /\ slots[p].state = "unused"
  BY FreeFacts DEF NewPicture, WaitInv
<1>2. /\ slot' = p /\ current' = h /\ phase' = "lists" /\ shown' = shown
      /\ number' = [number EXCEPT ![p] = n]
      /\ sequence' = SequenceAfter(h) /\ size' = size /\ slots' = Added(p, h)
  BY DEF NewPicture, NewPic
<1> HIDE DEF p
<1>3. /\ slots' \in [Slot -> Picture] /\ InUse' = InUse \cup {p}
      /\ sequence' = (IF h.idr THEN sequence + 1 ELSE sequence)
      /\ sequence' \in 0 .. (SequenceMod - 1)
      /\ slots'[p].state = "init" /\ slots'[p].type = (IF h.ref THEN "short" ELSE "non")
      /\ slots'[p].num = h.num /\ slots'[p].poc = h.poc /\ slots'[p].seq = sequence'
      /\ \A s \in Slot \ {p} :
           /\ slots'[s].seq = slots[s].seq /\ slots'[s].poc = slots[s].poc
           /\ slots'[s].num = slots[s].num /\ slots'[s].type = slots[s].type
           /\ \/ slots'[s].state = slots[s].state
              \/ slots[s].state = "ref_in_use" /\ slots'[s].state = "output_ready"
           /\ h.idr => slots'[s].state # "ref_in_use"
           /\ ~h.idr /\ h.commands = << >> => slots'[s] = slots[s]
  BY <1>1, <1>2, AddedPicture
<1>4. /\ number' \in [Slot -> Nat] /\ number'[p] = n /\ \A s \in Slot \ {p} : number'[s] = number[s]
      /\ InUse \subseteq Slot \ {p} /\ number \in [Slot -> Nat]
  BY <1>1, <1>2, KeptFacts DEF WaitInv
<1>5. NumbersOf(InUse) = Due /\ \A s \in InUse : number[s] # n /\ number[s] \in Due
  BY DEF WaitInv, NumbersOf
<1>6. NumbersOf(InUse)' = Due'
  <2>1. NumbersOf(InUse)' = NumbersOf(InUse) \cup {n}
    BY <1>3, <1>4 DEF NumbersOf
  <2>2. QED
    BY <1>5, <2>1
<1>7. \A s, t \in InUse' : number'[s] = number'[t] => s = t
  BY <1>3, <1>4, <1>5 DEF WaitInv
<1>8. InJob' /\ ~InJob
  BY <1>2 DEF InJob
<1>9. ASSUME NEW s \in Slot
      PROVE  /\ slots'[s].type # "long"
             /\ slots'[s].state = "unused" => slots'[s].type = "non"
             /\ slots'[s].state = "ref_in_use" => slots'[s].type = "short"
             /\ slots'[s].state # "unused" => s \in InUse'
             /\ s \in InUse' => (slots'[s].state = "init" <=> s = p)
  <2>1. CASE s = p
    BY <1>3, <2>1
  <2>2. CASE s # p
    <3>1. s \in InUse => slots[s].state # "init"
      BY <1>8 DEF WaitInv
    <3>2. QED
      BY <1>3, <2>2, <3>1 DEF WaitInv
  <2>3. QED
    BY <2>1, <2>2
<1>10. WaitInv'
  BY <1>1, <1>2, <1>3, <1>4, <1>6, <1>7, <1>8, <1>9 DEF WaitInv
<1>11. KeyInv'
  <2> DEFINE q == sequence * PocMod
  <2>1. /\ sequence \in Nat /\ PocMod \in Nat \ {0} /\ q \in Nat
        /\ (sequence + 1) * PocMod = q + PocMod /\ base \in Nat
    BY H264DpbAssumption DEF WaitInv, GroupInv, H264DpbAssumption
  <2>2. \A s \in InUse : /\ KeyOf(slots'[s]) = KeyOf(slots[s]) /\ slots'[s].seq = slots[s].seq
                         /\ slots'[s].poc = slots[s].poc /\ number'[s] = number[s]
    BY <1>3, <1>4 DEF KeyOf
  <2>3. \A s \in InUse : /\ slots[s].poc \in 0 .. (PocMod - 1) /\ number[s] \in Nat
                         /\ KeyOf(slots[s]) \in Nat
    BY <1>4, KeptFacts DEF WaitInv, Picture
  <2>4. KeyOf(slots'[p]) = sequence' * PocMod + (n - base')
    BY <1>3 DEF KeyOf
  <2>5. \A s \in InUse : IF number[s] < base THEN KeyOf(slots[s]) < q
                         ELSE KeyOf(slots[s]) = q + number[s] - base
    BY <2>1 DEF KeyInv, KeyOf
  <2>6. \A s \in InUse : KeyOf(slots[s]) < q + PocMod
    <3>1. ASSUME NEW s \in InUse
          PROVE  KeyOf(slots[s]) < q + PocMod
      <4>1. CASE number[s] < base
        BY <2>1, <2>3, <2>5, <4>1
      <4>2. CASE ~(number[s] < base)
        <5>1. KeyOf(slots[s]) = q + slots[s].poc
          BY <4>2 DEF KeyInv, KeyOf
        <5>2. QED
          BY <2>1, <2>3, <5>1
      <4>3. QED
        BY <4>1, <4>2
    <3>2. QED
      BY <3>1
  <2>7. h.poc \in Nat
    BY DEF HeaderOK
  <2> HIDE DEF q
  <2>8. CASE h.idr
    <3>1. /\ sequence' * PocMod = q + PocMod /\ base' = n
          /\ KeyOf(slots'[p]) = q + PocMod /\ \A s \in InUse : number[s] < n
      BY <1>3, <1>5, <2>1, <2>4, <2>8 DEF q
    <3>2. \A s, t \in InUse' : number'[s] < number'[t] => KeyOf(slots'[s]) < KeyOf(slots'[t])
      <4>1. \A s, t \in InUse : number'[s] < number'[t] => KeyOf(slots'[s]) < KeyOf(slots'[t])
        BY <2>2 DEF KeyInv
      <4>2. \A s \in InUse : /\ number'[s] < number'[p] /\ ~(number'[p] < number'[s])
                             /\ KeyOf(slots'[s]) < KeyOf(slots'[p])
        BY <1>4, <2>2, <2>3, <2>6, <3>1
      <4>3. ~(number'[p] < number'[p])
        BY <1>4
      <4>4. QED
        BY <1>3, <4>1, <4>2, <4>3
    <3>3. \A s \in InUse' : IF number'[s] < base' THEN KeyOf(slots'[s]) < sequence' * PocMod
                            ELSE slots'[s].seq = sequence' /\ slots'[s].poc = number'[s] - base'
      <4>1. ~(number'[p] < base') /\ slots'[p].seq = sequence' /\ slots'[p].poc = number'[p] - base'
        BY <1>3, <1>4, <3>1
      <4>2. \A s \in InUse : number'[s] < base' /\ KeyOf(slots'[s]) < sequence' * PocMod
        BY <2>2, <2>6, <3>1
      <4>3. QED
        BY <1>3, <4>1, <4>2
    <3>4. QED
      BY <3>2, <3>3 DEF KeyInv
  <2>9. CASE ~h.idr
    <3>1. /\ sequence' = sequence /\ base' = base /\ n >= base
          /\ KeyOf(slots'[p]) = q + n - base
      BY <1>3, <2>1, <2>4, <2>7, <2>9 DEF q
    <3>2. \A s, t \in InUse' : number'[s] < number'[t] => KeyOf(slots'[s]) < KeyOf(slots'[t])
      <4>1. \A s, t \in InUse : number'[s] < number'[t] => KeyOf(slots'[s]) < KeyOf(slots'[t])
        BY <2>2 DEF KeyInv
      <4>2. \A s \in InUse : /\ number'[s] < number'[p] => KeyOf(slots'[s]) < KeyOf(slots'[p])
                             /\ number'[p] < number'[s] => KeyOf(slots'[p]) < KeyOf(slots'[s])
        BY <1>4, <2>1, <2>2, <2>3, <2>5, <3>1
      <4>3. ~(number'[p] < number'[p])
        BY <1>4
      <4>4. QED
        BY <1>3, <4>1, <4>2, <4>3
    <3>3. \A s \in InUse' : IF number'[s] < base' THEN KeyOf(slots'[s]) < sequence' * PocMod
                            ELSE slots'[s].seq = sequence' /\ slots'[s].poc = number'[s] - base'
      <4>1. ~(number'[p] < base') /\ slots'[p].seq = sequence' /\ slots'[p].poc = number'[p] - base'
        BY <1>3, <1>4, <2>1, <3>1
      <4>2. \A s \in InUse : IF number'[s] < base' THEN KeyOf(slots'[s]) < sequence' * PocMod
                             ELSE slots'[s].seq = sequence' /\ slots'[s].poc = number'[s] - base'
        BY <2>2, <3>1 DEF KeyInv
      <4>3. QED
        BY <1>3, <4>1, <4>2
    <3>4. QED
      BY <3>2, <3>3 DEF KeyInv
  <2>10. QED
    BY <2>8, <2>9 DEF HeaderOK
<1>12. QED
  BY <1>1, <1>2, <1>3, <1>4, <1>10, <1>11

\* The references after a header.
LEMMA NewKept ==
  ASSUME GroupInv, WaitInv, KeyInv, NEW n \in Nat, NEW h, HeaderOK(h), NewPicture(n, h),
         phase = "header", base' \in Nat, h.poc = n - base',
         n \notin Due, Due' = Due \cup {n},
         IF h.idr THEN base' = n /\ \A m \in Due : m < n ELSE base' = base
  PROVE  /\ Kept = Short /\ Short' \subseteq Short
         /\ Kept' = Short' \cup (IF h.ref THEN {slot'} ELSE {})
         /\ h.idr => Short' = {}
         /\ ~h.idr /\ h.commands = << >> => Short' = Short
         /\ slot' \notin Short
         /\ Cardinality(Short') <= Cardinality(Short)
<1>1. /\ WaitInv' /\ InUse' = InUse \cup {slot'} /\ slot' \in Slot \ InUse
      /\ slots'[slot'].state = "init" /\ slots'[slot'].type = (IF h.ref THEN "short" ELSE "non")
      /\ \A s \in Slot \ {slot'} :
           /\ slots'[s].type = slots[s].type
           /\ \/ slots'[s].state = slots[s].state
              \/ slots[s].state = "ref_in_use" /\ slots'[s].state = "output_ready"
           /\ h.idr => slots'[s].state # "ref_in_use"
           /\ ~h.idr /\ h.commands = << >> => slots'[s] = slots[s]
      /\ phase' = "lists"
  BY NewWaiting
<1>2. /\ InUse \subseteq Slot /\ IsFiniteSet(Short)
      /\ Short = {s \in InUse : slots[s].state = "ref_in_use"}
      /\ Kept = Short \cup {s \in InUse : slots[s].state = "init" /\ slots[s].type = "short"}
  BY KeptFacts
<1>3. /\ Short' = {s \in InUse' : slots'[s].state = "ref_in_use"}
      /\ Kept' = Short' \cup {s \in InUse' : slots'[s].state = "init" /\ slots'[s].type = "short"}
  <2>1. WaitInv'
    BY <1>1
  <2>2. KeptShape'
    BY <2>1, KeptAlways, PTL
  <2>3. QED
    BY <2>2 DEF KeptShape
<1>4. ~InJob /\ InJob'
  BY <1>1 DEF InJob
<1>5. Kept = Short
  BY <1>2, <1>4 DEF WaitInv
<1>6. Short' \subseteq Short /\ slot' \notin Short
  BY <1>1, <1>2, <1>3
<1>7. {s \in InUse' : slots'[s].state = "init" /\ slots'[s].type = "short"}
        = IF h.ref THEN {slot'} ELSE {}
  <2>1. \A s \in InUse' : slots'[s].state = "init" <=> s = slot'
    <3>1. \A s \in InUse : slots[s].state # "init"
      BY <1>2, <1>4 DEF WaitInv
    <3>2. QED
      BY <1>1, <1>2, <3>1
  <2>2. QED
    BY <1>1, <2>1 DEF HeaderOK
<1>8. h.idr => Short' = {}
  BY <1>1, <1>2, <1>3, <1>6
<1>9. ~h.idr /\ h.commands = << >> => Short' = Short
  BY <1>1, <1>2, <1>3
<1>10. Cardinality(Short') <= Cardinality(Short)
  BY <1>2, <1>6, FS_Subset
<1>11. QED
  BY <1>3, <1>5, <1>6, <1>7, <1>8, <1>9, <1>10

\* An anchor is displayed after the B pictures that are still to come.
AnchorShape(n, h) ==
  /\ n \in Nat /\ n >= next /\ n - next \in Groups /\ phase = "header" /\ bs = {} /\ ~InJob
  /\ next' = n + 1 /\ bs' = next .. (n - 1) /\ base' = (IF h.idr THEN n ELSE base)
  /\ base' \in 0 .. n /\ kind' = kind /\ refs' = refs /\ marked' = marked
  /\ h.idr => n = next
  /\ next = 0 => h.idr
  /\ n \notin Due /\ (\A m \in Due : m < n)
  /\ shown' = shown => Due' = Due \cup {n}
  /\ HeaderOK(h) /\ NewPicture(n, h) /\ h.ref = TRUE /\ h.slice \in {"I", "P"}
  /\ h.idr => h.slice = "I"
  /\ h.poc = n - base' /\ h.num = (IF h.idr THEN 0 ELSE FrameNum)
  /\ kind # "commands" => h.commands = << >>

LEMMA AnchorFacts ==
  ASSUME GroupInv, WaitInv
  PROVE  \A slice \in {"I", "P"}, idr \in BOOLEAN, k \in Groups :
           Anchor(slice, idr, k) => \E n, h : AnchorShape(n, h)
<1>a. SUFFICES ASSUME NEW slice \in {"I", "P"}, NEW idr \in BOOLEAN, NEW k \in Groups,
                      Anchor(slice, idr, k)
               PROVE  \E n, h : AnchorShape(n, h)
  BY Zenon
<1>0. PICK n : n = next + k
  OBVIOUS
<1>1. /\ phase = "header" /\ bs = {}
      /\ next' = n + 1 /\ bs' = next .. (n - 1) /\ base' = (IF idr THEN n ELSE base)
      /\ idr => slice = "I" /\ k = 0 /\ sequence + 1 < SequenceMod
      /\ next = 0 => idr
      /\ kind' = kind /\ refs' = refs /\ marked' = marked
      /\ \E h \in Variants(Plain(idr, TRUE, slice, n)) : NewPicture(n, h)
  BY <1>a, <1>0 DEF Anchor
<1>2. /\ k \in Nat /\ n \in Nat /\ base' \in 0 .. n /\ next \in Nat /\ n - base' \in Nat
      /\ FrameNum \in Int
  BY <1>0, <1>1, StreamAssumption, H264DpbAssumption
     DEF GroupInv, StreamAssumption, FrameNum, H264DpbAssumption
<1>3. PICK h : h \in Variants(Plain(idr, TRUE, slice, n)) /\ NewPicture(n, h)
  BY <1>1
<1>4. h.poc < PocMod
  BY <1>3 DEF NewPicture
<1>5. /\ HeaderOK(h) /\ h.idr = idr /\ h.ref = TRUE /\ h.slice = slice
      /\ h.poc = n - base' /\ h.num = (IF idr THEN 0 ELSE FrameNum)
      /\ kind # "commands" => h.commands = << >>
  <2> DEFINE num == IF idr THEN 0 ELSE FrameNum
             poc == n - base'
             x   == NoHeader
             g   == AnchorOf(x, idr, slice, num, poc)
  <2>1. x \in PlainHeader
    BY DEF NoHeader, PlainHeader
  <2>2. h \in Variants(g)
    BY <1>3 DEF Plain, AnchorOf
  <2>3. num \in Int /\ num \in {0, FrameNum}
    BY <1>2, HeaderNumber, Zenon
  <2>4. poc \in Nat
    BY <1>2, Zenon
  <2>5. num \in Int
    BY <2>3, Zenon
  <2> HIDE DEF x, num, poc
  <2>6. poc \in Int
    BY <2>4
  <2>a. Carries(g, idr, TRUE, slice, num, poc)
    BY <2>1, <2>5, <2>6, AnchorHeader, Zenon
  <2> HIDE DEF g
  <2>7. /\ g \in PlainHeader /\ g.idr = idr /\ g.ref = TRUE /\ g.slice = slice
        /\ g.num = num /\ g.poc = poc
    BY <2>a, Zenon DEF Carries
  <2>8. /\ HeaderOK(h) /\ h.idr = g.idr /\ h.ref = g.ref /\ h.slice = g.slice
        /\ h.poc = g.poc /\ h.num = g.num /\ (kind # "commands" => h.commands = << >>)
    BY <1>1, <1>4, <2>2, <2>3, <2>4, <2>7, VariantFacts
  <2>9. QED
    BY <2>7, <2>8 DEF num, poc
<1>6. n \notin Due /\ \A m \in Due : m < n
  BY <1>0, <1>2 DEF Due
<1>7. shown' = shown => Due' = Due \cup {n}
  <2>1. SUFFICES ASSUME shown' = shown
                 PROVE  Due' = Due \cup {n}
    OBVIOUS
  <2>2. Due' = {m \in Nat : shown <= m /\ m < n + 1 /\ m \notin next .. (n - 1)}
    BY <1>1, <2>1 DEF Due
  <2>3. shown \in 0 .. next
    BY DEF GroupInv
  <2>4. n >= next
    BY <1>0, <1>2
  <2>5. QED
    BY <1>1, <1>2, <2>2, <2>3, <2>4 DEF Due
<1>8. n >= next /\ n - next = k /\ (h.idr => n = next)
  BY <1>0, <1>1, <1>2, <1>5
<1>9. AnchorShape(n, h)
  BY <1>1, <1>2, <1>3, <1>5, <1>6, <1>7, <1>8 DEF InJob, AnchorShape
<1>10. QED
  BY <1>9

\* A B picture is one of those still to come: the first, unless it is a reference.
BShape(n, h) ==
  /\ n \in bs /\ n \in Nat /\ phase = "header" /\ ~InJob
  /\ h.ref => kind = "pyramid" /\ current.slice # "B"
  /\ ~h.ref => \A m \in bs : n <= m
  /\ bs' = bs \ {n} /\ base <= n /\ n < next - 1
  /\ kind' = kind /\ refs' = refs /\ marked' = marked /\ next' = next /\ base' = base
  /\ n \notin Due /\ (shown' = shown => Due' = Due \cup {n})
  /\ HeaderOK(h) /\ NewPicture(n, h) /\ h.idr = FALSE /\ h.slice = "B" /\ h.poc = n - base'
  /\ h.num = FrameNum /\ h.commands = << >>

LEMMA BFacts ==
  ASSUME GroupInv, WaitInv
  PROVE  \A ref \in BOOLEAN : B(ref) => \E n, h : BShape(n, h)
<1>a. SUFFICES ASSUME NEW ref \in BOOLEAN, B(ref)
               PROVE  \E n, h : BShape(n, h)
  BY Zenon
<1>1. /\ phase = "header"
      /\ ref => kind = "pyramid" /\ current.slice # "B"
      /\ kind' = kind /\ next' = next /\ base' = base /\ refs' = refs /\ marked' = marked
  BY <1>a DEF B
<1>2. PICK n \in bs : /\ ref \/ \A m \in bs : n <= m
                      /\ \E h \in Variants(Plain(FALSE, ref, "B", n)) : NewPicture(n, h)
                      /\ bs' = bs \ {n}
  BY <1>a DEF B
<1>3. /\ n \in Nat /\ shown <= n /\ base <= n /\ n < next - 1 /\ next \in Nat
      /\ base \in Nat /\ n - base' \in Nat /\ FrameNum \in Int
  BY <1>1, H264DpbAssumption DEF GroupInv, FrameNum, H264DpbAssumption
<1>4. PICK h : h \in Variants(Plain(FALSE, ref, "B", n)) /\ NewPicture(n, h)
  BY <1>2
<1>5. h.poc < PocMod
  BY <1>4 DEF NewPicture
<1>6. /\ HeaderOK(h) /\ h.idr = FALSE /\ h.ref = ref /\ h.slice = "B"
      /\ h.poc = n - base' /\ h.num = FrameNum /\ h.commands = << >>
  <2> DEFINE poc == n - base'
             x   == NoHeader
             g   == BOf(x, ref, FrameNum, poc)
  <2>1. x \in PlainHeader
    BY DEF NoHeader, PlainHeader
  <2>2. h \in Variants(g)
    BY <1>4 DEF Plain, BOf
  <2>3. poc \in Nat
    BY <1>3, Zenon
  <2>4. FrameNum \in Int
    BY <1>3, Zenon
  <2> HIDE DEF x, poc
  <2>5. poc \in Int
    BY <2>3
  <2>a. Carries(g, FALSE, ref, "B", FrameNum, poc)
    BY <2>1, <2>4, <2>5, BHeader, Zenon
  <2> HIDE DEF g
  <2>6. /\ g \in PlainHeader /\ g.idr = FALSE /\ g.ref = ref /\ g.slice = "B"
        /\ g.num = FrameNum /\ g.poc = poc
    BY <2>a, Zenon DEF Carries
  <2>7. /\ HeaderOK(h) /\ h.idr = g.idr /\ h.ref = g.ref /\ h.slice = g.slice
        /\ h.poc = g.poc /\ h.num = g.num /\ h.commands = << >>
    BY <1>5, <2>2, <2>3, <2>6, VariantFacts
  <2>8. QED
    BY <2>6, <2>7 DEF poc
<1>7. n \notin Due /\ (shown' = shown => Due' = Due \cup {n})
  BY <1>1, <1>2, <1>3 DEF Due
<1>8. BShape(n, h)
  BY <1>1, <1>2, <1>3, <1>4, <1>6, <1>7 DEF InJob, BShape
<1>9. QED
  BY <1>8

\* The picture buffer after the header of picture n.
Placed(n, h) ==
  /\ WaitInv' /\ KeyInv' /\ InUse' = InUse \cup {slot'} /\ slot' \in Slot \ InUse
  /\ number'[slot'] = n /\ \A s \in Slot \ {slot'} : number'[s] = number[s]
  /\ slots'[slot'].state = "init" /\ slots'[slot'].num = h.num /\ slots'[slot'].poc = h.poc
  /\ slots'[slot'].type = (IF h.ref THEN "short" ELSE "non")
  /\ \A s \in Slot \ {slot'} :
       /\ slots'[s].num = slots[s].num /\ slots'[s].type = slots[s].type
       /\ slots'[s].poc = slots[s].poc
       /\ ~h.idr /\ h.commands = << >> => slots'[s] = slots[s]
  /\ phase' = "lists" /\ current' = h /\ shown' = shown
  /\ Kept = Short /\ Short' \subseteq Short /\ slot' \notin Short
  /\ Kept' = Short' \cup (IF h.ref THEN {slot'} ELSE {})
  /\ h.idr => Short' = {}
  /\ ~h.idr /\ h.commands = << >> => Short' = Short
  /\ Cardinality(Short') <= Cardinality(Short)

LEMMA AnchorPlaced ==
  ASSUME FramesInv, NEW n, NEW h, AnchorShape(n, h)
  PROVE  Placed(n, h) /\ h.ref = TRUE
<1> USE DEF FramesInv
<1>1. /\ n \in Nat /\ phase = "header" /\ base' = (IF h.idr THEN n ELSE base) /\ base' \in 0 .. n
      /\ n \notin Due /\ (\A m \in Due : m < n) /\ (shown' = shown => Due' = Due \cup {n})
      /\ HeaderOK(h) /\ NewPicture(n, h) /\ h.ref = TRUE /\ h.poc = n - base'
  BY DEF AnchorShape
<1>2. base' \in Nat /\ shown' = shown
  BY <1>1 DEF NewPicture
<1>3. /\ Kept = Short /\ Short' \subseteq Short
      /\ Kept' = Short' \cup (IF h.ref THEN {slot'} ELSE {})
      /\ h.idr => Short' = {}
      /\ ~h.idr /\ h.commands = << >> => Short' = Short
      /\ slot' \notin Short
      /\ Cardinality(Short') <= Cardinality(Short)
  BY <1>1, <1>2, NewKept
<1>4. QED
  BY <1>1, <1>2, <1>3, NewWaiting DEF Placed

LEMMA BPlaced ==
  ASSUME FramesInv, NEW n, NEW h, BShape(n, h)
  PROVE  Placed(n, h)
<1> USE DEF FramesInv
<1>1. /\ n \in Nat /\ phase = "header" /\ base' = base /\ base \in 0 .. next
      /\ n \notin Due /\ (shown' = shown => Due' = Due \cup {n})
      /\ HeaderOK(h) /\ NewPicture(n, h) /\ h.idr = FALSE /\ h.poc = n - base'
  BY DEF BShape, GroupInv
<1>2. base' \in Nat /\ shown' = shown
  BY <1>1 DEF NewPicture
<1>3. /\ Kept = Short /\ Short' \subseteq Short
      /\ Kept' = Short' \cup (IF h.ref THEN {slot'} ELSE {})
      /\ h.idr => Short' = {}
      /\ ~h.idr /\ h.commands = << >> => Short' = Short
      /\ slot' \notin Short
      /\ Cardinality(Short') <= Cardinality(Short)
  BY <1>1, <1>2, NewKept
<1>4. QED
  BY <1>1, <1>2, <1>3, NewWaiting DEF Placed

LEMMA AnchorFrames ==
  ASSUME FramesInv, NEW n, NEW h, AnchorShape(n, h)
  PROVE  FramesInv' /\ shown' = shown
<1> USE DEF FramesInv
<1>1. /\ n \in Nat /\ n >= next /\ phase = "header" /\ bs = {} /\ ~InJob
      /\ next' = n + 1 /\ bs' = next .. (n - 1) /\ base' = (IF h.idr THEN n ELSE base)
      /\ h.idr => n = next
      /\ kind' = kind /\ refs' = refs /\ base' \in 0 .. n
      /\ n \notin Due /\ (\A m \in Due : m < n)
      /\ shown' = shown => Due' = Due \cup {n}
  BY DEF AnchorShape
<1>2. /\ HeaderOK(h) /\ NewPicture(n, h) /\ h.ref = TRUE
      /\ h.slice \in {"I", "P"} /\ h.poc = n - base'
  BY DEF AnchorShape
<1>a. shown' = shown
  BY <1>2 DEF NewPicture
<1>b. next \in Nat /\ shown \in 0 .. next /\ base \in 0 .. next
  BY DEF GroupInv
<1>c. base' \in Nat
  BY <1>1
<1>3. /\ WaitInv' /\ KeyInv' /\ InUse' = InUse \cup {slot'} /\ slot' \in Slot \ InUse
      /\ number'[slot'] = n /\ \A s \in Slot \ {slot'} : number'[s] = number[s]
      /\ slots'[slot'].state = "init" /\ slots'[slot'].type = "short"
      /\ phase' = "lists" /\ current' = h
  BY <1>2, AnchorPlaced DEF Placed
<1>4. /\ Short' \subseteq Short /\ Kept' = Short' \cup {slot'} /\ Kept = Short
      /\ h.idr => Short' = {}
      /\ Cardinality(Short') <= Cardinality(Short)
  BY <1>2, AnchorPlaced DEF Placed
<1>5. GroupInv'
  <2>1. /\ phase' = "lists" /\ current'.slice # "B" /\ kind \in Kinds /\ refs \in Seq(Nat)
    BY <1>2, <1>3 DEF GroupInv
  <2>2. /\ next' = n + 1 /\ bs' = next .. (n - 1) /\ base' \in 0 .. n /\ kind' = kind /\ refs' = refs
    BY <1>1
  <2>3. h.idr => next = n
    BY <1>1, <1>b
  <2>4. /\ next' \in Nat /\ base' \in 0 .. next' /\ shown' \in 0 .. next'
        /\ bs' \subseteq Nat /\ \A b \in bs' : shown' <= b /\ base' <= b /\ b < next' - 1
    BY <1>1, <1>a, <1>b, <2>2, <2>3
  <2>5. \A b \in bs', c \in Nat : b <= c /\ c < next' - 1 => c \in bs'
    BY <1>1, <1>b, <2>2
  <2>6. \A b \in bs', c, d \in Nat :
          b < c /\ c < next' - 1 /\ c \notin bs' /\ b < d /\ d < next' - 1 /\ d \notin bs' => c = d
    <3>1. ASSUME NEW b \in bs', NEW c \in Nat, b < c, c < next' - 1
          PROVE  c \in bs'
      <4>1. b <= c
        BY <2>4, <3>1
      <4>2. QED
        BY <2>5, <3>1, <4>1
    <3>2. QED
      BY <3>1
  <2>7. QED
    BY <2>1, <2>2, <2>4, <2>5, <2>6 DEF GroupInv
<1>6. CurrentInv'
  <2>1. h.idr => base' = n /\ bs' = {}
    BY <1>1, <1>b
  <2>2. QED
    BY <1>1, <1>2, <1>3, <2>1 DEF CurrentInv
<1>7. KeptInv'
  <2>1. ASSUME NEW b \in bs', NEW s \in InUse', number'[s] > b
        PROVE  slots'[s].state # "output_ready"
    <3>1. b >= next /\ b \in Int
      BY <1>1, <1>b
    <3>2. \A t \in InUse : t # slot' /\ t \in Slot /\ number[t] < next /\ number[t] \in Nat
      BY <1>3, KeptFacts DEF WaitInv, NumbersOf, Due
    <3>3. s = slot'
      BY <1>3, <2>1, <3>1, <3>2, <1>b
    <3>4. QED
      BY <1>3, <3>3
  <2>2. ASSUME NEW s \in Kept'
        PROVE  number'[s] >= base'
    <3>1. CASE s = slot'
      BY <1>1, <1>3, <3>1
    <3>2. CASE s # slot'
      <4>1. s \in Short /\ ~h.idr
        BY <1>4, <3>2
      <4>2. s \in Kept /\ s \in Slot
        BY <1>4, <4>1, KeptFacts
      <4>3. QED
        BY <1>1, <1>3, <3>2, <4>1, <4>2 DEF KeptInv
    <3>3. QED
      BY <3>1, <3>2
  <2>3. Cardinality(Short') <= MaxRefs
    <3>1. Cardinality(Short) \in Nat /\ Cardinality(Short') \in Nat /\ MaxRefs \in Nat
      <4>1. IsFiniteSet(Short) /\ IsFiniteSet(Short')
        BY <1>4, KeptFacts, FS_Subset
      <4>2. QED
        BY <4>1, FS_CardinalityType, H264DpbAssumption DEF H264DpbAssumption
    <3>2. QED
      BY <1>4, <3>1 DEF KeptInv
  <2>4. QED
    BY <2>1, <2>2, <2>3 DEF KeptInv
<1>8. FlushedInv'
  BY <1>3 DEF FlushedInv
<1>9. QED
  BY <1>3, <1>5, <1>6, <1>7, <1>8, <1>a

LEMMA BFrames ==
  ASSUME FramesInv, NEW n, NEW h, BShape(n, h)
  PROVE  FramesInv' /\ shown' = shown
<1> USE DEF FramesInv
<1>1. /\ n \in bs /\ n \in Nat /\ phase = "header" /\ ~InJob
      /\ h.ref => kind = "pyramid" /\ current.slice # "B"
      /\ ~h.ref => \A m \in bs : n <= m
      /\ bs' = bs \ {n}
      /\ kind' = kind /\ refs' = refs /\ next' = next /\ base' = base
      /\ base <= n /\ n < next - 1
      /\ n \notin Due /\ (shown' = shown => Due' = Due \cup {n})
  BY DEF BShape
<1>2. /\ HeaderOK(h) /\ NewPicture(n, h) /\ h.idr = FALSE /\ h.ref \in BOOLEAN
      /\ h.slice = "B" /\ h.poc = n - base' /\ h.commands = << >>
  BY DEF BShape, HeaderOK
<1>a. shown' = shown
  BY <1>2 DEF NewPicture
<1>b. next \in Nat /\ shown \in 0 .. next /\ base \in 0 .. next /\ bs \subseteq Nat
  BY DEF GroupInv
<1>c. base' \in Nat
  BY <1>1, <1>b
<1>3. /\ WaitInv' /\ KeyInv' /\ InUse' = InUse \cup {slot'} /\ slot' \in Slot \ InUse
      /\ number'[slot'] = n /\ \A s \in Slot \ {slot'} : number'[s] = number[s]
      /\ slots'[slot'].state = "init" /\ slots'[slot'].type = (IF h.ref THEN "short" ELSE "non")
      /\ \A s \in Slot \ {slot'} : slots'[s] = slots[s]
      /\ phase' = "lists" /\ current' = h
  BY <1>2, BPlaced DEF Placed
<1>4. /\ Short' \subseteq Short /\ Kept' = Short' \cup (IF h.ref THEN {slot'} ELSE {}) /\ Kept = Short
      /\ Cardinality(Short') <= Cardinality(Short)
  BY <1>2, BPlaced DEF Placed
<1>5. GroupInv'
  <2>1. /\ phase' = "lists" /\ current'.slice = "B" /\ kind \in Kinds /\ refs \in Seq(Nat)
    BY <1>2, <1>3 DEF GroupInv
  <2>2. /\ next' \in Nat /\ base' \in 0 .. next' /\ shown' \in 0 .. next'
        /\ bs' \subseteq Nat /\ \A b \in bs' : shown' <= b /\ base' <= b /\ b < next' - 1
    BY <1>1, <1>a DEF GroupInv
  <2>3. ASSUME kind # "pyramid"
        PROVE  \A b \in bs', c \in Nat : b <= c /\ c < next' - 1 => c \in bs'
    <3>1. ~h.ref
      BY <1>1, <2>3
    <3>2. \A b \in bs', c \in Nat : b <= c /\ c < next - 1 => c \in bs
      BY <1>1, <2>3 DEF GroupInv
    <3>3. \A b \in bs' : n < b
      BY <1>1, <1>b, <3>1
    <3>4. QED
      BY <1>1, <1>b, <3>2, <3>3
  <2>4. \A b \in bs', c, d \in Nat :
          b < c /\ c < next' - 1 /\ c \notin bs' /\ b < d /\ d < next' - 1 /\ d \notin bs' => c = d
    <3>1. CASE h.ref
      <4>1. \A b \in bs', c \in Nat : b <= c /\ c < next - 1 => c \in bs
        BY <1>1, <3>1 DEF GroupInv
      <4>2. \A b \in bs', c \in Nat : b < c /\ c < next' - 1 /\ c \notin bs' => c = n
        <5>1. ASSUME NEW b \in bs', NEW c \in Nat, b < c, c < next' - 1, c \notin bs'
              PROVE  c = n
          <6>1. b \in bs /\ b <= c /\ c < next - 1
            BY <1>1, <1>b, <5>1
          <6>2. c \in bs
            BY <4>1, <6>1
          <6>3. QED
            BY <1>1, <5>1, <6>2
        <5>2. QED
          BY <5>1
      <4>3. QED
        BY <4>2
    <3>2. CASE ~h.ref
      <4>1. \A b \in bs', c \in Nat : b < c /\ c \notin bs' => c \notin bs
        BY <1>1, <1>b, <3>2
      <4>2. QED
        BY <1>1, <4>1 DEF GroupInv
    <3>3. QED
      BY <3>1, <3>2
  <2>5. QED
    BY <1>1, <2>1, <2>2, <2>3, <2>4 DEF GroupInv
<1>6. CurrentInv'
  <2>1. ~h.ref => \A b \in bs' : n < b
    BY <1>1, <1>b
  <2>2. QED
    BY <1>2, <1>3, <2>1 DEF CurrentInv
<1>7. KeptInv'
  <2>1. ASSUME NEW b \in bs', NEW s \in InUse', number'[s] > b
        PROVE  slots'[s].state # "output_ready"
    <3>1. CASE s = slot'
      BY <1>3, <3>1
    <3>2. CASE s # slot'
      <4>1. s \in InUse /\ s \in Slot /\ number[s] > b /\ b \in bs
        BY <1>1, <1>3, <2>1, <3>2, KeptFacts
      <4>2. slots[s].state # "output_ready"
        BY <4>1 DEF KeptInv
      <4>3. QED
        BY <1>3, <3>2, <4>1, <4>2
    <3>3. QED
      BY <3>1, <3>2
  <2>2. ASSUME NEW s \in Kept'
        PROVE  number'[s] >= base'
    <3>1. CASE s = slot'
      BY <1>1, <1>3, <3>1
    <3>2. CASE s # slot'
      <4>1. s \in Kept /\ s \in Slot
        BY <1>4, <3>2, KeptFacts
      <4>2. QED
        BY <1>1, <1>3, <3>2, <4>1 DEF KeptInv
    <3>3. QED
      BY <3>1, <3>2
  <2>3. Cardinality(Short') <= MaxRefs
    <3>1. Cardinality(Short) \in Nat /\ Cardinality(Short') \in Nat /\ MaxRefs \in Nat
      <4>1. IsFiniteSet(Short) /\ IsFiniteSet(Short')
        BY <1>4, KeptFacts, FS_Subset
      <4>2. QED
        BY <4>1, FS_CardinalityType, H264DpbAssumption DEF H264DpbAssumption
    <3>2. QED
      BY <1>4, <3>1 DEF KeptInv
  <2>4. QED
    BY <2>1, <2>2, <2>3 DEF KeptInv
<1>8. FlushedInv'
  BY <1>3 DEF FlushedInv
<1>9. QED
  BY <1>3, <1>5, <1>6, <1>7, <1>8, <1>a

\* One iteration of amlvdec_h264_dpb_flush_output gives out the first picture that
\* is missing, and it is not one of those still to come.
ShowShape(s) ==
  /\ s \in InUse /\ slots[s].state # "init" /\ phase # "header"
  /\ slots[s].state = "output_ready" \/ bs = {}
  /\ \A t \in InUse \ {s} : KeyOf(slots[t]) >= KeyOf(slots[s])
  /\ RecyclePic(s) /\ shown' = number[s] + 1 /\ number' = [number EXCEPT ![s] = 0]
  /\ UNCHANGED <<phase, current, slot, groupVars, queued>>

LEMMA ShowFirst ==
  ASSUME FramesInv, NEW s, ShowShape(s)
  PROVE  number[s] = shown /\ shown \in Due /\ shown < next
<1> USE DEF FramesInv
<1>1. /\ s \in InUse /\ \A t \in InUse \ {s} : KeyOf(slots[t]) >= KeyOf(slots[s])
      /\ slots[s].state = "output_ready" \/ bs = {}
  BY DEF ShowShape
<1>2. NumbersOf(InUse) = Due /\ \A t \in InUse : KeyOf(slots[t]) \in Nat
  BY KeptFacts DEF WaitInv
<1>3. number[s] \in Due /\ number[s] \in Nat /\ shown <= number[s] /\ number[s] < next
  BY <1>1, <1>2 DEF NumbersOf, Due
<1>4. next \in Nat /\ shown \in Nat
  BY DEF GroupInv
<1>5. \A m \in Due : ~(m < number[s])
  <2>1. ASSUME NEW m \in Due, m < number[s]
        PROVE  FALSE
    <3>1. PICK t \in InUse : number[t] = m
      BY <1>2 DEF NumbersOf
    <3>2. KeyOf(slots[t]) < KeyOf(slots[s])
      BY <1>1, <2>1, <3>1 DEF KeyInv
    <3>3. t # s
      BY <1>2, <3>2
    <3>4. QED
      BY <1>1, <1>2, <3>1, <3>2, <3>3
  <2>2. QED
    BY <2>1
<1>6. number[s] = shown
  <2>1. SUFFICES ASSUME number[s] # shown
                 PROVE  FALSE
    OBVIOUS
  <2>2. shown < number[s]
    BY <1>3, <1>4, <2>1
  <2>3. shown \in bs
    BY <1>3, <1>4, <1>5, <2>2 DEF Due
  <2>4. slots[s].state # "output_ready"
    BY <1>1, <2>2, <2>3 DEF KeptInv
  <2>5. QED
    BY <1>1, <2>3, <2>4
<1>7. QED
  BY <1>3, <1>6

\* amlvdec_h264_dpb_recycle_pic empties the slot.
LEMMA RecycledSlot ==
  ASSUME WaitInv, NEW s \in Slot, RecyclePic(s)
  PROVE  /\ slots' \in [Slot -> Picture] /\ size' = size /\ sequence' = sequence
         /\ slots'[s].state = "unused" /\ slots'[s].type = "non"
         /\ \A t \in Slot \ {s} : slots'[t] = slots[t]
         /\ InUse' = InUse \ {s}
<1> DEFINE x == slots[s]
           y == Recycled(x.structure)
<1>1. slots' = [slots EXCEPT ![s] = y] /\ UNCHANGED <<size, sequence>>
  BY DEF RecyclePic
<1>2. slots \in [Slot -> Picture] /\ x \in Picture /\ size \in 0 .. NumSlots
  BY DEF WaitInv
<1>3. y \in Picture /\ y.state = "unused" /\ y.type = "non"
  <2>1. /\ 0 \in 0 .. (MaxFrameNum - 1) /\ 0 \in 0 .. (PocMod - 1) /\ 0 \in 0 .. (SequenceMod - 1)
        /\ NoIdx \in Int /\ x.structure \in Structure
    BY <1>2, H264DpbAssumption DEF H264DpbAssumption, NoIdx, Picture
  <2>2. QED
    BY <2>1 DEF Recycled, Picture, SlotState
<1> HIDE DEF x, y
<1>4. slots' \in [Slot -> Picture] /\ slots'[s] = y /\ \A t \in Slot \ {s} : slots'[t] = slots[t]
  BY <1>1, <1>2, <1>3
<1>5. 1 .. size \subseteq Slot
  BY <1>2, H264DpbAssumption DEF Slot, H264DpbAssumption
<1>6. InUse' = InUse \ {s}
  BY <1>1, <1>3, <1>4, <1>5 DEF InUse, InUseOf
<1>7. QED
  BY <1>1, <1>3, <1>4, <1>6

LEMMA ShowFrames ==
  ASSUME FramesInv, NEW s, ShowShape(s)
  PROVE  FramesInv' /\ shown \in Due /\ shown' = shown + 1 /\ UNCHANGED <<next, bs>>
<1> USE DEF FramesInv
<1>1. /\ s \in InUse /\ slots[s].state # "init" /\ phase # "header"
      /\ RecyclePic(s) /\ shown' = number[s] + 1 /\ number' = [number EXCEPT ![s] = 0]
      /\ UNCHANGED <<phase, current, slot, kind, next, base, bs, refs>>
  BY DEF ShowShape, groupVars
<1>2. number[s] = shown /\ shown \in Due /\ shown < next
  BY ShowFirst
<1>3. /\ InUse \subseteq Slot /\ IsFiniteSet(InUse)
      /\ Kept = Short \cup {t \in InUse : slots[t].state = "init" /\ slots[t].type = "short"}
      /\ Short = {t \in InUse : slots[t].state = "ref_in_use"} /\ IsFiniteSet(Short)
  BY KeptFacts
<1>4. /\ slots' \in [Slot -> Picture] /\ size' = size /\ sequence' = sequence
      /\ slots'[s].state = "unused" /\ slots'[s].type = "non"
      /\ \A t \in Slot \ {s} : slots'[t] = slots[t]
      /\ InUse' = InUse \ {s}
  BY <1>1, <1>3, RecycledSlot
<1>5. /\ number' \in [Slot -> Nat] /\ \A t \in Slot \ {s} : number'[t] = number[t]
      /\ shown' = shown + 1 /\ shown \in Nat /\ next \in Nat /\ shown \notin bs
  BY <1>1, <1>2 DEF WaitInv, GroupInv, Due
<1>6. GroupInv'
  <2>1. /\ phase \in {"header", "lists", "decode", "output", "drain"} /\ kind \in Kinds
        /\ refs \in Seq(Nat) /\ base \in 0 .. next
        /\ bs \subseteq Nat /\ \A b \in bs : shown <= b /\ base <= b /\ b < next - 1
        /\ \A b \in bs, c \in Nat :
             (kind # "pyramid" \/ current.slice # "B") /\ b <= c /\ c < next - 1 => c \in bs
        /\ \A b \in bs, c, d \in Nat :
             b < c /\ c < next - 1 /\ c \notin bs /\ b < d /\ d < next - 1 /\ d \notin bs => c = d
        /\ phase = "drain" => bs = {}
    BY DEF GroupInv
  <2>2. shown' \in 0 .. next /\ \A b \in bs : shown' <= b
    BY <1>2, <1>5, <2>1
  <2>3. QED
    BY <1>1, <2>1, <2>2 DEF GroupInv
<1>7. InJob' = InJob
  BY <1>1 DEF InJob
<1>8. InJob => s # slot
  BY <1>1, <1>3 DEF WaitInv
<1>9. WaitInv'
  <2>1. \A t, u \in InUse' : number'[t] = number'[u] => t = u
    BY <1>3, <1>4, <1>5 DEF WaitInv
  <2>2. NumbersOf(InUse)' = Due'
    <3>1. NumbersOf(InUse)' = {number[t] : t \in InUse \ {s}}
      BY <1>3, <1>4, <1>5 DEF NumbersOf
    <3>2. {number[t] : t \in InUse \ {s}} = Due \ {shown}
      BY <1>1, <1>2 DEF WaitInv, NumbersOf
    <3>3. Due' = {n \in Nat : shown + 1 <= n /\ n < next /\ n \notin bs}
      BY <1>1, <1>5 DEF Due
    <3>4. Due' = Due \ {shown}
      BY <1>5, <3>3 DEF Due
    <3>5. QED
      BY <3>1, <3>2, <3>4
  <2>3. ASSUME NEW t \in Slot
        PROVE  /\ slots'[t].type # "long"
               /\ slots'[t].state = "unused" => slots'[t].type = "non"
               /\ slots'[t].state = "ref_in_use" => slots'[t].type = "short"
               /\ slots'[t].state # "unused" => t \in InUse'
               /\ t \in InUse' => (slots'[t].state = "init" <=> InJob' /\ t = slot')
    <3>1. CASE t = s
      BY <1>4, <3>1
    <3>2. CASE t # s
      BY <1>1, <1>4, <1>7, <3>2 DEF WaitInv
    <3>3. QED
      BY <3>1, <3>2
  <2>4. size' \in 0 .. NumSlots /\ sequence' \in 0 .. (SequenceMod - 1)
    BY <1>4 DEF WaitInv
  <2>5. QED
    BY <1>4, <1>5, <2>1, <2>2, <2>3, <2>4 DEF WaitInv
<1>10. CurrentInv'
  <2>1. SUFFICES ASSUME InJob
                 PROVE  CurrentInv'
    BY <1>7 DEF CurrentInv
  <2>2. slot \in InUse /\ slot # s /\ slot \in Slot
    BY <1>3, <1>8, <2>1 DEF CurrentInv
  <2>3. slots'[slot] = slots[slot] /\ number'[slot] = number[slot] /\ slot \in InUse'
    BY <1>4, <1>5, <2>2
  <2>4. QED
    BY <1>1, <2>1, <2>3 DEF CurrentInv
<1>11. KeyInv'
  <2>1. \A t \in InUse' : /\ t \in InUse /\ slots'[t] = slots[t] /\ number'[t] = number[t]
    BY <1>3, <1>4, <1>5
  <2>2. \A t, u \in InUse' : number'[t] < number'[u] => KeyOf(slots'[t]) < KeyOf(slots'[u])
    BY <2>1 DEF KeyInv
  <2>3. \A t \in InUse' : IF number'[t] < base' THEN KeyOf(slots'[t]) < sequence' * PocMod
                          ELSE slots'[t].seq = sequence' /\ slots'[t].poc = number'[t] - base'
    BY <1>1, <1>4, <2>1 DEF KeyInv
  <2>4. QED
    BY <2>2, <2>3 DEF KeyInv
<1>12. KeptInv'
  <2>1. KeptShape'
    BY <1>9, KeptAlways, PTL
  <2>2. Kept' \subseteq Kept \ {s} /\ Short' \subseteq Short
    BY <1>3, <1>4, <2>1 DEF KeptShape
  <2>3. \A b \in bs', t \in InUse' : number'[t] > b => slots'[t].state # "output_ready"
    BY <1>1, <1>3, <1>4, <1>5 DEF KeptInv
  <2>4. \A t \in Kept' : number'[t] >= base'
    BY <1>1, <1>3, <1>5, <2>2 DEF KeptInv
  <2>5. Cardinality(Short') <= MaxRefs
    <3>1. IsFiniteSet(Short') /\ Cardinality(Short') <= Cardinality(Short)
      BY <1>3, <2>2, FS_Subset
    <3>2. Cardinality(Short) \in Nat /\ Cardinality(Short') \in Nat /\ MaxRefs \in Nat
      BY <1>3, <3>1, FS_CardinalityType, H264DpbAssumption DEF H264DpbAssumption
    <3>3. QED
      BY <3>1, <3>2 DEF KeptInv
  <2>6. QED
    BY <2>3, <2>4, <2>5 DEF KeptInv
<1>13. FlushedInv'
  BY <1>1 DEF FlushedInv
<1>14. QED
  BY <1>1, <1>2, <1>6, <1>9, <1>10, <1>11, <1>12, <1>13

\* When a picture is done, what is displayed after a B picture still to come stays a
\* reference: those are the last anchor and one B picture at most, and the window has
\* room for them.
LEMMA DoneFrames ==
  ASSUME FramesInv, Done
  PROVE  FramesInv' /\ UNCHANGED <<shown, next, bs>>
<1> USE DEF FramesInv
<1>1. /\ phase = "decode" /\ PicDone(slot) /\ phase' = "output"
      /\ kind' = kind /\ current' = current /\ next' = next /\ base' = base /\ bs' = bs
      /\ number' = number /\ shown' = shown
      /\ refs' = IF current.idr THEN <<number[slot]>>
                 ELSE IF current.ref THEN Append(refs, number[slot]) ELSE refs
  BY DEF Done
<1>2. InJob /\ ~InJob'
  BY <1>1 DEF InJob
<1>3. slot \in InUse /\ (current.ref <=> slots[slot].type = "short")
      /\ (~current.ref => \A b \in bs : number[slot] < b)
  BY <1>2 DEF CurrentInv
<1>4. PICK D \in SUBSET Kept :
        /\ \A s \in Slot : slots'[s].state = (IF s \notin InUse THEN "unused"
                                              ELSE IF s \in Kept \ D THEN "ref_in_use"
                                              ELSE "output_ready")
        /\ IF Cardinality(Kept) <= MaxRefs THEN D = {}
           ELSE \E d \in Kept : /\ D = {d}
                                /\ \A t \in Kept : KeyOf(slots[d]) <= KeyOf(slots[t])
  BY <1>1, <1>2, <1>3, DonePicture
<1>5. /\ slots' \in [Slot -> Picture] /\ InUse' = InUse
      /\ \A s \in Slot :
           /\ slots'[s].seq = slots[s].seq /\ slots'[s].poc = slots[s].poc
           /\ slots'[s].num = slots[s].num /\ slots'[s].type = slots[s].type
  BY <1>1, <1>2, <1>3, DonePicture
<1>6. /\ InUse \subseteq Slot /\ IsFiniteSet(InUse) /\ IsFiniteSet(Kept) /\ IsFiniteSet(Short)
      /\ Kept = Short \cup {t \in InUse : slots[t].state = "init" /\ slots[t].type = "short"}
      /\ Short = {t \in InUse : slots[t].state = "ref_in_use"}
      /\ \A t \in InUse : slots[t].state \in {"init", "ref_in_use", "output_ready"}
      /\ \A t \in InUse : KeyOf(slots[t]) \in Nat
  BY KeptFacts
<1>7. size' = size /\ sequence' = sequence
  BY <1>1 DEF PicDone
<1>8. /\ next \in Nat /\ number \in [Slot -> Nat] /\ number[slot] \in Nat
  BY <1>3, <1>6 DEF GroupInv, WaitInv
<1>9. GroupInv'
  <2>1. refs' \in Seq(Nat)
    BY <1>1, <1>8 DEF GroupInv
  <2>2. phase' # "drain" /\ phase' \in {"header", "lists", "decode", "output", "drain"}
    BY <1>1
  <2>3. QED
    BY <1>1, <2>1, <2>2 DEF GroupInv
<1>10. WaitInv'
  <2>1. NumbersOf(InUse)' = Due'
    BY <1>1, <1>5 DEF WaitInv, NumbersOf, Due
  <2>2. ASSUME NEW t \in Slot
        PROVE  /\ slots'[t].type # "long"
               /\ slots'[t].state = "unused" => slots'[t].type = "non"
               /\ slots'[t].state = "ref_in_use" => slots'[t].type = "short"
               /\ slots'[t].state # "unused" => t \in InUse'
               /\ t \in InUse' => slots'[t].state # "init"
    <3>1. t \in Kept => slots[t].type = "short"
      BY DEF Kept
    <3>2. t \notin InUse => slots[t].type = "non"
      BY DEF WaitInv
    <3>3. QED
      BY <1>4, <1>5, <3>1, <3>2 DEF WaitInv
  <2>3. size' \in 0 .. NumSlots /\ sequence' \in 0 .. (SequenceMod - 1)
    BY <1>7 DEF WaitInv
  <2>4. \A s, t \in InUse' : number'[s] = number'[t] => s = t
    BY <1>1, <1>5 DEF WaitInv
  <2>5. QED
    BY <1>1, <1>2, <1>5, <1>8, <2>1, <2>2, <2>3, <2>4 DEF WaitInv
<1>11. CurrentInv'
  BY <1>2 DEF CurrentInv
<1>12. KeyInv'
  <2>1. \A t \in InUse : KeyOf(slots'[t]) = KeyOf(slots[t])
    BY <1>5, <1>6 DEF KeyOf
  <2>2. \A t, u \in InUse' : number'[t] < number'[u] => KeyOf(slots'[t]) < KeyOf(slots'[u])
    BY <1>1, <1>5, <2>1 DEF KeyInv
  <2>3. \A t \in InUse' : IF number'[t] < base' THEN KeyOf(slots'[t]) < sequence' * PocMod
                          ELSE slots'[t].seq = sequence' /\ slots'[t].poc = number'[t] - base'
    BY <1>1, <1>5, <1>6, <1>7, <2>1 DEF KeyInv
  <2>4. QED
    BY <2>2, <2>3 DEF KeyInv
<1>13. KeptShape'
  BY <1>10, KeptAlways, PTL
<1>14. Short' = Kept \ D /\ Kept' = Short'
  <2>1. Short' = {t \in InUse : slots'[t].state = "ref_in_use"}
    BY <1>5, <1>13 DEF KeptShape
  <2>2. Kept \subseteq InUse
    BY DEF Kept
  <2>3. Short' = Kept \ D
    BY <1>4, <1>6, <2>1, <2>2
  <2>4. \A t \in InUse : slots'[t].state # "init"
    BY <1>4, <1>6
  <2>5. QED
    BY <1>5, <1>13, <2>3, <2>4 DEF KeptShape
<1>15. \A b \in bs, s \in InUse : number[s] > b => slots'[s].state # "output_ready"
  <2>1. SUFFICES ASSUME NEW b \in bs, NEW s \in InUse, number[s] > b
                 PROVE  slots'[s].state # "output_ready"
    OBVIOUS
  <2>2. b \in Nat /\ b < next - 1 /\ number[s] \in Nat /\ s \in Slot
    BY <1>6, <1>8 DEF GroupInv
  <2>3. s \in Kept
    <3>1. slots[s].state # "output_ready"
      BY <2>1 DEF KeptInv
    <3>2. slots[s].state = "init" => slots[s].type = "short"
      <4>1. SUFFICES ASSUME slots[s].state = "init"
                     PROVE  slots[s].type = "short"
        OBVIOUS
      <4>2. s = slot
        BY <2>2, <4>1 DEF WaitInv
      <4>3. ~(number[slot] < b)
        BY <2>1, <2>2, <4>2
      <4>4. current.ref
        BY <1>3, <4>3
      <4>5. QED
        BY <1>3, <4>2, <4>4
    <3>3. QED
      BY <1>6, <3>1, <3>2
  <2>4. s \notin D
    <3>1. SUFFICES ASSUME s \in D
                   PROVE  FALSE
      OBVIOUS
    <3>2. /\ ~(Cardinality(Kept) <= MaxRefs)
          /\ \A t \in Kept : KeyOf(slots[s]) <= KeyOf(slots[t])
      BY <1>4, <3>1
    <3>3. \A t \in Kept : /\ t \in InUse /\ number[t] \in Nat /\ number[t] > b
                          /\ number[t] < next /\ number[t] \notin bs
      <4>1. SUFFICES ASSUME NEW t \in Kept
                     PROVE  /\ t \in InUse /\ number[t] \in Nat /\ number[t] > b
                            /\ number[t] < next /\ number[t] \notin bs
        OBVIOUS
      <4>2. t \in InUse /\ number[t] \in Nat
        BY <1>6, <1>8 DEF Kept
      <4>3. number[t] \in Due
        BY <4>2 DEF WaitInv, NumbersOf
      <4>4. ~(KeyOf(slots[t]) < KeyOf(slots[s]))
        BY <1>6, <3>2, <4>2
      <4>5. ~(number[t] < number[s])
        BY <4>2, <4>4 DEF KeyInv
      <4>6. QED
        BY <2>1, <2>2, <4>2, <4>3, <4>5 DEF Due
    <3>4. \A t, u \in Kept : number[t] = number[u] => t = u
      BY <3>3 DEF WaitInv
    <3>5. CASE kind # "pyramid"
      <4>1. \A t \in Kept : number[t] = next - 1
        BY <1>8, <2>2, <3>3, <3>5 DEF GroupInv
      <4>2. Kept \subseteq {s}
        BY <2>3, <3>4, <4>1
      <4>3. Cardinality(Kept) <= 1
        <5>1. IsFiniteSet({s}) /\ Cardinality({s}) = 1
          BY FS_Singleton
        <5>2. Cardinality(Kept) <= Cardinality({s})
          BY <4>2, <5>1, FS_Subset
        <5>3. QED
          BY <5>1, <5>2
      <4>4. QED
        BY <1>6, <3>2, <4>3, FS_CardinalityType, H264DpbAssumption, ReferenceAssumption
           DEF H264DpbAssumption, ReferenceAssumption
    <3>6. CASE kind = "pyramid"
      <4>1. MaxRefs >= 2
        BY <3>6, ReferenceAssumption DEF ReferenceAssumption, GroupInv
      <4>2. \A t, u \in Kept : number[t] # next - 1 /\ number[u] # next - 1 => t = u
        <5>1. ASSUME NEW t \in Kept, NEW u \in Kept, number[t] # next - 1, number[u] # next - 1
              PROVE  number[t] = number[u]
          <6>1. /\ number[t] \in Nat /\ b < number[t] /\ number[t] < next - 1 /\ number[t] \notin bs
                /\ number[u] \in Nat /\ b < number[u] /\ number[u] < next - 1 /\ number[u] \notin bs
            BY <1>8, <2>2, <3>3, <5>1
          <6>2. QED
            BY <6>1 DEF GroupInv
        <5>2. QED
          BY <3>4, <5>1
      <4> DEFINE A == {t \in Kept : number[t] = next - 1}
      <4>3. (\E u : A \subseteq {u}) /\ (\E v : Kept \ A \subseteq {v})
        <5>1. \A t, u \in A : t = u
          BY <3>4
        <5>2. \A t, u \in Kept \ A : t = u
          BY <4>2
        <5> HIDE DEF A
        <5>3. \A S : (\A t, u \in S : t = u) => \E u : S \subseteq {u}
          OBVIOUS
        <5>4. QED
          BY <5>1, <5>2, <5>3
      <4>4. PICK u, v : Kept \subseteq {u, v}
        <5>1. PICK u : A \subseteq {u}
          BY <4>3
        <5>2. PICK v : Kept \ A \subseteq {v}
          BY <4>3
        <5> HIDE DEF A
        <5>3. Kept \subseteq {u, v}
          BY <5>1, <5>2
        <5>4. QED
          BY <5>3
      <4>5. Cardinality(Kept) <= 2
        <5>1. IsFiniteSet({u}) /\ Cardinality({u}) = 1
          BY FS_Singleton
        <5>2. IsFiniteSet({u} \cup {v}) /\ Cardinality({u} \cup {v}) <= 2
          <6> DEFINE U == {u}
          <6>1. IsFiniteSet(U) /\ Cardinality(U) = 1
            BY <5>1
          <6> HIDE DEF U
          <6>2. /\ IsFiniteSet(U \cup {v})
                /\ Cardinality(U \cup {v}) = IF v \in U THEN Cardinality(U) ELSE Cardinality(U) + 1
            BY <6>1, FS_AddElement
          <6>3. IsFiniteSet(U \cup {v}) /\ Cardinality(U \cup {v}) <= 2
            BY <6>1, <6>2
          <6>4. QED
            BY <6>3 DEF U
        <5>3. Kept \subseteq {u} \cup {v}
          BY <4>4
        <5>4. Cardinality(Kept) <= Cardinality({u} \cup {v})
          BY <5>2, <5>3, FS_Subset
        <5>5. Cardinality(Kept) \in Nat /\ Cardinality({u} \cup {v}) \in Nat
          BY <1>6, <5>2, FS_CardinalityType
        <5>6. QED
          BY <5>2, <5>4, <5>5
      <4>6. QED
        BY <1>6, <3>2, <4>1, <4>5, FS_CardinalityType, H264DpbAssumption DEF H264DpbAssumption
    <3>7. QED
      BY <3>5, <3>6
  <2>5. QED
    BY <1>4, <2>2, <2>3, <2>4
<1>16. Cardinality(Short') <= MaxRefs
  <2>1. CASE Cardinality(Kept) <= MaxRefs
    BY <1>4, <1>14, <2>1
  <2>2. CASE ~(Cardinality(Kept) <= MaxRefs)
    <3>1. PICK d \in Kept : D = {d}
      BY <1>4, <2>2
    <3>2. Cardinality(Kept \ {d}) = Cardinality(Kept) - 1
      BY <1>6, <3>1, FS_RemoveElement
    <3>3. Kept \subseteq Short \cup {slot}
      BY <1>6 DEF WaitInv
    <3>4. IsFiniteSet(Short \cup {slot}) /\ Cardinality(Short \cup {slot}) <= Cardinality(Short) + 1
      <4>1. Cardinality(Short) \in Nat
        BY <1>6, FS_CardinalityType
      <4>2. IsFiniteSet(Short \cup {slot})
            /\ (Cardinality(Short \cup {slot}) = Cardinality(Short)
                \/ Cardinality(Short \cup {slot}) = Cardinality(Short) + 1)
        BY <1>6, FS_AddElement
      <4>3. QED
        BY <4>1, <4>2
    <3>5. Cardinality(Kept) <= Cardinality(Short \cup {slot})
      BY <3>3, <3>4, FS_Subset
    <3>6. /\ Cardinality(Kept) \in Nat /\ Cardinality(Short) \in Nat /\ MaxRefs \in Nat
          /\ Cardinality(Short \cup {slot}) \in Nat
      BY <1>6, <3>4, FS_CardinalityType, H264DpbAssumption DEF H264DpbAssumption
    <3>7. Cardinality(Short) <= MaxRefs
      BY DEF KeptInv
    <3>8. QED
      BY <1>14, <3>1, <3>2, <3>4, <3>5, <3>6, <3>7
  <2>3. QED
    BY <2>1, <2>2
<1>17. KeptInv'
  <2>1. \A s \in Kept' : number'[s] >= base'
    BY <1>1, <1>14 DEF KeptInv
  <2>2. QED
    BY <1>1, <1>5, <1>15, <1>16, <2>1 DEF KeptInv
<1>18. FlushedInv'
  BY <1>1 DEF FlushedInv
<1>19. QED
  BY <1>1, <1>9, <1>10, <1>11, <1>12, <1>17, <1>18

\* The steps that leave the picture buffer alone.
LEMMA QuietFrames ==
  ASSUME FramesInv, UNCHANGED <<dpbVars, current, slot, groupVars, number, shown>>,
         phase' \in {"header", "lists", "decode", "output", "drain"}, InJob' <=> InJob,
         phase' = "header" => Outputs(FALSE) = {}, phase' = "drain" => bs = {}
  PROVE  FramesInv'
<1> USE DEF FramesInv
<1>1. /\ UNCHANGED <<slots, size, sequence, current, slot, kind, next, base, bs, refs>>
      /\ number' = number /\ shown' = shown
  BY DEF dpbVars, groupVars
<1>2. /\ InUse' = InUse /\ Short' = Short /\ Kept' = Kept /\ Outputs(FALSE)' = Outputs(FALSE)
      /\ Due' = Due /\ NumbersOf(InUse)' = NumbersOf(InUse)
      /\ \A s : KeyOf(slots'[s]) = KeyOf(slots[s])
  BY <1>1 DEF InUse, InUseOf, Short, RefsOf, Kept, Outputs, Due, NumbersOf
<1>3. GroupInv'
  BY <1>1 DEF GroupInv
<1>4. WaitInv'
  BY <1>1, <1>2 DEF WaitInv
<1>5. CurrentInv'
  BY <1>1, <1>2 DEF CurrentInv
<1>6. KeyInv'
  BY <1>1, <1>2 DEF KeyInv
<1>7. KeptInv'
  BY <1>1, <1>2 DEF KeptInv
<1>8. FlushedInv'
  BY <1>2 DEF FlushedInv
<1>9. QED
  BY <1>3, <1>4, <1>5, <1>6, <1>7, <1>8

\* A flush and the last flush give out a picture as ShowShape says.
LEMMA FlushFrames ==
  ASSUME FramesInv, Flush \/ Drain
  PROVE  \E s : ShowShape(s)
<1> USE DEF FramesInv
<1>1. CASE Flush
  <2>1. PICK s \in Outputs(FALSE) : /\ RecyclePic(s) /\ shown' = number[s] + 1
                                    /\ number' = [number EXCEPT ![s] = 0]
                                    /\ UNCHANGED <<phase, current, slot, groupVars, queued>>
    BY <1>1 DEF Flush, Output
  <2>2. /\ s \in InUse /\ slots[s].state = "output_ready"
        /\ \A t \in InUse \ {s} : KeyOf(slots[t]) >= KeyOf(slots[s])
    BY <2>1 DEF Outputs
  <2>3. phase # "header"
    BY <1>1 DEF Flush
  <2>4. ShowShape(s)
    BY <2>1, <2>2, <2>3 DEF ShowShape
  <2>5. QED
    BY <2>4
<1>2. CASE Drain
  <2>1. PICK s \in Outputs(TRUE) : /\ RecyclePic(s) /\ shown' = number[s] + 1
                                   /\ number' = [number EXCEPT ![s] = 0]
                                   /\ UNCHANGED <<phase, current, slot, groupVars, queued>>
    BY <1>2 DEF Drain, Output
  <2>2. s \in InUse /\ \A t \in InUse \ {s} : KeyOf(slots[t]) >= KeyOf(slots[s])
    BY <2>1 DEF Outputs
  <2>3. phase = "drain" /\ bs = {} /\ ~InJob
    BY <1>2 DEF Drain, GroupInv, InJob
  <2>4. slots[s].state # "init"
    BY <2>2, <2>3, KeptFacts DEF WaitInv
  <2>5. ShowShape(s)
    BY <2>1, <2>2, <2>3, <2>4 DEF ShowShape
  <2>6. QED
    BY <2>5
<1>3. QED
  BY <1>1, <1>2

LEMMA InitFrames == StreamInit => FramesInv
<1> SUFFICES ASSUME StreamInit
             PROVE  FramesInv
  OBVIOUS
<1>1. /\ kind \in Kinds /\ slots = Empty /\ size = Size /\ sequence = 0 /\ phase = "header"
      /\ next = 0 /\ base = 0 /\ bs = {} /\ refs = << >> /\ number = [s \in Slot |-> 0]
      /\ shown = 0
  BY DEF StreamInit
<1>2. size \in 0 .. NumSlots /\ 1 .. size \subseteq Slot /\ 0 \in 0 .. (SequenceMod - 1)
  BY <1>1, StreamAssumption, H264DpbAssumption DEF StreamAssumption, H264DpbAssumption, Slot
<1>3. slots \in [Slot -> Picture] /\ \A s \in Slot : slots[s].state = "unused"
                                                     /\ slots[s].type = "non"
  <2>1. \A s \in Slot : Empty[s].state = "unused" /\ Vacant(Empty[s]) /\ Empty[s] \in Picture
    BY EmptySlotFacts
  <2>2. Empty = [s \in Slot |-> Empty[s]]
    BY DEF Empty
  <2>3. QED
    BY <1>1, <2>1, <2>2 DEF Vacant
<1>4. InUse = {}
  BY <1>2, <1>3 DEF InUse, InUseOf
<1>5. GroupInv
  <2>1. << >> \in Seq(Nat)
    OBVIOUS
  <2>2. QED
    BY <1>1, <2>1 DEF GroupInv
<1>6. WaitInv
  <2>1. NumbersOf(InUse) = Due
    BY <1>1, <1>4 DEF NumbersOf, Due
  <2>2. QED
    BY <1>1, <1>2, <1>3, <1>4, <2>1 DEF WaitInv
<1>7. CurrentInv
  BY <1>1 DEF CurrentInv, InJob
<1>8. KeyInv
  BY <1>4 DEF KeyInv
<1>9. KeptInv
  <2>1. Short = {} /\ Kept = {}
    BY <1>4 DEF Short, RefsOf, InUse, Kept
  <2>2. Cardinality(Short) <= MaxRefs
    BY <2>1, FS_EmptySet, H264DpbAssumption DEF H264DpbAssumption
  <2>3. QED
    BY <1>1, <2>1, <2>2 DEF KeptInv
<1>10. FlushedInv
  BY <1>4 DEF FlushedInv, Outputs
<1>11. QED
  BY <1>5, <1>6, <1>7, <1>8, <1>9, <1>10 DEF FramesInv

\* Every step keeps the invariant, and decodes a picture, shows the next one, or does
\* neither, as far as the abstract specification sees.
LEMMA FramesStep ==
  ASSUME FramesInv, [StreamNext]_streamVars
  PROVE  FramesInv' /\ [Abstract!Next]_Abstract!vars
<1>1. ASSUME NEW slice \in {"I", "P"}, NEW idr \in BOOLEAN, NEW k \in Groups, Anchor(slice, idr, k)
      PROVE  FramesInv' /\ [Abstract!Next]_Abstract!vars
  <2>1. \E n, h : AnchorShape(n, h)
    BY <1>1, AnchorFacts, Zenon DEF FramesInv
  <2>2. PICK n, h : AnchorShape(n, h)
    BY <2>1
  <2>3. FramesInv' /\ shown' = shown
    BY <2>2, AnchorFrames
  <2>4. /\ n \in Nat /\ n >= next /\ bs = {} /\ next' = n + 1 /\ bs' = next .. (n - 1)
        /\ n < MaxPics /\ next \in Nat /\ MaxPics \in Nat
    BY <2>2, StreamAssumption DEF AnchorShape, NewPicture, FramesInv, GroupInv, StreamAssumption
  <2>5. (0 .. (next' - 1)) \ bs' = ((0 .. (next - 1)) \ bs) \cup {n}
    BY <2>4
  <2>6. n \notin (0 .. (next - 1)) \ bs /\ n \in 0 .. (MaxPics - 1)
    BY <2>4
  <2>7. Abstract!Decode(n)
    BY <2>3, <2>5, <2>6 DEF Abstract!Decode
  <2>8. QED
    BY <2>3, <2>6, <2>7 DEF Abstract!Next
<1>2. ASSUME NEW ref \in BOOLEAN, B(ref)
      PROVE  FramesInv' /\ [Abstract!Next]_Abstract!vars
  <2>1. \E n, h : BShape(n, h)
    BY <1>2, BFacts, Zenon DEF FramesInv
  <2>2. PICK n, h : BShape(n, h)
    BY <2>1
  <2>3. FramesInv' /\ shown' = shown
    BY <2>2, BFrames
  <2>4. /\ n \in bs /\ bs' = bs \ {n} /\ next' = next /\ n \in Nat /\ n < next - 1
        /\ n < MaxPics /\ next \in Nat /\ MaxPics \in Nat
    BY <2>2, StreamAssumption DEF BShape, NewPicture, FramesInv, GroupInv, StreamAssumption
  <2>5. (0 .. (next' - 1)) \ bs' = ((0 .. (next - 1)) \ bs) \cup {n}
    BY <2>4
  <2>6. n \notin (0 .. (next - 1)) \ bs /\ n \in 0 .. (MaxPics - 1)
    BY <2>4
  <2>7. Abstract!Decode(n)
    BY <2>3, <2>5, <2>6 DEF Abstract!Decode
  <2>8. QED
    BY <2>3, <2>6, <2>7 DEF Abstract!Next
<1>3. ASSUME Flush \/ Drain
      PROVE  FramesInv' /\ [Abstract!Next]_Abstract!vars
  <2>1. PICK s : ShowShape(s)
    BY <1>3, FlushFrames
  <2>2. FramesInv' /\ shown \in Due /\ shown' = shown + 1 /\ UNCHANGED <<next, bs>>
    BY <2>1, ShowFrames
  <2>3. next \in Nat
    BY DEF FramesInv, GroupInv
  <2>4. shown \in (0 .. (next - 1)) \ bs
    BY <2>2, <2>3 DEF Due
  <2>5. Abstract!Show
    BY <2>2, <2>4 DEF Abstract!Show
  <2>6. QED
    BY <2>2, <2>5 DEF Abstract!Next
<1>4. ASSUME Done
      PROVE  FramesInv' /\ [Abstract!Next]_Abstract!vars
  BY <1>4, DoneFrames DEF Abstract!vars
<1>5. ASSUME FlushEnds
      PROVE  FramesInv' /\ [Abstract!Next]_Abstract!vars
  <2>1. /\ Outputs(FALSE) = {} /\ phase \in {"lists", "output"}
        /\ phase' = IF phase = "lists" THEN "decode" ELSE "header"
        /\ UNCHANGED <<dpbVars, current, slot, groupVars, number, shown>>
    BY <1>5 DEF FlushEnds
  <2>2. FramesInv'
    BY <2>1, QuietFrames DEF InJob
  <2>3. QED
    BY <2>1, <2>2 DEF Abstract!vars, groupVars
<1>6. ASSUME EndOfStream
      PROVE  FramesInv' /\ [Abstract!Next]_Abstract!vars
  <2>1. /\ phase = "header" /\ bs = {} /\ phase' = "drain"
        /\ UNCHANGED <<dpbVars, current, slot, groupVars, number, shown>>
    BY <1>6 DEF EndOfStream
  <2>2. FramesInv'
    BY <2>1, QuietFrames DEF InJob
  <2>3. QED
    BY <2>1, <2>2 DEF Abstract!vars, groupVars
<1>7. ASSUME Requeue \/ UNCHANGED streamVars
      PROVE  FramesInv' /\ [Abstract!Next]_Abstract!vars
  <2>1. phase' = phase /\ UNCHANGED <<dpbVars, current, slot, groupVars, number, shown>>
    BY <1>7 DEF Requeue, streamVars
  <2>2. FramesInv'
    BY <2>1, QuietFrames DEF InJob, FramesInv, GroupInv, FlushedInv
  <2>3. QED
    BY <2>1, <2>2 DEF Abstract!vars, groupVars
<1>8. QED
  BY <1>1, <1>2, <1>3, <1>4, <1>5, <1>6, <1>7, Zenon DEF StreamNext

\* The H.264 picture buffer keeps every picture that was decoded and not shown, the
\* references the B pictures still to come need, and what is displayed after those.
THEOREM FramesKept == StreamSpec => []FramesInv
<1>1. FramesInv /\ [StreamNext]_streamVars => FramesInv'
  BY FramesStep
<1>2. QED
  BY InitFrames, <1>1, PTL DEF StreamSpec

\* Userspace gets the pictures of an H.264 stream in display order, none missing, none
\* twice and none before it was decoded: the picture buffer implements DisplayOrder.
THEOREM FramesInOrder == StreamSpec => InDisplayOrder
<1>1. StreamInit => Abstract!Init
  BY DEF StreamInit, Abstract!Init
<1>2. FramesInv /\ [StreamNext]_streamVars => [Abstract!Next]_Abstract!vars
  BY FramesStep
<1>3. QED
  BY <1>1, <1>2, FramesKept, PTL DEF StreamSpec, InDisplayOrder, Abstract!Spec
-----------------------------------------------------------------------------
\* There is a longest group.
LEMMA LongestGroup == MaxB \in Nat /\ \A k \in Groups : k <= MaxB
<1> DEFINE Rest == {MaxPics - k : k \in Groups}
<1>1. MaxPics \in Nat /\ Groups \subseteq 0 .. MaxPics /\ Groups # {}
  BY StreamAssumption DEF StreamAssumption
<1>2. Rest \subseteq Nat /\ Rest # {}
  <2>1. \A k \in Groups : k \in Nat /\ MaxPics - k \in Nat
    BY <1>1
  <2>2. QED
    BY <1>1, <2>1
<1>3. PICK r \in Rest : \A q \in Rest : r <= q
  BY <1>2, LeastExists
<1>4. PICK k \in Groups : r = MaxPics - k
  BY <1>3
<1>5. \A i \in Groups : i <= k
  <2>1. ASSUME NEW i \in Groups
        PROVE  i <= k
    <3>1. MaxPics - k <= MaxPics - i
      BY <1>3, <1>4
    <3>2. i \in Nat /\ k \in Nat
      BY <1>1
    <3>3. QED
      BY <1>1, <3>1, <3>2
  <2>2. QED
    BY <2>1
<1>6. MaxB \in Groups /\ \A i \in Groups : i <= MaxB
  BY <1>5 DEF MaxB
<1>7. QED
  BY <1>1, <1>6

\* A reference reaches further with every one displayed after it.
LEMMA ReachFacts ==
  ASSUME NEW m \in Nat, NEW c \in Nat, NEW d \in Nat, c <= d
  PROVE  /\ (m + 1) * c \in Nat /\ (m + 1) * c <= (m + 1) * d
         /\ (m + 1) * (c + 1) = (m + 1) * c + m + 1
         /\ c >= 1 => (m + 1) * c >= m + 1
<1>1. \A a, b \in Nat : (m + 1) * (a + b) = (m + 1) * a + (m + 1) * b /\ (m + 1) * a \in Nat
  OBVIOUS
<1>2. d = c + (d - c) /\ d - c \in Nat
  OBVIOUS
<1>3. (m + 1) * d = (m + 1) * c + (m + 1) * (d - c) /\ (m + 1) * (d - c) \in Nat
  BY <1>1, <1>2
<1>4. (m + 1) * 1 = m + 1
  OBVIOUS
<1>5. ASSUME c >= 1
      PROVE  (m + 1) * c >= m + 1
  <2>1. c = (c - 1) + 1 /\ c - 1 \in Nat
    BY <1>5
  <2>2. (m + 1) * c = (m + 1) * (c - 1) + (m + 1) * 1 /\ (m + 1) * (c - 1) \in Nat
    BY <1>1, <2>1
  <2>3. QED
    BY <1>4, <2>2
<1>6. QED
  BY <1>1, <1>3, <1>4, <1>5

LEMMA LaterFacts ==
  ASSUME WaitInv, NEW s
  PROVE  IsFiniteSet(Later(s)) /\ Cardinality(Later(s)) \in Nat
<1>1. IsFiniteSet(Kept) /\ Later(s) \subseteq Kept
  BY KeptFacts DEF Later
<1>2. QED
  BY <1>1, FS_Subset, FS_CardinalityType

LaterShape == \A s \in Kept : IsFiniteSet(Later(s)) /\ Cardinality(Later(s)) \in Nat

LEMMA LaterAlways == WaitInv => LaterShape
BY LaterFacts DEF LaterShape

LEMMA AnchorSpan ==
  ASSUME FramesInv, SpanInv, NEW n, NEW h, AnchorShape(n, h)
  PROVE  SpanInv'
<1> USE DEF FramesInv
<1>1. /\ n \in Nat /\ n >= next /\ n - next \in Groups /\ next' = n + 1 /\ bs' = next .. (n - 1)
      /\ kind' = kind /\ (kind # "commands" => h.commands = << >>) /\ h.idr \in BOOLEAN
      /\ next \in Nat
  BY DEF AnchorShape, HeaderOK, GroupInv
<1>2. /\ Placed(n, h) /\ h.ref = TRUE
  BY AnchorPlaced
<1>3. /\ InUse \subseteq Slot /\ Kept \subseteq InUse /\ number \in [Slot -> Nat]
      /\ NumbersOf(InUse) = Due
  BY KeptFacts DEF Kept, WaitInv
<1>4. MaxB \in Nat /\ n - next <= MaxB
  BY <1>1, LongestGroup
<1>5. \A b \in bs' : next' - 1 - MaxB <= b
  BY <1>1, <1>4
<1>6. LaterShape'
  BY <1>2, LaterAlways, PTL DEF Placed
<1>7. SUFFICES ASSUME kind # "commands", NEW s \in Kept'
               PROVE  next' - number'[s] <= Reach(s)'
  BY <1>1, <1>5 DEF SpanInv
<1>8. IsFiniteSet(Later(s)') /\ Cardinality(Later(s)') \in Nat
  BY <1>6, <1>7 DEF LaterShape
<1>9. CASE s = slot'
  <2>1. next' - number'[s] = 1
    BY <1>1, <1>2, <1>9 DEF Placed
  <2>2. (MaxB + 1) * Cardinality(Later(s)') \in Nat
    BY <1>4, <1>8
  <2>3. QED
    BY <2>1, <2>2 DEF Reach
<1>10. CASE s # slot'
  <2>1. /\ ~h.idr /\ s \in Kept /\ s \in Slot \ {slot'} /\ Kept' = Kept \cup {slot'}
        /\ slot' \notin Kept /\ slot' \in Slot
    BY <1>1, <1>2, <1>3, <1>7, <1>10 DEF Placed
  <2>2. \A t \in Kept : t \in Slot \ {slot'} /\ number'[t] = number[t] /\ number[t] \in Nat
    BY <1>2, <1>3, <2>1 DEF Placed
  <2>3. number[s] \in Nat /\ number[s] < next /\ number'[s] = number[s] /\ number'[slot'] = n
    BY <1>2, <1>3, <2>1, <2>2 DEF Placed, NumbersOf, Due
  <2>4. Later(s)' = Later(s) \cup {slot'}
    BY <1>1, <2>1, <2>2, <2>3 DEF Later
  <2>5. slot' \notin Later(s)
    BY <2>1 DEF Later
  <2>6. IsFiniteSet(Later(s)) /\ Cardinality(Later(s)) \in Nat
    BY LaterFacts
  <2>7. Cardinality(Later(s)') = Cardinality(Later(s)) + 1
    BY <2>4, <2>5, <2>6, FS_AddElement
  <2>8. next - number[s] <= 1 + (MaxB + 1) * Cardinality(Later(s))
    BY <1>7, <2>1 DEF SpanInv, Reach
  <2> DEFINE c == Cardinality(Later(s))
  <2>9. (MaxB + 1) * (c + 1) = (MaxB + 1) * c + MaxB + 1 /\ (MaxB + 1) * c \in Nat
    BY <1>4, <2>6, ReachFacts
  <2>10. next' - number'[s] <= 1 + ((MaxB + 1) * c + MaxB + 1)
    <3> DEFINE d == (MaxB + 1) * c
    <3>1. d \in Nat /\ next - number[s] <= 1 + d
      BY <2>8, <2>9
    <3> HIDE DEF d
    <3>2. next' - number'[s] = n + 1 - number[s]
      BY <1>1, <2>3
    <3>3. n + 1 - number[s] = (n - next) + 1 + (next - number[s])
      BY <1>1, <2>3
    <3>4. /\ n - next \in Int /\ n - next <= MaxB /\ next - number[s] \in Int /\ MaxB \in Nat
      BY <1>1, <1>4, <2>3
    <3>5. (n - next) + 1 + (next - number[s]) <= 1 + (d + MaxB + 1)
      BY <3>1, <3>4
    <3>6. QED
      BY <3>2, <3>3, <3>5 DEF d
  <2>11. QED
    BY <2>7, <2>9, <2>10 DEF Reach
<1>11. QED
  BY <1>9, <1>10

LEMMA BSpan ==
  ASSUME FramesInv, SpanInv, NEW n, NEW h, BShape(n, h)
  PROVE  SpanInv'
<1> USE DEF FramesInv
<1>1. /\ n \in bs /\ n \in Nat /\ n < next - 1 /\ next' = next /\ bs' = bs \ {n} /\ kind' = kind
      /\ h.commands = << >> /\ h.idr = FALSE /\ next \in Nat /\ phase = "header" /\ ~InJob
      /\ shown \in 0 .. next /\ shown <= n
  BY DEF BShape, GroupInv
<1>2. Placed(n, h)
  BY BPlaced
<1>3. /\ InUse \subseteq Slot /\ Kept \subseteq InUse /\ number \in [Slot -> Nat]
      /\ NumbersOf(InUse) = Due
  BY KeptFacts DEF Kept, WaitInv
<1>4. MaxB \in Nat
  BY LongestGroup
<1>5. \A b \in bs' : next' - 1 - MaxB <= b
  BY <1>1 DEF SpanInv
<1>6. LaterShape'
  BY <1>2, LaterAlways, PTL DEF Placed
<1>7. SUFFICES ASSUME kind # "commands", NEW s \in Kept'
               PROVE  next' - number'[s] <= Reach(s)'
  BY <1>1, <1>5 DEF SpanInv
<1>8. IsFiniteSet(Later(s)') /\ Cardinality(Later(s)') \in Nat
  BY <1>6, <1>7 DEF LaterShape
<1>9. /\ Kept \subseteq Kept' /\ Kept' \subseteq Kept \cup {slot'} /\ slot' \notin Kept
      /\ slot' \in Slot
  BY <1>1, <1>2 DEF Placed
<1>10. \A t \in Kept : t \in Slot \ {slot'} /\ number'[t] = number[t] /\ number[t] \in Nat
  BY <1>2, <1>3, <1>9 DEF Placed
<1>11. CASE s = slot'
  <2>1. PICK t \in InUse : number[t] = next - 1
    <3>1. next - 1 \in Due
      BY <1>1 DEF Due, GroupInv
    <3>2. QED
      BY <1>3, <3>1 DEF NumbersOf
  <2>2. t \in Kept
    <3>1. slots[t].state # "output_ready" /\ slots[t].state # "init"
      BY <1>1, <1>3, <2>1 DEF KeptInv, WaitInv
    <3>2. QED
      BY <2>1, <3>1, KeptFacts
  <2>3. t \in Later(s)'
    BY <1>1, <1>2, <1>9, <1>10, <1>11, <2>1, <2>2 DEF Later, Placed
  <2>4. Cardinality(Later(s)') >= 1
    <3>1. Cardinality(Later(s)') # 0
      BY <1>8, <2>3, FS_EmptySet
    <3>2. QED
      BY <1>8, <3>1
  <2>5. (MaxB + 1) * Cardinality(Later(s)') >= MaxB + 1
    BY <1>4, <1>8, <2>4, ReachFacts
  <2>6. next - 1 - MaxB <= n
    BY <1>1 DEF SpanInv
  <2>7. number'[s] = n
    BY <1>2, <1>11 DEF Placed
  <2> DEFINE e == (MaxB + 1) * Cardinality(Later(s)')
  <2>8. e \in Nat
    BY <1>4, <1>8
  <2> HIDE DEF e
  <2>9. next' - number'[s] <= 1 + e
    BY <1>1, <1>4, <2>5, <2>6, <2>7, <2>8 DEF e
  <2>10. QED
    BY <2>9 DEF Reach, e
<1>12. CASE s # slot'
  <2>1. s \in Kept /\ number'[s] = number[s] /\ number[s] \in Nat
    BY <1>7, <1>9, <1>10, <1>12
  <2>2. Later(s) \subseteq Later(s)'
    BY <1>9, <1>10, <2>1 DEF Later
  <2>3. Cardinality(Later(s)) \in Nat /\ Cardinality(Later(s)) <= Cardinality(Later(s)')
    BY <1>8, <2>2, LaterFacts, FS_Subset
  <2>4. next - number[s] <= 1 + (MaxB + 1) * Cardinality(Later(s))
    BY <1>7, <2>1 DEF SpanInv, Reach
  <2> DEFINE c == (MaxB + 1) * Cardinality(Later(s))
             d == (MaxB + 1) * Cardinality(Later(s)')
  <2>5. c \in Nat /\ d \in Nat /\ c <= d
    BY <1>4, <1>8, <2>3, ReachFacts
  <2> HIDE DEF c, d
  <2>6. next' - number'[s] <= 1 + d
    BY <1>1, <2>1, <2>4, <2>5 DEF c
  <2>7. QED
    BY <2>6 DEF Reach, d
<1>13. QED
  BY <1>11, <1>12

\* A step that releases or gives out the reference displayed first shortens no reach.
LEMMA FirstGoesSpan ==
  ASSUME SpanInv, WaitInv, UNCHANGED <<kind, next, bs>>, NEW D, Kept' = Kept \ D,
         \A s \in Kept \ D : number'[s] = number[s],
         \A d \in D \cap Kept, s \in Kept : number[d] <= number[s]
  PROVE  SpanInv'
<1>1. number \in [Slot -> Nat] /\ Kept \subseteq Slot
  BY KeptFacts DEF WaitInv, Kept
<1>2. ASSUME NEW s \in Kept'
      PROVE  Later(s)' = Later(s)
  <2>1. s \in Kept \ D /\ number'[s] = number[s] /\ number[s] \in Nat
    BY <1>1, <1>2
  <2>2. \A d \in D \cap Kept : ~(number[d] > number[s])
    BY <1>1, <2>1
  <2>3. Later(s)' = {t \in Kept \ D : number[t] > number[s]}
    BY <2>1 DEF Later
  <2>4. QED
    BY <2>2, <2>3 DEF Later
<1>3. \A s \in Kept' : Reach(s)' = Reach(s)
  BY <1>2 DEF Reach
<1>4. QED
  BY <1>3 DEF SpanInv

LEMMA SpanStep ==
  ASSUME FramesInv, SpanInv, [StreamNext]_streamVars
  PROVE  SpanInv'
<1> USE DEF FramesInv
<1>1. ASSUME NEW slice \in {"I", "P"}, NEW idr \in BOOLEAN, NEW k \in Groups, Anchor(slice, idr, k)
      PROVE  SpanInv'
  <2>1. \E n, h : AnchorShape(n, h)
    BY <1>1, AnchorFacts, Zenon
  <2>2. QED
    BY <2>1, AnchorSpan
<1>2. ASSUME NEW ref \in BOOLEAN, B(ref)
      PROVE  SpanInv'
  <2>1. \E n, h : BShape(n, h)
    BY <1>2, BFacts, Zenon
  <2>2. QED
    BY <2>1, BSpan
<1>3. ASSUME Flush \/ Drain
      PROVE  SpanInv'
  <2>1. PICK s : ShowShape(s)
    BY <1>3, FlushFrames
  <2>2. /\ s \in InUse /\ RecyclePic(s) /\ UNCHANGED <<kind, next, bs>>
        /\ number' = [number EXCEPT ![s] = 0]
    BY <2>1 DEF ShowShape, groupVars
  <2>3. /\ number[s] = shown /\ WaitInv' /\ InUse \subseteq Slot /\ Kept \subseteq InUse
        /\ number \in [Slot -> Nat] /\ NumbersOf(InUse) = Due
    BY <2>1, ShowFirst, ShowFrames, KeptFacts DEF WaitInv, Kept
  <2>4. \A t \in Slot \ {s} : slots'[t] = slots[t]
    BY <2>2, <2>3, RecycledSlot
  <2>5. InUse' = InUse \ {s}
    BY <2>2, <2>3, RecycledSlot
  <2>6. Kept' = Kept \ {s}
    BY <2>3, <2>4, <2>5 DEF Kept
  <2>7. \A t \in Kept : number[s] <= number[t]
    BY <2>3 DEF NumbersOf, Due
  <2>8. \A t \in Kept \ {s} : number'[t] = number[t]
    BY <2>2, <2>3
  <2> DEFINE D == {s}
  <2>9. /\ Kept' = Kept \ D /\ \A t \in Kept \ D : number'[t] = number[t]
        /\ \A d \in D \cap Kept, t \in Kept : number[d] <= number[t]
    BY <2>6, <2>7, <2>8
  <2> HIDE DEF D
  <2>10. QED
    BY <2>2, <2>9, FirstGoesSpan
<1>4. ASSUME Done
      PROVE  SpanInv'
  <2>1. /\ phase = "decode" /\ PicDone(slot) /\ UNCHANGED <<kind, next, bs, number>>
    BY <1>4 DEF Done
  <2>2. InJob /\ slot \in InUse
    BY <2>1 DEF InJob, CurrentInv
  <2>3. PICK D \in SUBSET Kept :
          /\ \A s \in Slot : slots'[s].state = (IF s \notin InUse THEN "unused"
                                                ELSE IF s \in Kept \ D THEN "ref_in_use"
                                                ELSE "output_ready")
          /\ IF Cardinality(Kept) <= MaxRefs THEN D = {}
             ELSE \E d \in Kept : /\ D = {d}
                                  /\ \A t \in Kept : KeyOf(slots[d]) <= KeyOf(slots[t])
    BY <2>1, <2>2, DonePicture
  <2>4. InUse' = InUse /\ \A s \in Slot : slots'[s].type = slots[s].type
    BY <2>1, <2>2, DonePicture
  <2>5. Kept \subseteq InUse /\ InUse \subseteq Slot /\ \A t \in InUse : KeyOf(slots[t]) \in Nat
    BY KeptFacts DEF Kept
  <2>6. Kept' = Kept \ D
    BY <2>3, <2>4, <2>5 DEF Kept
  <2>7. ASSUME NEW d \in D \cap Kept, NEW s \in Kept
        PROVE  number[d] <= number[s]
    <3>1. KeyOf(slots[d]) <= KeyOf(slots[s])
      BY <2>3, <2>7
    <3>2. d \in InUse /\ s \in InUse /\ number[d] \in Nat /\ number[s] \in Nat
      BY <2>5, <2>7 DEF WaitInv
    <3>3. ~(KeyOf(slots[s]) < KeyOf(slots[d]))
      BY <2>5, <3>1, <3>2
    <3>4. ~(number[s] < number[d])
      BY <3>2, <3>3 DEF KeyInv
    <3>5. QED
      BY <3>2, <3>4
  <2>8. QED
    BY <2>1, <2>6, <2>7, FirstGoesSpan
<1>5. ASSUME FlushEnds \/ EndOfStream \/ Requeue \/ UNCHANGED streamVars
      PROVE  SpanInv'
  <2>1. UNCHANGED <<slots, size, kind, next, bs, number>>
    BY <1>5 DEF FlushEnds, EndOfStream, Requeue, streamVars, dpbVars, groupVars
  <2>2. Kept' = Kept
    BY <2>1 DEF Kept, InUse, InUseOf
  <2> DEFINE D == {}
  <2>3. /\ Kept' = Kept \ D /\ \A t \in Kept \ D : number'[t] = number[t]
        /\ \A d \in D \cap Kept, t \in Kept : number[d] <= number[t]
    BY <2>1, <2>2
  <2> HIDE DEF D
  <2>4. QED
    BY <2>1, <2>3, FirstGoesSpan
<1>6. QED
  BY <1>1, <1>2, <1>3, <1>4, <1>5, Zenon DEF StreamNext

LEMMA InitSpan == StreamInit => SpanInv
<1> SUFFICES ASSUME StreamInit
             PROVE  SpanInv
  OBVIOUS
<1>1. bs = {} /\ slots = Empty /\ size = Size
  BY DEF StreamInit
<1>2. \A s \in 1 .. size : slots[s].state = "unused"
  BY <1>1, EmptySlotFacts, StreamAssumption, H264DpbAssumption
     DEF StreamAssumption, H264DpbAssumption, Slot
<1>3. Kept = {}
  BY <1>2 DEF Kept, InUse, InUseOf
<1>4. QED
  BY <1>1, <1>3 DEF SpanInv

\* Some picture has the least key.
LEMMA FirstKey ==
  ASSUME WaitInv, InUse # {}
  PROVE  \E s \in InUse : \A t \in InUse : KeyOf(slots[t]) >= KeyOf(slots[s])
<1> DEFINE Keys == {KeyOf(slots[s]) : s \in InUse}
<1>1. \A s \in InUse : KeyOf(slots[s]) \in Nat
  BY KeptFacts
<1>2. Keys \subseteq Nat /\ Keys # {}
  BY <1>1
<1>3. PICK k \in Keys : \A l \in Keys : k <= l
  BY <1>2, LeastExists
<1>4. PICK s \in InUse : k = KeyOf(slots[s])
  BY <1>3
<1>5. \A t \in InUse : KeyOf(slots[t]) >= KeyOf(slots[s])
  <2>1. ASSUME NEW t \in InUse
        PROVE  KeyOf(slots[t]) >= KeyOf(slots[s])
    <3>1. KeyOf(slots[t]) \in Keys
      BY <2>1
    <3>2. KeyOf(slots[s]) <= KeyOf(slots[t])
      BY <1>3, <1>4, <3>1
    <3>3. QED
      BY <1>1, <1>4, <2>1, <3>2
  <2>2. QED
    BY <2>1
<1>6. QED
  BY <1>5

\* Between two pictures everything waits behind a reference.
LEMMA FewFrames ==
  ASSUME FramesInv, SpanInv, kind # "commands"
  PROVE  Bounded
<1> USE DEF FramesInv
<1> SUFFICES ASSUME phase = "header"
             PROVE  Cardinality(InUse) <= MaxRefs + MaxB * (MaxRefs - 1)
  BY DEF Bounded
<1>1. /\ InUse \subseteq Slot /\ IsFiniteSet(InUse) /\ IsFiniteSet(Kept) /\ IsFiniteSet(Short)
      /\ Kept = Short \cup {t \in InUse : slots[t].state = "init" /\ slots[t].type = "short"}
      /\ Short = {t \in InUse : slots[t].state = "ref_in_use"}
      /\ \A t \in InUse : slots[t].state \in {"init", "ref_in_use", "output_ready"}
      /\ \A t \in InUse : KeyOf(slots[t]) \in Nat
  BY KeptFacts
<1>2. MaxB \in Nat /\ MaxRefs \in Nat /\ MaxRefs >= 1 /\ next \in Nat
  BY LongestGroup, H264DpbAssumption, ReferenceAssumption
     DEF H264DpbAssumption, ReferenceAssumption, GroupInv
<1>3. MaxB * (MaxRefs - 1) \in Nat
  BY <1>2
<1>4. CASE InUse = {}
  BY <1>2, <1>3, <1>4, FS_EmptySet
<1>5. CASE InUse # {}
  <2>1. PICK s \in InUse : \A t \in InUse : KeyOf(slots[t]) >= KeyOf(slots[s])
    BY <1>5, FirstKey
  <2>2. /\ \A t \in InUse : number[t] \in Nat /\ number[t] < next
        /\ \A t, u \in InUse : number[t] = number[u] => t = u
    BY <1>1 DEF WaitInv, NumbersOf, Due
  <2>3. \A t \in InUse : number[s] <= number[t]
    <3>1. ASSUME NEW t \in InUse
          PROVE  number[s] <= number[t]
      <4>1. ~(KeyOf(slots[t]) < KeyOf(slots[s]))
        BY <1>1, <2>1
      <4>2. ~(number[t] < number[s])
        BY <4>1 DEF KeyInv
      <4>3. QED
        BY <2>2, <4>2
    <3>2. QED
      BY <3>1
  <2>4. slots[s].state # "output_ready"
    BY <2>1 DEF FlushedInv, Outputs
  <2>5. slots[s].state # "init"
    BY <1>1 DEF WaitInv, InJob
  <2>6. s \in Kept /\ Kept = Short
    <3>1. \A t \in InUse : slots[t].state # "init"
      BY <1>1 DEF WaitInv, InJob
    <3>2. QED
      BY <1>1, <2>4, <2>5, <3>1
  <2> DEFINE c == Cardinality(Later(s))
             d == (MaxB + 1) * c
             I == number[s] .. (next - 1)
  <2>7. c \in Nat /\ c + 1 <= MaxRefs
    <3>1. Later(s) \subseteq Kept \ {s} /\ IsFiniteSet(Kept \ {s})
      BY <1>1, <2>2, FS_Subset DEF Later
    <3>2. Cardinality(Kept \ {s}) = Cardinality(Kept) - 1 /\ Cardinality(Kept) \in Nat
      BY <1>1, <2>6, FS_RemoveElement, FS_CardinalityType
    <3>3. c <= Cardinality(Kept \ {s})
      BY <3>1, FS_Subset
    <3>4. Cardinality(Kept) <= MaxRefs /\ c \in Nat
      BY <2>6, LaterFacts DEF KeptInv
    <3> HIDE DEF c
    <3>5. QED
      BY <1>2, <3>2, <3>3, <3>4
  <2>8. next - number[s] <= 1 + d
    BY <2>6 DEF SpanInv, Reach
  <2>9. d <= (MaxB + 1) * (MaxRefs - 1)
    <3> HIDE DEF c
    <3>1. c <= MaxRefs - 1 /\ MaxRefs - 1 \in Nat
      BY <1>2, <2>7
    <3>2. QED
      BY <1>2, <2>7, <3>1, ReachFacts
  <2>10. (MaxB + 1) * (MaxRefs - 1) = MaxB * (MaxRefs - 1) + MaxRefs - 1
    BY <1>2
  <2>11. d \in Nat
    BY <1>2, <2>7
  <2> HIDE DEF c, d
  <2>12. IsFiniteSet(I) /\ Cardinality(I) = next - number[s]
    <3>1. number[s] \in Int /\ next - 1 \in Int /\ number[s] <= next - 1
          /\ (next - 1) - number[s] + 1 = next - number[s]
      BY <1>2, <2>2
    <3>2. QED
      BY <3>1, FS_Interval
  <2>13. \A t \in InUse : number[t] \in I
    BY <1>2, <2>2, <2>3
  <2> HIDE DEF I
  <2>14. Cardinality(InUse) <= Cardinality(I)
    <3> DEFINE F == [t \in InUse |-> number[t]]
    <3>1. F \in Injection(InUse, I)
      BY <2>2, <2>13, Zenon DEF Injection, IsInjective
    <3>2. QED
      BY <2>12, <3>1, FS_Injection
  <2>15. Cardinality(InUse) \in Nat /\ next - number[s] \in Int
    BY <1>1, <1>2, <2>2, FS_CardinalityType
  <2>16. QED
    BY <1>2, <1>3, <2>8, <2>9, <2>10, <2>11, <2>12, <2>14, <2>15
<1>6. QED
  BY <1>4, <1>5

\* The last flush gives out every picture.
LEMMA LastFlush ==
  ASSUME FramesInv
  PROVE  AllShown
<1> USE DEF FramesInv
<1> SUFFICES ASSUME phase = "drain", Outputs(TRUE) = {}
             PROVE  shown = next
  BY DEF AllShown
<1>1. InUse = {}
  BY FirstKey DEF Outputs
<1>2. Due = {} /\ bs = {} /\ next \in Nat /\ shown \in 0 .. next
  BY <1>1 DEF WaitInv, NumbersOf, GroupInv
<1>3. QED
  BY <1>2 DEF Due

LEMMA PromptFrames == StreamSpec => [](FramesInv /\ SpanInv)
<1>1. StreamInit => FramesInv /\ SpanInv
  BY InitFrames, InitSpan
<1>2. FramesInv /\ SpanInv /\ [StreamNext]_streamVars => (FramesInv /\ SpanInv)'
  BY FramesStep, SpanStep
<1>3. QED
  BY <1>1, <1>2, PTL DEF StreamSpec

\* STREAMOFF gives out every picture of an H.264 stream, and unless the stream takes
\* references away by commands, no more pictures wait between two pictures than the
\* references and the order ask for.  Code: sliding_window_reference,
\* amlvdec_h264_dpb_flush_output, decoder_h264_stop.
THEOREM FramesPrompt ==
  StreamSpec => [](AllShown /\ (kind # "commands" => NothingHeldBack))
<1>1. FramesInv /\ SpanInv => AllShown /\ (kind # "commands" => NothingHeldBack)
  BY FewFrames, LastFlush DEF NothingHeldBack
<1>2. QED
  BY <1>1, PromptFrames, PTL
-----------------------------------------------------------------------------
\* Without long-term references nothing follows the short-term ones in a list.
LEMMA NoLong ==
  ASSUME NEW f, RefsOf(f, "long") = {}
  PROVE  LongLists(f, "B")[1] = << >> /\ LongLists(f, "B")[2] = << >> /\ LongLists(f, "P")[1] = << >>
<1>1. Cardinality({}) = 0
  BY FS_EmptySet
<1>2. ASSUME NEW x
      PROVE  [i \in 1 .. 0 |-> x[i]] = << >>
  OBVIOUS
<1> DEFINE Idx(s) == f[s].idx
           long == Sorted(RefsOf(f, "long"), Idx)
<1>3. long = << >>
  <2>1. long = [i \in 1 .. Cardinality(RefsOf(f, "long")) |-> long[i]]
    BY DEF Sorted
  <2> HIDE DEF long
  <2>2. long = [i \in 1 .. 0 |-> long[i]]
    BY <1>1, <2>1
  <2>3. QED
    BY <1>2, <2>2
<1> HIDE DEF long
<1>4. /\ LongLists(f, "B") = <<long, long>> /\ LongLists(f, "P") = <<long, << >> >>
  BY DEF LongLists, long
<1>5. QED
  BY <1>3, <1>4

\* Without reordering commands a list stays as it is.
LEMMA NoReorder ==
  ASSUME NEW f, NEW p, NEW list
  PROVE  ReorderAll(f, p, list, << >> \o << >>) = list
<1>1. ASSUME NEW cs, Len(cs) = 0
      PROVE  ReorderAll(f, p, list, cs) = list
  <2> DEFINE Steps(g) == g = [i \in 0 .. Len(cs) |-> IF i = 0 THEN list
                                                     ELSE Reorder(f, p, g[i - 1], cs[i])]
             after == CHOOSE g : Steps(g)
  <2>1. Steps([i \in 0 .. 0 |-> list])
    BY <1>1
  <2>2. Steps(after)
    BY <2>1
  <2>3. ReorderAll(f, p, list, cs) = after[Len(cs)]
    BY DEF ReorderAll
  <2> HIDE DEF after
  <2>4. after[0] = list
    BY <1>1, <2>2
  <2>5. QED
    BY <1>1, <2>3, <2>4
<1>2. Len(<< >> \o << >>) = 0
  OBVIOUS
<1>3. QED
  BY <1>1, <1>2

\* What a list holds, and its active part.
LEMMA ListShape ==
  ASSUME NEW n \in Nat, NEW g, g = [i \in 1 .. n |-> g[i]]
  PROVE  /\ g \o << >> = g /\ Len(g) = n
         /\ Len(Cut(g)) = (IF n > ListSize THEN ListSize ELSE n)
         /\ DOMAIN Cut(g) = 1 .. Len(Cut(g))
         /\ \A i \in 1 .. Len(Cut(g)) : i \in 1 .. n /\ Cut(g)[i] = g[i]
<1> DEFINE T == {g[i] : i \in 1 .. n}
<1>1. g \in Seq(T) /\ Len(g) = n
  OBVIOUS
<1> HIDE DEF T
<1>2. g \o << >> = g
  BY <1>1
<1>3. ListSize \in Nat \ {0}
  BY H264DpbAssumption DEF H264DpbAssumption
<1>4. CASE n > ListSize
  <2>1. Cut(g) = SubSeq(g, 1, ListSize)
    BY <1>1, <1>4 DEF Cut
  <2>2. /\ Len(SubSeq(g, 1, ListSize)) = ListSize /\ DOMAIN SubSeq(g, 1, ListSize) = 1 .. ListSize
        /\ \A i \in 1 .. ListSize : SubSeq(g, 1, ListSize)[i] = g[i]
    BY <1>1, <1>3, <1>4
  <2>3. \A i \in 1 .. ListSize : i \in 1 .. n
    BY <1>3, <1>4
  <2> DEFINE c == Cut(g)
  <2>4. /\ Len(c) = ListSize /\ DOMAIN c = 1 .. ListSize
        /\ \A i \in 1 .. ListSize : c[i] = g[i]
    BY <2>1, <2>2
  <2> HIDE DEF c
  <2>5. /\ Len(c) = (IF n > ListSize THEN ListSize ELSE n) /\ DOMAIN c = 1 .. Len(c)
        /\ \A i \in 1 .. Len(c) : i \in 1 .. n /\ c[i] = g[i]
    BY <1>4, <2>3, <2>4
  <2>6. QED
    BY <1>1, <1>2, <2>5 DEF c
<1>5. CASE ~(n > ListSize)
  <2>1. Cut(g) = g
    BY <1>1, <1>5 DEF Cut
  <2>2. QED
    BY <1>1, <1>2, <1>5, <2>1
<1>6. QED
  BY <1>4, <1>5

\* the references displayed before the picture in slot p
PastOf(f, p) == {s \in RefsOf(f, "short") : f[s].poc < f[p].poc}

\* m is the picture of S with the greatest key, or with the least
LastOf(f, S, m) ==
  /\ S \subseteq Nat /\ IsFiniteSet(S) /\ \A s \in S : KeyOf(f[s]) \in Nat
  /\ m \in S /\ \A s \in S \ {m} : KeyOf(f[s]) < KeyOf(f[m])
EarliestOf(f, S, m) ==
  /\ S \subseteq Nat /\ IsFiniteSet(S) /\ \A s \in S : KeyOf(f[s]) \in Nat
  /\ m \in S /\ \A s \in S \ {m} : KeyOf(f[m]) < KeyOf(f[s])

\* list 0 of a B picture starts with the reference before it that has the greatest key.
LEMMA PastList ==
  ASSUME NEW f, NEW p, NEW h, h.slice = "B", h.reorder0 = << >>, h.reorder1 = << >>,
         RefsOf(f, "long") = {}, NEW S, S = PastOf(f, p),
         NEW m, LastOf(f, S, m)
  PROVE  List0(f, p, h) # << >> /\ List0(f, p, h)[1] = m
<1> USE DEF LastOf
<1> DEFINE Rank(s) == Cardinality({t \in S :
                        \/ 0 - KeyOf(f[t]) < 0 - KeyOf(f[s])
                        \/ 0 - KeyOf(f[t]) = 0 - KeyOf(f[s]) /\ t < s})
           list == ShortLists(f, p, "B")[1]
           n == Cardinality(S)
<1>1. list = [i \in 1 .. n |-> CHOOSE s \in S : Rank(s) = i - 1]
  BY DEF ShortLists, Sorted, PastOf
<1>2. list = [i \in 1 .. n |-> list[i]] /\ n \in Nat \ {0}
  <2>1. n \in Nat /\ n # 0
    BY FS_CardinalityType, FS_EmptySet
  <2>2. QED
    BY <1>1, <2>1
<1>3. Rank(m) = 0
  <2>1. {t \in S : \/ 0 - KeyOf(f[t]) < 0 - KeyOf(f[m])
                   \/ 0 - KeyOf(f[t]) = 0 - KeyOf(f[m]) /\ t < m} = {}
    <3>1. \A t \in S : t # m => KeyOf(f[t]) < KeyOf(f[m])
      OBVIOUS
    <3>2. \A t \in S : KeyOf(f[t]) \in Nat
      OBVIOUS
    <3>3. ~(m < m)
      OBVIOUS
    <3>4. QED
      BY <3>1, <3>2, <3>3
  <2>2. QED
    BY <2>1, FS_EmptySet
<1>4. ASSUME NEW s \in S, s # m
      PROVE  Rank(s) # 0
  <2> DEFINE R == {t \in S : \/ 0 - KeyOf(f[t]) < 0 - KeyOf(f[s])
                             \/ 0 - KeyOf(f[t]) = 0 - KeyOf(f[s]) /\ t < s}
  <2>1. m \in R
    <3>1. KeyOf(f[s]) < KeyOf(f[m]) /\ KeyOf(f[s]) \in Nat /\ KeyOf(f[m]) \in Nat
      BY <1>4
    <3>2. QED
      BY <3>1
  <2>2. IsFiniteSet(R)
    BY FS_Subset
  <2> HIDE DEF R
  <2>3. Cardinality(R) # 0
    BY <2>1, <2>2, FS_EmptySet
  <2>4. QED
    BY <2>3 DEF R
<1> HIDE DEF Rank
<1>5. list[1] = m
  <2> DEFINE c == CHOOSE s \in S : Rank(s) = 1 - 1
  <2>1. list[1] = c
    BY <1>1, <1>2
  <2>2. \E s \in S : Rank(s) = 1 - 1
    BY <1>3
  <2>3. c \in S /\ Rank(c) = 1 - 1
    BY <2>2
  <2> HIDE DEF c
  <2>4. QED
    BY <1>4, <2>1, <2>3
<1> HIDE DEF list, n
<1>6. List0(f, p, h) = Cut(list)
  <2>1. LongLists(f, "B")[1] = << >>
    BY NoLong
  <2>2. list \o << >> = list
    BY <1>2, ListShape
  <2>3. ReorderAll(f, p, Cut(list), << >> \o << >>) = Cut(list)
    BY NoReorder
  <2>4. QED
    BY <2>1, <2>2, <2>3 DEF List0, list
<1>7. Len(Cut(list)) >= 1 /\ DOMAIN Cut(list) = 1 .. Len(Cut(list)) /\ Cut(list)[1] = list[1]
  BY <1>2, ListShape, H264DpbAssumption DEF H264DpbAssumption
<1>8. QED
  BY <1>5, <1>6, <1>7
RestOf(f, p) == RefsOf(f, "short") \ PastOf(f, p)

\* list 1 starts with the one after it that has the least key.
LEMMA FutureList ==
  ASSUME NEW f, NEW p, NEW h, h.slice = "B", RefsOf(f, "long") = {}, NEW S,
         S = RestOf(f, p),
         NEW m, EarliestOf(f, S, m)
  PROVE  List1(f, p, h) # << >> /\ List1(f, p, h)[1] = m
<1> USE DEF EarliestOf, RestOf
<1> DEFINE Rank(s) == Cardinality({t \in S :
                        \/ KeyOf(f[t]) < KeyOf(f[s])
                        \/ KeyOf(f[t]) = KeyOf(f[s]) /\ t < s})
           list == ShortLists(f, p, "B")[2]
           n == Cardinality(S)
<1>1. list = [i \in 1 .. n |-> CHOOSE s \in S : Rank(s) = i - 1]
  BY DEF ShortLists, Sorted, PastOf
<1>2. list = [i \in 1 .. n |-> list[i]] /\ n \in Nat \ {0}
  <2>1. n \in Nat /\ n # 0
    BY FS_CardinalityType, FS_EmptySet
  <2>2. QED
    BY <1>1, <2>1
<1>3. Rank(m) = 0
  <2>1. {t \in S : \/ KeyOf(f[t]) < KeyOf(f[m])
                   \/ KeyOf(f[t]) = KeyOf(f[m]) /\ t < m} = {}
    <3>1. \A t \in S : t # m => KeyOf(f[m]) < KeyOf(f[t])
      OBVIOUS
    <3>2. \A t \in S : KeyOf(f[t]) \in Nat
      OBVIOUS
    <3>3. ~(m < m)
      OBVIOUS
    <3>4. QED
      BY <3>1, <3>2, <3>3
  <2>2. QED
    BY <2>1, FS_EmptySet
<1>4. ASSUME NEW s \in S, s # m
      PROVE  Rank(s) # 0
  <2> DEFINE R == {t \in S : \/ KeyOf(f[t]) < KeyOf(f[s])
                             \/ KeyOf(f[t]) = KeyOf(f[s]) /\ t < s}
  <2>1. m \in R
    <3>1. KeyOf(f[m]) < KeyOf(f[s]) /\ KeyOf(f[s]) \in Nat /\ KeyOf(f[m]) \in Nat
      BY <1>4
    <3>2. QED
      BY <3>1
  <2>2. IsFiniteSet(R)
    BY FS_Subset
  <2> HIDE DEF R
  <2>3. Cardinality(R) # 0
    BY <2>1, <2>2, FS_EmptySet
  <2>4. QED
    BY <2>3 DEF R
<1> HIDE DEF Rank
<1>5. list[1] = m
  <2> DEFINE c == CHOOSE s \in S : Rank(s) = 1 - 1
  <2>1. list[1] = c
    <3> HIDE DEF list, n
    <3>1. QED
      BY <1>1, <1>2
  <2>2. \E s \in S : Rank(s) = 1 - 1
    BY <1>3
  <2>3. c \in S /\ Rank(c) = 1 - 1
    BY <2>2
  <2> HIDE DEF c
  <2>4. QED
    BY <1>4, <2>1, <2>3
<1> HIDE DEF list, n
<1>6. List1(f, p, h) = Cut(list)
  <2>1. LongLists(f, "B")[2] = << >>
    BY NoLong
  <2>2. list \o << >> = list
    BY <1>2, ListShape
  <2>3. QED
    BY <2>1, <2>2 DEF List1, list
<1>7. Len(Cut(list)) >= 1 /\ DOMAIN Cut(list) = 1 .. Len(Cut(list)) /\ Cut(list)[1] = list[1]
  BY <1>2, ListShape, H264DpbAssumption DEF H264DpbAssumption
<1>8. QED
  BY <1>5, <1>6, <1>7

\* Integers from low to high - 1.
LEMMA Between ==
  ASSUME NEW low \in Int, NEW high \in Int, low <= high
  PROVE  IsFiniteSet(low .. (high - 1)) /\ Cardinality(low .. (high - 1)) = high - low
<1> DEFINE b == high - 1
<1>1. b \in Int /\ high - low = (IF low > b THEN 0 ELSE b - low + 1)
  OBVIOUS
<1> HIDE DEF b
<1>2. IsFiniteSet(low .. b) /\ Cardinality(low .. b) = (IF low > b THEN 0 ELSE b - low + 1)
  BY <1>1, FS_Interval
<1>3. QED
  BY <1>1, <1>2 DEF b

\* g numbers the elements of S from low to high - 1
Numbers(g, S, low, high) ==
  /\ low \in Int /\ high \in Int /\ low <= high
  /\ g \in [S -> low .. (high - 1)] /\ \A s, t \in S : g[s] = g[t] => s = t
  /\ \A i \in low .. (high - 1) : \E s \in S : g[s] = i

\* A set that can be numbered from low to high - 1 has as many elements.
LEMMA Numbered ==
  ASSUME NEW S, NEW g, NEW low, NEW high, Numbers(g, S, low, high)
  PROVE  Cardinality(S) = high - low
<1> USE DEF Numbers
<1> DEFINE T == low .. (high - 1)
<1>1. IsFiniteSet(T) /\ Cardinality(T) = high - low
  BY Between
<1>2. g \in [S -> T] /\ \A i \in T : \E s \in S : g[s] = i
  OBVIOUS
<1> HIDE DEF T
<1>3. g \in Injection(S, T)
  BY <1>2, Zenon DEF Injection, IsInjective
<1>4. g \in Surjection(S, T)
  BY <1>2 DEF Surjection
<1>5. Cardinality(S) = Cardinality(T)
  BY <1>1, <1>3, <1>4, FS_Injection
<1>6. QED
  BY <1>1, <1>5

\* the references S have the frame numbers from low to high - 1, each once
Sequential(f, h, S, low, high) ==
  /\ h.slice = "P" /\ h.reorder0 = << >> /\ h.reorder1 = << >>
  /\ S = RefsOf(f, "short") /\ RefsOf(f, "long") = {} /\ S \subseteq Nat
  /\ low \in Nat /\ high \in Nat /\ low <= high
  /\ \A s \in S : f[s].num \in low .. (high - 1)
  /\ \A i \in low .. (high - 1) : \E s \in S : f[s].num = i
  /\ \A s, t \in S : f[s].num = f[t].num => s = t

\* the list has the last of them in falling order
Falling(list, f, S, low, high) ==
  /\ Len(list) = (IF high - low > ListSize THEN ListSize ELSE high - low)
  /\ DOMAIN list = 1 .. Len(list)
  /\ \A i \in 1 .. Len(list) : list[i] \in S /\ f[list[i]].num = high - i

\* list 0 of a P picture: the references by falling frame_num.
LEMMA FallingList ==
  ASSUME NEW f, NEW p, NEW h, NEW S, NEW low, NEW high, Sequential(f, h, S, low, high)
  PROVE  Falling(List0(f, p, h), f, S, low, high)
<1> USE DEF Sequential
<1> DEFINE Before(s) == {t \in S : \/ 0 - f[t].num < 0 - f[s].num
                                   \/ 0 - f[t].num = 0 - f[s].num /\ t < s}
           Rank(s) == Cardinality(Before(s))
           list == ShortLists(f, p, "P")[1]
           n == Cardinality(S)
<1>1. list = [i \in 1 .. n |-> CHOOSE s \in S : Rank(s) = i - 1]
  BY DEF ShortLists, Sorted
<1>2. n = high - low
  <2> DEFINE g == [s \in S |-> f[s].num]
  <2>1. g \in [S -> low .. (high - 1)] /\ \A s, t \in S : g[s] = g[t] => s = t
    OBVIOUS
  <2>2. \A i \in low .. (high - 1) : \E s \in S : g[s] = i
    <3>1. ASSUME NEW i \in low .. (high - 1)
          PROVE  \E s \in S : g[s] = i
      <4>1. PICK s \in S : f[s].num = i
        BY <3>1
      <4>2. g[s] = i
        BY <4>1
      <4>3. QED
        BY <4>2
    <3>2. QED
      BY <3>1
  <2>3. low \in Int /\ high \in Int
    OBVIOUS
  <2> HIDE DEF g
  <2>4. QED
    <3>1. Numbers(g, S, low, high)
      BY <2>1, <2>2, <2>3 DEF Numbers
    <3>2. QED
      BY <3>1, Numbered
<1>3. ASSUME NEW s \in S
      PROVE  Rank(s) = high - 1 - f[s].num
  <2> DEFINE R == Before(s)
             x == f[s].num
             a == x + 1
             g == [t \in R |-> f[t].num]
  <2>1. x \in low .. (high - 1) /\ x \in Int /\ a \in Int /\ high \in Int /\ a <= high
    OBVIOUS
  <2>2. R = {t \in S : f[t].num > x}
    <3>1. \A t \in S : f[t].num \in Int /\ x \in Int /\ (f[t].num = x => ~(t < s))
      <4>1. ~(s < s)
        OBVIOUS
      <4>2. QED
        BY <2>1, <4>1
    <3>2. QED
      BY <3>1
  <2> HIDE DEF R, x
  <2>3. \A t \in R : t \in S /\ f[t].num \in a .. (high - 1)
    BY <2>1, <2>2
  <2>4. g \in [R -> a .. (high - 1)] /\ \A t, u \in R : g[t] = g[u] => t = u
    BY <2>3
  <2>5. \A i \in a .. (high - 1) : \E t \in R : g[t] = i
    <3>1. ASSUME NEW i \in a .. (high - 1)
          PROVE  \E t \in R : g[t] = i
      <4>1. i \in low .. (high - 1) /\ i > x
        BY <2>1
      <4>2. PICK t \in S : f[t].num = i
        BY <4>1
      <4>3. t \in R /\ g[t] = i
        BY <2>2, <4>1, <4>2
      <4>4. QED
        BY <4>3
    <3>2. QED
      BY <3>1
  <2> HIDE DEF g, a
  <2>6. Cardinality(R) = high - a
    <3>1. Numbers(g, R, a, high)
      BY <2>1, <2>4, <2>5 DEF Numbers
    <3>2. QED
      BY <3>1, Numbered
  <2>7. high - a = high - 1 - x
    BY <2>1 DEF a
  <2>8. QED
    BY <2>6, <2>7 DEF R, x
<1> HIDE DEF Rank
<1>9. \A i \in 1 .. n : list[i] = CHOOSE s \in S : Rank(s) = i - 1
  <2> HIDE DEF list, n
  <2>1. QED
    BY <1>1
<1>4. \A i \in 1 .. n : list[i] \in S /\ f[list[i]].num = high - i
  <2> SUFFICES ASSUME NEW i \in 1 .. n
               PROVE  list[i] \in S /\ f[list[i]].num = high - i
    OBVIOUS
  <2> DEFINE c == CHOOSE s \in S : Rank(s) = i - 1
  <2>1. list[i] = c
    BY <1>9
  <2>2. high - i \in low .. (high - 1)
    BY <1>2
  <2>3. PICK s \in S : f[s].num = high - i
    BY <2>2
  <2>4. Rank(s) = i - 1
    BY <1>2, <1>3, <2>3
  <2>5. c \in S /\ Rank(c) = i - 1
    BY <2>4
  <2> HIDE DEF c
  <2>6. f[c].num = high - i
    BY <1>2, <1>3, <2>5
  <2>7. QED
    BY <2>1, <2>5, <2>6
<1>5. list = [i \in 1 .. n |-> list[i]] /\ n \in Nat
  BY <1>1, <1>2
<1> HIDE DEF list, n
<1>6. List0(f, p, h) = Cut(list)
  <2>1. LongLists(f, "P")[1] = << >>
    BY NoLong
  <2>2. list \o << >> = list
    BY <1>5, ListShape
  <2>3. ReorderAll(f, p, Cut(list), << >> \o << >>) = Cut(list)
    BY NoReorder
  <2>4. List0(f, p, h) = Cut(list \o << >>)
    <3>1. ~(h.idr \/ h.slice = "I") => List0(f, p, h) = ReorderAll(f, p, Cut(list \o << >>), << >> \o << >>)
      BY <2>1 DEF List0, list
    <3>2. QED
      BY <2>2, <2>3, <3>1, <2>1 DEF List0, list
  <2>5. QED
    BY <2>2, <2>4
<1>7. /\ Len(Cut(list)) = (IF n > ListSize THEN ListSize ELSE n)
      /\ DOMAIN Cut(list) = 1 .. Len(Cut(list))
      /\ \A i \in 1 .. Len(Cut(list)) : i \in 1 .. n /\ Cut(list)[i] = list[i]
  BY <1>5, ListShape
<1> DEFINE c == Cut(list)
<1>8. /\ Len(c) = (IF high - low > ListSize THEN ListSize ELSE high - low)
      /\ DOMAIN c = 1 .. Len(c) /\ \A i \in 1 .. Len(c) : c[i] \in S /\ f[c[i]].num = high - i
  <2>1. Len(c) = (IF high - low > ListSize THEN ListSize ELSE high - low)
    BY <1>2, <1>7
  <2>2. ASSUME NEW i \in 1 .. Len(c)
        PROVE  c[i] \in S /\ f[c[i]].num = high - i
    <3>1. i \in 1 .. n /\ c[i] = list[i]
      BY <1>7, <2>2
    <3>2. QED
      BY <1>4, <3>1
  <2>3. QED
    BY <1>7, <2>1, <2>2
<1> HIDE DEF c
<1>10. List0(f, p, h) = c
  BY <1>6 DEF c
<1>11. QED
  BY <1>8, <1>10, Zenon DEF Falling

LEMMA Appended ==
  ASSUME NEW s \in Seq(Nat), NEW x \in Nat
  PROVE  /\ Append(s, x) \in Seq(Nat) /\ Len(Append(s, x)) = Len(s) + 1 /\ Len(s) \in Nat
         /\ DOMAIN Append(s, x) = 1 .. (Len(s) + 1) /\ DOMAIN s = 1 .. Len(s)
         /\ Append(s, x)[Len(s) + 1] = x /\ \A i \in 1 .. Len(s) : Append(s, x)[i] = s[i]
OBVIOUS

\* The anchors after the header of an anchor.
LEMMA AnchorPlain ==
  ASSUME FramesInv, PlainInv, kind = "plain", NEW n, NEW h, AnchorShape(n, h)
  PROVE  AnchorInv' /\ RefNumbersInv'
<1> USE DEF FramesInv
<1>1. /\ n \in Nat /\ n >= next /\ n - next \in Groups /\ phase = "header" /\ bs = {} /\ ~InJob
      /\ next' = n + 1 /\ bs' = next .. (n - 1) /\ base' = (IF h.idr THEN n ELSE base)
      /\ base' \in 0 .. n /\ kind' = kind /\ refs' = refs /\ marked' = marked
      /\ h.idr => n = next
      /\ next = 0 => h.idr
      /\ HeaderOK(h) /\ NewPicture(n, h) /\ h.ref = TRUE /\ h.slice \in {"I", "P"}
      /\ h.idr => h.slice = "I"
      /\ h.num = (IF h.idr THEN 0 ELSE FrameNum) /\ h.commands = << >>
  BY DEF AnchorShape
<1>2. Placed(n, h)
  BY AnchorPlaced
<1>3. AnchorInv /\ RefNumbersInv
  BY <1>1 DEF PlainInv
<1>4. InJob' /\ current' = h /\ number'[slot'] = n /\ h.idr \in BOOLEAN
  BY <1>1, <1>2 DEF InJob, Placed, HeaderOK
<1>5. Anchors = refs /\ refs \in Seq(Nat) /\ next \in Nat
  BY <1>1 DEF Anchors, GroupInv
<1>6. Anchors' = IF h.idr THEN <<n>> ELSE Append(refs, n)
  BY <1>1, <1>4 DEF Anchors
<1>7. /\ marked = {} /\ Len(refs) <= next
      /\ \A i, j \in DOMAIN refs : i < j => refs[i] < refs[j]
      /\ \A i \in DOMAIN refs : refs[i] < next
      /\ next > 0 => Len(refs) > 0 /\ refs[Len(refs)] = next - 1
  BY <1>3, <1>5 DEF AnchorInv
<1>8. next' <= MaxPics
  BY <1>1, StreamAssumption DEF NewPicture, StreamAssumption
<1>9. CASE h.idr
  <2>1. Anchors' = <<n>> /\ n = next /\ Short' = {} /\ bs' = {}
    BY <1>1, <1>2, <1>6, <1>9 DEF Placed
  <2>2. AnchorInv'
    BY <1>1, <1>4, <1>7, <1>8, <1>9, <2>1 DEF AnchorInv
  <2>3. Kept' = {slot'} /\ slots'[slot'].num = 0
    BY <1>1, <1>2, <1>9, <2>1 DEF Placed
  <2>4. Anchors'[1] = number'[slot'] /\ 1 \in DOMAIN Anchors' /\ 0 = (1 - 1) % MaxFrameNum
    BY <1>4, <2>1, H264DpbAssumption DEF H264DpbAssumption
  <2>5. QED
    BY <1>4, <1>9, <2>1, <2>2, <2>3, <2>4 DEF RefNumbersInv
<1>10. CASE ~h.idr
  <2> DEFINE a == Append(refs, n)
             l == Len(refs)
  <2>1. /\ a \in Seq(Nat) /\ Len(a) = l + 1 /\ l \in Nat /\ DOMAIN a = 1 .. (l + 1)
        /\ DOMAIN refs = 1 .. l /\ a[l + 1] = n /\ \A i \in 1 .. l : a[i] = refs[i]
    BY <1>1, <1>5, Appended
  <2>2. Anchors' = a /\ Short' = Short /\ l > 0 /\ refs[l] = next - 1
    BY <1>1, <1>2, <1>5, <1>6, <1>7, <1>10 DEF Placed
  <2>3. \A i \in 1 .. l : refs[i] \in Nat /\ refs[i] < next
    BY <1>5, <1>7, <2>1
  <2> HIDE DEF a, l
  <2>4. \A i, j \in DOMAIN a : i < j => a[i] < a[j]
    <3>1. ASSUME NEW i \in 1 .. (l + 1), NEW j \in 1 .. (l + 1), i < j
          PROVE  a[i] < a[j]
      <4>1. i \in 1 .. l /\ a[i] = refs[i]
        BY <2>1, <3>1
      <4>2. CASE j = l + 1
        BY <1>1, <1>5, <2>1, <2>3, <4>1, <4>2
      <4>3. CASE j # l + 1
        <5>1. j \in 1 .. l
          BY <2>1, <4>3
        <5>2. QED
          BY <1>7, <2>1, <3>1, <4>1, <5>1
      <4>4. QED
        BY <4>2, <4>3
    <3>2. QED
      BY <2>1, <3>1
  <2>5. \A i \in DOMAIN a : a[i] < n + 1
    <3>1. ASSUME NEW i \in 1 .. (l + 1)
          PROVE  a[i] < n + 1
      <4>1. i \in 1 .. l \/ i = l + 1
        BY <2>1
      <4>2. n \in Nat /\ next \in Nat /\ next <= n
        BY <1>1, <1>5
      <4>3. a[i] = n \/ (a[i] = refs[i] /\ refs[i] \in Nat /\ refs[i] < next)
        BY <2>1, <2>3, <4>1
      <4>4. QED
        BY <4>2, <4>3
    <3>2. QED
      BY <2>1, <3>1
  <2>6. \A b \in bs' : Len(a) > 1 /\ a[Len(a) - 1] < b
    <3>1. Len(a) - 1 = l /\ a[l] = next - 1 /\ Len(a) > 1
      BY <2>1, <2>2
    <3>2. \A b \in bs' : next - 1 < b
      BY <1>1, <1>5
    <3>3. QED
      BY <3>1, <3>2
  <2>7. Len(a) > 0 /\ a[Len(a)] = next' - 1 /\ Len(a) <= next'
    BY <1>1, <1>5, <1>7, <2>1 DEF l
  <2>8. AnchorInv'
    BY <1>1, <1>4, <1>7, <1>8, <1>10, <2>2, <2>4, <2>5, <2>6, <2>7 DEF AnchorInv
  <2>9. /\ Kept = Short /\ Kept' = Short \cup {slot'} /\ slot' \notin Short /\ slot' \in Slot
        /\ slots'[slot'].num = FrameNum /\ InUse \subseteq Slot
        /\ \A s \in Slot \ {slot'} : number'[s] = number[s] /\ slots'[s].num = slots[s].num
    BY <1>1, <1>2, <1>10, <2>2, KeptFacts DEF Placed
  <2>10. Short \subseteq Slot \ {slot'}
    BY <2>9 DEF Short, RefsOf, InUse
  <2>11. NumbersOf(Short)' = NumbersOf(Short)
    BY <2>2, <2>9, <2>10 DEF NumbersOf
  <2>12. NewestOf(refs)' = NewestOf(refs)
    BY <1>1 DEF NewestOf
  <2>13. ASSUME NEW s \in Kept'
         PROVE  \E i \in DOMAIN a : a[i] = number'[s] /\ slots'[s].num = (i - 1) % MaxFrameNum
    <3>1. CASE s = slot'
      <4>1. slots'[s].num = l % MaxFrameNum /\ l = (l + 1) - 1
        BY <2>1, <2>9, <3>1 DEF FrameNum, l
      <4>2. QED
        BY <1>4, <2>1, <3>1, <4>1
    <3>2. CASE s # slot'
      <4>1. s \in Kept /\ s \in Slot \ {slot'}
        BY <2>9, <2>10, <2>13, <3>2
      <4>2. PICK i \in 1 .. l : refs[i] = number[s] /\ slots[s].num = (i - 1) % MaxFrameNum
        BY <1>3, <1>5, <2>1, <4>1 DEF RefNumbersInv
      <4>3. i \in DOMAIN a /\ a[i] = refs[i]
        BY <2>1
      <4>4. QED
        BY <2>9, <4>1, <4>2, <4>3
    <3>3. QED
      BY <3>1, <3>2
  <2>14. NumbersOf(Short) = NewestOf(refs)
    BY <1>1, <1>3 DEF RefNumbersInv
  <2>15. QED
    BY <1>4, <1>10, <2>2, <2>8, <2>11, <2>12, <2>13, <2>14 DEF RefNumbersInv
<1>11. QED
  BY <1>4, <1>9, <1>10

\* A B picture is no reference and leaves the anchors as they are.
LEMMA BPlain ==
  ASSUME FramesInv, PlainInv, kind = "plain", NEW n, NEW h, BShape(n, h)
  PROVE  /\ AnchorInv' /\ RefNumbersInv' /\ Short' = Short /\ NumbersOf(Short) = NewestOf(refs)
         /\ Len(refs) > 1 /\ refs[Len(refs) - 1] < n /\ n < refs[Len(refs)]
<1> USE DEF FramesInv
<1>1. /\ n \in bs /\ n \in Nat /\ phase = "header" /\ ~InJob /\ bs' = bs \ {n}
      /\ n < next - 1 /\ kind' = kind /\ refs' = refs /\ marked' = marked /\ next' = next
      /\ HeaderOK(h) /\ NewPicture(n, h) /\ h.idr = FALSE /\ h.slice = "B"
      /\ h.commands = << >> /\ ~h.ref
  BY DEF BShape
<1>2. Placed(n, h)
  BY BPlaced
<1>3. AnchorInv /\ RefNumbersInv
  BY <1>1 DEF PlainInv
<1>4. InJob' /\ current' = h
  BY <1>2 DEF InJob, Placed
<1>5. Anchors = refs /\ Anchors' = refs /\ refs \in Seq(Nat) /\ next \in Nat
  BY <1>1, <1>4 DEF Anchors, GroupInv
<1>6. AnchorInv'
  BY <1>1, <1>3, <1>4, <1>5 DEF AnchorInv
<1>7. /\ Kept = Short /\ Kept' = Short /\ Short' = Short /\ InUse \subseteq Slot
      /\ slot' \notin Short
      /\ \A s \in Slot \ {slot'} : number'[s] = number[s] /\ slots'[s].num = slots[s].num
  BY <1>1, <1>2, KeptFacts DEF Placed
<1>8. Short \subseteq Slot \ {slot'}
  BY <1>7 DEF Short, RefsOf, InUse
<1>9. NumbersOf(Short)' = NumbersOf(Short) /\ NewestOf(refs)' = NewestOf(refs)
  BY <1>1, <1>7, <1>8 DEF NumbersOf, NewestOf
<1>10. NumbersOf(Short) = NewestOf(refs)
  BY <1>1, <1>3 DEF RefNumbersInv
<1>11. \A s \in Kept' : \E i \in DOMAIN refs :
         refs[i] = number'[s] /\ slots'[s].num = (i - 1) % MaxFrameNum
  <2>1. ASSUME NEW s \in Kept'
        PROVE  \E i \in DOMAIN refs :
                 refs[i] = number'[s] /\ slots'[s].num = (i - 1) % MaxFrameNum
    <3>1. s \in Kept /\ s \in Slot \ {slot'}
      BY <1>7, <1>8, <2>1
    <3>2. PICK i \in DOMAIN refs : refs[i] = number[s] /\ slots[s].num = (i - 1) % MaxFrameNum
      BY <1>3, <1>5, <3>1 DEF RefNumbersInv
    <3>3. number'[s] = number[s] /\ slots'[s].num = slots[s].num
      BY <1>7, <3>1
    <3>4. QED
      BY <3>2, <3>3
  <2>2. QED
    BY <2>1
<1>12. RefNumbersInv'
  BY <1>1, <1>4, <1>5, <1>7, <1>9, <1>10, <1>11 DEF RefNumbersInv
<1>13. Len(refs) > 1 /\ refs[Len(refs) - 1] < n /\ n < refs[Len(refs)]
  BY <1>1, <1>3, <1>5 DEF AnchorInv
<1>14. QED
  BY <1>6, <1>7, <1>10, <1>12, <1>13

Rising(s) == \A i, j \in DOMAIN s : i < j => s[i] < s[j]

\* the position of the oldest of the MaxRefs newest
OldestOf(s) == IF Len(s) > MaxRefs THEN Len(s) - MaxRefs + 1 ELSE 1

LEMMA NewestFacts ==
  ASSUME NEW s \in Seq(Nat)
  PROVE  /\ OldestOf(s) \in Nat \ {0} /\ OldestOf(s) <= Len(s) + 1 /\ Len(s) \in Nat
         /\ NewestOf(s) = {s[i] : i \in OldestOf(s) .. Len(s)}
         /\ OldestOf(s) .. Len(s) \subseteq DOMAIN s /\ DOMAIN s = 1 .. Len(s)
         /\ Len(s) + 1 - OldestOf(s) = (IF Len(s) > MaxRefs THEN MaxRefs ELSE Len(s))
<1>1. MaxRefs \in Nat \ {0} /\ Len(s) \in Nat /\ DOMAIN s = 1 .. Len(s)
  BY H264DpbAssumption, ReferenceAssumption DEF H264DpbAssumption, ReferenceAssumption
<1>2. {j \in DOMAIN s : j > Len(s) - MaxRefs} = OldestOf(s) .. Len(s)
  BY <1>1 DEF OldestOf
<1>3. NewestOf(s) = {s[i] : i \in OldestOf(s) .. Len(s)}
  BY <1>2 DEF NewestOf
<1>4. /\ OldestOf(s) \in Nat \ {0} /\ OldestOf(s) <= Len(s) + 1
      /\ Len(s) + 1 - OldestOf(s) = (IF Len(s) > MaxRefs THEN MaxRefs ELSE Len(s))
  BY <1>1 DEF OldestOf
<1> DEFINE o == OldestOf(s)
<1> HIDE DEF o
<1>5. o \in Nat \ {0} => o .. Len(s) \subseteq 1 .. Len(s)
  BY <1>1
<1>6. QED
  BY <1>1, <1>3, <1>4, <1>5 DEF o

\* One more anchor takes the place of the oldest of the newest MaxRefs.
LEMMA NewestAppended ==
  ASSUME NEW s \in Seq(Nat), NEW x \in Nat, Rising(Append(s, x))
  PROVE  /\ Len(s) < MaxRefs => NewestOf(Append(s, x)) = NewestOf(s) \cup {x}
         /\ Len(s) >= MaxRefs =>
              \E m \in NewestOf(s) : /\ \A y \in NewestOf(s) \cup {x} : m <= y
                                     /\ NewestOf(Append(s, x)) = (NewestOf(s) \cup {x}) \ {m}
<1> DEFINE a == Append(s, x)
           l == Len(s)
<1>1. /\ a \in Seq(Nat) /\ Len(a) = l + 1 /\ l \in Nat /\ DOMAIN a = 1 .. (l + 1)
      /\ DOMAIN s = 1 .. l /\ a[l + 1] = x /\ \A i \in 1 .. l : a[i] = s[i]
  BY Appended
<1>2. /\ OldestOf(s) \in Nat \ {0} /\ NewestOf(s) = {s[i] : i \in OldestOf(s) .. l}
      /\ OldestOf(a) \in Nat \ {0} /\ NewestOf(a) = {a[i] : i \in OldestOf(a) .. (l + 1)}
      /\ OldestOf(a) <= l + 1 + 1
  BY <1>1, NewestFacts
<1>3. MaxRefs \in Nat \ {0}
  BY H264DpbAssumption, ReferenceAssumption DEF H264DpbAssumption, ReferenceAssumption
<1>4. /\ l < MaxRefs => OldestOf(a) = 1 /\ OldestOf(s) = 1
      /\ l >= MaxRefs => OldestOf(a) = OldestOf(s) + 1 /\ OldestOf(s) <= l
  BY <1>1, <1>3 DEF OldestOf
<1>5. \A i, j \in 1 .. (l + 1) : i < j => a[i] < a[j]
  BY <1>1 DEF Rising
<1>6. \A i \in 1 .. (l + 1) : a[i] \in Nat
  BY <1>1
<1> HIDE DEF a, l
<1>7. \A o \in 1 .. (l + 1) : {a[i] : i \in o .. (l + 1)} = {s[i] : i \in o .. l} \cup {x}
  <2>1. ASSUME NEW o \in 1 .. (l + 1)
        PROVE  {a[i] : i \in o .. (l + 1)} = {s[i] : i \in o .. l} \cup {x}
    <3>1. \A i \in o .. (l + 1) : i = l + 1 \/ (i \in o .. l /\ i \in 1 .. l)
      BY <1>1
    <3>2. \A i \in o .. l : i \in 1 .. l /\ i \in o .. (l + 1)
      BY <1>1
    <3>3. l + 1 \in o .. (l + 1)
      BY <1>1
    <3>4. QED
      BY <1>1, <3>1, <3>2, <3>3
  <2>2. QED
    BY <2>1
<1>8. ASSUME l < MaxRefs
      PROVE  NewestOf(a) = NewestOf(s) \cup {x}
  <2>1. 1 \in 1 .. (l + 1)
    BY <1>1
  <2>2. QED
    BY <1>2, <1>4, <1>7, <1>8, <2>1
<1>9. ASSUME l >= MaxRefs
      PROVE  \E m \in NewestOf(s) : /\ \A y \in NewestOf(s) \cup {x} : m <= y
                                    /\ NewestOf(a) = (NewestOf(s) \cup {x}) \ {m}
  <2> DEFINE o == OldestOf(s)
             m == s[o]
  <2>1. /\ o \in 1 .. l /\ o \in 1 .. (l + 1) /\ o + 1 \in 1 .. (l + 1) /\ o \in Nat
        /\ OldestOf(a) = o + 1
    BY <1>1, <1>2, <1>4, <1>9
  <2> HIDE DEF o
  <2>2. m \in NewestOf(s) /\ m = a[o] /\ m \in Nat
    <3>1. o \in o .. l
      BY <2>1
    <3>2. QED
      BY <1>1, <1>2, <1>6, <2>1, <3>1 DEF o
  <2>3. \A i \in (o + 1) .. (l + 1) : m < a[i]
    <3>1. \A i \in (o + 1) .. (l + 1) : i \in 1 .. (l + 1) /\ o < i
      BY <1>1, <2>1
    <3>2. QED
      BY <1>5, <2>1, <2>2, <3>1
  <2>4. NewestOf(a) = {a[i] : i \in (o + 1) .. (l + 1)}
    BY <1>2, <2>1
  <2>5. NewestOf(s) \cup {x} = {a[i] : i \in o .. (l + 1)}
    BY <1>2, <1>7, <2>1 DEF o
  <2>6. {a[i] : i \in o .. (l + 1)} = {a[i] : i \in (o + 1) .. (l + 1)} \cup {m}
    <3>1. \A i \in o .. (l + 1) : i = o \/ i \in (o + 1) .. (l + 1)
      BY <1>1, <2>1
    <3>2. \A i \in (o + 1) .. (l + 1) : i \in o .. (l + 1)
      BY <1>1, <2>1
    <3>3. o \in o .. (l + 1)
      BY <1>1, <2>1
    <3>4. QED
      BY <2>2, <3>1, <3>2, <3>3
  <2> HIDE DEF m
  <2>7. \A y \in NewestOf(a) : m < y /\ y \in Nat
    <3>1. \A i \in (o + 1) .. (l + 1) : i \in 1 .. (l + 1)
      BY <1>1, <2>1
    <3>2. QED
      BY <1>6, <2>3, <2>4, <3>1
  <2>8. m \notin NewestOf(a) /\ \A y \in NewestOf(a) \cup {m} : m <= y
    BY <2>2, <2>7
  <2>9. NewestOf(s) \cup {x} = NewestOf(a) \cup {m}
    BY <2>4, <2>5, <2>6
  <2>10. NewestOf(a) = (NewestOf(s) \cup {x}) \ {m}
    BY <2>8, <2>9
  <2>11. QED
    BY <2>2, <2>8, <2>9, <2>10
<1>10. QED
  BY <1>8, <1>9 DEF a, l

\* There are as many of the newest as there is room for.
LEMMA NewestCount ==
  ASSUME NEW S, NEW s \in Seq(Nat), Rising(s), NEW num,
         {num[t] : t \in S} = NewestOf(s), \A t, u \in S : num[t] = num[u] => t = u
  PROVE  Cardinality(S) = (IF Len(s) > MaxRefs THEN MaxRefs ELSE Len(s))
<1> DEFINE o == OldestOf(s)
           high == Len(s) + 1
           At(t) == CHOOSE i \in o .. Len(s) : s[i] = num[t]
           g == [t \in S |-> At(t)]
<1>1. /\ o \in Nat \ {0} /\ o <= high /\ Len(s) \in Nat
      /\ NewestOf(s) = {s[i] : i \in o .. Len(s)} /\ o .. Len(s) \subseteq DOMAIN s
      /\ high - o = (IF Len(s) > MaxRefs THEN MaxRefs ELSE Len(s))
  BY NewestFacts
<1>2. Len(s) = high - 1 /\ o \in Int /\ high \in Int
  BY <1>1
<1> HIDE DEF o
<1>3. ASSUME NEW t \in S
      PROVE  At(t) \in o .. Len(s) /\ s[At(t)] = num[t]
  <2>1. \E i \in o .. Len(s) : s[i] = num[t]
    BY <1>1
  <2>2. QED
    BY <2>1
<1>4. \A t \in S : g[t] \in o .. Len(s) /\ s[g[t]] = num[t]
  BY <1>3
<1>5. g \in [S -> o .. Len(s)]
  BY <1>3
<1> HIDE DEF g, At
<1>6. \A t, u \in S : g[t] = g[u] => t = u
  BY <1>4
<1>7. \A i \in o .. Len(s) : \E t \in S : g[t] = i
  <2>1. ASSUME NEW i \in o .. Len(s)
        PROVE  \E t \in S : g[t] = i
    <3>1. s[i] \in NewestOf(s)
      BY <1>1
    <3>2. PICK t \in S : num[t] = s[i]
      BY <3>1
    <3>3. g[t] \in DOMAIN s /\ i \in DOMAIN s /\ s[g[t]] = s[i]
      BY <1>1, <1>4, <3>2
    <3>4. ~(g[t] < i) /\ ~(i < g[t])
      <4>1. s[i] \in Nat
        BY <3>3
      <4>2. QED
        BY <3>3, <4>1 DEF Rising
    <3>5. g[t] \in Int /\ i \in Int
      BY <1>1, <1>4
    <3>6. QED
      BY <3>4, <3>5
  <2>2. QED
    BY <2>1
<1> HIDE DEF high
<1>8. Cardinality(S) = high - o
  <2>1. Numbers(g, S, o, high)
    BY <1>1, <1>2, <1>5, <1>6, <1>7 DEF Numbers
  <2>2. QED
    BY <2>1, Numbered
<1>9. QED
  BY <1>1, <1>8

\* The sliding window drops the anchor that is among the newest no more.
LEMMA DonePlain ==
  ASSUME FramesInv, PlainInv, kind = "plain", Done
  PROVE  AnchorInv' /\ RefNumbersInv'
<1> USE DEF FramesInv
<1>1. /\ phase = "decode" /\ PicDone(slot) /\ phase' = "output"
      /\ kind' = kind /\ current' = current /\ next' = next /\ bs' = bs /\ number' = number
      /\ refs' = IF current.idr THEN <<number[slot]>>
                 ELSE IF current.ref THEN Append(refs, number[slot]) ELSE refs
      /\ marked' = IF current.idr THEN {}
                   ELSE marked \cup {Named(c.args[1]) : c \in ToSet(current.commands)}
  BY DEF Done
<1>2. InJob /\ ~InJob'
  BY <1>1 DEF InJob
<1>3. /\ slot \in InUse /\ (current.idr => current.ref)
      /\ (current.ref <=> slots[slot].type = "short")
  BY <1>2 DEF CurrentInv
<1>4. AnchorInv /\ RefNumbersInv
  BY <1>1 DEF PlainInv
<1>5. Anchors' = Anchors /\ Anchors' = refs'
  BY <1>1, <1>2, <1>3 DEF Anchors
<1>6. marked' = {}
  <2>1. ToSet(<< >>) = {}
    BY DEF ToSet
  <2>2. QED
    BY <1>1, <1>4, <2>1 DEF AnchorInv
<1>7. AnchorInv'
  BY <1>1, <1>4, <1>5, <1>6 DEF AnchorInv
<1>8. PICK D \in SUBSET Kept :
        /\ \A s \in Slot : slots'[s].state = (IF s \notin InUse THEN "unused"
                                              ELSE IF s \in Kept \ D THEN "ref_in_use"
                                              ELSE "output_ready")
        /\ IF Cardinality(Kept) <= MaxRefs THEN D = {}
           ELSE \E d \in Kept : /\ D = {d}
                                /\ \A t \in Kept : KeyOf(slots[d]) <= KeyOf(slots[t])
  BY <1>1, <1>2, <1>3, DonePicture
<1>9. /\ InUse' = InUse
      /\ \A s \in Slot : slots'[s].num = slots[s].num /\ slots'[s].type = slots[s].type
  BY <1>1, <1>2, <1>3, DonePicture
<1>10. /\ InUse \subseteq Slot /\ Kept \subseteq InUse /\ IsFiniteSet(Short)
       /\ Kept = Short \cup {t \in InUse : slots[t].state = "init" /\ slots[t].type = "short"}
       /\ Short = {t \in InUse : slots[t].state = "ref_in_use"}
       /\ \A t \in InUse : KeyOf(slots[t]) \in Nat /\ number[t] \in Nat
  BY KeptFacts DEF Kept, WaitInv
<1>11. Kept = Short \cup (IF current.ref THEN {slot} ELSE {}) /\ slot \notin Short
  BY <1>2, <1>3, <1>10 DEF WaitInv
<1>12. size' = size
  BY <1>1 DEF PicDone
<1>13. Short' = Kept \ D /\ Kept' = Kept \ D
  BY <1>8, <1>9, <1>10 DEF Short, RefsOf, InUse, Kept
<1>14. \A s \in Kept' : \E i \in DOMAIN Anchors' :
         Anchors'[i] = number'[s] /\ slots'[s].num = (i - 1) % MaxFrameNum
  <2>1. ASSUME NEW s \in Kept'
        PROVE  \E i \in DOMAIN Anchors :
                 Anchors[i] = number'[s] /\ slots'[s].num = (i - 1) % MaxFrameNum
    <3>1. s \in Kept /\ s \in Slot /\ number'[s] = number[s]
      BY <1>1, <1>10, <1>13, <2>1
    <3>2. PICK i \in DOMAIN Anchors :
            Anchors[i] = number[s] /\ slots[s].num = (i - 1) % MaxFrameNum
      BY <1>4, <3>1 DEF RefNumbersInv
    <3>3. QED
      BY <1>9, <3>1, <3>2
  <2>2. QED
    BY <1>5, <2>1
<1>15. MaxRefs \in Nat \ {0} /\ Cardinality(Short) <= MaxRefs /\ Cardinality(Short) \in Nat
  BY <1>10, H264DpbAssumption, ReferenceAssumption, FS_CardinalityType
     DEF H264DpbAssumption, ReferenceAssumption, KeptInv
<1>16. NumbersOf(Short)' = NumbersOf(Kept \ D)
  BY <1>1, <1>13 DEF NumbersOf
<1>17. NumbersOf(Kept \ D) = NewestOf(refs')
  <2>1. CASE ~current.ref
    <3>1. Kept = Short /\ D = {} /\ refs' = refs /\ ~current.idr
      BY <1>1, <1>3, <1>8, <1>11, <1>15, <2>1
    <3>2. QED
      BY <1>2, <1>4, <3>1 DEF RefNumbersInv
  <2>2. CASE current.idr
    <3>1. Short = {} /\ Kept = {slot} /\ refs' = <<number[slot]>>
      BY <1>1, <1>2, <1>3, <1>4, <1>11, <2>2 DEF RefNumbersInv
    <3>2. Cardinality(Kept) = 1
      BY <3>1, FS_Singleton
    <3>3. D = {}
      BY <1>8, <1>15, <3>2
    <3>4. NewestOf(<<number[slot]>>) = {number[slot]}
      BY <1>15 DEF NewestOf
    <3>5. QED
      BY <3>1, <3>3, <3>4 DEF NumbersOf
  <2>3. CASE current.ref /\ ~current.idr
    <3> DEFINE x == number[slot]
    <3>1. /\ refs \in Seq(Nat) /\ x \in Nat /\ refs' = Append(refs, x) /\ Anchors = Append(refs, x)
          /\ Kept = Short \cup {slot} /\ NumbersOf(Short) = NewestOf(refs)
      BY <1>1, <1>2, <1>3, <1>4, <1>10, <1>11, <2>3 DEF GroupInv, RefNumbersInv, Anchors
    <3>2. Rising(Append(refs, x))
      BY <1>4, <3>1 DEF AnchorInv, Rising
    <3>3. Rising(refs)
      <4> DEFINE a == Append(refs, x)
      <4>1. /\ Len(refs) \in Nat /\ DOMAIN a = 1 .. (Len(refs) + 1) /\ DOMAIN refs = 1 .. Len(refs)
            /\ \A i \in 1 .. Len(refs) : a[i] = refs[i]
        BY <3>1, Appended
      <4>2. \A i, j \in DOMAIN a : i < j => a[i] < a[j]
        BY <3>2 DEF Rising
      <4> HIDE DEF a
      <4>3. \A i \in DOMAIN refs : i \in DOMAIN a /\ a[i] = refs[i]
        BY <4>1
      <4>4. QED
        BY <4>2, <4>3 DEF Rising
    <3>4. Cardinality(Short) = (IF Len(refs) > MaxRefs THEN MaxRefs ELSE Len(refs))
      <4>1. {number[t] : t \in Short} = NewestOf(refs)
        BY <3>1 DEF NumbersOf
      <4>2. \A t, u \in Short : number[t] = number[u] => t = u
        BY <1>10 DEF WaitInv
      <4>3. QED
        BY <3>1, <3>3, <4>1, <4>2, NewestCount
    <3>5. Cardinality(Kept) = Cardinality(Short) + 1
      <4>1. IsFiniteSet(Short) /\ slot \notin Short /\ Kept = Short \cup {slot}
        BY <1>10, <1>11, <3>1
      <4>2. QED
        BY <4>1, FS_AddElement
    <3>6. NumbersOf(Kept) = NewestOf(refs) \cup {x}
      BY <3>1 DEF NumbersOf
    <3>7. Len(refs) \in Nat
      BY <3>1
    <3>8. CASE Len(refs) < MaxRefs
      <4>1. D = {}
        BY <1>8, <1>15, <3>4, <3>5, <3>7, <3>8
      <4>2. NewestOf(Append(refs, x)) = NewestOf(refs) \cup {x}
        BY <3>1, <3>2, <3>8, NewestAppended
      <4>3. QED
        BY <3>1, <3>6, <4>1, <4>2
    <3>9. CASE Len(refs) >= MaxRefs
      <4>1. ~(Cardinality(Kept) <= MaxRefs)
        BY <1>15, <3>4, <3>5, <3>7, <3>9
      <4>2. PICK d \in Kept : /\ D = {d}
                              /\ \A t \in Kept : KeyOf(slots[d]) <= KeyOf(slots[t])
        BY <1>8, <4>1
      <4>3. PICK m \in NewestOf(refs) :
              /\ \A y \in NewestOf(refs) \cup {x} : m <= y
              /\ NewestOf(Append(refs, x)) = (NewestOf(refs) \cup {x}) \ {m}
        BY <3>1, <3>2, <3>9, NewestAppended
      <4>4. PICK t \in Kept : number[t] = m
        BY <3>6 DEF NumbersOf
      <4>5. number[d] \in NewestOf(refs) \cup {x} /\ m <= number[d]
        BY <3>6, <4>2, <4>3 DEF NumbersOf
      <4>6. ~(number[t] < number[d])
        <5>1. t \in InUse /\ d \in InUse
          BY <1>10, <4>2, <4>4
        <5>2. KeyOf(slots[d]) <= KeyOf(slots[t]) /\ KeyOf(slots[d]) \in Nat /\ KeyOf(slots[t]) \in Nat
          BY <1>10, <4>2, <4>4, <5>1
        <5>3. ~(KeyOf(slots[t]) < KeyOf(slots[d]))
          BY <5>2
        <5>4. QED
          BY <5>1, <5>3 DEF KeyInv
      <4>7. number[d] = m
        <5>1. number[d] \in Nat /\ number[t] \in Nat
          BY <1>10, <4>2, <4>4
        <5>2. QED
          BY <4>4, <4>5, <4>6, <5>1
      <4>8. \A s \in Kept : number[s] = m => s = d
        BY <1>10, <4>2, <4>7 DEF WaitInv
      <4>9. NumbersOf(Kept \ {d}) = NumbersOf(Kept) \ {m}
        BY <4>7, <4>8 DEF NumbersOf
      <4>10. QED
        BY <3>1, <3>6, <4>2, <4>3, <4>9
    <3>10. QED
      BY <1>15, <3>7, <3>8, <3>9
  <2>4. QED
    BY <2>1, <2>2, <2>3
<1>18. NewestOf(refs)' = NewestOf(refs')
  BY DEF NewestOf
<1>19. RefNumbersInv'
  BY <1>2, <1>14, <1>16, <1>17, <1>18 DEF RefNumbersInv
<1>20. QED
  BY <1>7, <1>19

\* The first and the last of some pictures.
LEMMA FirstAndLast ==
  ASSUME NEW S, S # {}, NEW num, \A s \in S : num[s] \in Nat, NEW n \in Nat
  PROVE  /\ \E m \in S : \A s \in S : num[m] <= num[s]
         /\ (\A s \in S : num[s] < n) => \E m \in S : \A s \in S : num[s] <= num[m]
<1>1. \E m \in S : \A s \in S : num[m] <= num[s]
  <2> DEFINE Nums == {num[s] : s \in S}
  <2>1. Nums \subseteq Nat /\ Nums # {}
    OBVIOUS
  <2>2. PICK g \in Nums : \A k \in Nums : g <= k
    BY <2>1, LeastExists
  <2>3. PICK m \in S : g = num[m]
    BY <2>2
  <2>4. \A s \in S : num[s] \in Nums
    OBVIOUS
  <2>5. QED
    BY <2>2, <2>3, <2>4
<1>2. ASSUME \A s \in S : num[s] < n
      PROVE  \E m \in S : \A s \in S : num[s] <= num[m]
  <2> DEFINE Gaps == {n - num[s] : s \in S}
  <2>1. Gaps \subseteq Nat /\ Gaps # {}
    BY <1>2
  <2>2. PICK g \in Gaps : \A k \in Gaps : g <= k
    BY <2>1, LeastExists
  <2>3. PICK m \in S : g = n - num[m]
    BY <2>2
  <2>4. \A s \in S : n - num[s] \in Gaps
    OBVIOUS
  <2>5. \A s \in S : n - num[m] <= n - num[s]
    BY <2>2, <2>3, <2>4
  <2>6. \A s \in S : num[s] <= num[m]
    BY <2>5
  <2>7. QED
    BY <2>6
<1>3. QED
  BY <1>1, <1>2

\* slot p holds picture n, a B picture, and there are references R before and after it
BetweenRefs(f, p, h, R, num, n) ==
  /\ h.slice = "B" /\ h.reorder0 = << >> /\ h.reorder1 = << >>
  /\ R = RefsOf(f, "short") /\ RefsOf(f, "long") = {} /\ R \subseteq Nat /\ IsFiniteSet(R)
  /\ n \in Nat /\ \A s \in R : num[s] \in Nat /\ num[s] # n /\ KeyOf(f[s]) \in Nat
  /\ \A s \in R : f[s].poc < f[p].poc <=> num[s] < n
  /\ \A s, t \in R : num[s] < num[t] => KeyOf(f[s]) < KeyOf(f[t])
  /\ \A s, t \in R : num[s] = num[t] => s = t
  /\ (\E s \in R : num[s] < n) /\ (\E s \in R : n < num[s])

\* the lists start with the references displayed next to picture n
NextTo(first, second, R, num, n) ==
  /\ first # << >> /\ first[1] \in R /\ num[first[1]] < n
  /\ \A s \in R : num[s] < n => num[s] <= num[first[1]]
  /\ second # << >> /\ second[1] \in R /\ n < num[second[1]]
  /\ \A s \in R : n < num[s] => num[second[1]] <= num[s]

\* The lists of a B picture start with its neighbours.
LEMMA NeighbourLists ==
  ASSUME NEW f, NEW p, NEW h, NEW R, NEW num, NEW n, BetweenRefs(f, p, h, R, num, n)
  PROVE  NextTo(List0(f, p, h), List1(f, p, h), R, num, n)
<1> USE DEF BetweenRefs, NextTo
<1>1. PICK past : past = PastOf(f, p)
  OBVIOUS
<1>2. PICK rest : rest = R \ PastOf(f, p)
  OBVIOUS
<1>3. past = {s \in R : num[s] < n} /\ rest = {s \in R : n < num[s]}
  BY <1>1, <1>2 DEF PastOf
<1>4. past \subseteq R /\ rest \subseteq R /\ past # {} /\ rest # {}
  BY <1>3
<1>5. IsFiniteSet(past) /\ IsFiniteSet(rest)
  BY <1>4, FS_Subset
<1>6. PICK m \in past : \A s \in past : num[s] <= num[m]
  <2>1. \A s \in past : num[s] \in Nat /\ num[s] < n
    BY <1>3
  <2>2. QED
    BY <1>4, <2>1, FirstAndLast
<1>7. PICK k \in rest : \A s \in rest : num[k] <= num[s]
  <2>1. \A s \in rest : num[s] \in Nat
    BY <1>3
  <2>2. QED
    BY <1>4, <2>1, FirstAndLast
<1>8. ASSUME NEW s \in R, NEW t \in R, num[s] <= num[t], s # t
      PROVE  KeyOf(f[s]) < KeyOf(f[t])
  <2>1. num[s] \in Nat /\ num[t] \in Nat /\ num[s] # num[t]
    BY <1>8
  <2>2. num[s] < num[t]
    BY <1>8, <2>1
  <2>3. QED
    BY <2>2
<1>9. List0(f, p, h) # << >> /\ List0(f, p, h)[1] = m
  <2>1. \A s \in past \ {m} : KeyOf(f[s]) < KeyOf(f[m])
    BY <1>4, <1>6, <1>8
  <2>2. past \subseteq Nat /\ \A s \in past : KeyOf(f[s]) \in Nat
    BY <1>4
  <2>3. LastOf(f, past, m)
    BY <1>5, <2>1, <2>2 DEF LastOf
  <2>4. QED
    BY <1>1, <2>3, PastList
<1>10. List1(f, p, h) # << >> /\ List1(f, p, h)[1] = k
  <2>1. \A s \in rest \ {k} : KeyOf(f[k]) < KeyOf(f[s])
    BY <1>4, <1>7, <1>8
  <2>2. rest \subseteq Nat /\ \A s \in rest : KeyOf(f[s]) \in Nat
    BY <1>4
  <2>3. rest = RestOf(f, p)
    BY <1>2 DEF RestOf
  <2>4. EarliestOf(f, rest, k)
    BY <1>5, <2>1, <2>2 DEF EarliestOf
  <2>5. QED
    BY <2>3, <2>4, FutureList
<1>11. /\ m \in R /\ num[m] < n /\ \A s \in R : num[s] < n => num[s] <= num[m]
       /\ k \in R /\ n < num[k] /\ \A s \in R : n < num[s] => num[k] <= num[s]
  BY <1>3, <1>6, <1>7
<1>12. QED
  BY <1>9, <1>10, <1>11

\* The lists are built when the picture is in its slot.
LEMMA ListsBuilt ==
  ASSUME WaitInv, NEW n, NEW h, NewPicture(n, h), Placed(n, h)
  PROVE  /\ list0' = List0(slots', slot', h) /\ list1' = List1(slots', slot', h)
         /\ RefsOf(slots', "short") = Short' /\ RefsOf(slots', "long") = {}
         /\ Short' \subseteq Slot /\ IsFiniteSet(Short') /\ slot' \notin Short'
         /\ Short' \subseteq InUse' /\ InUse' \subseteq Slot
         /\ \A s \in InUse' : KeyOf(slots'[s]) \in Nat
         /\ \A s \in Short' : number'[s] = number[s] /\ number[s] \in Nat
<1>1. size' = size
  BY DEF NewPicture, NewPic
<1>2. list0' = List0(slots', slot', h) /\ list1' = List1(slots', slot', h)
  BY DEF NewPicture, NewPic
<1>3. RefsOf(slots', "short") = Short'
  BY <1>1 DEF Short, RefsOf, InUseOf
<1>4. WaitInv'
  BY DEF Placed
<1>5. /\ InUse' \subseteq Slot /\ IsFiniteSet(Short')
      /\ \A s \in InUse' : KeyOf(slots'[s]) \in Nat
  <2>1. KeptShape' /\ KeysShape'
    BY <1>4, KeptAlways, KeysAlways, PTL
  <2>2. QED
    BY <2>1 DEF KeptShape, KeysShape, KeyOf
<1>6. Short' \subseteq InUse'
  BY DEF Short, RefsOf, InUse
<1>7. RefsOf(slots', "long") = {}
  <2>1. \A s \in Slot : slots'[s].type # "long"
    BY DEF Placed, WaitInv
  <2>2. \A s \in InUseOf(slots') : s \in Slot
    BY <1>1, <1>5 DEF InUse, InUseOf
  <2>3. QED
    BY <2>1, <2>2 DEF RefsOf
<1>8. Short' \subseteq Short /\ slot' \notin Short /\ slot' \in Slot
  BY DEF Placed
<1>9. \A s \in Short' : s \in Slot \ {slot'}
  BY <1>5, <1>6, <1>8
<1>10. \A s \in Short' : number'[s] = number[s] /\ number[s] \in Nat
  BY <1>9 DEF Placed, WaitInv
<1>11. QED
  BY <1>2, <1>3, <1>5, <1>6, <1>7, <1>8, <1>9, <1>10

\* Its two neighbours among the references come first in the lists of a B picture.
LEMMA BLists ==
  ASSUME FramesInv, PlainInv, kind = "plain", NEW n, NEW h, BShape(n, h)
  PROVE  NextToInv' /\ ReverseInv'
<1> USE DEF FramesInv
<1>1. /\ n \in Nat /\ base' = base /\ base <= n /\ base \in Nat /\ HeaderOK(h)
      /\ NewPicture(n, h) /\ h.slice = "B" /\ h.poc = n - base' /\ refs \in Seq(Nat)
  BY DEF BShape, GroupInv
<1>2. Placed(n, h)
  BY BPlaced
<1>3. /\ Short' = Short /\ NumbersOf(Short) = NewestOf(refs)
      /\ Len(refs) > 1 /\ refs[Len(refs) - 1] < n /\ n < refs[Len(refs)]
  BY BPlain
<1>4. /\ list0' = List0(slots', slot', h) /\ list1' = List1(slots', slot', h)
      /\ RefsOf(slots', "short") = Short' /\ RefsOf(slots', "long") = {}
      /\ Short' \subseteq Slot /\ IsFiniteSet(Short') /\ slot' \notin Short'
      /\ Short' \subseteq InUse' /\ InUse' \subseteq Slot
      /\ \A s \in InUse' : KeyOf(slots'[s]) \in Nat
      /\ \A s \in Short' : number'[s] = number[s] /\ number[s] \in Nat
  BY <1>1, <1>2, ListsBuilt
<1>5. current' = h /\ number'[slot'] = n /\ slots'[slot'].poc = n - base /\ slot' \in InUse'
  BY <1>1, <1>2 DEF Placed
<1>6. ReverseInv'
  BY <1>1, <1>5 DEF ReverseInv
<1>7. h.reorder0 = << >> /\ h.reorder1 = << >>
  BY <1>1 DEF HeaderOK
<1>8. WaitInv' /\ KeyInv'
  BY <1>2 DEF Placed
<1>9. \A s, t \in InUse' : number'[s] = number'[t] => s = t
  BY <1>8 DEF WaitInv
<1>10. \A s, t \in InUse' : number'[s] < number'[t] => KeyOf(slots'[s]) < KeyOf(slots'[t])
  BY <1>8 DEF KeyInv, KeyOf
<1>11. \A s \in Short' : number'[s] >= base /\ slots'[s].poc = number'[s] - base
  <2>1. Kept = Short
    BY <1>2 DEF Placed
  <2>2. \A s \in Short' : number'[s] >= base
    BY <1>3, <1>4, <2>1 DEF KeptInv
  <2>3. \A s \in Short' : ~(number'[s] < base)
    BY <1>1, <1>4, <2>2
  <2>4. \A s \in Short' : slots'[s].poc = number'[s] - base'
    BY <1>1, <1>4, <1>8, <2>3 DEF KeyInv
  <2>5. QED
    BY <1>1, <2>2, <2>4
<1> DEFINE f == slots'
           p == slot'
           R == Short'
           num == number'
<1>12. \A s \in R : f[s].poc < f[p].poc <=> num[s] < n
  <2>1. ASSUME NEW s \in R
        PROVE  f[s].poc < f[p].poc <=> num[s] < n
    <3>1. f[s].poc = num[s] - base /\ f[p].poc = n - base /\ num[s] \in Nat
      BY <1>4, <1>5, <1>11, <2>1
    <3>2. QED
      BY <1>1, <3>1
  <2>2. QED
    BY <2>1
<1>13. \A s \in R : num[s] # n
  BY <1>4, <1>5, <1>9
<1>14. ASSUME MaxRefs >= 2
       PROVE  (\E s \in R : num[s] < n) /\ (\E s \in R : n < num[s])
  <2>1. MaxRefs \in Nat /\ Len(refs) \in Nat /\ DOMAIN refs = 1 .. Len(refs)
    BY <1>1, H264DpbAssumption DEF H264DpbAssumption
  <2> DEFINE l == Len(refs)
  <2>2. l > 1 /\ l \in Nat /\ DOMAIN refs = 1 .. l
    BY <1>3, <2>1
  <2> HIDE DEF l
  <2>3. /\ l - 1 \in DOMAIN refs /\ l - 1 > l - MaxRefs
        /\ l \in DOMAIN refs /\ l > l - MaxRefs
    BY <1>14, <2>1, <2>2
  <2>4. NumbersOf(Short) = {refs[i] : i \in {j \in DOMAIN refs : j > l - MaxRefs}}
    BY <1>3 DEF NewestOf, l
  <2>5. refs[l - 1] \in NumbersOf(Short) /\ refs[l] \in NumbersOf(Short)
    BY <2>3, <2>4
  <2>6. refs[l - 1] < n /\ n < refs[l]
    BY <1>3 DEF l
  <2>7. QED
    BY <1>3, <1>4, <2>5, <2>6 DEF NumbersOf
<1>15. /\ \A s \in R : KeyOf(f[s]) \in Nat /\ num[s] \in Nat
       /\ \A s, t \in R : num[s] < num[t] => KeyOf(f[s]) < KeyOf(f[t])
       /\ \A s, t \in R : num[s] = num[t] => s = t
       /\ R \subseteq Nat /\ IsFiniteSet(R) /\ R = RefsOf(f, "short") /\ RefsOf(f, "long") = {}
  BY <1>4, <1>9, <1>10 DEF Slot
<1> HIDE DEF f, p, R, num
<1>16. ASSUME MaxRefs >= 2
       PROVE  NextTo(List0(f, p, h), List1(f, p, h), R, num, n)
  <2>1. BetweenRefs(f, p, h, R, num, n)
    BY <1>1, <1>7, <1>12, <1>13, <1>14, <1>15, <1>16 DEF BetweenRefs
  <2>2. QED
    BY <2>1, NeighbourLists
<1>17. ASSUME MaxRefs >= 2
       PROVE  NextTo(list0', list1', Short', number', n)
  BY <1>4, <1>16, <1>17 DEF f, p, R, num
<1>18. NextToInv'
  BY <1>5, <1>17 DEF NextToInv, NextTo
<1>19. QED
  BY <1>6, <1>18

\* frame_num d references before a picture, when it has not wrapped since.
LEMMA NumBefore ==
  ASSUME NEW a \in Nat, NEW d \in Nat, NEW m \in Nat \ {0}, d <= a % m
  PROVE  (a - d) % m = (a % m) - d
OBVIOUS

\* list 0 of a P picture has the references in the reverse of the order they were coded in,
\* as long as frame_num has not wrapped since the oldest.
LEMMA AnchorLists ==
  ASSUME FramesInv, PlainInv, kind = "plain", NEW n, NEW h, AnchorShape(n, h)
  PROVE  NextToInv' /\ ReverseInv'
<1> USE DEF FramesInv
<1>1. /\ n \in Nat /\ n >= next /\ next \in Nat /\ HeaderOK(h) /\ phase = "header" /\ ~InJob
      /\ NewPicture(n, h) /\ h.slice \in {"I", "P"} /\ (h.idr => h.slice = "I")
      /\ h.commands = << >> /\ refs \in Seq(Nat) /\ refs' = refs
  BY DEF AnchorShape, GroupInv
<1>2. Placed(n, h)
  BY AnchorPlaced
<1>3. /\ list0' = List0(slots', slot', h)
      /\ RefsOf(slots', "short") = Short' /\ RefsOf(slots', "long") = {}
      /\ Short' \subseteq Slot /\ slot' \notin Short'
      /\ \A s \in Short' : number'[s] = number[s] /\ number[s] \in Nat
  BY <1>1, <1>2, ListsBuilt
<1>4. current' = h
  BY <1>2 DEF Placed
<1>5. NextToInv'
  BY <1>1, <1>4 DEF NextToInv
<1>6. SUFFICES ASSUME h.slice = "P", Held <= h.num
               PROVE  /\ Len(list0') = Listed /\ DOMAIN list0' = 1 .. Listed
                      /\ \A i \in 1 .. Listed : /\ list0'[i] \in Short'
                                                /\ number'[list0'[i]] = refs[Len(refs) + 1 - i]
  <2>1. Listed' = Listed /\ Held' = Held
    BY <1>1 DEF Listed, Held
  <2>2. QED
    BY <1>1, <1>4, <1>5, <2>1 DEF ReverseInv
<1>7. h.reorder0 = << >> /\ h.reorder1 = << >>
  BY <1>1 DEF HeaderOK
<1>8. Short' = Short /\ Kept = Short /\ \A s \in Short' : slots'[s].num = slots[s].num
  <2>1. Short' = Short /\ Kept = Short
    BY <1>1, <1>2, <1>6 DEF Placed
  <2>2. \A s \in Short' : s \in Slot \ {slot'}
    BY <1>3
  <2>3. QED
    BY <1>2, <2>1, <2>2 DEF Placed
<1>9. AnchorInv /\ RefNumbersInv
  BY <1>1 DEF PlainInv
<1>10. Anchors = refs
  BY <1>1 DEF Anchors
<1> DEFINE l == Len(refs)
           o == OldestOf(refs)
<1>11. /\ o \in Nat \ {0} /\ o <= l + 1 /\ l \in Nat
       /\ NewestOf(refs) = {refs[i] : i \in o .. l} /\ o .. l \subseteq DOMAIN refs
       /\ DOMAIN refs = 1 .. l /\ l + 1 - o = Held
  BY <1>1, NewestFacts DEF Held
<1>12. /\ \A i, j \in DOMAIN refs : i < j => refs[i] < refs[j]
       /\ l <= next /\ NumbersOf(Short) = NewestOf(refs)
       /\ \A s \in Short : \E i \in DOMAIN refs :
            refs[i] = number[s] /\ slots[s].num = (i - 1) % MaxFrameNum
  BY <1>1, <1>8, <1>9, <1>10 DEF AnchorInv, RefNumbersInv
<1> DEFINE shift == h.num - l
<1>13. /\ h.num = l % MaxFrameNum /\ MaxFrameNum \in Nat \ {0} /\ Held <= h.num
       /\ h.num \in Nat /\ shift \in Int /\ Held \in Nat
  <2>1. h.num = l % MaxFrameNum /\ MaxFrameNum \in Nat \ {0}
    BY <1>1, <1>6, H264DpbAssumption DEF AnchorShape, FrameNum, H264DpbAssumption
  <2>2. QED
    BY <1>6, <1>11, <2>1
<1> HIDE DEF shift
<1> HIDE DEF l, o
<1>14. \A i, j \in 1 .. l : refs[i] = refs[j] => i = j
  <2>1. ASSUME NEW i \in 1 .. l, NEW j \in 1 .. l, refs[i] = refs[j]
        PROVE  i = j
    <3>1. refs[i] \in Nat /\ refs[j] \in Nat /\ i \in DOMAIN refs /\ j \in DOMAIN refs
      BY <1>1, <1>11
    <3>2. ~(i < j) /\ ~(j < i)
      BY <1>12, <2>1, <3>1
    <3>3. QED
      BY <2>1, <3>2
  <2>2. QED
    BY <2>1
<1>15. ASSUME NEW s \in Short
       PROVE  \E i \in o .. l : refs[i] = number[s] /\ slots'[s].num = shift + i - 1
  <2>1. PICK i \in 1 .. l : refs[i] = number[s] /\ slots[s].num = (i - 1) % MaxFrameNum
    BY <1>11, <1>12
  <2>2. PICK j \in o .. l : refs[j] = number[s]
    <3>1. number[s] \in NewestOf(refs)
      BY <1>12 DEF NumbersOf
    <3>2. QED
      BY <1>11, <3>1
  <2>3. j \in 1 .. l
    BY <1>11
  <2>4. i = j
    BY <1>14, <2>1, <2>2, <2>3
  <2>5. (i - 1) % MaxFrameNum = shift + i - 1
    <3>1. l + 1 - i \in Nat /\ l + 1 - i <= h.num
      BY <1>11, <1>13, <2>2, <2>4
    <3>2. (l - (l + 1 - i)) % MaxFrameNum = (l % MaxFrameNum) - (l + 1 - i)
      BY <1>11, <1>13, <3>1, NumBefore
    <3>3. i \in Int /\ l - (l + 1 - i) = i - 1
      BY <1>11, <2>1
    <3>4. QED
      BY <1>11, <1>13, <3>2, <3>3 DEF shift
  <2>6. slots'[s].num = shift + j - 1
    BY <1>8, <2>1, <2>4, <2>5
  <2>7. QED
    BY <2>2, <2>6
<1> DEFINE low == shift + o - 1
           high == shift + l
           f == slots'
           S == Short'
<1>16. low \in Nat /\ low <= high /\ high \in Nat
  BY <1>11, <1>13 DEF shift
<1>17. \A s \in S : f[s].num \in low .. (high - 1) /\ number[s] = refs[f[s].num - shift + 1]
  <2>1. ASSUME NEW s \in S
        PROVE  f[s].num \in low .. (high - 1) /\ number[s] = refs[f[s].num - shift + 1]
    <3>1. PICK i \in o .. l : refs[i] = number[s] /\ f[s].num = shift + i - 1
      BY <1>8, <1>15, <2>1
    <3>2. f[s].num - shift + 1 = i /\ f[s].num \in low .. (high - 1)
      BY <1>11, <1>13, <3>1
    <3>3. QED
      BY <3>1, <3>2
  <2>2. QED
    BY <2>1
<1>18. \A i \in low .. (high - 1) : \E s \in S : f[s].num = i
  <2>1. ASSUME NEW i \in low .. (high - 1)
        PROVE  \E s \in S : f[s].num = i
    <3>1. i - shift + 1 \in o .. l /\ i \in Int
      BY <1>11, <1>13
    <3>2. refs[i - shift + 1] \in NumbersOf(Short)
      BY <1>11, <1>12, <3>1
    <3>3. PICK s \in Short : number[s] = refs[i - shift + 1]
      BY <3>2 DEF NumbersOf
    <3>4. PICK j \in o .. l : refs[j] = number[s] /\ f[s].num = shift + j - 1
      BY <1>15
    <3>5. j = i - shift + 1
      <4>1. j \in 1 .. l /\ i - shift + 1 \in 1 .. l
        BY <1>11, <3>1
      <4>2. QED
        BY <1>14, <3>3, <3>4, <4>1
    <3>6. f[s].num = i /\ s \in S
      BY <1>8, <1>11, <1>13, <3>1, <3>4, <3>5
    <3>7. QED
      BY <3>6
  <2>2. QED
    BY <2>1
<1>19. \A s, t \in S : f[s].num = f[t].num => s = t
  <2>1. \A s, t \in Short : number[s] = number[t] => s = t
    BY DEF WaitInv, Short, RefsOf, InUse
  <2>2. QED
    BY <1>8, <1>17, <2>1
<1>20. S = RefsOf(f, "short") /\ RefsOf(f, "long") = {} /\ S \subseteq Nat
  BY <1>3 DEF Slot
<1>21. \A s \in S : number'[s] = number[s]
  BY <1>3
<1>22. list0' = List0(f, slot', h)
  BY <1>3
<1> HIDE DEF f, S, low, high
<1>23. Sequential(f, h, S, low, high)
  BY <1>6, <1>7, <1>16, <1>17, <1>18, <1>19, <1>20 DEF Sequential
<1>24. Falling(List0(f, slot', h), f, S, low, high)
  BY <1>23, FallingList
<1>25. Falling(list0', f, S, low, high)
  BY <1>22, <1>24
<1>26. Len(list0') = Listed /\ DOMAIN list0' = 1 .. Listed
  <2>1. high - low = Held
    BY <1>11, <1>13 DEF low, high
  <2>2. QED
    BY <1>25, <2>1 DEF Falling, Listed
<1>27. ASSUME NEW i \in 1 .. Listed
       PROVE  list0'[i] \in S /\ number'[list0'[i]] = refs[l + 1 - i]
  <2>1. list0'[i] \in S /\ f[list0'[i]].num = high - i
    BY <1>25, <1>26 DEF Falling
  <2>2. i \in Int /\ (high - i) - shift + 1 = l + 1 - i
    BY <1>11, <1>13 DEF high
  <2>3. QED
    BY <1>17, <1>21, <2>1, <2>2
<1>28. QED
  BY <1>26, <1>27 DEF S, l

\* A step that touches no reference keeps all of it.
LEMMA ReferencesKept ==
  ASSUME PlainInv, UNCHANGED <<current, slot, groupVars, list0, list1>>, InJob' <=> InJob,
         phase = "drain" => phase' = "drain", Short' = Short, Kept' = Kept, Short \subseteq Kept,
         \A s \in Kept : number'[s] = number[s] /\ slots'[s].num = slots[s].num,
         InJob => number'[slot] = number[slot]
  PROVE  PlainInv'
<1> SUFFICES ASSUME kind = "plain", phase' # "drain"
             PROVE  AnchorInv' /\ RefNumbersInv' /\ NextToInv' /\ ReverseInv'
  BY DEF PlainInv, groupVars
<1>1. AnchorInv /\ RefNumbersInv /\ NextToInv /\ ReverseInv
  BY DEF PlainInv
<1>2. /\ current' = current /\ slot' = slot /\ next' = next /\ bs' = bs /\ refs' = refs
      /\ marked' = marked /\ list0' = list0 /\ list1' = list1
  BY DEF groupVars
<1>3. Anchors' = Anchors
  BY <1>2 DEF Anchors
<1>4. AnchorInv'
  BY <1>1, <1>2, <1>3 DEF AnchorInv
<1>5. NumbersOf(Short)' = NumbersOf(Short) /\ NewestOf(refs)' = NewestOf(refs)
  BY <1>2 DEF NumbersOf, NewestOf
<1>6. RefNumbersInv'
  BY <1>1, <1>2, <1>3, <1>5 DEF RefNumbersInv
<1>7. NextToInv'
  <2> SUFFICES ASSUME MaxRefs >= 2, InJob, current.slice = "B"
               PROVE  /\ list0 # << >> /\ list0[1] \in Short /\ number'[list0[1]] < number'[slot]
                      /\ \A s \in Short : number'[s] < number'[slot] =>
                                            number'[s] <= number'[list0[1]]
                      /\ list1 # << >> /\ list1[1] \in Short /\ number'[slot] < number'[list1[1]]
                      /\ \A s \in Short : number'[slot] < number'[s] =>
                                            number'[list1[1]] <= number'[s]
    BY <1>2 DEF NextToInv
  <2>1. /\ list0 # << >> /\ list0[1] \in Short /\ number[list0[1]] < number[slot]
        /\ \A s \in Short : number[s] < number[slot] => number[s] <= number[list0[1]]
        /\ list1 # << >> /\ list1[1] \in Short /\ number[slot] < number[list1[1]]
        /\ \A s \in Short : number[slot] < number[s] => number[list1[1]] <= number[s]
    BY <1>1 DEF NextToInv
  <2>2. \A s \in Short : number'[s] = number[s]
    OBVIOUS
  <2>3. number'[slot] = number[slot]
    OBVIOUS
  <2>4. QED
    BY <2>1, <2>2, <2>3
<1>8. ReverseInv'
  <2>1. Listed' = Listed /\ Held' = Held
    BY <1>2 DEF Listed, Held
  <2> SUFFICES ASSUME InJob, current.slice = "P", Held <= current.num
               PROVE  /\ Len(list0) = Listed /\ DOMAIN list0 = 1 .. Listed
                      /\ \A i \in 1 .. Listed : /\ list0[i] \in Short
                                                /\ number'[list0[i]] = refs[Len(refs) + 1 - i]
    BY <1>2, <2>1 DEF ReverseInv
  <2>2. /\ Len(list0) = Listed /\ DOMAIN list0 = 1 .. Listed
        /\ \A i \in 1 .. Listed : list0[i] \in Short /\ number[list0[i]] = refs[Len(refs) + 1 - i]
    BY <1>1 DEF ReverseInv
  <2>3. \A s \in Short : number'[s] = number[s]
    OBVIOUS
  <2>4. QED
    BY <2>2, <2>3
<1>9. QED
  BY <1>4, <1>6, <1>7, <1>8

LEMMA PlainStep ==
  ASSUME FramesInv, PlainInv, [StreamNext]_streamVars
  PROVE  PlainInv'
<1> USE DEF FramesInv
<1>1. ASSUME NEW slice \in {"I", "P"}, NEW idr \in BOOLEAN, NEW k \in Groups, Anchor(slice, idr, k)
      PROVE  PlainInv'
  <2>1. PICK n, h : AnchorShape(n, h)
    BY <1>1, AnchorFacts, Zenon
  <2>2. kind' = kind
    BY <2>1 DEF AnchorShape
  <2>3. kind = "plain" => AnchorInv' /\ RefNumbersInv' /\ NextToInv' /\ ReverseInv'
    BY <2>1, AnchorPlain, AnchorLists
  <2>4. QED
    BY <2>2, <2>3 DEF PlainInv
<1>2. ASSUME NEW ref \in BOOLEAN, B(ref)
      PROVE  PlainInv'
  <2>1. PICK n, h : BShape(n, h)
    BY <1>2, BFacts, Zenon
  <2>2. kind' = kind
    BY <2>1 DEF BShape
  <2>3. kind = "plain" => AnchorInv' /\ RefNumbersInv' /\ NextToInv' /\ ReverseInv'
    BY <2>1, BPlain, BLists
  <2>4. QED
    BY <2>2, <2>3 DEF PlainInv
<1>3. ASSUME Flush
      PROVE  PlainInv'
  <2>1. PICK s \in Outputs(FALSE) :
          /\ RecyclePic(s) /\ number' = [number EXCEPT ![s] = 0]
          /\ UNCHANGED <<phase, current, slot, groupVars, queued>>
    BY <1>3 DEF Flush, Output
  <2>2. s \in InUse /\ slots[s].state = "output_ready"
    BY DEF Outputs
  <2>3. /\ InUse \subseteq Slot /\ Kept \subseteq InUse /\ Short \subseteq Kept /\ s \notin Kept
        /\ number \in [Slot -> Nat]
    BY <2>2, KeptFacts DEF Kept, WaitInv
  <2>4. (\A t \in Slot \ {s} : slots'[t] = slots[t]) /\ InUse' = InUse \ {s}
    BY <2>1, <2>2, <2>3, RecycledSlot
  <2>5. Kept' = Kept
    BY <2>3, <2>4 DEF Kept
  <2>6. Short' = Short
    <3>1. Short = {t \in InUse : slots[t].state = "ref_in_use" /\ slots[t].type = "short"}
      BY DEF Short, RefsOf, InUse
    <3>2. Short' = {t \in InUse' : slots'[t].state = "ref_in_use" /\ slots'[t].type = "short"}
      BY DEF Short, RefsOf, InUse
    <3>3. QED
      BY <2>2, <2>3, <2>4, <3>1, <3>2
  <2>7. InJob' = InJob
    BY <2>1 DEF InJob
  <2>8. InJob => slot \in Slot /\ slot # s
    BY <2>2, <2>3 DEF CurrentInv, WaitInv
  <2>9. InJob => number'[slot] = number[slot]
    BY <2>1, <2>3, <2>8
  <2>10. \A t \in Kept : number'[t] = number[t] /\ slots'[t].num = slots[t].num
    BY <2>1, <2>3, <2>4
  <2>11. UNCHANGED <<current, slot, groupVars, list0, list1>> /\ phase' = phase
    BY <2>1 DEF RecyclePic
  <2>12. QED
    BY <2>3, <2>5, <2>6, <2>7, <2>9, <2>10, <2>11, ReferencesKept
<1>4. ASSUME Done
      PROVE  PlainInv'
  <2>1. kind' = kind /\ phase' = "output"
    BY <1>4 DEF Done
  <2>2. NextToInv' /\ ReverseInv'
    BY <2>1 DEF NextToInv, ReverseInv, InJob
  <2>3. kind = "plain" => AnchorInv' /\ RefNumbersInv'
    BY <1>4, DonePlain
  <2>4. QED
    BY <2>1, <2>2, <2>3 DEF PlainInv
<1>5. ASSUME Drain \/ EndOfStream
      PROVE  PlainInv'
  <2>1. phase' = "drain"
    BY <1>5 DEF Drain, Output, EndOfStream
  <2>2. QED
    BY <2>1 DEF PlainInv
<1>6. ASSUME FlushEnds \/ Requeue \/ UNCHANGED streamVars
      PROVE  PlainInv'
  <2>1. UNCHANGED <<slots, size, current, slot, groupVars, list0, list1, number>>
    BY <1>6 DEF FlushEnds, Requeue, streamVars, dpbVars
  <2>5. (InJob' <=> InJob) /\ (phase = "drain" => phase' = "drain")
    <3>1. CASE FlushEnds
      BY <3>1 DEF FlushEnds, InJob
    <3>2. CASE Requeue \/ UNCHANGED streamVars
      BY <3>2 DEF Requeue, streamVars, InJob
    <3>3. QED
      BY <1>6, <3>1, <3>2
  <2>2. Kept' = Kept /\ Short' = Short
    BY <2>1 DEF Kept, Short, RefsOf, InUse, InUseOf
  <2>3. Short \subseteq Kept
    BY KeptFacts
  <2>4. QED
    BY <2>1, <2>2, <2>3, <2>5, ReferencesKept
<1>7. QED
  BY <1>1, <1>2, <1>3, <1>4, <1>5, <1>6, Zenon DEF StreamNext

LEMMA InitPlain == StreamInit => PlainInv
<1> SUFFICES ASSUME StreamInit
             PROVE  PlainInv
  OBVIOUS
<1>1. /\ phase = "header" /\ refs = << >> /\ marked = {} /\ bs = {} /\ next = 0
      /\ current = NoHeader /\ slots = Empty /\ size = Size
  BY DEF StreamInit
<1>2. ~InJob /\ Anchors = << >>
  BY <1>1 DEF InJob, Anchors
<1>3. AnchorInv
  BY <1>1, <1>2, StreamAssumption DEF AnchorInv, NoHeader, StreamAssumption
<1>4. \A s \in 1 .. size : slots[s].state = "unused"
  BY <1>1, EmptySlotFacts, StreamAssumption, H264DpbAssumption
     DEF StreamAssumption, H264DpbAssumption, Slot
<1>5. Kept = {} /\ Short = {}
  BY <1>4 DEF Kept, Short, RefsOf, InUse, InUseOf
<1>6. NewestOf(refs) = {} /\ NumbersOf(Short) = {}
  BY <1>1, <1>5 DEF NewestOf, NumbersOf
<1>7. RefNumbersInv
  BY <1>2, <1>5, <1>6 DEF RefNumbersInv
<1>8. QED
  BY <1>2, <1>3, <1>7 DEF PlainInv, NextToInv, ReverseInv

LEMMA PlainAlways == StreamSpec => [](FramesInv /\ PlainInv)
<1>1. StreamInit => FramesInv /\ PlainInv
  BY InitFrames, InitPlain
<1>2. FramesInv /\ PlainInv /\ [StreamNext]_streamVars => (FramesInv /\ PlainInv)'
  BY FramesStep, PlainStep
<1>3. QED
  BY <1>1, <1>2, PTL DEF StreamSpec

LEMMA Reversed ==
  ASSUME NEW w \in Seq(Nat)
  PROVE  Reverse(w) \in Seq(Nat) /\ Len(Reverse(w)) = Len(w)
<1> DEFINE k == Len(w)
<1>1. k \in Nat /\ DOMAIN w = 1 .. k /\ Reverse(w) = [i \in 1 .. k |-> w[(k - i) + 1]]
  BY DEF Reverse
<1> HIDE DEF k
<1>2. \A i \in 1 .. k : (k - i) + 1 \in 1 .. k
  BY <1>1
<1>3. \A i \in 1 .. k : w[(k - i) + 1] \in Nat
  BY <1>1, <1>2
<1>4. QED
  BY <1>1, <1>3 DEF k

LEMMA WindowFacts ==
  ASSUME NEW s \in Seq(Nat)
  PROVE  /\ ToSet(Newest(s, MaxRefs)) = NewestOf(s) /\ Newest(s, MaxRefs) \in Seq(Nat)
         /\ Len(Newest(s, MaxRefs)) = (IF Len(s) > MaxRefs THEN MaxRefs ELSE Len(s))
         /\ \A i \in 1 .. Len(Newest(s, MaxRefs)) :
              Reverse(Newest(s, MaxRefs))[i] = s[Len(s) + 1 - i]
<1> DEFINE o == OldestOf(s)
           l == Len(s)
           w == Newest(s, MaxRefs)
           k == l + 1 - o
<1>1. /\ o \in Nat \ {0} /\ o <= l + 1 /\ l \in Nat /\ NewestOf(s) = {s[i] : i \in o .. l}
      /\ DOMAIN s = 1 .. l /\ k = (IF Len(s) > MaxRefs THEN MaxRefs ELSE Len(s))
  BY NewestFacts
<1>2. w = SubSeq(s, o, l)
  BY DEF Newest, OldestOf
<1> HIDE DEF o, w
<1>3. k \in Nat
  BY <1>1
<1>4. w \in Seq(Nat) /\ Len(w) = k /\ DOMAIN w = 1 .. k /\ \A j \in 1 .. k : w[j] = s[o + j - 1]
  BY <1>1, <1>2
<1> HIDE DEF k, l
<1>5. ToSet(w) = {s[i] : i \in o .. l}
  <2>1. \A j \in 1 .. k : o + j - 1 \in o .. l
    BY <1>1 DEF k
  <2>2. \A i \in o .. l : i - o + 1 \in 1 .. k /\ o + (i - o + 1) - 1 = i
    BY <1>1 DEF k
  <2>3. \A i \in o .. l : w[i - o + 1] = s[i]
    BY <1>4, <2>2
  <2>4. ToSet(w) = {w[j] : j \in 1 .. k}
    BY <1>4 DEF ToSet
  <2>5. \A j \in 1 .. k : w[j] \in {s[i] : i \in o .. l}
    BY <1>4, <2>1
  <2>6. \A i \in o .. l : s[i] \in {w[j] : j \in 1 .. k}
    BY <2>2, <2>3
  <2>7. QED
    BY <2>4, <2>5, <2>6
<1>6. \A i \in 1 .. k : Reverse(w)[i] = s[l + 1 - i]
  <2>1. ASSUME NEW i \in 1 .. k
        PROVE  Reverse(w)[i] = s[l + 1 - i]
    <3>1. k - i + 1 \in 1 .. k /\ o + (k - i + 1) - 1 = l + 1 - i
      BY <1>1, <1>3 DEF k
    <3>2. Reverse(w)[i] = w[k - i + 1]
      BY <1>4 DEF Reverse
    <3>3. w[k - i + 1] = s[o + (k - i + 1) - 1]
      BY <1>4, <3>1
    <3>4. QED
      BY <3>1, <3>2, <3>3
  <2>2. QED
    BY <2>1
<1>7. QED
  BY <1>1, <1>4, <1>5, <1>6 DEF w, l

LEMMA WindowHeld ==
  ASSUME FramesInv, PlainInv, kind = "plain", phase # "drain", ~(InJob /\ current.idr)
  PROVE  NumbersOf(Short) = Window /\ refs \in Seq(Nat)
<1>1. marked = {} /\ NumbersOf(Short) = NewestOf(refs) /\ refs \in Seq(Nat)
  BY DEF PlainInv, AnchorInv, RefNumbersInv, FramesInv, GroupInv
<1>2. QED
  BY <1>1, WindowFacts DEF Window

\* Where only anchors are references, those that are kept are the MaxRefs newest in
\* coding order, for any stream, number of references and of slots
\* (sliding_window_reference, which drops the one displayed first).
THEOREM OldestAnchorsGo == StreamSpec => []OldestAnchorGoes
<1>1. ASSUME FramesInv, PlainInv
      PROVE  OldestAnchorGoes
  <2> SUFFICES ASSUME kind = "plain", phase = "header"
               PROVE  {number[s] : s \in RefsOf(slots, "short")} = Window
    BY DEF OldestAnchorGoes, OldestGoes
  <2>1. NumbersOf(Short) = Window
    BY <1>1, WindowHeld DEF InJob
  <2>2. QED
    BY <2>1 DEF NumbersOf, Short
<1>2. QED
  BY <1>1, PlainAlways, PTL

\* There the lists of a B picture start with its neighbours among those references, and
\* that of a P picture has them newest first until frame_num wraps between two of them,
\* when there is room for a reference on each side of a B picture: for streams of any
\* length, frame_num wrapping any number of times
\* (dpb_build_ref_lists, amlvdec_h264_dpb_colocated_ref).
THEOREM ReferencesMeant ==
  ASSUME MaxRefs >= 2
  PROVE  StreamSpec => []ReferencesChosen
<1>1. ASSUME FramesInv, PlainInv
      PROVE  ListsNearest
  <2> SUFFICES ASSUME kind = "plain", phase = "decode"
               PROVE  /\ current.slice = "B" =>
                           /\ \E m \in Past(number[slot]) :
                                FirstOf(list0, m) /\ \A k \in Past(number[slot]) : k <= m
                           /\ \E m \in Future(number[slot]) :
                                FirstOf(list1, m) /\ \A k \in Future(number[slot]) : m <= k
                      /\ current.slice = "P" => NewestFirst
    BY DEF ListsNearest
  <2>1. InJob /\ AnchorInv /\ NextToInv /\ ReverseInv
    BY <1>1 DEF InJob, PlainInv
  <2>2. current.slice \in {"B", "P"} => NumbersOf(Short) = Window /\ refs \in Seq(Nat)
    BY <1>1, <2>1, WindowHeld DEF AnchorInv
  <2>3. ASSUME current.slice = "B"
        PROVE  /\ \E m \in Past(number[slot]) :
                    FirstOf(list0, m) /\ \A k \in Past(number[slot]) : k <= m
               /\ \E m \in Future(number[slot]) :
                    FirstOf(list1, m) /\ \A k \in Future(number[slot]) : m <= k
    <3>1. /\ list0 # << >> /\ list0[1] \in Short /\ number[list0[1]] < number[slot]
          /\ \A s \in Short : number[s] < number[slot] => number[s] <= number[list0[1]]
          /\ list1 # << >> /\ list1[1] \in Short /\ number[slot] < number[list1[1]]
          /\ \A s \in Short : number[slot] < number[s] => number[list1[1]] <= number[s]
      BY <2>1, <2>3 DEF NextToInv
    <3>2. \A s \in Short : number[s] \in Nat
      BY <1>1, KeptFacts DEF FramesInv, WaitInv, Short, RefsOf, InUse
    <3>3. number[slot] \in Nat
      BY <1>1, <2>1, KeptFacts DEF FramesInv, WaitInv, CurrentInv
    <3> DEFINE x == number[list0[1]]
               y == number[list1[1]]
               n == number[slot]
    <3>4. Window = {number[s] : s \in Short}
      BY <2>2, <2>3 DEF NumbersOf
    <3>5. x \in Past(n) /\ FirstOf(list0, x) /\ \A k \in Past(n) : k <= x
      BY <3>1, <3>4 DEF Past, FirstOf
    <3>6. y \in Future(n) /\ FirstOf(list1, y) /\ \A k \in Future(n) : y <= k
      BY <3>1, <3>2, <3>3, <3>4 DEF Future, FirstOf
    <3>7. QED
      BY <3>5, <3>6
  <2>4. ASSUME current.slice = "P"
        PROVE  NewestFirst
    <3> DEFINE w == Newest(refs, MaxRefs)
    <3> SUFFICES ASSUME Len(w) <= current.num
                 PROVE  /\ Shows(list0) = SubSeq(Reverse(w), 1, Len(list0))
                        /\ Len(list0) = IF Len(w) > ListSize THEN ListSize ELSE Len(w)
      BY DEF NewestFirst
    <3>0. Len(w) = Held
      BY <2>2, <2>4, WindowFacts DEF Held
    <3>1. /\ Len(list0) = Listed /\ DOMAIN list0 = 1 .. Listed
          /\ \A i \in 1 .. Listed : number[list0[i]] = refs[Len(refs) + 1 - i]
      BY <2>1, <2>4, <3>0 DEF ReverseInv
    <3>2. /\ w \in Seq(Nat) /\ Len(w) = Held
          /\ \A i \in 1 .. Held : Reverse(w)[i] = refs[Len(refs) + 1 - i]
      BY <2>2, <2>4, WindowFacts DEF Held
    <3>3. Listed = (IF Len(w) > ListSize THEN ListSize ELSE Len(w)) /\ Listed \in Nat
          /\ Listed <= Held /\ Held \in Nat
      BY <3>2, H264DpbAssumption DEF Listed, H264DpbAssumption
    <3>4. SubSeq(Reverse(w), 1, Listed) = [i \in 1 .. Listed |-> Reverse(w)[i]]
      <4>1. Reverse(w) \in Seq(Nat) /\ Len(Reverse(w)) = Held
        BY <3>2, Reversed
      <4>2. QED
        BY <3>3, <4>1
    <3>5. Shows(list0) = [i \in 1 .. Listed |-> number[list0[i]]]
      BY <3>1 DEF Shows
    <3>6. \A i \in 1 .. Listed : number[list0[i]] = Reverse(w)[i]
      BY <3>1, <3>2, <3>3
    <3> HIDE DEF w
    <3>7. Shows(list0) = SubSeq(Reverse(w), 1, Len(list0))
      BY <3>1, <3>4, <3>5, <3>6
    <3>8. QED
      BY <3>1, <3>3, <3>7 DEF w
  <2>5. QED
    BY <2>3, <2>4
<1>2. QED
  BY <1>1, PlainAlways, OldestAnchorsGo, PTL DEF ReferencesChosen

-----------------------------------------------------------------------------
(* What the reference lists hold, for any stream: sort() orders the pictures *)
(* of a set and adds none.                                                   *)

\* the place of s among the pictures of S with the keys g
RankIn(S, g, s) == Cardinality({t \in S : g[t] < g[s] \/ (g[t] = g[s] /\ t < s)})

\* Every place is taken: places differ, and there are as many as pictures.
LEMMA EveryRank ==
  ASSUME NEW S, S \subseteq Int, IsFiniteSet(S), NEW g \in [S -> Int],
         NEW i \in 1 .. Cardinality(S)
  PROVE  \E s \in S : RankIn(S, g, s) = i - 1
<1> DEFINE Below(s) == {t \in S : g[t] < g[s] \/ (g[t] = g[s] /\ t < s)}
           n == Cardinality(S)
           r == [s \in S |-> Cardinality(Below(s))]
<1>1. n \in Nat
  BY FS_CardinalityType
<1>2. \A s \in S : IsFiniteSet(Below(s)) /\ Cardinality(Below(s)) \in Nat
  <2>1. \A s \in S : Below(s) \subseteq S
    OBVIOUS
  <2> HIDE DEF Below
  <2>2. QED
    BY <2>1, FS_Subset, FS_CardinalityType
<1>3. ASSUME NEW s \in S, NEW T \in SUBSET S, IsFiniteSet(T), Below(s) \subseteq T, s \in T
      PROVE  Cardinality(Below(s)) < Cardinality(T)
  <2>1. s \notin Below(s)
    OBVIOUS
  <2> HIDE DEF Below
  <2>2. Cardinality(T) = Cardinality(T \ {s}) + 1 /\ IsFiniteSet(T \ {s})
        /\ Cardinality(T \ {s}) \in Nat
    <3>1. IsFiniteSet(T \ {s}) /\ Cardinality(T \ {s}) = Cardinality(T) - 1
      BY <1>3, FS_RemoveElement
    <3>2. Cardinality(T) \in Nat /\ Cardinality(T \ {s}) \in Nat
      BY <1>3, <3>1, FS_CardinalityType
    <3>3. QED
      BY <3>1, <3>2
  <2>3. Below(s) \in SUBSET (T \ {s})
    BY <1>3, <2>1
  <2>4. Cardinality(Below(s)) <= Cardinality(T \ {s})
    BY <2>2, <2>3, FS_Subset
  <2>5. QED
    BY <1>2, <2>2, <2>4
<1>4. \A s \in S : r[s] \in 0 .. (n - 1)
  <2>1. SUFFICES ASSUME NEW s \in S
                 PROVE  Cardinality(Below(s)) \in 0 .. (n - 1)
    OBVIOUS
  <2>2. Below(s) \subseteq S
    OBVIOUS
  <2> HIDE DEF Below
  <2>3. Cardinality(Below(s)) < n
    BY <1>3, <2>2
  <2>4. QED
    BY <1>1, <1>2, <2>3
<1>5. ASSUME NEW s \in S, NEW t \in S, s # t
      PROVE  r[s] # r[t]
  <2>1. (Below(s) \subseteq Below(t) /\ s \in Below(t))
        \/ (Below(t) \subseteq Below(s) /\ t \in Below(s))
    <3>1. g[s] \in Int /\ g[t] \in Int /\ s \in Int /\ t \in Int
      OBVIOUS
    <3>2. CASE g[s] < g[t] \/ (g[s] = g[t] /\ s < t)
      <4>1. s \in Below(t)
        BY <3>2
      <4>2. ASSUME NEW u \in Below(s)
            PROVE  u \in Below(t)
        <5>1. u \in S /\ u \in Int /\ g[u] \in Int /\ (g[u] < g[s] \/ (g[u] = g[s] /\ u < s))
          OBVIOUS
        <5>2. g[u] < g[t] \/ (g[u] = g[t] /\ u < t)
          BY <3>1, <3>2, <5>1
        <5>3. QED
          BY <5>1, <5>2
      <4>3. QED
        BY <4>1, <4>2
    <3>3. CASE g[t] < g[s] \/ (g[t] = g[s] /\ t < s)
      <4>1. t \in Below(s)
        BY <3>3
      <4>2. ASSUME NEW u \in Below(t)
            PROVE  u \in Below(s)
        <5>1. u \in S /\ u \in Int /\ g[u] \in Int /\ (g[u] < g[t] \/ (g[u] = g[t] /\ u < t))
          OBVIOUS
        <5>2. g[u] < g[s] \/ (g[u] = g[s] /\ u < s)
          BY <3>1, <3>3, <5>1
        <5>3. QED
          BY <5>1, <5>2
      <4>3. QED
        BY <4>1, <4>2
    <3>4. QED
      BY <1>5, <3>1, <3>2, <3>3
  <2>2. Below(s) \in SUBSET S /\ Below(t) \in SUBSET S
    OBVIOUS
  <2> HIDE DEF Below
  <2>3. Cardinality(Below(s)) < Cardinality(Below(t)) \/ Cardinality(Below(t)) < Cardinality(Below(s))
    BY <1>2, <1>3, <2>1, <2>2
  <2>4. r[s] = Cardinality(Below(s)) /\ r[t] = Cardinality(Below(t))
    OBVIOUS
  <2> HIDE DEF r
  <2>5. QED
    BY <1>2, <2>3, <2>4
<1>6. r \in Injection(S, 0 .. (n - 1))
  <2>1. r = [s \in S |-> r[s]]
    OBVIOUS
  <2> HIDE DEF r
  <2>2. QED
    BY <1>4, <1>5, <2>1, Zenon DEF Injection, IsInjective
<1>7. IsFiniteSet(0 .. (n - 1)) /\ Cardinality(0 .. (n - 1)) = n
  <2> HIDE DEF n
  <2>1. 0 \in Int /\ n - 1 \in Int
    BY <1>1
  <2>2. IsFiniteSet(0 .. (n - 1)) /\ Cardinality(0 .. (n - 1)) = IF 0 > n - 1 THEN 0 ELSE (n - 1) - 0 + 1
    BY <2>1, FS_Interval
  <2>3. QED
    BY <1>1, <2>2
<1>8. \A s \in S : r[s] = RankIn(S, g, s)
  BY DEF RankIn
<1> HIDE DEF r
<1>9. r \in Surjection(S, 0 .. (n - 1))
  BY <1>6, <1>7, FS_Injection
<1>10. i - 1 \in 0 .. (n - 1)
  BY <1>1
<1>11. PICK s \in S : r[s] = i - 1
  BY <1>9, <1>10 DEF Surjection
<1>12. QED
  BY <1>8, <1>11

\* A list that takes a picture of a set for each of its places.
LEMMA ListOfSet ==
  ASSUME NEW S, NEW n \in Nat, NEW list, list = [i \in 1 .. n |-> list[i]],
         \A i \in 1 .. n : list[i] \in S
  PROVE  list \in Seq(S)
<1>1. list \in [1 .. n -> S]
  OBVIOUS
<1>2. QED
  BY <1>1

\* The references of one type, and those of both.
RefsIn(f) == RefsOf(f, "short") \cup RefsOf(f, "long")

LEMMA RefsFinite ==
  ASSUME size \in 0 .. NumSlots, NEW f, NEW S, S \subseteq RefsIn(f)
  PROVE  S \subseteq Int /\ S \subseteq Slot /\ IsFiniteSet(S)
<1>1. RefsIn(f) \subseteq 1 .. size /\ 1 .. size \subseteq Slot
  BY H264DpbAssumption DEF RefsIn, RefsOf, InUseOf, Slot, H264DpbAssumption
<1>2. size \in Int /\ 1 \in Int
  BY H264DpbAssumption DEF H264DpbAssumption
<1> DEFINE I == 1 .. size
<1>3. IsFiniteSet(I)
  BY <1>2, FS_Interval
<1>4. S \in SUBSET I /\ I \subseteq Int /\ I \subseteq Slot
  BY <1>1, <1>2
<1> HIDE DEF I
<1>5. QED
  BY <1>3, <1>4, FS_Subset

\* The pictures the two lists are made of.
LEMMA ListParts ==
  ASSUME size \in 0 .. NumSlots, NEW f \in [Slot -> Picture], NEW p, NEW slice
  PROVE  \A k \in {1, 2} : /\ ShortLists(f, p, slice)[k] \in Seq(RefsIn(f))
                           /\ LongLists(f, slice)[k] \in Seq(RefsIn(f))
<1> DEFINE short == RefsOf(f, "short")
           long  == RefsOf(f, "long")
           past  == {s \in short : f[s].poc < f[p].poc}
           Rest  == short \ past
           Key(s)  == KeyOf(f[s])
           Down(s) == 0 - KeyOf(f[s])
           Num(s)  == 0 - f[s].num
           Idx(s)  == f[s].idx
           l1 == Sorted(past, Down)
           l2 == Sorted(Rest, Key)
           l3 == Sorted(short, Num)
           l4 == Sorted(long, Idx)
<1>1. \A s \in RefsIn(f) : Key(s) \in Int /\ Down(s) \in Int /\ Num(s) \in Int /\ Idx(s) \in Int
  <2>1. RefsIn(f) \subseteq Slot
    BY RefsFinite
  <2>2. \A s \in RefsIn(f) : f[s] \in Picture
    BY <2>1
  <2>3. \A s \in RefsIn(f) : KeyOf(f[s]) \in Nat /\ f[s].num \in Int /\ f[s].idx \in Int
    BY <2>2, KeyFacts, H264DpbAssumption DEF Picture, H264DpbAssumption
  <2>4. QED
    BY <2>3
<1>2. short \subseteq RefsIn(f) /\ long \subseteq RefsIn(f) /\ past \subseteq RefsIn(f) /\ Rest \subseteq RefsIn(f)
  BY DEF RefsIn
<1>3. l1 \in Seq(RefsIn(f))
  <2> DEFINE n == Cardinality(past)
             g == [s \in past |-> Down(s)]
             Rank(s) == Cardinality({t \in past : Down(t) < Down(s) \/ (Down(t) = Down(s) /\ t < s)})
             list == l1
  <2>1. list = [i \in 1 .. n |-> CHOOSE s \in past : Rank(s) = i - 1]
    BY DEF Sorted
  <2>2. past \subseteq Int /\ IsFiniteSet(past) /\ n \in Nat
    BY <1>2, RefsFinite, FS_CardinalityType
  <2>3. g \in [past -> Int]
    BY <1>1, <1>2
  <2>4. ASSUME NEW s \in past
        PROVE  Rank(s) = RankIn(past, g, s)
    <3>1. \A t \in past : g[t] = Down(t)
      OBVIOUS
    <3> HIDE DEF past, g, Down
    <3>2. QED
      BY <2>4, <3>1 DEF RankIn
  <2> HIDE DEF past, g, Rank, Down, list
  <2>5. \A i \in 1 .. n : \E s \in past : Rank(s) = i - 1
    BY <2>2, <2>3, <2>4, EveryRank
  <2> HIDE DEF n
  <2>6. list = [i \in 1 .. n |-> list[i]] /\ \A i \in 1 .. n : list[i] \in past
    BY <2>1, <2>5
  <2>7. list \in Seq(past)
    BY <2>2, <2>6, ListOfSet
  <2>8. QED
    BY <1>2, <2>7 DEF list
<1>4. l2 \in Seq(RefsIn(f))
  <2> DEFINE n == Cardinality(Rest)
             g == [s \in Rest |-> Key(s)]
             Rank(s) == Cardinality({t \in Rest : Key(t) < Key(s) \/ (Key(t) = Key(s) /\ t < s)})
             list == l2
  <2>1. list = [i \in 1 .. n |-> CHOOSE s \in Rest : Rank(s) = i - 1]
    BY DEF Sorted
  <2>2. Rest \subseteq Int /\ IsFiniteSet(Rest) /\ n \in Nat
    BY <1>2, RefsFinite, FS_CardinalityType
  <2>3. g \in [Rest -> Int]
    BY <1>1, <1>2
  <2>4. ASSUME NEW s \in Rest
        PROVE  Rank(s) = RankIn(Rest, g, s)
    <3>1. \A t \in Rest : g[t] = Key(t)
      OBVIOUS
    <3> HIDE DEF Rest, g, Key
    <3>2. QED
      BY <2>4, <3>1 DEF RankIn
  <2> HIDE DEF Rest, g, Rank, Key, list
  <2>5. \A i \in 1 .. n : \E s \in Rest : Rank(s) = i - 1
    BY <2>2, <2>3, <2>4, EveryRank
  <2> HIDE DEF n
  <2>6. list = [i \in 1 .. n |-> list[i]] /\ \A i \in 1 .. n : list[i] \in Rest
    BY <2>1, <2>5
  <2>7. list \in Seq(Rest)
    BY <2>2, <2>6, ListOfSet
  <2>8. QED
    BY <1>2, <2>7 DEF list
<1>5. l3 \in Seq(RefsIn(f))
  <2> DEFINE n == Cardinality(short)
             g == [s \in short |-> Num(s)]
             Rank(s) == Cardinality({t \in short : Num(t) < Num(s) \/ (Num(t) = Num(s) /\ t < s)})
             list == l3
  <2>1. list = [i \in 1 .. n |-> CHOOSE s \in short : Rank(s) = i - 1]
    BY DEF Sorted
  <2>2. short \subseteq Int /\ IsFiniteSet(short) /\ n \in Nat
    BY <1>2, RefsFinite, FS_CardinalityType
  <2>3. g \in [short -> Int]
    BY <1>1, <1>2
  <2>4. ASSUME NEW s \in short
        PROVE  Rank(s) = RankIn(short, g, s)
    <3>1. \A t \in short : g[t] = Num(t)
      OBVIOUS
    <3> HIDE DEF short, g, Num
    <3>2. QED
      BY <2>4, <3>1 DEF RankIn
  <2> HIDE DEF short, g, Rank, Num, list
  <2>5. \A i \in 1 .. n : \E s \in short : Rank(s) = i - 1
    BY <2>2, <2>3, <2>4, EveryRank
  <2> HIDE DEF n
  <2>6. list = [i \in 1 .. n |-> list[i]] /\ \A i \in 1 .. n : list[i] \in short
    BY <2>1, <2>5
  <2>7. list \in Seq(short)
    BY <2>2, <2>6, ListOfSet
  <2>8. QED
    BY <1>2, <2>7 DEF list
<1>6. l4 \in Seq(RefsIn(f))
  <2> DEFINE n == Cardinality(long)
             g == [s \in long |-> Idx(s)]
             Rank(s) == Cardinality({t \in long : Idx(t) < Idx(s) \/ (Idx(t) = Idx(s) /\ t < s)})
             list == l4
  <2>1. list = [i \in 1 .. n |-> CHOOSE s \in long : Rank(s) = i - 1]
    BY DEF Sorted
  <2>2. long \subseteq Int /\ IsFiniteSet(long) /\ n \in Nat
    BY <1>2, RefsFinite, FS_CardinalityType
  <2>3. g \in [long -> Int]
    BY <1>1, <1>2
  <2>4. ASSUME NEW s \in long
        PROVE  Rank(s) = RankIn(long, g, s)
    <3>1. \A t \in long : g[t] = Idx(t)
      OBVIOUS
    <3> HIDE DEF long, g, Idx
    <3>2. QED
      BY <2>4, <3>1 DEF RankIn
  <2> HIDE DEF long, g, Rank, Idx, list
  <2>5. \A i \in 1 .. n : \E s \in long : Rank(s) = i - 1
    BY <2>2, <2>3, <2>4, EveryRank
  <2> HIDE DEF n
  <2>6. list = [i \in 1 .. n |-> list[i]] /\ \A i \in 1 .. n : list[i] \in long
    BY <2>1, <2>5
  <2>7. list \in Seq(long)
    BY <2>2, <2>6, ListOfSet
  <2>8. QED
    BY <1>2, <2>7 DEF list
<1>7. << >> \in Seq(RefsIn(f))
  OBVIOUS
<1>8. /\ ShortLists(f, p, slice) = IF slice = "B" THEN <<l1, l2>> ELSE IF slice = "P" THEN <<l3, << >> >>
                                   ELSE << << >>, << >> >>
      /\ LongLists(f, slice) = IF slice = "B" THEN <<l4, l4>> ELSE IF slice = "P" THEN <<l4, << >> >>
                               ELSE << << >>, << >> >>
  BY DEF ShortLists, LongLists, Sorted
<1> HIDE DEF l1, l2, l3, l4
<1> DEFINE T == Seq(RefsIn(f))
<1>9. l1 \in T /\ l2 \in T /\ l3 \in T /\ l4 \in T /\ << >> \in T
  BY <1>3, <1>4, <1>5, <1>6, <1>7
<1> HIDE DEF T
<1>10. \A k \in {1, 2} : ShortLists(f, p, slice)[k] \in T /\ LongLists(f, slice)[k] \in T
  <2>1. CASE slice = "B"
    BY <1>8, <1>9, <2>1
  <2>2. CASE slice = "P"
    BY <1>8, <1>9, <2>2
  <2>3. CASE slice \notin {"B", "P"}
    BY <1>8, <1>9, <2>3
  <2>4. QED
    BY <2>1, <2>2, <2>3
<1>11. QED
  BY <1>10 DEF T

\* The active part of a list, and a list one picture of which goes first.
LEMMA CutIn ==
  ASSUME NEW R, NEW list \in Seq(R)
  PROVE  Cut(list) \in Seq(R)
<1>1. ListSize \in Nat \ {0}
  BY H264DpbAssumption DEF H264DpbAssumption
<1>2. CASE Len(list) > ListSize
  <2>1. Cut(list) = SubSeq(list, 1, ListSize)
    BY <1>2 DEF Cut
  <2>2. SubSeq(list, 1, ListSize) \in Seq(R)
    BY <1>1, <1>2
  <2>3. QED
    BY <2>1, <2>2
<1>3. CASE ~(Len(list) > ListSize)
  BY <1>3 DEF Cut
<1>4. QED
  BY <1>2, <1>3

LEMMA ReorderIn ==
  ASSUME NEW R, NEW list \in Seq(R), NEW f, NEW p, NEW c
  PROVE  Reorder(f, p, list, c) \in Seq(R)
<1> DEFINE num == (f[p].num + (IF c.op = "decrease" THEN 0 - (c.arg + 1) ELSE c.arg + 1))
                    % MaxFrameNum
           Meant(s) == IF c.op = "long" THEN f[s].type = "long" /\ f[s].idx = c.arg
                       ELSE f[s].type = "short" /\ f[s].num = num
           found == {i \in DOMAIN list : Meant(list[i])}
           j == CHOOSE i \in found : \A k \in found : i <= k
           moved == <<list[j]>> \o SubSeq(list, 1, j - 1) \o SubSeq(list, j + 1, Len(list))
<1>1. Reorder(f, p, list, c) = IF found = {} THEN list ELSE moved
  BY DEF Reorder, MoveToFront
<1>2. found \subseteq 1 .. Len(list) /\ Len(list) \in Nat
  OBVIOUS
<1> HIDE DEF found
<1>3. ASSUME found # {}
      PROVE  moved \in Seq(R)
  <2>1. found \subseteq Nat
    BY <1>2
  <2>2. \E i \in found : \A k \in found : i <= k
    BY <1>3, <2>1, LeastExists
  <2>3. j \in 1 .. Len(list)
    BY <1>2, <2>2
  <2> HIDE DEF j
  <2>4. <<list[j]>> \in Seq(R)
    BY <2>3
  <2>5. SubSeq(list, 1, j - 1) \in Seq(R)
    BY <1>2, <2>3
  <2>6. SubSeq(list, j + 1, Len(list)) \in Seq(R)
    BY <1>2, <2>3
  <2>7. QED
    BY <2>4, <2>5, <2>6
<1> HIDE DEF moved
<1>4. QED
  BY <1>1, <1>3

LEMMA ReorderAllIn ==
  ASSUME NEW R, NEW list \in Seq(R), NEW f, NEW p, NEW C, NEW cs \in Seq(C)
  PROVE  ReorderAll(f, p, list, cs) \in Seq(R)
<1> DEFINE Steps(g, m) ==
      g = [i \in 0 .. m |-> IF i = 0 THEN list ELSE Reorder(f, p, g[i - 1], cs[i])]
           n == Len(cs)
           after == CHOOSE g : Steps(g, n)
<1>1. n \in Nat
  BY LenProperties
<1>2. ASSUME NEW m \in Nat
      PROVE  \E g : Steps(g, m)
  <2> DEFINE Bad == {k \in Nat : ~ \E g : Steps(g, k)}
  <2>1. SUFFICES ASSUME Bad # {}
                 PROVE  FALSE
    OBVIOUS
  <2>2. PICK k \in Bad : \A l \in Bad : k <= l
    BY <2>1, LeastExists
  <2>3. CASE k = 0
    <3>1. Steps([i \in 0 .. 0 |-> list], 0)
      OBVIOUS
    <3>2. QED
      BY <2>2, <2>3, <3>1
  <2>4. CASE k # 0
    <3>1. k - 1 \in Nat /\ k - 1 \notin Bad
      <4>1. k \in Nat
        OBVIOUS
      <4> HIDE DEF Bad
      <4>2. QED
        BY <2>2, <2>4, <4>1
    <3>2. PICK g : Steps(g, k - 1)
      BY <3>1
    <3> DEFINE h == [i \in 0 .. k |-> IF i = k THEN Reorder(f, p, g[k - 1], cs[k]) ELSE g[i]]
    <3>3. Steps(h, k)
      <4>1. ASSUME NEW i \in 0 .. k
            PROVE  h[i] = IF i = 0 THEN list ELSE Reorder(f, p, h[i - 1], cs[i])
        <5>1. CASE i = k
          <6>1. h[k] = Reorder(f, p, g[k - 1], cs[k]) /\ h[k - 1] = g[k - 1]
            BY <2>4, <3>1
          <6>2. QED
            BY <2>4, <5>1, <6>1
        <5>2. CASE i # k
          <6>1. i \in 0 .. (k - 1) /\ h[i] = g[i] /\ (i # 0 => h[i - 1] = g[i - 1])
            BY <3>1, <5>2
          <6>2. g[i] = IF i = 0 THEN list ELSE Reorder(f, p, g[i - 1], cs[i])
            BY <3>2, <6>1
          <6>3. QED
            BY <6>1, <6>2
        <5>3. QED
          BY <5>1, <5>2
      <4>2. QED
        BY <4>1
    <3>4. QED
      BY <2>2, <3>3
  <2>5. QED
    BY <2>3, <2>4
<1>3. Steps(after, n)
  BY <1>1, <1>2
<1>4. ReorderAll(f, p, list, cs) = after[n]
  BY DEF ReorderAll
<1> HIDE DEF after
<1>5. \A i \in 0 .. n : after[i] = IF i = 0 THEN list ELSE Reorder(f, p, after[i - 1], cs[i])
  BY <1>3
<1> HIDE DEF n
<1>6. \A i \in 0 .. n : after[i] \in Seq(R)
  <2> DEFINE Bad == {i \in 0 .. n : after[i] \notin Seq(R)}
  <2>1. SUFFICES ASSUME Bad # {}
                 PROVE  FALSE
    OBVIOUS
  <2>2. Bad \subseteq Nat
    BY <1>1
  <2>3. PICK k \in Bad : \A l \in Bad : k <= l
    BY <2>1, <2>2, LeastExists
  <2>4. k # 0
    BY <1>5, <2>3
  <2>5. k - 1 \in 0 .. n /\ k - 1 \notin Bad
    BY <1>1, <2>3, <2>4
  <2>6. after[k - 1] \in Seq(R)
    BY <2>5
  <2>7. after[k] \in Seq(R)
    BY <1>5, <2>3, <2>4, <2>6, ReorderIn
  <2>8. QED
    BY <2>3, <2>7
<1>7. QED
  BY <1>1, <1>4, <1>6

\* dpb_build_ref_lists and reorder_refs put nothing but references into the lists.
LEMMA ListsOfRefs ==
  ASSUME size \in 0 .. NumSlots, NEW f \in [Slot -> Picture], NEW p, NEW h \in Header
  PROVE  List0(f, p, h) \in Seq(RefsIn(f)) /\ List1(f, p, h) \in Seq(RefsIn(f))
<1> DEFINE a == ShortLists(f, p, h.slice)
           b == LongLists(f, h.slice)
<1>1. \A k \in {1, 2} : a[k] \in Seq(RefsIn(f)) /\ b[k] \in Seq(RefsIn(f))
  BY ListParts
<1> HIDE DEF a, b
<1>2. \A k \in {1, 2} : a[k] \o b[k] \in Seq(RefsIn(f))
  BY <1>1
<1>3. Cut(a[1] \o b[1]) \in Seq(RefsIn(f)) /\ Cut(a[2] \o b[2]) \in Seq(RefsIn(f))
  BY <1>2, CutIn
<1>4. h.reorder0 \o h.reorder1 \in Seq(ReorderCommand)
  BY DEF Header
<1>5. ReorderAll(f, p, Cut(a[1] \o b[1]), h.reorder0 \o h.reorder1) \in Seq(RefsIn(f))
  BY <1>3, <1>4, ReorderAllIn
<1>6. QED
  BY <1>3, <1>5 DEF List0, List1, a, b

\* between the header of a picture and the end of its decoding
Decoding == (pc = "wait" /\ command = "newpic") \/ (pc = "flush" /\ reason = "header")
InLists  == Range(list0) \cup Range(list1)

ListedInv ==
  ~overrun /\ ~starved /\ Decoding =>
    \A s \in InLists : s \in Slot /\ slots[s].state = "ref_in_use"

\* a header without a CAPTURE buffer leaves a picture behind that ends the job
StarvedJob ==
  /\ pc = "flush" /\ reason = "abort" /\ job = "running"
  /\ \A q \in Queue : stream[q] \in {"on", "cancel"}
  /\ slots \in [Slot -> Picture] /\ size \in 0 .. NumSlots
  /\ \E s \in InUse : slots[s].output /\ slots[s].buffer = NoFrame
StarvedInv == ~overrun /\ starved => pc = "oops" \/ StarvedJob

\* the picture that is decoded is not released before it has been
CurrentKept ==
  ~overrun /\ ~starved /\ Decoding => slots[dpbPic].state \in {"init", "ref_in_use"}

\* a first field leaves the buffer to a second that is output later
BackedIn(f) ==
  \A s \in Slot : f[s].state # "unused" /\ ~f[s].output =>
    \E t \in OwnerIn(f) : f[t].buffer = f[s].buffer /\ KeyOf(f[s]) < KeyOf(f[t])
BackedInv == ~overrun /\ ~starved => BackedIn(slots)

\* What has happened stays so.
LEMMA HistoryKept ==
  ASSUME [Next]_vars
  PROVE  (~overrun' => ~overrun) /\ (~starved' => ~starved)
<1>1. CASE UNCHANGED vars
  BY <1>1 DEF vars, history
<1>2. CASE Next
  <2>1. overrun' = overrun \/ overrun' = (overrun \/ (job = "running" /\ hasStopped))
        \/ \E q \in Queue : StopStreaming(q)
    BY <1>2 DEF Next, Job, Isr, Stop, Ioctl, DecoderStart, Timeout, DecodeError, Abort,
                ConfigRequest, IgnoreData, PictureBufferFull, HeaderDone, NoDestination,
                DecoderDone, FlushStep, DecodeNewPic, FinishJob, QueueEos, UseAfterFree,
                StopFlushStep, UserQBuf, StreamOn, StreamOff, DecoderCmd, Reconfigure, history
  <2>2. ~overrun' => ~overrun
    BY <2>1 DEF StopStreaming
  <2>3. starved' = starved \/ NoDestination
    BY <1>2 DEF Next, Job, Isr, Stop, Ioctl, DecoderStart, Timeout, DecodeError,
                ConfigRequest, IgnoreData, PictureBufferFull, HeaderDone,
                DecoderDone, FlushStep, DecodeNewPic, FinishJob, QueueEos, UseAfterFree,
                StopFlushStep, StopStreaming, UserQBuf, StreamOn, StreamOff, DecoderCmd,
                Reconfigure, history
  <2>4. QED
    BY <2>2, <2>3 DEF NoDestination
<1>3. QED
  BY <1>1, <1>2

\* A complete flush is not over while a picture is in use.
LEMMA FlushGoesOn ==
  ASSUME slots \in [Slot -> Picture], size \in 0 .. NumSlots, InUse # {}
  PROVE  Outputs(TRUE) # {}
<1> DEFINE Keys == {KeyOf(slots[s]) : s \in InUse}
<1>1. \A s \in InUse : KeyOf(slots[s]) \in Nat
  <2>1. InUse \subseteq Slot
    BY H264DpbAssumption DEF InUse, InUseOf, Slot, H264DpbAssumption
  <2>2. QED
    BY <2>1, KeyFacts
<1>2. Keys \subseteq Nat /\ Keys # {}
  BY <1>1
<1>3. PICK k \in Keys : \A l \in Keys : k <= l
  BY <1>2, LeastExists
<1>4. PICK s \in InUse : k = KeyOf(slots[s])
  BY <1>3
<1>5. \A t \in InUse : KeyOf(slots[t]) >= KeyOf(slots[s])
  BY <1>1, <1>3, <1>4
<1>6. QED
  BY <1>4, <1>5 DEF Outputs

\* -ENOSR: the picture keeps its slot, and owns a buffer it has not got.
LEMMA StarvedStarts ==
  ASSUME SafeInv, NoDestination
  PROVE  StarvedJob'
<1>1. PICK h \in Coming : slots' = Added(FirstFree, h)
  BY DEF NoDestination
<1>2. /\ pc = "wait" /\ pc' = "flush" /\ reason' = "abort" /\ Free # {}
      /\ UNCHANGED <<stream, job, size>>
  BY DEF NoDestination, Woken, Abort, NewPic
<1>3. job = "running" /\ \A q \in Queue : stream[q] \in {"on", "cancel"}
  BY <1>2 DEF SafeInv, JobInv, StreamInv
<1>4. FirstFree \in Free /\ FirstFree \in Slot /\ slots[FirstFree].state = "unused"
  BY <1>2, FirstFreeFacts DEF SafeInv
<1> DEFINE p == FirstFree
<1> HIDE DEF p
<1>5. /\ slots' \in [Slot -> Picture]
      /\ slots'[p].state # "unused" /\ slots'[p].output /\ slots'[p].buffer = NoFrame
  BY <1>1, <1>4, AddedFacts DEF SafeInv, p
<1>6. p \in InUse'
  BY <1>2, <1>4, <1>5 DEF InUse, InUseOf, Free, p
<1>7. size' \in 0 .. NumSlots
  BY <1>2 DEF SafeInv, TypeInv
<1>8. QED
  BY <1>2, <1>3, <1>5, <1>6, <1>7 DEF StarvedJob

\* One iteration of that flush outputs another picture, or crashes.
LEMMA StarvedFlush ==
  ASSUME StarvedJob, FlushStep
  PROVE  pc' = "oops" \/ StarvedJob'
<1>1. PICK s \in Outputs(TRUE) : OutputPicture(s) /\ pc' = IF Faults(s) THEN "oops" ELSE pc
  BY DEF FlushStep, StarvedJob, FlushAll
<1>2. SUFFICES ASSUME ~Faults(s)
               PROVE  StarvedJob'
  BY <1>1
<1>3. s \in InUse /\ InUse \subseteq Slot
  BY <1>1, H264DpbAssumption DEF StarvedJob, Outputs, InUse, InUseOf, Slot, H264DpbAssumption
<1>4. PICK p \in InUse : slots[p].output /\ slots[p].buffer = NoFrame
  BY DEF StarvedJob
<1>5. p # s
  BY <1>2, <1>4, H264Assumption DEF Faults, H264Assumption
<1> DEFINE y == Recycled(slots[s].structure)
<1>6. slots' = [slots EXCEPT ![s] = y] /\ size' = size
  BY <1>1 DEF OutputPicture, RecyclePic
<1>7. y \in Picture
  <2>1. /\ 0 \in 0 .. (MaxFrameNum - 1) /\ 0 \in 0 .. (PocMod - 1) /\ 0 \in 0 .. (SequenceMod - 1)
        /\ NoIdx \in Int /\ slots[s].structure \in Structure
    BY <1>3, H264DpbAssumption DEF StarvedJob, H264DpbAssumption, NoIdx, Picture
  <2>2. QED
    BY <2>1 DEF Recycled, Picture, SlotState
<1> HIDE DEF y
<1>8. slots' \in [Slot -> Picture] /\ slots'[p] = slots[p]
  BY <1>3, <1>5, <1>6, <1>7 DEF StarvedJob
<1>9. p \in InUse'
  BY <1>4, <1>6, <1>8 DEF InUse, InUseOf
<1>10. UNCHANGED <<reason, job, stream>> /\ pc' = pc
  BY <1>1, <1>2 DEF FlushStep
<1>11. QED
  BY <1>4, <1>6, <1>8, <1>9, <1>10 DEF StarvedJob

LEMMA StarvedStep ==
  ASSUME IInv, StarvedInv, [Next]_vars
  PROVE  StarvedInv'
<1>1. SUFFICES ASSUME ~overrun', starved'
               PROVE  pc' = "oops" \/ StarvedJob'
  BY DEF StarvedInv
<1>2. ~overrun
  BY <1>1, HistoryKept
<1>3. CASE UNCHANGED vars
  <2>1. UNCHANGED <<dpbVars, pc, job, stream, reason, starved>>
    BY <1>3 DEF vars, m2mVars, jobVars, history
  <2>2. QED
    BY <1>1, <1>2, <2>1 DEF StarvedInv, StarvedJob, dpbVars, InUse, InUseOf
<1>4. CASE Next /\ ~starved
  <2>1. NoDestination
    BY <1>1, <1>4 DEF Next, Job, Isr, Stop, Ioctl, DecoderStart, Timeout, DecodeError,
                ConfigRequest, IgnoreData, PictureBufferFull, HeaderDone,
                DecoderDone, FlushStep, DecodeNewPic, FinishJob, QueueEos, UseAfterFree,
                StopFlushStep, StopStreaming, UserQBuf, StreamOn, StreamOff, DecoderCmd,
                Reconfigure, history
  <2>2. QED
    BY <1>2, <1>4, <2>1, StarvedStarts DEF IInv
<1>5. CASE Next /\ starved
  <2>1. StarvedJob
    BY <1>2, <1>5 DEF StarvedInv, Next
  <2>2. /\ pc = "flush" /\ reason = "abort" /\ job = "running"
        /\ \A q \in Queue : stream[q] \in {"on", "cancel"}
        /\ Outputs(TRUE) # {}
    BY <2>1, FlushGoesOn DEF StarvedJob
  <2>3. CASE FlushStep
    BY <2>1, <2>3, StarvedFlush
  <2>4. CASE UseAfterFree
    BY <2>4 DEF UseAfterFree
  <2>5. CASE \E q \in Queue : StreamOff(q)
    <3>1. PICK q \in Queue : StreamOff(q)
      BY <2>5
    <3>2. /\ stream' = [stream EXCEPT ![q] = "cancel"] /\ job' = job
          /\ UNCHANGED <<dpbVars, pc, reason>>
      BY <1>1, <2>2, <3>1 DEF StreamOff, jobVars
    <3>3. \A r \in Queue : stream'[r] \in {"on", "cancel"}
      BY <2>2, <3>2
    <3>4. QED
      BY <2>1, <3>2, <3>3 DEF StarvedJob, dpbVars, InUse, InUseOf
  <2>6. CASE Isr \/ DecoderCmd \/ \E b \in Buf : UserQBuf(b)
    <3>1. UNCHANGED <<dpbVars, pc, reason, job, stream>>
      BY <2>6 DEF Isr, DecoderCmd, UserQBuf, QBuf, CmdStop, CmdStart, m2mVars, jobVars
    <3>2. QED
      BY <2>1, <3>1 DEF StarvedJob, dpbVars, InUse, InUseOf
  <2>7. ~Stop
    BY <2>2 DEF Stop, StopFlushStep, StopStreaming
  <2>8. ~Reconfigure /\ \A q \in Queue : ~StreamOn(q)
    BY <2>2 DEF Reconfigure, StreamOn, StreamOnQueue, Queue
  <2>9. Job => FlushStep \/ UseAfterFree
    BY <2>2 DEF Job, DecoderStart, JobReady, Timeout, DecodeError, Woken, ConfigRequest,
                IgnoreData, PictureBufferFull, HeaderDone, NoDestination, DecoderDone,
                DecodeNewPic, FinishJob, FlushAll, QueueEos
  <2>10. QED
    BY <1>5, <2>3, <2>4, <2>5, <2>6, <2>7, <2>8, <2>9 DEF Next, Ioctl
<1>6. QED
  BY <1>3, <1>4, <1>5

\* Between a header and the end of the decoding, only the flush changes pictures,
\* and only ones that are no longer references.
LEMMA DecodingSteps ==
  ASSUME SafeInv, Next, ~HeaderDone, ~overrun', ~starved', Decoding'
  PROVE  /\ Decoding /\ UNCHANGED <<list0, list1, dpbPic>>
         /\ \A s \in Slot : slots[s].state # "output_ready" => slots'[s] = slots[s]
<1>1. job = "none" => pc \notin {"wait", "flush"}
  BY DEF SafeInv, JobInv
<1>2. CASE FlushStep \/ StopFlushStep
  <2>1. PICK all \in BOOLEAN : \E s \in Outputs(all) :
          /\ OutputPicture(s) /\ pc' = IF Faults(s) THEN "oops" ELSE pc
          /\ (all => reason = "abort" \/ job = "none")
    BY <1>2 DEF FlushStep, StopFlushStep, FlushAll
  <2>2. PICK s \in Outputs(all) : OutputPicture(s) /\ pc' = IF Faults(s) THEN "oops" ELSE pc
    BY <2>1
  <2>3. UNCHANGED <<reason, dpbPic, command, job>>
    BY <1>2 DEF FlushStep, StopFlushStep, hwVars
  <2>4. pc' = pc /\ Decoding
    BY <2>2, <2>3 DEF Decoding
  <2>5. job # "none" /\ ~StopFlushStep
    BY <1>1, <2>4 DEF Decoding, StopFlushStep
  <2>6. pc = "flush" /\ reason = "header"
    BY <1>2, <2>4, <2>5 DEF Decoding, FlushStep
  <2>7. ~all
    BY <2>1, <2>5, <2>6
  <2>8. slots[s].state = "output_ready" /\ s \in Slot
    BY <2>7, FlushFacts DEF Outputs, SafeInv
  <2>9. UNCHANGED <<list0, list1>> /\ \A t \in Slot \ {s} : slots'[t] = slots[t]
    <3>1. slots \in [Slot -> Picture]
      BY DEF SafeInv, TypeInv
    <3>2. slots' = [slots EXCEPT ![s] = Recycled(slots[s].structure)]
          /\ UNCHANGED <<list0, list1>>
      BY <2>2 DEF OutputPicture, RecyclePic
    <3>3. QED
      BY <3>1, <3>2
  <2>10. QED
    BY <2>3, <2>4, <2>8, <2>9
<1>3. CASE Job /\ ~FlushStep
  <2>1. CASE IgnoreData \/ DecodeNewPic
    BY <2>1 DEF IgnoreData, DecodeNewPic, DecoderLoop, Woken, Decoding, dpbVars, SafeInv, JobInv
  <2>2. CASE ~(IgnoreData \/ DecodeNewPic)
    BY <1>3, <2>2 DEF Job, Decoding, DecoderStart, DecoderLoop, Timeout, DecodeError, Abort,
                      ConfigRequest, PictureBufferFull, NoDestination, DecoderDone, FinishJob,
                      QueueEos, UseAfterFree
  <2>3. QED
    BY <2>1, <2>2
<1>4. CASE Isr \/ \E q \in Queue : StopStreaming(q)
  BY <1>4 DEF Isr, StopStreaming, Decoding, dpbVars, jobVars, hwVars
<1>5. CASE Ioctl
  <2>1. ASSUME NEW q \in Queue, StreamOn(q)
        PROVE  FALSE
    <3>1. pc' = pc /\ command' = command /\ reason' = reason /\ stream[q] = "idle"
      BY <2>1 DEF StreamOn, StreamOnQueue, hwVars
    <3>2. job = "running"
      BY <3>1 DEF Decoding, SafeInv, JobInv
    <3>3. QED
      BY <3>1, <3>2 DEF SafeInv, StreamInv
  <2>2. UNCHANGED <<dpbVars, jobVars, hwVars>>
    BY <1>5, <2>1 DEF Ioctl, UserQBuf, StreamOff, DecoderCmd, Reconfigure
  <2>3. QED
    BY <2>2 DEF Decoding, dpbVars, jobVars, hwVars
<1>6. QED
  BY <1>2, <1>3, <1>4, <1>5 DEF Next, Stop

\* The lists of a new picture name references, after the marking it asks for.
LEMMA ListedHeader ==
  ASSUME SafeInv, HeaderDone
  PROVE  \A s \in InLists' : s \in Slot /\ slots'[s].state = "ref_in_use"
<1> DEFINE p == FirstFree
<1>1. PICK h \in Coming : \/ SecondField(p, h)
                          \/ Ready("dst") /\ FirstField(p, h)
  BY DEF HeaderDone
<1>2. pc = "wait" /\ Free # {}
  BY DEF HeaderDone, Woken
<1>3. p \in Free /\ p \in Slot /\ slots[p].state = "unused"
  BY <1>2, FirstFreeFacts DEF SafeInv
<1> DEFINE g == Added(p, h)
<1>4. list0' = List0(g, p, h) /\ list1' = List1(g, p, h)
  BY <1>1 DEF SecondField, FirstField, NewPic
<1> HIDE DEF p
<1>5. g \in [Slot -> Picture]
  BY <1>3, AddedFacts DEF SafeInv
<1>6. \A s \in Slot : slots'[s].state = g[s].state
  <2>1. CASE FirstField(p, h)
    <3>1. slots' = [g EXCEPT ![p] = [@ EXCEPT !.buffer = Removed("dst")]]
      BY <2>1 DEF FirstField
    <3> HIDE DEF g
    <3>2. \A x \in Picture : \A b : [x EXCEPT !.buffer = b].state = x.state
      BY DEF Picture
    <3>3. QED
      BY <1>3, <1>5, <3>1, <3>2
  <2>2. CASE SecondField(p, h)
    <3> DEFINE b == g[pendingField].buffer
               k == pendingField
    <3>1. slots' = [g EXCEPT ![p] = [@ EXCEPT !.buffer = b], ![k] = [@ EXCEPT !.output = FALSE]]
      BY <2>2 DEF SecondField
    <3>2. \A x \in Picture : \A c :
           /\ [x EXCEPT !.buffer = c].state = x.state
           /\ [x EXCEPT !.output = FALSE].state = x.state
      BY DEF Picture
    <3>3. k \in Slot \cup {NoSlot}
      BY DEF SafeInv, TypeInv
    <3>4. k \in Slot /\ k # p
      <4>1. Matches(g, SequenceAfter(h), k, h)
        BY <2>2 DEF SecondField, IsSecondField
      <4>2. g[p].structure = h.structure
        BY <1>3, AddedFacts DEF SafeInv
      <4>3. k # NoSlot /\ {g[k].structure, h.structure} = {"top", "bottom"}
        BY <4>1 DEF Matches
      <4> HIDE DEF g, k
      <4>4. g[k].structure # h.structure
        BY <4>3
      <4>5. QED
        BY <3>3, <4>2, <4>3, <4>4
    <3> HIDE DEF b, g, k
    <3>5. slots'[p] = [g[p] EXCEPT !.buffer = b] /\ slots'[k] = [g[k] EXCEPT !.output = FALSE]
          /\ \A s \in Slot \ {p, k} : slots'[s] = g[s]
      BY <1>3, <1>5, <3>1, <3>4
    <3>6. slots'[p].state = g[p].state /\ slots'[k].state = g[k].state
      BY <1>3, <1>5, <3>2, <3>4, <3>5
    <3>7. QED
      BY <3>5, <3>6
  <2>3. QED
    BY <1>1, <2>1, <2>2
<1>7. h \in Header /\ size \in 0 .. NumSlots
  BY SequenceFacts DEF SafeInv, TypeInv
<1>8. list0' \in Seq(RefsIn(g)) /\ list1' \in Seq(RefsIn(g))
  BY <1>4, <1>5, <1>7, ListsOfRefs
<1> HIDE DEF g
<1>9. InLists' \subseteq RefsIn(g)
  <2>1. \A l \in Seq(RefsIn(g)) : Range(l) \subseteq RefsIn(g)
    BY DEF Range
  <2>2. QED
    BY <1>8, <2>1 DEF InLists
<1>10. \A s \in RefsIn(g) : s \in Slot /\ g[s].state = "ref_in_use"
  BY <1>7, H264DpbAssumption DEF RefsIn, RefsOf, InUseOf, Slot, H264DpbAssumption
<1>11. QED
  BY <1>6, <1>9, <1>10

LEMMA ListedStep ==
  ASSUME IInv, ListedInv, [Next]_vars
  PROVE  ListedInv'
<1>1. SUFFICES ASSUME ~overrun', ~starved', Decoding'
               PROVE  \A s \in InLists' : s \in Slot /\ slots'[s].state = "ref_in_use"
  BY DEF ListedInv
<1>2. ~overrun /\ ~starved
  BY <1>1, HistoryKept
<1>3. SafeInv
  BY <1>2 DEF IInv
<1>4. CASE UNCHANGED vars
  <2>1. UNCHANGED <<dpbVars, pc, reason, command>>
    BY <1>4 DEF vars, hwVars, jobVars
  <2>2. QED
    BY <1>1, <1>2, <2>1 DEF ListedInv, Decoding, InLists, dpbVars
<1>5. CASE HeaderDone
  BY <1>3, <1>5, ListedHeader
<1>6. CASE Next /\ ~HeaderDone
  <2>1. /\ Decoding /\ UNCHANGED <<list0, list1>>
        /\ \A s \in Slot : slots[s].state # "output_ready" => slots'[s] = slots[s]
    BY <1>1, <1>3, <1>6, DecodingSteps
  <2>2. \A s \in InLists : s \in Slot /\ slots[s].state = "ref_in_use"
    BY <1>2, <2>1 DEF ListedInv
  <2>3. QED
    BY <2>1, <2>2 DEF InLists
<1>7. QED
  BY <1>4, <1>5, <1>6

\* No command but "reset" releases the picture that carries it: until it is decoded
\* it is in no sequence.
LEMMA CommandKeepsSelf ==
  ASSUME NEW f \in [Slot -> Picture], NEW p \in Slot, f[p].seq # sequence,
         f[p].state \in {"init", "ref_in_use"}, NEW c \in MemoryCommand,
         c.op = "reset" => f[p].state = "init"
  PROVE  LET x == Command(f, p, c)[p]
         IN  /\ x.state \in {"init", "ref_in_use"}
             /\ x.state = "ref_in_use" => f[p].state = "ref_in_use" \/ c.op = "current_long"
<1>1. c.op \in {"short_unused", "long_unused", "assign_long", "max_long_idx", "reset",
                "current_long"}
  BY DEF MemoryCommand
<1>2. p \notin InSequence(f) /\ f[p] \in Picture
  BY DEF InSequence
<1>3. ASSUME NEW S, p \notin S
      PROVE  Released(f, S)[p] = f[p] /\ ReleasedLong(f, S)[p] = f[p]
  BY <1>3 DEF Released, ReleasedLong
<1>4. CASE c.op \in {"short_unused", "long_unused", "max_long_idx"}
  <2>1. \E S : p \notin S /\ (Command(f, p, c) = Released(f, S) \/ Command(f, p, c) = ReleasedLong(f, S))
    <3>1. CASE c.op = "short_unused"
      <4> DEFINE S == {s \in RefsOf(f, "short") \cap InSequence(f) :
                         f[s].num = PicNum(f[p], FirstArg(c))}
      <4>1. Command(f, p, c) = Released(f, S)
        BY <3>1 DEF Command
      <4>2. p \notin S
        BY <1>2
      <4>3. QED
        BY <4>1, <4>2
    <3>2. CASE c.op = "long_unused"
      <4> DEFINE S == {s \in RefsOf(f, "long") \cap InSequence(f) : f[s].num = FirstArg(c)}
      <4>1. Command(f, p, c) = ReleasedLong(f, S)
        BY <3>2 DEF Command
      <4>2. p \notin S
        BY <1>2
      <4>3. QED
        BY <4>1, <4>2
    <3>3. CASE c.op = "max_long_idx"
      <4> DEFINE S == {s \in RefsOf(f, "long") \cap InSequence(f) :
                         f[s].idx > FirstArg(c) - 1}
      <4>1. Command(f, p, c) = ReleasedLong(f, S)
        BY <3>3 DEF Command
      <4>2. p \notin S
        BY <1>2
      <4>3. QED
        BY <4>1, <4>2
    <3>4. QED
      BY <1>4, <3>1, <3>2, <3>3
  <2>2. Command(f, p, c)[p] = f[p]
    BY <1>3, <2>1
  <2>3. QED
    BY <2>2
<1>5. CASE c.op = "assign_long"
  <2>1. Command(f, p, c)[p] = f[p]
    BY <1>2, <1>5 DEF Command
  <2>2. QED
    BY <2>1
<1>6. CASE c.op = "reset"
  <2>1. Command(f, p, c) = ReleasedLong(f, RefsOf(f, "short") \cup RefsOf(f, "long"))
    BY <1>6 DEF Command, MarkAllUnused
  <2>2. p \notin RefsOf(f, "short") \cup RefsOf(f, "long")
    BY <1>6 DEF RefsOf
  <2>3. Command(f, p, c)[p] = f[p]
    BY <1>3, <2>1, <2>2
  <2>4. QED
    BY <2>3
<1>7. CASE c.op = "current_long"
  <2> DEFINE y == [f[p] EXCEPT !.state = "ref_in_use", !.type = "long", !.idx = FirstArg(c)]
  <2>1. Command(f, p, c) = [f EXCEPT ![p] = y]
    BY <1>7 DEF Command
  <2>2. y.state = "ref_in_use"
    <3> DEFINE x == f[p]
               j == FirstArg(c)
    <3>1. x \in Picture
      BY <1>2
    <3> HIDE DEF x, j
    <3>2. [x EXCEPT !.state = "ref_in_use", !.type = "long", !.idx = j].state = "ref_in_use"
      BY <3>1 DEF Picture
    <3>3. QED
      BY <3>2 DEF x, j
  <2> HIDE DEF y
  <2>3. Command(f, p, c)[p] = y
    BY <2>1
  <2>4. QED
    BY <1>7, <2>2, <2>3
<1>8. QED
  BY <1>1, <1>4, <1>5, <1>6, <1>7

\* So a picture that keeps itself is not released by its commands.
LEMMA MarkedKeepsSelf ==
  ASSUME TypeInv, SlotInv, NEW p \in Slot, slots[p].state = "unused", NEW h \in Coming,
         KeepsItself(h)
  PROVE  Marked(p, h)[p].state \in {"init", "ref_in_use"}
<1> DEFINE f == Stored(p, h)
           cs == h.commands
           n == Len(cs)
<1>1. /\ f \in [Slot -> Picture] /\ \A s \in Slot \ {p} : f[s] = slots[s]
      /\ f[p].state = "init" /\ f[p].seq = 0
  BY StoredFacts
<1>2. h \in Header /\ (~h.idr => sequence # 0) /\ size \in 0 .. NumSlots
  BY SequenceFacts DEF TypeInv
<1> HIDE DEF f
<1>3. CASE h.idr
  <2> DEFINE g == MarkAllUnused(f)
  <2>1. g[p] = f[p] /\ g \in [Slot -> Picture]
    <3>1. p \notin RefsOf(f, "short") \cup RefsOf(f, "long")
      BY <1>1 DEF RefsOf
    <3>2. g[p] = f[p]
      BY <3>1 DEF MarkAllUnused, ReleasedLong
    <3>3. QED
      BY <1>1, <3>2, MarkAllUnusedFacts DEF Remarked
  <2>2. Marked(p, h) = IF h.longTerm THEN [g EXCEPT ![p] = [@ EXCEPT !.type = "long", !.idx = 0]]
                       ELSE g
    BY <1>3 DEF Marked, IdrMarking, f
  <2> HIDE DEF g
  <2>3. \A x \in Picture : [x EXCEPT !.type = "long", !.idx = 0].state = x.state
    BY DEF Picture
  <2>4. Marked(p, h)[p].state = f[p].state
    BY <2>1, <2>2, <2>3
  <2>5. QED
    BY <1>1, <2>4
<1>4. CASE ~h.idr
  <2>1. cs \in Seq(MemoryCommand) /\ n \in Nat /\ \A i \in 1 .. n : cs[i] \in MemoryCommand
    <3>1. cs \in Seq(MemoryCommand)
      BY <1>2 DEF Header
    <3> HIDE DEF cs
    <3>2. QED
      BY <3>1, ElementOfSeq, LenProperties
  <2>2. \A i, j \in 1 .. n : i < j /\ cs[i].op = "current_long" => cs[j].op # "reset"
    <3>1. DOMAIN cs = 1 .. n
      BY <2>1
    <3>2. QED
      BY <3>1 DEF KeepsItself
  <2>3. \A s \in Slot : f[s].state = "unused" => f[s].seq # sequence
    BY <1>1, <1>2, <1>4 DEF SlotInv, Vacant
  <2> HIDE DEF cs
  <2>4. PICK after :
          /\ Adaptive(f, p, cs) = after[n]
          /\ \A i \in 0 .. n :
               /\ after[i] = IF i = 0 THEN f ELSE Command(after[i - 1], p, cs[i])
               /\ Remarked(f, after[i])
    BY <1>1, <1>2, <2>1, <2>3, AdaptiveSteps
  <2> HIDE DEF n
  <2> DEFINE OK(i) == /\ after[i][p].state \in {"init", "ref_in_use"}
                      /\ after[i][p].state = "ref_in_use" =>
                           \E j \in 1 .. i : cs[j].op = "current_long"
             Bad == {i \in 0 .. n : ~OK(i)}
  <2>5. Bad = {}
    <3>1. SUFFICES ASSUME Bad # {}
                   PROVE  FALSE
      OBVIOUS
    <3>2. Bad \subseteq Nat
      BY <2>1
    <3>3. PICK k \in Bad : \A l \in Bad : k <= l
      BY <3>1, <3>2, LeastExists
    <3>4. k # 0
      BY <1>1, <2>1, <2>4, <3>3
    <3>5. k \in 1 .. n /\ k - 1 \in 0 .. n /\ k - 1 \notin Bad /\ k \in Nat
      BY <2>1, <3>3, <3>4
    <3>6. OK(k - 1)
      BY <3>5
    <3> DEFINE g == after[k - 1]
    <3>7. after[k] = Command(g, p, cs[k])
      BY <2>4, <3>4, <3>5
    <3>8. g \in [Slot -> Picture] /\ g[p].seq = 0
      BY <1>1, <2>4, <3>5 DEF Remarked
    <3>9. g[p].state = "ref_in_use" => \E j \in 1 .. n : j < k /\ cs[j].op = "current_long"
      BY <3>5, <3>6, <2>1
    <3>10. cs[k].op = "reset" => g[p].state = "init"
      BY <2>2, <3>5, <3>6, <3>9
    <3>11. g[p].state \in {"init", "ref_in_use"}
      BY <3>6
    <3> HIDE DEF g
    <3>12. /\ after[k][p].state \in {"init", "ref_in_use"}
           /\ after[k][p].state = "ref_in_use" =>
                g[p].state = "ref_in_use" \/ cs[k].op = "current_long"
      BY <1>2, <1>4, <2>1, <3>5, <3>7, <3>8, <3>10, <3>11, CommandKeepsSelf
    <3>13. after[k][p].state = "ref_in_use" => \E j \in 1 .. k : cs[j].op = "current_long"
      BY <2>1, <3>5, <3>9, <3>12
    <3>14. OK(k)
      BY <3>12, <3>13
    <3>15. QED
      BY <3>3, <3>14
  <2>6. OK(n)
    BY <2>1, <2>5
  <2>7. Marked(p, h) = after[n]
    BY <1>4, <2>4 DEF Marked, f, cs
  <2>8. QED
    BY <2>6, <2>7
<1>5. QED
  BY <1>3, <1>4

\* The key of a picture is its sequence, then its count.
LEMMA KeyOrder ==
  ASSUME NEW x \in Picture, NEW y \in Picture, x.seq = y.seq
  PROVE  /\ x.poc = y.poc => KeyOf(x) = KeyOf(y)
         /\ x.poc < y.poc => KeyOf(x) < KeyOf(y)
<1>1. x.seq \in Nat /\ x.poc \in Nat /\ y.poc \in Nat /\ PocMod \in Nat
  BY H264DpbAssumption DEF Picture, H264DpbAssumption
<1> DEFINE k == x.seq * PocMod
<1>2. k \in Nat /\ KeyOf(x) = k + x.poc /\ KeyOf(y) = k + y.poc
  BY <1>1 DEF KeyOf
<1> HIDE DEF k
<1>3. QED
  BY <1>1, <1>2

\* Marking alone leaves every picture backed.
LEMMA BackedMarked ==
  ASSUME NEW f \in [Slot -> Picture], NEW g \in [Slot -> Picture], BackedIn(f),
         \A s \in Slot : /\ g[s].buffer = f[s].buffer /\ g[s].output = f[s].output
                         /\ g[s].seq = f[s].seq /\ g[s].poc = f[s].poc
                         /\ f[s].state = "unused" => g[s].state = "unused"
  PROVE  BackedIn(g)
<1>1. \A s \in Slot : KeyOf(g[s]) = KeyOf(f[s])
  BY KeyOrder
<1>2. OwnerIn(g) = OwnerIn(f) /\ OwnerIn(f) \subseteq Slot
  BY DEF OwnerIn
<1>3. QED
  BY <1>1, <1>2 DEF BackedIn

\* The picture that is output first backs no other: its buffer is not in use when it
\* is given back.
LEMMA BackedOutput ==
  ASSUME SafeInv, BackedIn(slots), NEW s \in Slot, NEW all \in BOOLEAN, s \in Outputs(all),
         slots'[s].state = "unused", \A t \in Slot \ {s} : slots'[t] = slots[t]
  PROVE  BackedIn(slots')
<1>1. ASSUME NEW r \in Slot, slots'[r].state # "unused", ~slots'[r].output
      PROVE  \E t \in OwnerIn(slots') : /\ slots'[t].buffer = slots'[r].buffer
                                        /\ KeyOf(slots'[r]) < KeyOf(slots'[t])
  <2>1. r # s /\ slots'[r] = slots[r]
    BY <1>1
  <2>2. PICK t \in OwnerIn(slots) : /\ slots[t].buffer = slots[r].buffer
                                    /\ KeyOf(slots[r]) < KeyOf(slots[t])
    BY <1>1, <2>1 DEF BackedIn
  <2>3. r \in InUse
    BY <1>1, <2>1, OwnerFacts DEF SafeInv
  <2>4. KeyOf(slots[r]) >= KeyOf(slots[s])
    BY <2>1, <2>3 DEF Outputs
  <2>5. KeyOf(slots[r]) \in Nat /\ KeyOf(slots[s]) \in Nat
    BY KeyFacts DEF SafeInv, TypeInv
  <2>6. t # s
    BY <2>2, <2>4, <2>5
  <2>7. t \in Slot /\ slots'[t] = slots[t]
    BY <2>6 DEF OwnerIn
  <2>8. t \in OwnerIn(slots')
    BY <2>2, <2>7 DEF OwnerIn
  <2>9. QED
    BY <2>1, <2>2, <2>7, <2>8
<1>2. QED
  BY <1>1 DEF BackedIn

\* A new picture of a conforming stream takes a buffer of its own, or takes over that
\* of a field which is output before it; and it is not released.
LEMMA BackedHeader ==
  ASSUME SafeInv, HeaderDone, BackedIn(slots), NEW h \in Coming, Conforms(h),
         SecondField(FirstFree, h) \/ FirstField(FirstFree, h)
  PROVE  BackedIn(slots') /\ slots'[dpbPic'].state \in {"init", "ref_in_use"}
<1> DEFINE p == FirstFree
           g == Added(p, h)
           k == pendingField
<1>1. pc = "wait" /\ Free # {} /\ dpbPic' = p
  BY DEF HeaderDone, Woken
<1>2. p \in Slot /\ slots[p].state = "unused" /\ ~slots[p].output
  BY <1>1, FirstFreeFacts DEF SafeInv, SlotInv, Vacant
<1>3. KeepsItself(h) /\ (IsSecondField(p, h) => slots[k].poc < h.poc)
  BY DEF Conforms
<1>4. SecondField(p, h) \/ FirstField(p, h)
  OBVIOUS
<1> HIDE DEF p
<1>5. /\ g \in [Slot -> Picture]
      /\ \A s \in Slot \ {p} :
           /\ g[s].buffer = slots[s].buffer /\ g[s].output = slots[s].output
           /\ g[s].seq = slots[s].seq /\ g[s].poc = slots[s].poc
           /\ slots[s].state = "unused" => g[s] = slots[s]
      /\ g[p].output /\ g[p].seq = SequenceAfter(h) /\ g[p].structure = h.structure
      /\ g[p].poc = h.poc /\ g[p].state = Marked(p, h)[p].state
  BY <1>2, AddedFacts DEF SafeInv
<1>6. g[p].state \in {"init", "ref_in_use"}
  BY <1>2, <1>3, <1>5, MarkedKeepsSelf DEF SafeInv
<1>7. slots \in [Slot -> Picture]
  BY DEF SafeInv, TypeInv
<1>8. SecondField(p, h) =>
        /\ Matches(g, SequenceAfter(h), k, h) /\ slots[k].poc < h.poc
        /\ slots' = [g EXCEPT ![p] = [@ EXCEPT !.buffer = g[k].buffer],
                              ![k] = [@ EXCEPT !.output = FALSE]]
  BY <1>3 DEF SecondField, IsSecondField
<1>9. FirstField(p, h) => slots' = [g EXCEPT ![p] = [@ EXCEPT !.buffer = Removed("dst")]]
  BY DEF FirstField
<1> HIDE DEF g
<1>10. ASSUME NEW s \in Slot \ {p}, g[s].state # "unused", ~g[s].output
       PROVE  \E t \in OwnerIn(g) \ {p} : /\ g[t].buffer = g[s].buffer
                                          /\ KeyOf(g[s]) < KeyOf(g[t])
  <2>1. slots[s].state # "unused" /\ ~slots[s].output
    BY <1>5, <1>10
  <2>2. PICK t \in OwnerIn(slots) : /\ slots[t].buffer = slots[s].buffer
                                    /\ KeyOf(slots[s]) < KeyOf(slots[t])
    BY <2>1 DEF BackedIn
  <2>3. t \in Slot \ {p}
    BY <1>2, <2>2 DEF OwnerIn
  <2>4. \A r \in Slot \ {p} : KeyOf(g[r]) = KeyOf(slots[r])
    BY <1>5, <1>7, KeyOrder
  <2>5. t \in OwnerIn(g)
    BY <1>5, <2>2, <2>3 DEF OwnerIn
  <2>6. QED
    BY <1>5, <2>2, <2>3, <2>4, <2>5
<1> DEFINE x == g[p]
<1>11. x \in Picture
  BY <1>2, <1>5
<1>12. CASE FirstField(p, h)
  <2> DEFINE u == [x EXCEPT !.buffer = Removed("dst")]
  <2>1. /\ u.state = x.state /\ u.output = x.output
    <3> HIDE DEF x
    <3> QED
      BY <1>11 DEF Picture
  <2>2. slots' = [g EXCEPT ![p] = u]
    BY <1>9, <1>12
  <2> HIDE DEF u
  <2>3. slots'[p] = u /\ \A s \in Slot \ {p} : slots'[s] = g[s]
    BY <1>2, <1>5, <2>2
  <2>4. ASSUME NEW s \in Slot, slots'[s].state # "unused", ~slots'[s].output
        PROVE  \E t \in OwnerIn(slots') : /\ slots'[t].buffer = slots'[s].buffer
                                          /\ KeyOf(slots'[s]) < KeyOf(slots'[t])
    <3>1. s # p
      BY <1>5, <2>1, <2>3, <2>4
    <3>2. PICK t \in OwnerIn(g) \ {p} : g[t].buffer = g[s].buffer /\ KeyOf(g[s]) < KeyOf(g[t])
      BY <1>10, <2>3, <2>4, <3>1
    <3>3. t \in OwnerIn(slots') /\ slots'[t] = g[t]
      BY <2>3, <3>2 DEF OwnerIn
    <3>4. QED
      BY <2>3, <3>1, <3>2, <3>3
  <2>5. BackedIn(slots')
    BY <2>4 DEF BackedIn
  <2>6. QED
    BY <1>1, <1>6, <2>1, <2>3, <2>5
<1>13. CASE SecondField(p, h)
  <2>1. k \in Slot /\ k # p
    <3>1. k # NoSlot /\ {g[k].structure, h.structure} = {"top", "bottom"}
      BY <1>8, <1>13 DEF Matches
    <3>2. k \in Slot
      BY <3>1 DEF SafeInv, TypeInv
    <3>3. g[k].structure # h.structure
      BY <3>1
    <3>4. QED
      BY <1>5, <3>2, <3>3
  <2> DEFINE y == g[k]
             b == g[k].buffer
             no == FALSE
             u == [x EXCEPT !.buffer = b]
             v == [y EXCEPT !.output = no]
  <2>2. y \in Picture /\ b \in Frame \cup {NoFrame}
    <3>1. y \in Picture
      BY <1>5, <2>1
    <3> HIDE DEF y
    <3>2. y.buffer \in Frame \cup {NoFrame}
      BY <3>1 DEF Picture
    <3>3. QED
      BY <3>1, <3>2 DEF y
  <2>3. slots' = [[g EXCEPT ![p] = u] EXCEPT ![k] = v]
    BY <1>2, <1>5, <1>8, <1>13, <2>1
  <2>4. KeyOf(y) < KeyOf(x)
    <3>1. y.seq = SequenceAfter(h) /\ y.poc < h.poc
      BY <1>5, <1>8, <1>13, <2>1 DEF Matches
    <3> HIDE DEF x, y
    <3>2. x.seq = SequenceAfter(h) /\ x.poc = h.poc
      BY <1>5 DEF x
    <3>3. QED
      BY <1>11, <2>2, <3>1, <3>2, KeyOrder
  <2>5. no \in BOOLEAN /\ ~no
    OBVIOUS
  <2>6. x.output /\ x.state \in {"init", "ref_in_use"} /\ b = y.buffer
    BY <1>5, <1>6
  <2> HIDE DEF x, y, b, no
  <2>7. /\ u \in Picture /\ u.state = x.state /\ u.output /\ u.buffer = b
        /\ u.seq = x.seq /\ u.poc = x.poc
    BY <1>11, <2>2, <2>6 DEF Picture
  <2>8. v \in Picture /\ ~v.output /\ v.buffer = b /\ v.seq = y.seq /\ v.poc = y.poc
    BY <2>2, <2>5, <2>6 DEF Picture
  <2> HIDE DEF u, v
  <2>9. KeyOf(u) = KeyOf(x) /\ KeyOf(v) = KeyOf(y)
    BY <1>11, <2>2, <2>7, <2>8, KeyOrder
  <2>10. slots'[p] = u /\ slots'[k] = v /\ \A s \in Slot \ {p, k} : slots'[s] = g[s]
    BY <1>2, <1>5, <2>1, <2>3
  <2>11. ASSUME NEW s \in Slot, slots'[s].state # "unused", ~slots'[s].output
         PROVE  \E t \in OwnerIn(slots') : /\ slots'[t].buffer = slots'[s].buffer
                                           /\ KeyOf(slots'[s]) < KeyOf(slots'[t])
    <3>1. p \in OwnerIn(slots')
      BY <1>2, <2>7, <2>10 DEF OwnerIn
    <3>2. CASE s = k
      BY <2>4, <2>7, <2>8, <2>9, <2>10, <3>1, <3>2
    <3>3. CASE s # k
      <4>1. s # p /\ slots'[s] = g[s]
        BY <2>7, <2>10, <2>11, <3>3
      <4>2. PICK t \in OwnerIn(g) \ {p} : g[t].buffer = g[s].buffer /\ KeyOf(g[s]) < KeyOf(g[t])
        BY <1>10, <2>11, <4>1
      <4>3. CASE t # k
        <5>1. t \in OwnerIn(slots') /\ slots'[t] = g[t]
          BY <2>10, <4>2, <4>3 DEF OwnerIn
        <5>2. QED
          BY <4>1, <4>2, <5>1
      <4>4. CASE t = k
        <5>1. KeyOf(g[s]) \in Nat /\ KeyOf(x) \in Nat /\ KeyOf(y) \in Nat
          BY <1>5, <1>11, <2>2, KeyFacts
        <5>2. KeyOf(g[s]) < KeyOf(y) /\ g[s].buffer = b
          BY <2>6, <4>2, <4>4 DEF y
        <5>3. KeyOf(g[s]) < KeyOf(x)
          BY <2>4, <5>1, <5>2
        <5>4. QED
          BY <2>7, <2>9, <2>10, <3>1, <4>1, <5>2, <5>3
      <4>5. QED
        BY <4>3, <4>4
    <3>4. QED
      BY <3>2, <3>3
  <2>12. BackedIn(slots')
    BY <2>11 DEF BackedIn
  <2>13. QED
    BY <1>1, <2>6, <2>7, <2>10, <2>12
<1>14. QED
  BY <1>4, <1>12, <1>13

LEMMA BackedStep ==
  ASSUME IInv, CurrentKept, BackedInv, [Next]_vars,
         [HeaderDone => \E h \in Coming :
            /\ Conforms(h)
            /\ \/ SecondField(FirstFree, h)
               \/ Ready("dst") /\ FirstField(FirstFree, h)]_vars
  PROVE  CurrentKept' /\ BackedInv'
<1>1. SUFFICES ASSUME ~overrun', ~starved'
               PROVE  /\ Decoding' => slots'[dpbPic'].state \in {"init", "ref_in_use"}
                      /\ BackedIn(slots')
  BY DEF CurrentKept, BackedInv
<1>2. ~overrun /\ ~starved
  BY <1>1, HistoryKept
<1>3. SafeInv /\ BackedIn(slots)
  BY <1>2 DEF IInv, BackedInv
<1>4. CASE UNCHANGED vars
  <2>1. UNCHANGED <<slots, dpbPic, pc, reason, command>>
    BY <1>4 DEF vars, hwVars, jobVars, dpbVars
  <2>2. QED
    BY <1>1, <1>2, <1>3, <2>1 DEF CurrentKept, Decoding
<1>5. CASE HeaderDone /\ ~UNCHANGED vars
  <2>1. PICK h \in Coming : Conforms(h) /\ (SecondField(FirstFree, h) \/ FirstField(FirstFree, h))
    BY <1>5
  <2>2. QED
    BY <1>3, <1>5, <2>1, BackedHeader
<1>6. CASE Next /\ ~HeaderDone
  <2>1. Decoding' => slots'[dpbPic'].state \in {"init", "ref_in_use"}
    <3>1. SUFFICES ASSUME Decoding'
                   PROVE  slots'[dpbPic'].state \in {"init", "ref_in_use"}
      OBVIOUS
    <3>2. /\ Decoding /\ dpbPic' = dpbPic
          /\ \A s \in Slot : slots[s].state # "output_ready" => slots'[s] = slots[s]
      BY <1>1, <1>3, <1>6, <3>1, DecodingSteps
    <3>3. slots[dpbPic].state \in {"init", "ref_in_use"} /\ dpbPic \in Slot
      BY <1>2, <1>3, <3>2, H264DpbAssumption
         DEF CurrentKept, Decoding, SafeInv, JobInv, TypeInv, Slot, H264DpbAssumption
    <3>4. QED
      BY <3>2, <3>3
  <2>2. CASE FlushStep \/ StopFlushStep
    <3>1. FlushAll \in BOOLEAN
      BY DEF FlushAll
    <3>2. PICK all \in BOOLEAN : \E s \in Outputs(all) : OutputPicture(s)
      BY <2>2, <3>1 DEF FlushStep, StopFlushStep
    <3>3. PICK s \in Outputs(all) : OutputPicture(s)
      BY <3>2
    <3>4. s \in Slot /\ slots[s].state # "unused" /\ UNCHANGED <<rdy, srcBuf, dropped>>
      BY <1>3, <2>2, <3>3, FlushFacts DEF SafeInv, FlushStep, StopFlushStep
    <3>5. slots'[s].state = "unused" /\ \A t \in Slot \ {s} : slots'[t] = slots[t]
      BY <1>3, <3>3, <3>4, OutputFacts
    <3>6. BackedIn(slots')
      BY <1>3, <3>3, <3>4, <3>5, BackedOutput
    <3>7. QED
      BY <2>1, <3>6
  <2>3. CASE DecoderDone
    <3>1. pc = "wait" /\ status = "picture" /\ PicDone(dpbPic)
      BY <2>3 DEF DecoderDone, Woken
    <3>2. Decoding
      BY <1>3, <3>1 DEF Decoding, SafeInv, TypeInv
    <3>3. slots[dpbPic].state # "unused" /\ dpbPic \in Slot
      BY <1>2, <1>3, <3>2, H264DpbAssumption
         DEF CurrentKept, Decoding, SafeInv, JobInv, TypeInv, Slot, H264DpbAssumption
    <3> DEFINE p == dpbPic
    <3> HIDE DEF p
    <3>4. /\ slots' \in [Slot -> Picture]
          /\ \A s \in Slot : /\ slots'[s].buffer = slots[s].buffer /\ slots'[s].output = slots[s].output
                             /\ slots'[s].seq = slots[s].seq /\ slots'[s].poc = slots[s].poc
          /\ \A s \in Slot \ {p} : slots[s].state = "unused" => slots'[s] = slots[s]
      BY <1>3, <3>1, <3>3, PicDoneFacts DEF SafeInv, p
    <3>5. \A s \in Slot : slots[s].state = "unused" => slots'[s].state = "unused"
      BY <3>3, <3>4 DEF p
    <3>6. slots \in [Slot -> Picture]
      BY <1>3 DEF SafeInv, TypeInv
    <3>7. BackedIn(slots')
      BY <1>3, <3>4, <3>5, <3>6, BackedMarked
    <3>8. QED
      BY <2>1, <3>7
  <2>4. CASE \E q \in Queue : StreamOn(q)
    <3>1. slots' = slots \/ slots' = Empty
      BY <2>4 DEF StreamOn, dpbVars, DpbReset
    <3>2. BackedIn(Empty)
      BY EmptySlotFacts DEF BackedIn
    <3>3. QED
      BY <1>3, <2>1, <3>1, <3>2
  <2>5. CASE ~(FlushStep \/ StopFlushStep \/ DecoderDone \/ \E q \in Queue : StreamOn(q))
    <3>1. slots' = slots
      BY <1>1, <1>6, <2>5
         DEF Next, Job, Isr, Stop, Ioctl, DecoderStart, Timeout, DecodeError, ConfigRequest,
             IgnoreData, PictureBufferFull, NoDestination, DecodeNewPic, FinishJob, QueueEos,
             UseAfterFree, StopStreaming, UserQBuf, StreamOff, DecoderCmd, Reconfigure, dpbVars
    <3>2. QED
      BY <1>3, <2>1, <3>1
  <2>6. QED
    BY <2>2, <2>3, <2>4, <2>5
<1>7. QED
  BY <1>4, <1>5, <1>6

\* The entries of both lists are still references, and have buffers, when the hardware
\* is told to decode, whatever the stream: any number of slots, references, marking
\* and reordering commands (dpb_build_ref_lists, reorder_refs, dpb_flush_output).
THEOREM ListsStayValid == Spec => []ListsValid
<1>1. Init => StarvedInv /\ ListedInv
  BY DEF Init, StarvedInv, ListedInv, Decoding
<1>2. IInv /\ StarvedInv /\ ListedInv => ListsValid
  <2>1. SUFFICES ASSUME IInv, StarvedInv, ListedInv, pc = "wait", command = "newpic", ~overrun,
                        NEW s \in InLists
                 PROVE  slots[s].state = "ref_in_use" /\ slots[s].buffer # NoBuf
    BY DEF ListsValid, InLists
  <2>2. ~starved
    BY <2>1 DEF StarvedInv, StarvedJob
  <2>3. SafeInv /\ s \in Slot /\ slots[s].state = "ref_in_use"
    BY <2>1, <2>2 DEF IInv, ListedInv, Decoding
  <2>4. slots[s].buffer # NoFrame
    BY <2>1, <2>3 DEF SafeInv, SlotInv
  <2>5. QED
    BY <2>3, <2>4, H264Assumption DEF H264Assumption
<1>3. QED
  BY <1>1, <1>2, Invariant, StarvedStep, ListedStep, PTL DEF Spec

\* While a stream conforms, every picture in use has a buffer of the driver's, its own
\* or that of the field which is output after it (vdec_h264_header_done, picture_done).
THEOREM PicturesStayBacked == Spec /\ StreamConforms => []PicturesBacked
<1>1. Init => CurrentKept /\ BackedInv
  <2>1. BackedIn(Empty)
    BY EmptySlotFacts DEF BackedIn
  <2>2. QED
    BY <2>1 DEF Init, DpbInit, CurrentKept, BackedInv, Decoding
<1>2. IInv /\ BackedInv => PicturesBacked
  <2>1. SUFFICES ASSUME IInv, BackedInv, ~overrun, ~starved, NEW s \in InUse
                 PROVE  slots[s].buffer \in Owned
    BY DEF PicturesBacked
  <2>2. SafeInv /\ BackedIn(slots)
    BY <2>1 DEF IInv, BackedInv
  <2>3. s \in Slot /\ slots[s].state # "unused" /\ Owned = OwnedIn(slots)
    BY <2>2, OwnerFacts DEF SafeInv
  <2>4. CASE slots[s].output
    BY <2>3, <2>4 DEF OwnedIn, OwnerIn
  <2>5. CASE ~slots[s].output
    <3>1. PICK t \in OwnerIn(slots) : slots[t].buffer = slots[s].buffer
      BY <2>2, <2>3, <2>5 DEF BackedIn
    <3>2. QED
      BY <2>3, <3>1 DEF OwnedIn
  <2>6. QED
    BY <2>4, <2>5
<1>3. QED
  BY <1>1, <1>2, Invariant, BackedStep, PTL DEF Spec, StreamConforms

-----------------------------------------------------------------------------
(* The registers of a picture (H264Hw), for pictures, buffers and lists of   *)
(* any size.                                                                 *)

\* configure_reference_buffers, config_decode_canvas
LEMMA ListsNamed == Hw!ListsName
<1> SUFFICES ASSUME NEW list \in Hw!Lists
             PROVE  LET t0 == Hw!ListTable0(list)
                        t1 == Hw!ListTable1(list, [i \in 0 .. 31 |-> Hw!NoEntry])
                        canvas == Hw!Canvases(list, [b \in Hw!Buffer |-> -1])
                    IN  /\ \A i \in DOMAIN list : t0[i - 1] = Hw!RefEntry(list[i])
                                                  /\ t1[i - 1] = Hw!RefEntry(list[i])
                        /\ list # << >> =>
                             /\ \A i \in 0 .. 31 : \E j \in DOMAIN list : t0[i] = Hw!RefEntry(list[j])
                             /\ \A i \in Hw!InWords(list) :
                                  \E j \in DOMAIN list : t1[i] = Hw!RefEntry(list[j])
                             /\ \A i \in 0 .. 31 : canvas[t0[i][1]] = t0[i][1]
  BY DEF Hw!ListsName
<1> DEFINE t0 == Hw!ListTable0(list)
           none == [i \in 0 .. 31 |-> Hw!NoEntry]
           t1 == Hw!ListTable1(list, none)
           canvas == Hw!Canvases(list, [b \in Hw!Buffer |-> -1])
           E(j) == Hw!RefEntry(list[j])
           Ref == [buffer : Hw!Buffer, structure : {"top", "bottom", "frame"}]
<1>1. PICK n \in 0 .. MaxEntries : list \in [1 .. n -> Ref]
  BY DEF Hw!Lists
<1> HIDE DEF Ref
<1>2. n \in Nat /\ n <= 32 /\ Len(list) = n /\ DOMAIN list = 1 .. n
  <2>1. n \in Nat /\ n <= 32
    BY H264HwAssumption DEF H264HwAssumption
  <2>2. list \in Seq(Ref)
    BY <1>1, <2>1
  <2>3. QED
    BY <1>1, <2>1, <2>2
<1>3. \A i \in 0 .. 31 : t0[i] = IF i < n THEN E(i + 1) ELSE Hw!LastEntry(list)
  BY <1>2 DEF Hw!ListTable0
<1>4. \A i \in 0 .. 31 : t1[i] = IF i < n THEN E(i + 1)
                                 ELSE IF i \in Hw!InWords(list) THEN Hw!LastEntry(list) ELSE none[i]
  BY <1>2 DEF Hw!ListTable1
<1>5. list # << >> => n # 0 /\ Hw!LastEntry(list) = E(n) /\ n \in DOMAIN list
  <2>1. SUFFICES ASSUME list # << >>
                 PROVE  n # 0 /\ Hw!LastEntry(list) = E(n) /\ n \in DOMAIN list
    OBVIOUS
  <2>2. n # 0
    BY <1>1, <1>2, <2>1
  <2>3. Hw!LastEntry(list) = E(n)
    BY <1>2, <2>1 DEF Hw!LastEntry, Hw!Last
  <2>4. QED
    BY <1>2, <2>2, <2>3
<1> HIDE DEF t0, t1, none, E
<1>6. \A i \in DOMAIN list : t0[i - 1] = E(i) /\ t1[i - 1] = E(i)
  <2>1. ASSUME NEW i \in DOMAIN list
        PROVE  i - 1 \in 0 .. 31 /\ i - 1 < n /\ (i - 1) + 1 = i
    <3>1. i \in 1 .. n /\ n \in Nat /\ n <= 32
      BY <1>2
    <3>2. QED
      BY <3>1
  <2>2. QED
    BY <1>3, <1>4, <2>1
<1>7. ASSUME list # << >>
      PROVE  /\ \A i \in 0 .. 31 : \E j \in DOMAIN list : t0[i] = E(j)
             /\ \A i \in Hw!InWords(list) : \E j \in DOMAIN list : t1[i] = E(j)
  <2>1. ASSUME NEW i \in 0 .. 31
        PROVE  \E j \in DOMAIN list : t0[i] = E(j)
    <3>1. i < n => i + 1 \in DOMAIN list
      BY <1>2
    <3>2. QED
      BY <1>3, <1>5, <1>7, <3>1
  <2>2. ASSUME NEW i \in Hw!InWords(list)
        PROVE  \E j \in DOMAIN list : t1[i] = E(j)
    <3>1. i \in 0 .. 31
      BY <1>2 DEF Hw!InWords
    <3>2. i < n => i + 1 \in DOMAIN list
      BY <1>2, <3>1
    <3>3. QED
      BY <1>4, <1>5, <1>7, <3>1, <3>2
  <2>3. QED
    BY <2>1, <2>2
<1>8. ASSUME list # << >>, NEW i \in 0 .. 31
      PROVE  canvas[t0[i][1]] = t0[i][1]
  <2>1. PICK j \in DOMAIN list : t0[i] = E(j)
    BY <1>7, <1>8
  <2>2. t0[i][1] = list[j].buffer
    BY <2>1 DEF E, Hw!RefEntry
  <2>3. list[j].buffer \in Hw!Buffer
    BY <1>1, <1>2, <2>1 DEF Ref
  <2>4. QED
    BY <2>1, <2>2, <2>3 DEF Hw!Canvases
<1>9. QED
  BY <1>6, <1>7, <1>8 DEF t0, t1, none, E

\* The 16 bits that are stored of a count.
LEMMA StoredCount ==
  ASSUME NEW c \in -MaxCount .. MaxCount
  PROVE  /\ c \in Int /\ Hw!Stored(c) \in Nat
         /\ Hw!Stored(c) = IF c >= 0 THEN c ELSE c + 65536
<1>1. c \in Int /\ -65536 < c /\ c < 65536
  BY H264HwAssumption DEF H264HwAssumption
<1>2. QED
  BY <1>1 DEF Hw!Stored

\* configure_buffer_info
LEMMA InfoMarked == Hw!InfoMarks
<1> SUFFICES ASSUME NEW now \in Hw!Pictures, NEW other \in Hw!Pictures
             PROVE  LET table == Hw!InfoTable(now, <<other, now>>)
                    IN  /\ table[2].own
                        /\ table[1].own <=> other.buffer = now.buffer
                        /\ table[1].longFrame => table[1].longField /\ other.structure \notin Hw!Fields
                        /\ Hw!OneSign({now.top, now.bottom}) =>
                             (table[2].bottomFirst <=> now.bottom < now.top)
  BY DEF Hw!InfoMarks
<1> DEFINE table == Hw!InfoTable(now, <<other, now>>)
<1>1. table[1] = Hw!Info(now, other) /\ table[2] = Hw!Info(now, now)
  BY DEF Hw!InfoTable
<1> HIDE DEF table
<1>2. table[2].own /\ (table[1].own <=> other.buffer = now.buffer)
  <2>1. Hw!Info(now, other).own = (other.buffer = now.buffer)
        /\ Hw!Info(now, now).own = (now.buffer = now.buffer)
    BY DEF Hw!Info
  <2>2. QED
    BY <1>1, <2>1
<1>3. table[1].longFrame => table[1].longField /\ other.structure \notin Hw!Fields
  <2>1. /\ table[1].longFrame = (other.long /\ other.structure \in {"frame", "mbaff"})
        /\ table[1].longField = other.long
    BY <1>1 DEF Hw!Info
  <2>2. QED
    BY <2>1 DEF Hw!Fields
<1>4. Hw!OneSign({now.top, now.bottom}) => (table[2].bottomFirst <=> now.bottom < now.top)
  <2>1. table[2].bottomFirst = (Hw!Stored(now.bottom) < Hw!Stored(now.top))
    BY <1>1 DEF Hw!Info
  <2>2. now.top \in -MaxCount .. MaxCount /\ now.bottom \in -MaxCount .. MaxCount
    BY DEF Hw!Pictures
  <2> DEFINE a == now.top
             b == now.bottom
  <2> HIDE DEF a, b
  <2>3. Hw!OneSign({a, b}) => (Hw!Stored(b) < Hw!Stored(a) <=> b < a)
    <3>1. a \in Int /\ b \in Int
          /\ Hw!Stored(a) = (IF a >= 0 THEN a ELSE a + 65536)
          /\ Hw!Stored(b) = (IF b >= 0 THEN b ELSE b + 65536)
      BY <2>2, StoredCount DEF a, b
    <3>2. Hw!OneSign({a, b}) => (a >= 0 /\ b >= 0) \/ (a < 0 /\ b < 0)
      BY DEF Hw!OneSign
    <3>3. QED
      BY <3>1, <3>2
  <2>4. QED
    BY <2>1, <2>3 DEF a, b
<1>5. QED
  BY <1>2, <1>3, <1>4 DEF table

\* configure_colocated_buffers: the field that is nearer
LEMMA NearerIsChosen == Hw!NearerChosen
<1> SUFFICES ASSUME NEW now \in {"frame", "mbaff"}, NEW count \in -MaxCount .. MaxCount,
                    NEW top \in -MaxCount .. MaxCount, NEW bottom \in -MaxCount .. MaxCount,
                    Hw!OneSign({count, top, bottom})
             PROVE  LET bit    == Hw!FieldBit(now, "frame", count, top, bottom)
                        chosen == IF bit = 0 THEN top ELSE bottom
                    IN  /\ Hw!Distance(count, chosen) <= Hw!Distance(count, top)
                        /\ Hw!Distance(count, chosen) <= Hw!Distance(count, bottom)
                        /\ Hw!Distance(count, top) = Hw!Distance(count, bottom) => bit = 1
  BY DEF Hw!NearerChosen
<1>1. /\ count \in Int /\ top \in Int /\ bottom \in Int
      /\ Hw!Stored(count) = (IF count >= 0 THEN count ELSE count + 65536)
      /\ Hw!Stored(top) = (IF top >= 0 THEN top ELSE top + 65536)
      /\ Hw!Stored(bottom) = (IF bottom >= 0 THEN bottom ELSE bottom + 65536)
  BY StoredCount
<1>2. \/ count >= 0 /\ top >= 0 /\ bottom >= 0
      \/ count < 0 /\ top < 0 /\ bottom < 0
  BY DEF Hw!OneSign
<1>3. /\ Hw!Distance(Hw!Stored(count), Hw!Stored(top)) = Hw!Distance(count, top)
      /\ Hw!Distance(Hw!Stored(count), Hw!Stored(bottom)) = Hw!Distance(count, bottom)
      /\ Hw!Distance(count, top) \in Int /\ Hw!Distance(count, bottom) \in Int
  BY <1>1, <1>2 DEF Hw!Distance
<1> DEFINE a == Hw!Distance(count, top)
           b == Hw!Distance(count, bottom)
           bit == Hw!FieldBit(now, "frame", count, top, bottom)
<1>4. bit = IF a < b THEN 0 ELSE 1
  BY <1>3 DEF Hw!FieldBit, Hw!Fields
<1>5. a \in Int /\ b \in Int
  BY <1>3
<1> HIDE DEF bit
<1>6. CASE a < b
  <2>1. bit = 0
    BY <1>4, <1>6
  <2> HIDE DEF a, b
  <2>2. a <= a /\ a <= b /\ (a = b => bit = 1)
    BY <1>5, <1>6
  <2>3. QED
    BY <2>1, <2>2 DEF a, b, bit
<1>7. CASE ~(a < b)
  <2>1. bit = 1
    BY <1>4, <1>7
  <2> HIDE DEF a, b
  <2>2. b <= a /\ b <= b
    BY <1>5, <1>7
  <2>3. QED
    BY <2>1, <2>2 DEF a, b, bit
<1>8. QED
  BY <1>6, <1>7

\* A macroblock's row and column.
LEMMA Rows ==
  ASSUME NEW w \in Nat \ {0}, NEW m \in Nat
  PROVE  /\ m \div w \in Nat /\ m % w \in Nat
         /\ m = w * (m \div w) + (m % w)
         /\ m < w => m \div w = 0 /\ m % w = m /\ m \div (2 * w) = 0
OBVIOUS

\* The addresses are multiples of what a macroblock takes.
LEMMA Areas ==
  ASSUME NEW buf \in Nat, NEW m \in Nat, NEW inference \in BOOLEAN
  PROVE  /\ Hw!AreaOf(buf, inference) = (IF inference THEN 48 ELSE 96) * (Hw!Total * buf)
         /\ \A step \in {96, 192} :
              Hw!Shifted(step, inference) * m = (IF inference THEN step \div 2 ELSE step) * m
         /\ Hw!Shifted(m * Hw!MbMvSize, inference) = (IF inference THEN 48 ELSE 96) * m
         /\ Hw!Total \in Nat
<1>1. Hw!Total \in Nat
  BY H264HwAssumption DEF H264HwAssumption, Hw!Total
<1> DEFINE t == Hw!Total
<1> HIDE DEF t
<1>2. t * buf \in Nat /\ t * Hw!MbMvSize * buf = 96 * (t * buf)
  BY <1>1 DEF Hw!MbMvSize, t
<1> DEFINE a == t * buf
<1> HIDE DEF a
<1>3. a \in Nat /\ (96 * a) \div 2 = 48 * a /\ (m * 96) \div 2 = 48 * m
  BY <1>2 DEF a
<1>4. Hw!AreaOf(buf, inference) = IF inference THEN (96 * a) \div 2 ELSE 96 * a
  BY <1>2 DEF Hw!AreaOf, Hw!Shifted, a, t
<1>5. Hw!Shifted(m * Hw!MbMvSize, inference) = IF inference THEN (m * 96) \div 2 ELSE 96 * m
  BY DEF Hw!Shifted, Hw!MbMvSize
<1>6. QED
  BY <1>1, <1>3, <1>4, <1>5 DEF Hw!Shifted, a, t

\* configure_colocated_buffers: the vectors are read where they were written
LEMMA VectorsAreRead == Hw!VectorsRead
<1> SUFFICES ASSUME NEW pairs \in BOOLEAN, NEW inference \in BOOLEAN,
                    NEW now \in Hw!Kinds(pairs), NEW col \in Hw!Kinds(pairs),
                    NEW buf \in Hw!Buffer, NEW m \in Hw!FirstMbs(now),
                    ~Hw!RowMatters(now, col, m)
             PROVE  Hw!ReadAddr(now, col, m, inference, buf) =
                      Hw!WriteAddr(buf, col, Hw!MeantMb(now, col, m), inference)
  BY DEF Hw!VectorsRead
<1> DEFINE w == MbWidth
           meant == Hw!MeantMb(now, col, m)
           offset == Hw!ReadOffset(now, col, m)
           twice == IF col = "frame" THEN 1 ELSE 2
<1>1. buf \in Nat /\ m \in Nat /\ w \in Nat \ {0}
  <2>1. Hw!Total \in Nat
    BY H264HwAssumption DEF H264HwAssumption, Hw!Total
  <2>2. QED
    BY <2>1, H264HwAssumption DEF H264HwAssumption, Hw!Buffer, Hw!FirstMbs
<1>2. now \in {"top", "bottom", "frame", "mbaff"} /\ col \in {"top", "bottom", "frame", "mbaff"}
      /\ (now = "frame" => col # "mbaff") /\ (now = "mbaff" => col # "frame")
  BY DEF Hw!Kinds, Hw!Fields
<1>3. offset = twice * meant /\ meant \in Nat
  <2> DEFINE r == m \div w
             c == m % w
  <2>1. r \in Nat /\ c \in Nat /\ w * r \in Nat /\ m = w * r + c
        /\ (m < w => r = 0 /\ c = m /\ m \div (2 * w) = 0)
    <3>1. r \in Nat /\ c \in Nat /\ m = w * r + c
          /\ (m < w => r = 0 /\ c = m /\ m \div (2 * w) = 0)
      BY <1>1, Rows
    <3> HIDE DEF r, c
    <3>2. QED
      BY <1>1, <3>1
  <2>2. CASE now \in Hw!Fields /\ col = "frame"
    <3>1. offset = 2 * r * w + c /\ meant = 2 * w * r + c /\ twice = 1
      BY <2>2 DEF Hw!ReadOffset, Hw!MeantMb, Hw!Width
    <3> HIDE DEF offset, meant, r, c, w, twice
    <3>2. 2 * r * w = 2 * (w * r) /\ 2 * w * r = 2 * (w * r)
      BY <1>1, <2>1
    <3>3. QED
      BY <1>1, <2>1, <3>1, <3>2
  <2>3. CASE now \in Hw!Fields /\ col # "frame"
    BY <1>1, <2>3 DEF Hw!ReadOffset, Hw!MeantMb, Hw!Fields
  <2>4. CASE now \notin Hw!Fields /\ col \in Hw!Fields
    <3>1. m < w
      BY <1>1, <2>4 DEF Hw!RowMatters, Hw!Width
    <3>2. r = 0 /\ c = m /\ m \div (2 * w) = 0 /\ r \div 2 = 0
      BY <2>1, <3>1
    <3>3. offset = IF now = "frame" THEN 2 * (r * w + c) ELSE 2 * ((r \div 2) * w + c)
      BY <2>4 DEF Hw!ReadOffset, Hw!Width
    <3>4. meant = IF now = "frame" THEN w * (m \div (2 * w)) + c ELSE m
      BY <2>4 DEF Hw!MeantMb, Hw!Width, Hw!Fields
    <3>5. twice = 2
      BY <2>4 DEF Hw!Fields
    <3> HIDE DEF offset, meant, r, c, w, twice
    <3>6. 0 * w = 0 /\ w * 0 = 0
      BY <1>1
    <3>7. QED
      BY <1>1, <3>2, <3>3, <3>4, <3>5, <3>6
  <2>5. CASE now \notin Hw!Fields /\ col \notin Hw!Fields
    BY <1>1, <1>2, <2>5 DEF Hw!ReadOffset, Hw!MeantMb, Hw!Fields
  <2>6. QED
    BY <2>2, <2>3, <2>4, <2>5
<1> HIDE DEF offset, meant
<1>4. offset \in Nat
  BY <1>3
<1>5. Hw!ReadAddr(now, col, m, inference, buf) =
        Hw!AreaOf(buf, inference) + (IF inference THEN 48 ELSE 96) * offset
  <2>1. Hw!Shifted(offset * Hw!MbMvSize, inference) = (IF inference THEN 48 ELSE 96) * offset
    BY <1>1, <1>4, Areas
  <2>2. QED
    BY <2>1 DEF Hw!ReadAddr, offset
<1>6. Hw!WriteAddr(buf, col, meant, inference) =
        Hw!AreaOf(buf, inference) + (IF inference THEN 48 ELSE 96) * twice * meant
  <2>1. Hw!WriteStep(col) = 96 * twice
    BY DEF Hw!WriteStep, Hw!MbMvSize
  <2>2. Hw!Shifted(96 * twice, inference) = (IF inference THEN 48 ELSE 96) * twice
    BY DEF Hw!Shifted
  <2>3. QED
    BY <2>1, <2>2 DEF Hw!WriteAddr
<1>7. (IF inference THEN 48 ELSE 96) * twice * meant = (IF inference THEN 48 ELSE 96) * offset
  BY <1>3
<1>8. QED
  BY <1>5, <1>6, <1>7 DEF meant

\* ... and written inside the area of their buffer
LEMMA VectorsDoFit == Hw!VectorsFit
<1> SUFFICES ASSUME NEW inference \in BOOLEAN, NEW buf \in 0 .. Hw!MaxFrames - 1
             PROVE  /\ \A structure \in {"top", "frame", "mbaff"} : \A m \in Hw!FirstMbs(structure) :
                         Hw!WriteAddr(buf, structure, m, inference)
                           \in Hw!AreaOf(buf, inference) .. Hw!AreaOf(buf + 1, inference) - 1
                    /\ Hw!AreaOf(buf + 1, inference) <= Hw!Total * Hw!MbMvSize * Hw!MaxFrames
  BY DEF Hw!VectorsFit
<1> DEFINE t == Hw!Total
           unit == IF inference THEN 48 ELSE 96
<1>1. buf \in Nat /\ buf <= 31 /\ t \in Nat /\ t * buf \in Nat /\ t * (buf + 1) = t * buf + t
  <2>1. buf \in Nat /\ buf <= 31
    BY DEF Hw!MaxFrames
  <2>2. t \in Nat
    BY <2>1, Areas
  <2> HIDE DEF t
  <2>3. QED
    BY <2>1, <2>2
<1> HIDE DEF t
<1>2. Hw!AreaOf(buf, inference) = unit * (t * buf)
      /\ Hw!AreaOf(buf + 1, inference) = unit * (t * buf) + unit * t
  <2>1. Hw!AreaOf(buf, inference) = unit * (t * buf)
        /\ Hw!AreaOf(buf + 1, inference) = unit * (t * (buf + 1))
    BY <1>1, Areas DEF t
  <2> DEFINE a == t * buf
  <2> HIDE DEF a
  <2>2. a \in Nat /\ unit * (a + t) = unit * a + unit * t
    BY <1>1 DEF a
  <2>3. QED
    BY <1>1, <2>1, <2>2 DEF a
<1> DEFINE a == t * buf
<1>3. a \in Nat /\ t * 32 >= a + t
  <2>1. t * buf <= t * 31
    BY <1>1
  <2>2. QED
    BY <1>1, <2>1
<1> HIDE DEF a
<1>4. Hw!AreaOf(buf + 1, inference) <= t * Hw!MbMvSize * Hw!MaxFrames
  <2>1. t * Hw!MbMvSize * Hw!MaxFrames = 96 * (t * 32)
    BY <1>1 DEF Hw!MbMvSize, Hw!MaxFrames
  <2>2. unit * a + unit * t <= 96 * (a + t)
    BY <1>1, <1>3
  <2>3. 96 * (a + t) <= 96 * (t * 32)
    BY <1>1, <1>3
  <2>4. QED
    BY <1>1, <1>2, <1>3, <2>1, <2>2, <2>3 DEF a
<1>5. ASSUME NEW structure \in {"top", "frame", "mbaff"}, NEW m \in Hw!FirstMbs(structure)
      PROVE  Hw!WriteAddr(buf, structure, m, inference)
               \in Hw!AreaOf(buf, inference) .. Hw!AreaOf(buf + 1, inference) - 1
  <2> DEFINE twice == IF structure = "frame" THEN 1 ELSE 2
  <2>1. m \in Nat /\ twice * m < t
    <3>1. m \in 0 .. (IF structure = "frame" THEN t ELSE t \div 2) - 1
      BY DEF Hw!FirstMbs, t
    <3>2. QED
      BY <1>1, <3>1
  <2>2. Hw!WriteAddr(buf, structure, m, inference) = unit * a + unit * twice * m
    <3>1. Hw!WriteStep(structure) = 96 * twice
      BY DEF Hw!WriteStep, Hw!MbMvSize
    <3>2. Hw!Shifted(96 * twice, inference) = unit * twice
      BY DEF Hw!Shifted
    <3>3. QED
      BY <1>2, <3>1, <3>2 DEF Hw!WriteAddr, a
  <2>3. unit * twice * m \in Nat /\ unit * twice * m < unit * t
    BY <1>1, <2>1
  <2>4. unit * a \in Nat /\ unit * t \in Nat
    BY <1>1, <1>3
  <2>5. QED
    BY <1>2, <2>2, <2>3, <2>4 DEF a
<1>6. QED
  BY <1>4, <1>5 DEF t

\* The hardware reads and writes only what is the driver's: for any stream that
\* conforms, and pictures, buffers and lists of any size (vdec_h264_header_done,
\* picture_done, dpb_build_ref_lists, configure_reference_buffers,
\* configure_colocated_buffers).
THEOREM ReferencesStayBacked == Spec /\ StreamConforms => []ReferencesBacked
<1>1. Hw!RegistersRight
  BY ListsNamed, InfoMarked, VectorsAreRead, VectorsDoFit, NearerIsChosen DEF Hw!RegistersRight
<1>2. PicturesBacked /\ ListsValid => ReferencesBacked
  BY <1>1 DEF ReferencesBacked
<1>3. QED
  BY <1>2, PicturesStayBacked, ListsStayValid, PTL
=============================================================================
