------------------------------- MODULE H264Dpb -------------------------------
(***************************************************************************)
(* The decoded picture buffer of the H.264 decoder (amlvdec_h264_dpb.c): an *)
(* array of picture slots, the marking of reference pictures (IDR, memory   *)
(* management commands, sliding window), the two reference lists and the    *)
(* output order.  The POC of a picture is an input here; H264Poc is about   *)
(* how it is decoded.  Operators that only compute take the array as f.     *)
(***************************************************************************)
EXTENDS Integers, Sequences, FiniteSets

CONSTANTS NumSlots,     \* MAX_DPB_FRAMES
          MaxRefs,      \* max_reference_frame_num
          MaxFrameNum,  \* 2^4 .. 2^16 in the code
          ListSize,     \* num_ref_idx_l0/l1_active
          PocMod,       \* width of frame_poc: 2^16 in the code
          SequenceMod,  \* width of coded_sequence: 2^16 in the code
          Frame,        \* the buffers a picture can hold
          NoFrame       \* the NULL buffer

ASSUME H264DpbAssumption ==
  /\ NumSlots \in Nat /\ MaxRefs \in Nat /\ ListSize \in Nat \ {0}
  /\ MaxFrameNum \in Nat \ {0} /\ PocMod \in Nat \ {0} /\ SequenceMod \in Nat \ {0}
  /\ NoFrame \notin Frame

Slot   == 1 .. NumSlots
NoSlot == 0

VARIABLES
  slots,     \* dpb->frames
  size,      \* dpb->max_frames: the slots in use so far
  sequence,  \* dpb->current_sequence
  list0,     \* dpb->ref_list0, as slots
  list1      \* dpb->ref_list1

dpbVars == <<slots, size, sequence, list0, list1>>

SlotState == {"unused", "init", "ref_in_use", "output_ready"}
Structure == {"frame", "top", "bottom"}
NoIdx     == 0 - 1

\* what amlvdec_h264_dpb_recycle_pic leaves; the structure is kept there, and
\* only read (is_matching_field) together with a frame_num
Recycled(structure) ==
  [state |-> "unused", type |-> "non", idx |-> NoIdx, num |-> 0, structure |-> structure,
   poc |-> 0, seq |-> 0, buffer |-> NoFrame, output |-> FALSE]

DpbTypeOK ==
  /\ slots \in [Slot -> [state : SlotState, type : {"non", "short", "long"},
                         idx : Int, num : 0 .. (MaxFrameNum - 1), structure : Structure,
                         poc : 0 .. (PocMod - 1), seq : 0 .. (SequenceMod - 1),
                         buffer : Frame \cup {NoFrame}, output : BOOLEAN]]
  /\ size \in 0 .. NumSlots
  /\ sequence \in 0 .. (SequenceMod - 1)
  /\ list0 \in Seq(Slot) /\ Len(list0) <= ListSize
  /\ list1 \in Seq(Slot) /\ Len(list1) <= ListSize

\* amlvdec_h264_dpb_init on a zeroed context
Empty == [s \in Slot |-> [Recycled("top") EXCEPT !.idx = 0]]

DpbInit ==
  /\ slots = Empty /\ size = 0 /\ sequence = 0
  /\ list0 = << >> /\ list1 = << >>

DpbReset ==
  /\ slots' = Empty /\ size' = 0 /\ sequence' = 0
  /\ list0' = << >> /\ list1' = << >>

\* amlvdec_h264_dpb_adjust_size: it grows and never shrinks
AdjustedSize(wanted) ==
  LET new == IF wanted > NumSlots THEN NumSlots ELSE wanted
  IN  IF new > size THEN new ELSE size

InUseOf(f) == {s \in 1 .. size : f[s].state # "unused"}
InUse      == InUseOf(slots)
Free       == (1 .. size) \ InUse
FirstFree  == CHOOSE s \in Free : \A t \in Free : s <= t
KeyOf(pic) == pic.seq * PocMod + pic.poc

-----------------------------------------------------------------------------
(* Marking.                                                                *)

RefsOf(f, type) == {s \in InUseOf(f) : f[s].state = "ref_in_use" /\ f[s].type = type}

\* the pictures of S are no longer references and may be output
Released(f, S) == [s \in Slot |-> IF s \in S THEN [f[s] EXCEPT !.state = "output_ready"]
                                  ELSE f[s]]
ReleasedLong(f, S) ==
  [s \in Slot |-> IF s \in S THEN [f[s] EXCEPT !.state = "output_ready", !.idx = NoIdx]
                  ELSE f[s]]

MarkAllUnused(f) == ReleasedLong(f, RefsOf(f, "short") \cup RefsOf(f, "long"))

\* the current sequence at the time commands run: a picture with commands is
\* no IDR picture
InSequence(f) == {s \in 1 .. size : f[s].seq = sequence}

\* pic_num_x of a command: the frame_num that lies diff + 1 before the picture's
PicNum(pic, diff) == (pic.num - (diff + 1)) % MaxFrameNum

\* One memory management command [op, args] for the picture in slot p.  For its
\* first parameter the code reads the array at the position of the command
\* itself (mmco_cmd(hw_dpb, i++)): that parameter is the number of the command.
\* It steps over as many words as there are parameters.
OpCode(op) == CASE op = "short_unused" -> 1 [] op = "long_unused" -> 2
                [] op = "assign_long" -> 3 [] op = "max_long_idx" -> 4
                [] op = "reset" -> 5 [] op = "current_long" -> 6

FirstArg(c) == OpCode(c.op)

Command(f, p, c) ==
  CASE c.op = "short_unused" ->
         Released(f, {s \in RefsOf(f, "short") \cap InSequence(f) :
                        f[s].num = PicNum(f[p], FirstArg(c))})
    [] c.op = "long_unused" ->
         ReleasedLong(f, {s \in RefsOf(f, "long") \cap InSequence(f) :
                            f[s].num = FirstArg(c)})
    [] c.op = "assign_long" ->
         [s \in Slot |->
            IF s \in InSequence(f) /\ f[s].num = PicNum(f[p], FirstArg(c))
              THEN [f[s] EXCEPT !.state = "ref_in_use", !.type = "long", !.idx = c.args[1]]
              ELSE f[s]]
    [] c.op = "max_long_idx" ->
         ReleasedLong(f, {s \in RefsOf(f, "long") \cap InSequence(f) :
                            f[s].idx > FirstArg(c) - 1})
    [] c.op = "reset" -> MarkAllUnused(f)
    [] c.op = "current_long" ->
         [f EXCEPT ![p] = [@ EXCEPT !.state = "ref_in_use", !.type = "long",
                                    !.idx = FirstArg(c)]]

\* adaptive_memory_management: the commands up to MMCO_END
Adaptive(f, p, commands) ==
  LET after[i \in 0 .. Len(commands)] ==
        IF i = 0 THEN f ELSE Command(after[i - 1], p, commands[i])
  IN  after[Len(commands)]

\* idr_memory_management
IdrMarking(f, p, longTerm) ==
  LET g == MarkAllUnused(f)
  IN  IF longTerm THEN [g EXCEPT ![p] = [@ EXCEPT !.type = "long", !.idx = 0]] ELSE g

\* mutant: the window counts one picture too few
SlideLate(f) ==
  LET short == RefsOf(f, "short")
      first == {s \in short : \A t \in short : KeyOf(f[s]) <= KeyOf(f[t])}
  IN  IF Cardinality(short) > MaxRefs + 1
        THEN Released(f, {CHOOSE s \in first : \A t \in first : s <= t}) ELSE f

\* sliding_window_reference: among too many short-term references the one
\* with the lowest output_order_key goes, the first slot among equals
SlidingWindow(f) ==
  LET short == RefsOf(f, "short")
      first == {s \in short : \A t \in short : KeyOf(f[s]) <= KeyOf(f[t])}
  IN  IF Cardinality(short) > MaxRefs
        THEN Released(f, {CHOOSE s \in first : \A t \in first : s <= t}) ELSE f

-----------------------------------------------------------------------------
(* The reference lists.                                                    *)

\* sort(): S by the key k; fields with equal keys by slot
Sorted(S, k(_)) ==
  LET Before(s, t) == k(s) < k(t) \/ (k(s) = k(t) /\ s < t)
  IN  [i \in 1 .. Cardinality(S) |->
         CHOOSE s \in S : Cardinality({t \in S : Before(t, s)}) = i - 1]

\* the active size of a list
Cut(list) == IF Len(list) > ListSize THEN SubSeq(list, 1, ListSize) ELSE list

\* mutant: the far end of the list comes first
ShortListsReversed(f, p, slice) ==
  LET short == RefsOf(f, "short")
      Key(s) == KeyOf(f[s])
      Num(s) == f[s].num
      past   == {s \in short : f[s].poc < f[p].poc}
  IN  IF slice = "B" THEN <<Sorted(past, Key), Sorted(short \ past, Key)>>
      ELSE IF slice = "P" THEN <<Sorted(short, Num), << >> >>
      ELSE << << >>, << >> >>

\* short-term references: for a B slice those before the picture in list 0,
\* the nearest first, and the others in list 1; for a P slice by falling
\* frame_num.  References all belong to the current sequence, so the sequence
\* in the comparators makes no difference.
ShortLists(f, p, slice) ==
  LET short == RefsOf(f, "short")
      Key(s) == KeyOf(f[s])
      Down(s) == 0 - KeyOf(f[s])
      Num(s) == 0 - f[s].num
      past   == {s \in short : f[s].poc < f[p].poc}
  IN  IF slice = "B" THEN <<Sorted(past, Down), Sorted(short \ past, Key)>>
      ELSE IF slice = "P" THEN <<Sorted(short, Num), << >> >>
      ELSE << << >>, << >> >>

\* long-term references follow, by index
LongLists(f, slice) ==
  LET Idx(s) == f[s].idx
      long   == Sorted(RefsOf(f, "long"), Idx)
  IN  IF slice = "B" THEN <<long, long>>
      ELSE IF slice = "P" THEN <<long, << >> >> ELSE << << >>, << >> >>

\* the first picture of the list that a reordering command means goes first
MoveToFront(list, Meant(_)) ==
  LET found == {i \in DOMAIN list : Meant(list[i])}
      i     == CHOOSE j \in found : \A k \in found : j <= k
  IN  IF found = {} THEN list
      ELSE <<list[i]>> \o SubSeq(list, 1, i - 1) \o SubSeq(list, i + 1, Len(list))

Reorder(f, p, list, c) ==
  LET num == (f[p].num + (IF c.op = "decrease" THEN 0 - (c.arg + 1) ELSE c.arg + 1))
               % MaxFrameNum
      Meant(s) == IF c.op = "long" THEN f[s].type = "long" /\ f[s].idx = c.arg
                  ELSE f[s].type = "short" /\ f[s].num = num
  IN  MoveToFront(list, Meant)

ReorderAll(f, p, list, commands) ==
  LET after[i \in 0 .. Len(commands)] ==
        IF i = 0 THEN list ELSE Reorder(f, p, after[i - 1], commands[i])
  IN  after[Len(commands)]

\* dpb_build_ref_lists and reorder_refs for the header h: the commands of list
\* 1 are applied to list 0 as well, after its own
List0(f, p, h) ==
  LET list == Cut(ShortLists(f, p, h.slice)[1] \o LongLists(f, h.slice)[1])
  IN  IF h.idr \/ h.slice = "I" THEN list
      ELSE ReorderAll(f, p, list, h.reorder0 \o h.reorder1)

List1(f, p, h) == Cut(ShortLists(f, p, h.slice)[2] \o LongLists(f, h.slice)[2])

-----------------------------------------------------------------------------
(* Pictures come and go.                                                   *)

\* amlvdec_h264_dpb_store_pic in slot p for the header h
Stored(p, h) ==
  [slots EXCEPT ![p] = [@ EXCEPT !.num = h.num, !.structure = h.structure,
     !.state = "init", !.type = IF h.ref THEN "short" ELSE slots[p].type, !.output = TRUE]]

\* mutant: an IDR picture does not start a new sequence
SequenceStays(h) == sequence

SequenceAfter(h) == IF h.idr THEN (sequence + 1) % SequenceMod ELSE sequence

\* amlvdec_h264_dpb_new_pic with slot p: the marking that the picture itself
\* asks for is done before it is decoded, the lists are built after that
Marked(p, h) ==
  IF h.idr THEN IdrMarking(Stored(p, h), p, h.longTerm)
  ELSE Adaptive(Stored(p, h), p, h.commands)

Added(p, h) ==
  [Marked(p, h) EXCEPT ![p] = [@ EXCEPT !.poc = h.poc, !.seq = SequenceAfter(h)]]

NewPic(p, h) ==
  /\ sequence' = SequenceAfter(h)
  /\ list0' = List0(Added(p, h), p, h)
  /\ list1' = List1(Added(p, h), p, h)
  /\ UNCHANGED size

\* mutant: any field of the other parity matches
MatchesAny(f, seq, pending, h) ==
  pending # NoSlot /\ {f[pending].structure, h.structure} = {"top", "bottom"}

\* amlvdec_h264_dpb_is_matching_field, for the array after new_pic
Matches(f, seq, pending, h) ==
  /\ pending # NoSlot
  /\ f[pending].num = h.num /\ f[pending].seq = seq
  /\ {f[pending].structure, h.structure} = {"top", "bottom"}

\* amlvdec_h264_dpb_pic_done
PicDone(p) ==
  /\ slots' = SlidingWindow([slots EXCEPT ![p] = [@ EXCEPT !.state =
                IF slots[p].type = "non" THEN "output_ready" ELSE "ref_in_use"]])
  /\ UNCHANGED <<size, sequence, list0, list1>>

\* mutant: whether a picture is ready is not looked at
OutputsAny(flushAll) ==
  {s \in InUse : \A t \in InUse \ {s} : KeyOf(slots[t]) >= KeyOf(slots[s])}

\* amlvdec_h264_dpb_flush_output: the slots its next iteration may output.  Among
\* fields with equal keys the scan takes the next one, which is left open.
Outputs(flushAll) ==
  {s \in InUse : /\ flushAll \/ slots[s].state = "output_ready"
                 /\ \A t \in InUse \ {s} : KeyOf(slots[t]) >= KeyOf(slots[s])}

\* amlvdec_h264_dpb_recycle_pic
RecyclePic(s) ==
  /\ slots' = [slots EXCEPT ![s] = Recycled(@.structure)]
  /\ UNCHANGED <<size, sequence, list0, list1>>
=============================================================================
