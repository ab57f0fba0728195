------------------------------ MODULE H264Stream ------------------------------
(***************************************************************************)
(* The H.264 picture buffer fed by a conforming stream of frames: what      *)
(* vdec_h264_header_done and decoder_done of decoder_h264.c do, picture by  *)
(* picture, and what userspace sees.  The stream is a sequence of anchors,  *)
(* each followed in coding order by the B pictures displayed before it, the *)
(* first of which may itself be a reference (a pyramid).  An IDR anchor     *)
(* starts a new sequence.                                                   *)
(***************************************************************************)
EXTENDS H264Dpb, SequencesExt

CONSTANTS Groups,    \* how many B pictures may come between two anchors
          Buffers,   \* CAPTURE buffers userspace has allocated
          Size,      \* of the picture buffer: dpb->max_frames
          Kinds,     \* what streams there are: "plain", "pyramid" (B pictures may
                     \* be references), "commands" (pictures carry memory
                     \* management and reordering commands)
          MaxPics    \* bound: pictures in the stream

ASSUME StreamAssumption ==
  /\ MaxPics \in Nat /\ Groups \subseteq 0 .. MaxPics /\ Groups # {}
  /\ Buffers \in Nat /\ Size \in 0 .. NumSlots
  /\ Kinds \subseteq {"plain", "pyramid", "commands"}

\* conformance: anchors are references, and a pyramid has one more
ASSUME ReferenceAssumption == MaxRefs # 0 /\ ("pyramid" \in Kinds => MaxRefs >= 2)

VARIABLES
  kind,    \* the stream's
  phase,   \* "header", "lists" (flush after it), "decode", "output", "drain"
  current, \* the header of the picture that is being decoded
  slot,    \* its slot
  next,    \* display number the next anchor and its B pictures start from
  base,    \* display number of the last IDR picture
  bs,      \* display numbers of the B pictures of the last anchor still to come
  refs,    \* references since the last IDR picture, oldest first, by number
  marked,  \* those of them a memory management command has taken away
  number,  \* display number of the picture in each slot
  queued,  \* how many CAPTURE buffers are ready to be decoded into
  shown    \* number after that of the last picture given to userspace

groupVars  == <<kind, next, base, bs, refs, marked>>
streamVars == <<dpbVars, phase, current, slot, groupVars, number, queued, shown>>

NoHeader == [idr |-> FALSE, ref |-> FALSE, structure |-> "frame", slice |-> "I", num |-> 0,
             poc |-> 0, longTerm |-> FALSE, commands |-> << >>, reorder0 |-> << >>,
             reorder1 |-> << >>]

Newest(s, n) == SubSeq(s, IF Len(s) > n THEN Len(s) - n + 1 ELSE 1, Len(s))

\* The references the standard lets the stream use: the MaxRefs newest in
\* coding order, less those marked unused
Window == {n \in ToSet(Newest(refs, MaxRefs)) : n \notin marked}

\* the reference that lies diff + 1 frame numbers back
Named(diff) == refs[Len(refs) - diff]
Diffs == {diff \in 0 .. (Len(refs) - 1) : Named(diff) \in Window}

FrameNum == Len(refs) % MaxFrameNum

\* the first job has been through vdec_h264_configure_request
StreamInit ==
  /\ kind \in Kinds
  /\ slots = Empty /\ size = Size /\ sequence = 0
  /\ list0 = << >> /\ list1 = << >>
  /\ phase = "header" /\ current = NoHeader /\ slot = NoSlot
  /\ next = 0 /\ base = 0 /\ bs = {} /\ refs = << >> /\ marked = {}
  /\ number = [s \in Slot |-> 0]
  /\ queued = Buffers
  /\ shown = 0

-----------------------------------------------------------------------------
\* vdec_h264_header_done up to its flush, for picture number n of the stream
NewPicture(n, h) ==
  /\ n < MaxPics /\ h.poc < PocMod
  /\ Free # {} /\ queued > 0
  /\ NewPic(FirstFree, h)
  /\ slots' = Added(FirstFree, h)
  /\ queued' = queued - 1
  /\ number' = [number EXCEPT ![FirstFree] = n]
  /\ slot' = FirstFree /\ current' = h
  /\ phase' = "lists"
  /\ UNCHANGED shown

\* what a picture may carry besides: a command to mark a reference unused, or
\* one to put a reference first in one of its lists
Variants(h) ==
  LET moves == {<<[op |-> "decrease", arg |-> diff]>> : diff \in Diffs}
      marks == {<<[op |-> "short_unused", args |-> <<diff>>]>> : diff \in Diffs}
  IN  {h} \cup
      IF kind # "commands" THEN {}
      ELSE IF h.slice = "P" THEN {[h EXCEPT !.commands = c] : c \in marks}
      ELSE IF h.slice = "B" THEN {[h EXCEPT !.reorder1 = c] : c \in moves}
      ELSE {}

Plain(idr, ref, slice, n) ==
  [NoHeader EXCEPT !.idr = idr, !.ref = ref, !.slice = slice,
                   !.num = IF idr THEN 0 ELSE FrameNum, !.poc = n - base']

\* an anchor with k B pictures before it
Anchor(slice, idr, k) ==
  LET n == next + k
  IN
  /\ phase = "header" /\ bs = {}
  /\ idr => slice = "I" /\ k = 0
  /\ idr => sequence + 1 < SequenceMod    \* bound: sequences do not wrap
  /\ next = 0 => idr
  /\ base' = IF idr THEN n ELSE base
  /\ \E h \in Variants(Plain(idr, TRUE, slice, n)) : NewPicture(n, h)
  /\ bs' = next .. (n - 1)
  /\ next' = n + 1
  /\ UNCHANGED <<kind, refs, marked>>

\* a B picture: the first after its anchor may be a reference, the others come
\* in display order
B(ref) ==
  /\ phase = "header"
  /\ ref => kind = "pyramid" /\ current.slice # "B"
  /\ UNCHANGED <<kind, next, base, refs, marked>>
  /\ \E n \in bs :
       /\ ref \/ \A m \in bs : n <= m
       /\ \E h \in Variants(Plain(FALSE, ref, "B", n)) : NewPicture(n, h)
       /\ bs' = bs \ {n}

\* one iteration of amlvdec_h264_dpb_flush_output with picture_done
Output(all) ==
  \E s \in Outputs(all) :
    /\ RecyclePic(s)
    /\ shown' = number[s] + 1
    /\ number' = [number EXCEPT ![s] = 0]
    /\ UNCHANGED <<phase, current, slot, groupVars, queued>>

Flush == phase \in {"lists", "output"} /\ Output(FALSE)

FlushEnds ==
  /\ phase \in {"lists", "output"} /\ Outputs(FALSE) = {}
  /\ phase' = IF phase = "lists" THEN "decode" ELSE "header"
  /\ UNCHANGED <<dpbVars, current, slot, groupVars, number, queued, shown>>

\* decoder_done up to its flush
Done ==
  /\ phase = "decode"
  /\ PicDone(slot)
  /\ refs' = IF current.idr THEN <<number[slot]>>
             ELSE IF current.ref THEN Append(refs, number[slot]) ELSE refs
  /\ marked' = IF current.idr THEN {}
               ELSE marked \cup {Named(c.args[1]) : c \in ToSet(current.commands)}
  /\ slot' = NoSlot
  /\ phase' = "output"
  /\ UNCHANGED <<kind, current, next, base, bs, number, queued, shown>>

\* STREAMOFF between two anchors: decoder_h264_stop flushes the rest
EndOfStream ==
  /\ phase = "header" /\ bs = {}
  /\ phase' = "drain"
  /\ UNCHANGED <<dpbVars, current, slot, groupVars, number, queued, shown>>

Drain == phase = "drain" /\ Output(TRUE)

\* userspace queues a buffer it has shown again; the pictures in the picture
\* buffer have one each
Requeue ==
  /\ queued + Cardinality(InUse) < Buffers
  /\ queued' = queued + 1
  /\ UNCHANGED <<dpbVars, phase, current, slot, groupVars, number, shown>>

StreamNext ==
  \/ \E slice \in {"I", "P"}, idr \in BOOLEAN, k \in Groups : Anchor(slice, idr, k)
  \/ \E ref \in BOOLEAN : B(ref)
  \/ Flush \/ FlushEnds \/ Done
  \/ EndOfStream \/ Drain
  \/ Requeue

StreamSpec == StreamInit /\ [][StreamNext]_streamVars

-----------------------------------------------------------------------------
Abstract == INSTANCE DisplayOrder
              WITH Picture <- 0 .. (MaxPics - 1), coded <- (0 .. (next - 1)) \ bs
\* Userspace gets the pictures in display order, none missing, none twice and
\* none before it was decoded, across IDR pictures and pyramids: the picture
\* buffer implements DisplayOrder.
\* Code: amlvdec_h264_dpb_flush_output, sliding_window_reference.
InDisplayOrder == Abstract!Spec

\* When STREAMOFF has flushed, every picture decoded has been given out.
AllShown == phase = "drain" /\ Outputs(TRUE) = {} => shown = next

MaxB == CHOOSE k \in Groups : \A i \in Groups : i <= k

\* Between two pictures the buffer holds at most the references and the B
\* pictures that wait behind the oldest of them: a reference is given out only
\* when it is one no more, and everything displayed after it waits.
Bounded ==
  phase = "header" => Cardinality(InUse) <= MaxRefs + MaxB * (MaxRefs - 1)

\* No picture stays longer than the order and the references ask for: not while
\* others are decoded, and none when STREAMOFF has flushed.  Code:
\* sliding_window_reference, amlvdec_h264_dpb_flush_output, decoder_h264_stop.
NothingHeldBack == Bounded /\ AllShown

\* The comment of sliding_window_reference ("remove oldest reference",
\* amlvdec_h264_dpb.c:673): the references kept are the MaxRefs newest in coding
\* order, the ones the stream may still refer to.
OldestGoes ==
  phase = "header" => {number[s] : s \in RefsOf(slots, "short")} = Window

\* That holds where only anchors are references: the reference displayed first is then
\* the oldest.  In a pyramid the picture that goes is the one displayed first, be it
\* newer than others or not.
OldestAnchorGoes == kind = "plain" => OldestGoes

Past(n)      == {m \in Window : m < n}
Future(n)    == {m \in Window : m > n}
Shows(list)  == [i \in DOMAIN list |-> number[list[i]]]
FirstOf(list, n) == list # << >> /\ number[list[1]] = n

\* list 0 of a P picture is the window, newest first.  The code sorts the frame_num
\* itself and not the "difference" its comment names (amlvdec_h264_dpb.c:415), so the
\* order is that one as long as frame_num has not wrapped between the oldest reference
\* of the window and the picture.
NewestFirst ==
  LET window == Newest(refs, MaxRefs)
  IN  Len(window) <= current.num =>
        /\ Shows(list0) = SubSeq(Reverse(window), 1, Len(list0))
        /\ Len(list0) = IF Len(window) > ListSize THEN ListSize ELSE Len(window)

\* Where only anchors are references: while a B picture is decoded, list 0 starts
\* with the reference displayed just before it and list 1, whose first picture is
\* the co-located one, with the one displayed just after it.
ListsNearest ==
  kind = "plain" /\ phase = "decode" =>
    /\ current.slice = "B" =>
         /\ \E m \in Past(number[slot]) :
              FirstOf(list0, m) /\ \A k \in Past(number[slot]) : k <= m
         /\ \E m \in Future(number[slot]) :
              FirstOf(list1, m) /\ \A k \in Future(number[slot]) : m <= k
    /\ current.slice = "P" => NewestFirst

\* In a stream whose B pictures are no references, a picture is predicted from the
\* references the stream means: those it may still refer to are there, those a B
\* picture needs first come first, across a wrap of frame_num too, and up to one the
\* list of a P picture is in order.  Streams with pyramids lose references they may
\* still use (OldestGoes does not hold of them), and nothing is claimed of theirs.
\* Code: sliding_window_reference, dpb_build_ref_lists,
\* amlvdec_h264_dpb_colocated_ref.
ReferencesChosen == OldestAnchorGoes /\ ListsNearest

\* The comment of mmco_cmd, "command and parameter" (amlvdec_h264_lmem.h:954): a
\* picture marked unused by its parameter is no reference any more.
ParametersObeyed ==
  phase = "decode" =>
    \A c \in ToSet(current.commands) :
      Named(c.args[1]) \notin {number[s] : s \in RefsOf(slots, "short")}
=============================================================================
