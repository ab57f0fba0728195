----------------------------- MODULE MpegReorder -----------------------------
(***************************************************************************)
(* The MPEG-1/2 picture buffer fed by a conforming stream: what            *)
(* vdec_mpeg_picture_done and vdec_mpeg_flush_dpb do, picture by picture,  *)
(* and what userspace sees.  The stream is a sequence of anchors (I, P),   *)
(* each followed in coding order by the B pictures displayed before it.    *)
(* A group of pictures starts at an I picture and may be open: B pictures  *)
(* coded after its first I are displayed before it.                        *)
(***************************************************************************)
EXTENDS MpegDpb, FiniteSets

CONSTANTS MaxB,     \* most B pictures between two anchors
          MaxPics   \* bound: pictures in the stream

ASSUME ReorderAssumption == MaxB \in Nat /\ MaxPics \in Nat

VARIABLES
  phase,   \* "decode" a picture, "flush" after it, "drain" at the end of stream
  next,    \* display number the next anchor and its B pictures start from
  base,    \* display number of the first picture of the group of pictures
  bs,      \* display numbers of the B pictures of the last anchor still to come
  number,  \* display number of the picture in each buffer the decoder holds
  queued,  \* CAPTURE buffers ready to be decoded into
  shown    \* number after that of the last picture given to userspace

reorderVars == <<dpbVars, phase, next, base, bs, number, queued, shown>>

ReorderInit ==
  /\ DpbInit
  /\ phase = "decode"
  /\ next = 0 /\ base = 0 /\ bs = {}
  /\ number = [f \in Frame |-> 0]
  /\ queued = Frame
  /\ shown = 0

-----------------------------------------------------------------------------
\* vdec_mpeg_picture_done for picture number n of the stream
Decode(n, type) ==
  \E f \in queued :
    /\ n < MaxPics /\ n - base' < PocMod
    /\ StorePic(f, type # "B", type = "I", n - base')
    /\ number' = [number EXCEPT ![f] = n]
    /\ queued' = queued \ {f}
    /\ phase' = "flush"
    /\ UNCHANGED shown

\* an anchor with k B pictures before it; a new group of pictures restarts the
\* temporal references
DecodeAnchor(type, k, newGroup) ==
  /\ phase = "decode" /\ bs = {}
  /\ newGroup => type = "I"
  /\ next = 0 => newGroup /\ k = 0
  /\ type = "I" => sequence + 1 < SeqMod    \* bound: the counter does not wrap
  /\ base' = IF newGroup THEN next ELSE base
  /\ Decode(next + k, type)
  /\ bs' = next .. (next + k - 1)
  /\ next' = next + k + 1

DecodeB ==
  LET n == CHOOSE b \in bs : \A c \in bs : b <= c
  IN  /\ phase = "decode" /\ bs # {}
      /\ UNCHANGED <<next, base>>
      /\ Decode(n, "B")
      /\ bs' = bs \ {n}

\* one iteration of vdec_mpeg_flush_dpb: the picture goes to userspace
Output(all) ==
  /\ Outputs(all) # {}
  /\ RecyclePic(NextOutput(all))
  /\ shown' = number[pics[NextOutput(all)].buffer] + 1
  /\ number' = [number EXCEPT ![pics[NextOutput(all)].buffer] = 0]
  /\ UNCHANGED <<phase, next, base, bs, queued>>

Flush == phase = "flush" /\ Output(FALSE)

FlushEnds ==
  /\ phase = "flush" /\ Outputs(FALSE) = {}
  /\ phase' = "decode"
  /\ UNCHANGED <<dpbVars, next, base, bs, number, queued, shown>>

\* STREAMOFF between two anchors: decoder_mpeg_stop flushes the rest
EndOfStream ==
  /\ phase = "decode" /\ bs = {}
  /\ phase' = "drain"
  /\ UNCHANGED <<dpbVars, next, base, bs, number, queued, shown>>

Drain == phase = "drain" /\ Output(TRUE)

\* userspace queues a buffer it has shown again
Requeue(f) ==
  /\ f \notin queued \cup Held
  /\ queued' = queued \cup {f}
  /\ UNCHANGED <<dpbVars, phase, next, base, bs, number, shown>>

ReorderNext ==
  \/ \E type \in {"I", "P"}, k \in 0 .. MaxB, newGroup \in BOOLEAN :
        DecodeAnchor(type, k, newGroup)
  \/ DecodeB
  \/ Flush \/ FlushEnds
  \/ EndOfStream \/ Drain
  \/ \E f \in Frame : Requeue(f)

ReorderSpec == ReorderInit /\ [][ReorderNext]_reorderVars

-----------------------------------------------------------------------------
Abstract == INSTANCE DisplayOrder
              WITH Picture <- 0 .. (MaxPics - 1), coded <- (0 .. (next - 1)) \ bs
\* Userspace gets the pictures in display order, none missing, none twice, and
\* none before it was decoded: the picture buffer implements DisplayOrder.
\* Code: amlvdec_mpeg_dpb_next_output and the output order key.
InDisplayOrder == Abstract!Spec

\* Between two pictures the buffer holds at most the two references and the B
\* pictures between them; with MaxB + 3 CAPTURE buffers decoding never waits
\* for a buffer that only decoding could free.
Bounded ==
  phase = "decode" =>
    /\ Cardinality(InUse) <= MaxB + 2
    /\ queued = {} => \E f \in Frame : f \notin Held

\* When STREAMOFF has flushed, every picture decoded has been given out.
AllShown == phase = "drain" /\ Outputs(TRUE) = {} => shown = next

\* No picture stays longer than the order asks for: not while others are decoded,
\* and none when STREAMOFF has flushed.  Code: amlvdec_mpeg_dpb_pic_done,
\* amlvdec_mpeg_dpb_next_output, decoder_mpeg_stop.
NothingHeldBack == Bounded /\ AllShown
=============================================================================
