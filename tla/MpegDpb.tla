------------------------------- MODULE MpegDpb -------------------------------
(***************************************************************************)
(* The decoded picture buffer of the MPEG-1/2 decoder                      *)
(* (amlvdec_mpeg_dpb.c): a fixed array of picture slots, the two reference *)
(* pointers, and the output order.  Every picture carries the CAPTURE      *)
(* buffer it was decoded into.                                             *)
(***************************************************************************)
EXTENDS Integers

CONSTANTS NumPics,  \* dpb->num_pics
          PocMod,   \* width of a temporal reference: 2^10 in the code
          SeqMod,   \* width of coded_sequence: 2^16 in the code
          Frame,    \* the buffers a picture can hold
          NoFrame   \* the NULL buffer

ASSUME DpbAssumption ==
  /\ NumPics \in Nat /\ PocMod \in Nat \ {0} /\ SeqMod \in Nat \ {0}
  /\ NoFrame \notin Frame

Slot   == 1 .. NumPics
NoSlot == 0

VARIABLES
  pics,        \* the slots: state, buffer, is_reference, output_order_key
  forwardRef,  \* dpb->forward_ref, the later of the two references
  backwardRef, \* dpb->backward_ref, the earlier one
  sequence     \* dpb->current_sequence

dpbVars == <<pics, forwardRef, backwardRef, sequence>>

PicState == {"unused", "init", "ref_in_use", "output_ready"}
Key      == 0 .. (SeqMod * PocMod - 1)

Unused == [state |-> "unused", buffer |-> NoFrame, isRef |-> FALSE, key |-> 0]

DpbTypeOK ==
  /\ pics \in [Slot -> [state : PicState, buffer : Frame \cup {NoFrame},
                        isRef : BOOLEAN, key : Key]]
  /\ forwardRef \in Slot \cup {NoSlot}
  /\ backwardRef \in Slot \cup {NoSlot}
  /\ sequence \in 0 .. (SeqMod - 1)

DpbInit ==
  /\ pics = [s \in Slot |-> Unused]
  /\ forwardRef = NoSlot
  /\ backwardRef = NoSlot
  /\ sequence = 0

\* amlvdec_mpeg_dpb_init on a freshly allocated context
DpbReset ==
  /\ pics' = [s \in Slot |-> Unused]
  /\ forwardRef' = NoSlot
  /\ backwardRef' = NoSlot
  /\ sequence' = 0

InUse    == {s \in Slot : pics[s].state # "unused"}
Free     == Slot \ InUse
Held     == {pics[s].buffer : s \in InUse}
FirstFree == CHOOSE s \in Free : \A t \in Free : s <= t

-----------------------------------------------------------------------------
\* mutant: the coded sequence does not count
KeyOfPoc(seq, poc) == poc

\* amlvdec_mpeg_dpb_new_pic, with a slot to be had
OrderKey(seq, poc) == seq * PocMod + poc

NextSequence(newSequence) ==
  IF newSequence THEN (sequence + 1) % SeqMod ELSE sequence

NewPic(buffer, isRef, newSequence, poc) ==
  [state |-> "init", buffer |-> buffer, isRef |-> isRef,
   key |-> OrderKey(NextSequence(newSequence), poc)]

\* mutant: the reference that is pushed out is not released
DoneKeepsBackward(s, pic) ==
  /\ pics' = [pics EXCEPT ![s] = [pic EXCEPT !.state = IF pic.isRef THEN "ref_in_use"
                                                       ELSE "output_ready"]]
  /\ backwardRef' = IF pic.isRef THEN forwardRef ELSE backwardRef
  /\ forwardRef' = IF pic.isRef THEN s ELSE forwardRef

\* amlvdec_mpeg_dpb_pic_done for the picture pic of slot s: a reference pushes
\* the older of the two references out, and that one may now be output
PicDone(s, pic) ==
  IF pic.isRef
    THEN /\ pics' = [t \in Slot |->
              IF t = s THEN [pic EXCEPT !.state = "ref_in_use"]
              ELSE IF t = backwardRef THEN [pics[t] EXCEPT !.state = "output_ready"]
              ELSE pics[t]]
         /\ backwardRef' = forwardRef
         /\ forwardRef' = s
    ELSE /\ pics' = [pics EXCEPT ![s] = [pic EXCEPT !.state = "output_ready"]]
         /\ UNCHANGED <<forwardRef, backwardRef>>

\* new_pic and pic_done as vdec_mpeg_picture_done calls them, back to back
StorePic(buffer, isRef, newSequence, poc) ==
  /\ Free # {}
  /\ PicDone(FirstFree, NewPic(buffer, isRef, newSequence, poc))
  /\ sequence' = NextSequence(newSequence)

\* mutant: the state of a picture is not looked at
OutputsAny(flushAll) == {s \in InUse : \A t \in InUse \ {s} : pics[t].key >= pics[s].key}

\* amlvdec_mpeg_dpb_next_output: the slots it may return, and the first one
Outputs(flushAll) ==
  {s \in InUse : /\ flushAll \/ pics[s].state = "output_ready"
                 /\ \A t \in InUse \ {s} : pics[t].key >= pics[s].key}

NextOutput(flushAll) ==
  CHOOSE s \in Outputs(flushAll) : \A t \in Outputs(flushAll) : s <= t

\* mutant: the reference pointers are not cleared
RecycleKeepsRefs(s) ==
  /\ pics' = [pics EXCEPT ![s] = Unused]
  /\ UNCHANGED <<forwardRef, backwardRef, sequence>>

\* amlvdec_mpeg_dpb_recycle_pic.  The code keeps the buffer pointer of an
\* unused slot and never reads it.
RecyclePic(s) ==
  /\ pics' = [pics EXCEPT ![s] = Unused]
  /\ forwardRef' = IF forwardRef = s THEN NoSlot ELSE forwardRef
  /\ backwardRef' = IF backwardRef = s THEN NoSlot ELSE backwardRef
  /\ UNCHANGED sequence

-----------------------------------------------------------------------------
\* The pictures the hardware may still read are exactly the two reference
\* pointers, and they are distinct: no reference is output or recycled while
\* it is referenced, and none is forgotten in the buffer.
\* Code: amlvdec_mpeg_dpb_pic_done, amlvdec_mpeg_dpb_recycle_pic.
RefsInUse ==
  /\ {s \in Slot : pics[s].state = "ref_in_use"}
        = {forwardRef, backwardRef} \ {NoSlot}
  /\ forwardRef = backwardRef => forwardRef = NoSlot

\* No CAPTURE buffer is held by two pictures.
\* Code: vdec_mpeg_picture_done (decoder_mpeg12.c:510-536).
BuffersDistinct ==
  \A s, t \in InUse : s # t => pics[s].buffer # pics[t].buffer
=============================================================================
