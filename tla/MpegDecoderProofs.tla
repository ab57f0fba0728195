-------------------------- MODULE MpegDecoderProofs --------------------------
(***************************************************************************)
(* MpegDecoder is type-correct, conserves buffers and dereferences nothing *)
(* it should not, for any number of buffers, picture slots and any stream, *)
(* until the job's thread is overrun.                                      *)
(*                                                                         *)
(* Conservation is not inductive alone: that decoder_done gives back the   *)
(* buffer it took needs to know where the thread is (JobInv), and that     *)
(* preparing the codec loses no picture needs to know that the picture     *)
(* buffer is empty while the CAPTURE queue is off (StreamInv).             *)
(*                                                                         *)
(* MpegReorder, the picture buffer fed by a conforming stream, implements  *)
(* DisplayOrder, for any number of B pictures, slots and buffers           *)
(* (OrderInv).                                                             *)
(***************************************************************************)
EXTENDS MpegDecoder, MpegReorder, M2mLemmas, FiniteSetTheorems

-----------------------------------------------------------------------------
(* What the operations of the picture buffer do, for every number of slots  *)
(* and every width of the order keys.                                      *)

\* An output order key fits the field it is stored in.
LEMMA KeyInRange ==
  ASSUME DpbAssumption, NEW seq \in 0 .. (SeqMod - 1), NEW poc \in 0 .. (PocMod - 1)
  PROVE  OrderKey(seq, poc) \in Key
<1> USE DEF DpbAssumption
<1>1. (SeqMod - 1 - seq) * PocMod >= 0 /\ seq * PocMod >= 0
  OBVIOUS
<1>2. (SeqMod - 1 - seq) * PocMod = SeqMod * PocMod - PocMod - seq * PocMod
  OBVIOUS
<1>3. seq * PocMod \in Int /\ SeqMod * PocMod \in Int
  OBVIOUS
<1>4. QED
  BY <1>1, <1>2, <1>3 DEF OrderKey, Key

LEMMA ZeroIsKey ==
  ASSUME DpbAssumption
  PROVE  0 \in Key
<1>1. 0 \in 0 .. (SeqMod - 1) /\ 0 \in 0 .. (PocMod - 1)
  BY DEF DpbAssumption
<1>2. OrderKey(0, 0) = 0
  BY DEF OrderKey, DpbAssumption
<1>3. QED
  BY <1>1, <1>2, KeyInRange

\* amlvdec_mpeg_dpb_alloc_pic returns a slot that is free.
LEMMA FirstFreeFacts ==
  ASSUME DpbTypeOK, Free # {}
  PROVE  FirstFree \in Free
<1>1. Free \subseteq Nat
  BY DEF Free, Slot
<1>2. \E s \in Free : \A t \in Free : s <= t
  BY <1>1, LeastExists
<1>3. QED
  BY <1>2 DEF FirstFree

\* amlvdec_mpeg_dpb_next_output returns a picture it may return.
LEMMA NextOutputFacts ==
  ASSUME NEW all \in BOOLEAN, Outputs(all) # {}
  PROVE  /\ NextOutput(all) \in InUse
         /\ all \/ pics[NextOutput(all)].state = "output_ready"
<1>1. Outputs(all) \subseteq Nat
  BY DEF Outputs, InUse, Slot
<1>2. \E s \in Outputs(all) : \A t \in Outputs(all) : s <= t
  BY <1>1, LeastExists
<1>3. NextOutput(all) \in Outputs(all)
  BY <1>2 DEF NextOutput
<1>4. QED
  BY <1>3 DEF Outputs

\* A complete flush stops only when the picture buffer is empty.
LEMMA FlushAllEmpties ==
  ASSUME DpbTypeOK, Outputs(TRUE) = {}
  PROVE  InUse = {}
<1> SUFFICES ASSUME InUse # {}
             PROVE  FALSE
  OBVIOUS
<1> DEFINE Keys == {pics[s].key : s \in InUse}
<1>1. Keys \subseteq Nat /\ Keys # {}
  BY DEF DpbTypeOK, Key, InUse
<1>2. PICK k \in Keys : \A l \in Keys : k <= l
  BY <1>1, LeastExists
<1>3. PICK s \in InUse : k = pics[s].key
  BY <1>2
<1>4. \A t \in InUse : pics[t].key >= pics[s].key
  BY <1>1, <1>2, <1>3
<1>5. s \in Outputs(TRUE)
  BY <1>4 DEF Outputs
<1>6. QED
  BY <1>5

\* A step that leaves the picture buffer alone.
LEMMA SameDpbFacts ==
  ASSUME UNCHANGED dpbVars
  PROVE  /\ DpbTypeOK => DpbTypeOK'
         /\ RefsInUse => RefsInUse'
         /\ BuffersDistinct => BuffersDistinct'
         /\ InUse' = InUse /\ Held' = Held
BY DEF dpbVars, DpbTypeOK, RefsInUse, BuffersDistinct, InUse, Held

\* amlvdec_mpeg_dpb_init
LEMMA ResetFacts ==
  ASSUME DpbAssumption, DpbReset
  PROVE  DpbTypeOK' /\ RefsInUse' /\ InUse' = {} /\ Held' = {}
<1>1. 0 \in Key
  BY ZeroIsKey
<1>2. DpbTypeOK'
  BY <1>1 DEF DpbReset, DpbTypeOK, Unused, PicState, DpbAssumption
<1>3. InUse' = {} /\ Held' = {}
  BY DEF DpbReset, InUse, Held, Unused
<1>4. RefsInUse'
  BY DEF DpbReset, RefsInUse, Unused
<1>5. QED
  BY <1>2, <1>3, <1>4

\* amlvdec_mpeg_dpb_pic_done on the picture pic of a free slot n fills that
\* slot alone, and the slots in state REF_IN_USE stay the two references.
LEMMA PicDoneFacts ==
  ASSUME DpbTypeOK, RefsInUse, NEW n \in Free,
         NEW pic \in [state : PicState, buffer : Frame \cup {NoFrame},
                      isRef : BOOLEAN, key : Key],
         PicDone(n, pic)
  PROVE  /\ pics' \in [Slot -> [state : PicState, buffer : Frame \cup {NoFrame},
                                isRef : BOOLEAN, key : Key]]
         /\ forwardRef' \in Slot \cup {NoSlot} /\ backwardRef' \in Slot \cup {NoSlot}
         /\ RefsInUse'
         /\ InUse' = InUse \cup {n}
         /\ \A t \in Slot : pics'[t].buffer = IF t = n THEN pic.buffer ELSE pics[t].buffer
<1>1. n \in Slot /\ n \notin InUse
  BY DEF Free
<1>2. n \notin {forwardRef, backwardRef}
  BY <1>1 DEF RefsInUse, InUse, Slot, NoSlot
<1>3. CASE pic.isRef
  BY <1>1, <1>2, <1>3 DEF DpbTypeOK, PicDone, InUse, RefsInUse, PicState, Slot, NoSlot
<1>4. CASE ~pic.isRef
  <2>1. PICK done \in [state : PicState, buffer : Frame \cup {NoFrame},
                      isRef : BOOLEAN, key : Key] :
          /\ done = [pic EXCEPT !.state = "output_ready"]
          /\ done.state = "output_ready" /\ done.buffer = pic.buffer
    <3>1. [pic EXCEPT !.state = "output_ready"] \in
            [state : PicState, buffer : Frame \cup {NoFrame}, isRef : BOOLEAN, key : Key]
      BY DEF PicState
    <3>2. /\ [pic EXCEPT !.state = "output_ready"].state = "output_ready"
          /\ [pic EXCEPT !.state = "output_ready"].buffer = pic.buffer
      OBVIOUS
    <3>3. QED
      BY <3>1, <3>2, Zenon
  <2>2. pics' = [pics EXCEPT ![n] = done] /\ UNCHANGED <<forwardRef, backwardRef>>
    BY <1>4, <2>1 DEF PicDone
  <2>3. QED
    BY <1>1, <1>2, <2>1, <2>2 DEF DpbTypeOK, InUse, RefsInUse, PicState, Slot, NoSlot
<1>5. QED
  BY <1>3, <1>4

\* amlvdec_mpeg_dpb_new_pic and _pic_done add one picture with the buffer.
LEMMA StorePicFacts ==
  ASSUME DpbAssumption, DpbTypeOK, RefsInUse,
         NEW buffer \in Frame \cup {NoFrame}, NEW isRef \in BOOLEAN,
         NEW newSequence \in BOOLEAN, NEW poc \in 0 .. (PocMod - 1),
         StorePic(buffer, isRef, newSequence, poc)
  PROVE  /\ DpbTypeOK' /\ RefsInUse'
         /\ Held' = Held \cup {buffer}
         /\ BuffersDistinct /\ buffer \notin Held => BuffersDistinct'
<1>1. PICK n \in Free : n = FirstFree
  BY FirstFreeFacts DEF StorePic
<1>2. NextSequence(newSequence) \in 0 .. (SeqMod - 1)
  BY DEF NextSequence, DpbTypeOK, DpbAssumption
<1>3. PICK pic \in [state : PicState, buffer : Frame \cup {NoFrame},
                    isRef : BOOLEAN, key : Key] :
             pic = NewPic(buffer, isRef, newSequence, poc)
  BY <1>2, KeyInRange DEF NewPic, PicState
<1>4. PicDone(n, pic) /\ sequence' = NextSequence(newSequence)
  BY <1>1, <1>3 DEF StorePic
<1>5. pic.buffer = buffer
  BY <1>3 DEF NewPic
<1>6. DpbTypeOK' /\ RefsInUse'
  BY <1>2, <1>4, PicDoneFacts DEF DpbTypeOK
<1>7. /\ InUse' = InUse \cup {n} /\ InUse \subseteq Slot /\ n \in Slot \ InUse
      /\ \A t \in Slot : pics'[t].buffer = IF t = n THEN buffer ELSE pics[t].buffer
  BY <1>4, <1>5, PicDoneFacts DEF Free, InUse
<1>8. Held' = Held \cup {buffer}
  BY <1>7 DEF Held
<1>9. BuffersDistinct /\ buffer \notin Held => BuffersDistinct'
  BY <1>7 DEF Held, BuffersDistinct
<1>10. QED
  BY <1>6, <1>8, <1>9

\* amlvdec_mpeg_dpb_recycle_pic empties one slot and no other.
LEMMA RecyclePicFacts ==
  ASSUME DpbAssumption, DpbTypeOK, RefsInUse, NEW s \in InUse, RecyclePic(s)
  PROVE  /\ DpbTypeOK' /\ RefsInUse'
         /\ BuffersDistinct => BuffersDistinct' /\ Held' = Held \ {pics[s].buffer}
         /\ pics[s].buffer \in Held
         /\ InUse = {} => InUse' = {}
<1>1. 0 \in Key
  BY ZeroIsKey
<1>2. DpbTypeOK'
  BY <1>1 DEF RecyclePic, DpbTypeOK, Unused, PicState, InUse
<1>3. InUse' = InUse \ {s} /\ InUse \subseteq Slot
  BY DEF RecyclePic, InUse, Unused, DpbTypeOK
<1>4. \A t \in InUse' : pics'[t] = pics[t]
  BY <1>3 DEF RecyclePic, DpbTypeOK
<1>5. RefsInUse'
  BY <1>3 DEF RecyclePic, RefsInUse, DpbTypeOK, Unused, Slot, NoSlot, InUse
<1>6. BuffersDistinct => BuffersDistinct' /\ Held' = Held \ {pics[s].buffer}
  BY <1>3, <1>4 DEF BuffersDistinct, Held
<1>7. QED
  BY <1>2, <1>3, <1>5, <1>6 DEF Held

-----------------------------------------------------------------------------
(* The inductive invariant.                                                *)

JobInv ==
  /\ pc # "oops"
  /\ job = "running" <=>
       pc \in {"source", "destination", "configure", "reinit", "wait", "abort", "flush"}
  /\ pc # "idle" => allocated
  /\ pc \in {"destination", "configure", "reinit", "wait"} => srcBuf # NoBuf
  /\ pc \in {"configure", "reinit", "wait"} => dstBuf # NoBuf
  /\ pc \in {"idle", "source", "flush", "eos"} => srcBuf = NoBuf
  /\ pc = "flush" /\ flushAll => dstBuf = NoBuf
  /\ pc = "eos" => dstBuf = NoBuf /\ InUse = {}

StreamInv ==
  /\ \A q \in Queue : job = "running" => stream[q] \in {"on", "cancel"}
  /\ \A q \in Queue : stream[q] \in {"on", "cancel"} => allocated
  /\ stream["dst"] \in {"idle", "off"} => dstBuf = NoBuf /\ InUse = {}

SafeInv == JobInv /\ StreamInv /\ Conserved
IInv    == TypeOK /\ RefsInUse /\ (~overrun => SafeInv)

-----------------------------------------------------------------------------
\* The queue lemmas speak of functions; this is what they say of the state.
LEMMA ViewFacts ==
  ASSUME TypeOK
  PROVE  /\ QueuesTyped(rdy) /\ vb \in [Buf -> VbState]
         /\ Conserved => QueuesOK(rdy)
         /\ Queued(rdy) = InReady /\ ActiveIn(vb) = Active
BY DEF TypeOK, M2mTypeOK, QueuesTyped, QueuesOK, Conserved, Queued, InReady,
       ActiveIn, Active

\* ... and of the state after the step.
LEMMA NextViewFacts ==
  /\ Queued(rdy') = InReady' /\ ActiveIn(vb') = Active'
  /\ QueuesTyped(rdy') <=> /\ rdy' \in [Queue -> Seq(Buf)]
                           /\ \A q \in Queue : rdy'[q] \in Seq(BufOf(q))
  /\ QueuesOK(rdy') <=> QueuesTyped(rdy') /\ \A q \in Queue : IsInjective(rdy'[q])
BY DEF QueuesTyped, QueuesOK, Queued, InReady, ActiveIn, Active

\* A step that moves no buffer conserves buffers.
LEMMA NoMoveFacts ==
  ASSUME UNCHANGED <<vb, rdy, srcBuf, dstBuf, dropped>>, UNCHANGED dpbVars
  PROVE  Conserved => Conserved'
BY SameDpbFacts DEF Conserved, Places, Active, InReady, InTask

\* The decoder starts without a context and without buffers.
LEMMA InitInv == Init => IInv
<1> SUFFICES ASSUME Init
             PROVE  IInv
  OBVIOUS
<1> USE BufAssumption, DpbAssumption, MpegAssumption
<1>1. << >> \in Seq(Buf) /\ << >> \in Seq(SrcBuf) /\ << >> \in Seq(DstBuf)
  BY EmptyFacts
<1>2. 0 \in Key /\ 0 \in 0 .. (SeqMod - 1)
  BY ZeroIsKey DEF DpbAssumption
<1>3. M2mTypeOK
  BY <1>1 DEF Init, M2mInit, M2mTypeOK, VbState, Queue, BufOf
<1>4. DpbTypeOK /\ RefsInUse /\ InUse = {} /\ BuffersDistinct /\ Held = {}
  BY <1>2 DEF Init, DpbInit, DpbTypeOK, PicState, Unused, RefsInUse, InUse, Slot,
              NoSlot, BuffersDistinct, Held
<1>5. TypeOK
  <2>1. asks \in 0 .. MaxAsks
    BY DEF Init, MpegAssumption
  <2>2. QED
    BY <1>3, <1>4, <2>1 DEF Init, TypeOK, Pc, Status
<1>6. JobInv /\ StreamInv
  BY <1>4 DEF Init, M2mInit, JobInv, StreamInv, Queue
<1>7. Conserved
  <2>1. Active = {} /\ InTask = {} /\ dropped = {}
    BY DEF Init, M2mInit, Active, InTask
  <2>2. InReady = {} /\ \A q \in Queue : IsInjective(rdy[q])
    BY EmptyFacts DEF Init, M2mInit, InReady, Queue
  <2>3. QED
    BY <1>4, <2>1, <2>2 DEF Conserved, Places
<1>8. QED
  BY <1>4, <1>5, <1>6, <1>7 DEF IInv, SafeInv

-----------------------------------------------------------------------------
(* The steps that move no buffer: the thread, the interrupt, the commands. *)

\* A step that moves no buffer keeps what the invariant says of the data.
LEMMA DataKept ==
  ASSUME IInv, UNCHANGED <<vb, rdy, srcBuf, dstBuf, dropped>>, UNCHANGED dpbVars
  PROVE  /\ DpbTypeOK' /\ RefsInUse'
         /\ InUse' = InUse
         /\ Conserved => Conserved'
BY NoMoveFacts, SameDpbFacts DEF IInv, TypeOK

LEMMA SameM2mFacts ==
  ASSUME M2mTypeOK, UNCHANGED m2mVars
  PROVE  M2mTypeOK'
BY DEF M2mTypeOK, m2mVars

\* The thread configures the hardware, resets the completion, serves a request.
LEMMA ThreadSteps ==
  ASSUME IInv, Configure \/ ReinitCompletion \/ ServeNotify
  PROVE  IInv'
<1>1. UNCHANGED <<m2mVars, srcBuf, dstBuf, allocated, overrun, flushAll, resume, status>>
  BY DEF Configure, ReinitCompletion, ServeNotify
<1>2. UNCHANGED dpbVars
  BY DEF Configure, ReinitCompletion, ServeNotify
<1>3. DpbTypeOK' /\ RefsInUse' /\ InUse' = InUse /\ (Conserved => Conserved')
  BY <1>1, <1>2, DataKept DEF m2mVars
<1>4. TypeOK'
  <2>1. M2mTypeOK'
    BY <1>1, SameM2mFacts DEF IInv, TypeOK
  <2>2. asks' \in 0 .. MaxAsks
    BY MpegAssumption DEF IInv, TypeOK, Configure, ReinitCompletion, ServeNotify, MpegAssumption
  <2>3. QED
    BY <1>1, <1>3, <2>1, <2>2
       DEF IInv, TypeOK, Pc, Configure, ReinitCompletion, ServeNotify
<1>5. ASSUME ~overrun' PROVE SafeInv'
  <2>1. SafeInv
    BY <1>1, <1>5 DEF IInv
  <2>2. JobInv' /\ StreamInv'
    BY <1>1, <1>3, <2>1 DEF SafeInv, JobInv, StreamInv, m2mVars,
                            Configure, ReinitCompletion, ServeNotify
  <2>3. QED
    BY <1>3, <2>1, <2>2 DEF SafeInv
<1>6. QED
  BY <1>3, <1>4, <1>5 DEF IInv

\* The interrupt changes nothing the invariant speaks of.
LEMMA IsrStep ==
  ASSUME IInv, Isr
  PROVE  IInv'
<1>1. PICK asking \in BOOLEAN, s \in Status : Interrupt(asking, s)
  BY DEF Isr, Status
<1>2. UNCHANGED <<m2mVars, jobVars, allocated, overrun>> /\ UNCHANGED dpbVars
  BY <1>1 DEF Interrupt
<1>3. DpbTypeOK' /\ RefsInUse' /\ InUse' = InUse /\ (Conserved => Conserved')
  BY <1>2, DataKept DEF m2mVars, jobVars
<1>4. TypeOK'
  <2>1. M2mTypeOK'
    BY <1>2, SameM2mFacts DEF IInv, TypeOK
  <2>2. asks' \in 0 .. MaxAsks
    BY <1>1, MpegAssumption DEF IInv, TypeOK, Interrupt, MpegAssumption
  <2>3. completion' \in BOOLEAN /\ notify' \in BOOLEAN /\ status' \in Status
        /\ hw' \in {"off", "running", "halted"}
    BY <1>1 DEF IInv, TypeOK, Interrupt
  <2>4. QED
    BY <1>2, <1>3, <2>1, <2>2, <2>3 DEF IInv, TypeOK, jobVars
<1>5. ASSUME ~overrun' PROVE SafeInv'
  BY <1>2, <1>3, <1>5 DEF IInv, SafeInv, JobInv, StreamInv, m2mVars, jobVars
<1>6. QED
  BY <1>3, <1>4, <1>5 DEF IInv

\* v4l2_m2m_job_finish at the end of a flush, and the rest of decoder_abort.
LEMMA EndSteps ==
  ASSUME IInv, FinishJob \/ QueueEos \/ UseAfterFree
  PROVE  IInv'
<1>1. UNCHANGED <<vb, rdy, stream, drainVars, aborted, dropped, srcBuf, dstBuf, flushAll,
                  completion, notify, asks, status, allocated>> /\ UNCHANGED dpbVars
  BY DEF FinishJob, QueueEos, UseAfterFree, m2mVars, hwVars, drainVars
<1>2. DpbTypeOK' /\ RefsInUse' /\ InUse' = InUse /\ (Conserved => Conserved')
  BY <1>1, DataKept
<1>3. TypeOK'
  <2>1. M2mTypeOK'
    BY <1>1 DEF IInv, TypeOK, M2mTypeOK, drainVars, FinishJob, JobFinish, QueueEos,
                UseAfterFree, m2mVars
  <2>2. pc' \in Pc /\ hw' \in {"off", "running", "halted"} /\ resume' \in BOOLEAN
        /\ overrun' \in BOOLEAN
    BY DEF IInv, TypeOK, Pc, FinishJob, QueueEos, UseAfterFree, hwVars
  <2>3. QED
    BY <1>1, <1>2, <2>1, <2>2 DEF IInv, TypeOK
<1>4. ASSUME ~overrun' PROVE SafeInv'
  <2>1. SafeInv
    BY <1>4 DEF IInv, TypeOK, FinishJob, QueueEos, UseAfterFree
  <2>2. JobInv'
    <3>1. CASE FinishJob
      <4>1. flushAll => InUse = {}
        BY <3>1, FlushAllEmpties DEF FinishJob, IInv, TypeOK
      <4>2. QED
        BY <1>1, <1>2, <2>1, <3>1, <4>1 DEF SafeInv, JobInv, FinishJob, JobFinish, IInv, TypeOK
    <3>2. CASE QueueEos
      BY <1>2, <1>4, <2>1, <3>2 DEF SafeInv, JobInv, QueueEos, m2mVars, IInv, TypeOK
    <3>3. CASE UseAfterFree
      BY <2>1, <3>3 DEF SafeInv, JobInv, UseAfterFree
    <3>4. QED
      BY <3>1, <3>2, <3>3
  <2>3. StreamInv'
    BY <1>1, <1>2, <2>1, <2>2 DEF SafeInv, StreamInv, FinishJob, JobFinish, QueueEos,
                                  UseAfterFree, m2mVars
  <2>4. QED
    BY <1>2, <2>1, <2>2, <2>3 DEF SafeInv
<1>5. QED
  BY <1>2, <1>3, <1>4 DEF IInv

\* STREAMOFF begins; formats and buffers are set up anew; DECODER_CMD START.
LEMMA ControlSteps ==
  ASSUME IInv, (\E q \in Queue : StreamOff(q)) \/ Reconfigure
               \/ (CmdStart /\ UNCHANGED <<dpbVars, jobVars, hwVars, allocated, overrun>>)
  PROVE  IInv'
<1>1. UNCHANGED <<vb, rdy, dropped, jobVars, hwVars, allocated>> /\ UNCHANGED dpbVars
  BY DEF StreamOff, Reconfigure, CmdStart
<1>2. DpbTypeOK' /\ RefsInUse' /\ InUse' = InUse /\ (Conserved => Conserved')
  BY <1>1, DataKept DEF jobVars
<1>3. TypeOK'
  <2>1. M2mTypeOK'
    BY <1>1 DEF IInv, TypeOK, M2mTypeOK, drainVars, StreamOff, Reconfigure, CmdStart
  <2>2. overrun' \in BOOLEAN
    BY DEF IInv, TypeOK, StreamOff, Reconfigure
  <2>3. QED
    BY <1>1, <1>2, <2>1, <2>2 DEF IInv, TypeOK, jobVars, hwVars
<1>4. ASSUME ~overrun' PROVE SafeInv'
  <2>1. SafeInv
    BY <1>4 DEF IInv, StreamOff, Reconfigure
  <2>2. job' = job
    BY <1>4 DEF IInv, TypeOK, M2mTypeOK, StreamOff, Reconfigure, CmdStart
  <2>3. StreamInv'
    BY <1>1, <1>2, <2>1, <2>2 DEF SafeInv, StreamInv, StreamOff, Reconfigure, CmdStart, Queue,
                                  jobVars, IInv, TypeOK, M2mTypeOK, JobInv
  <2>4. JobInv'
    BY <1>1, <1>2, <2>1, <2>2 DEF SafeInv, JobInv, jobVars
  <2>5. QED
    BY <1>2, <2>1, <2>3, <2>4 DEF SafeInv
<1>5. QED
  BY <1>2, <1>3, <1>4 DEF IInv

-----------------------------------------------------------------------------
(* The steps that move buffers.                                            *)

\* device_run begins; decoder_abort marks the context stopped, wherever it is called.
LEMMA MarkSteps ==
  ASSUME IInv, \/ DeviceRun \/ NoDestination \/ ConfigureFails
               \/ Timeout \/ PictureBufferFull \/ UnknownStatus
  PROVE  IInv'
<1>1. /\ UNCHANGED <<vb, rdy, stream, aborted, dropped, srcBuf, dstBuf, flushAll,
                     completion, notify, asks, status, allocated, overrun>>
      /\ UNCHANGED dpbVars
  BY DEF DeviceRun, NoDestination, ConfigureFails, Timeout, PictureBufferFull, UnknownStatus, hwVars
<1>2. \/ DeviceRun
      \/ /\ pc \in {"destination", "configure", "wait"} /\ allocated
         /\ job' = job /\ \E continue \in BOOLEAN : Abort(continue)
  BY DEF DeviceRun, NoDestination, ConfigureFails, Timeout, PictureBufferFull, UnknownStatus, Woken
<1>3. DpbTypeOK' /\ RefsInUse' /\ InUse' = InUse /\ (Conserved => Conserved')
  BY <1>1, DataKept
<1>4. TypeOK'
  <2>1. /\ job' \in {"none", "running"} /\ hasStopped' \in BOOLEAN /\ isDraining' \in BOOLEAN
        /\ pc' \in Pc /\ hw' \in {"off", "running", "halted"} /\ resume' \in BOOLEAN
    BY <1>2 DEF IInv, TypeOK, M2mTypeOK, Pc, Abort, MarkStopped, DeviceRun, drainVars, hwVars
  <2>2. M2mTypeOK'
    BY <1>1, <2>1 DEF IInv, TypeOK, M2mTypeOK
  <2>3. QED
    BY <1>1, <1>3, <2>1, <2>2 DEF IInv, TypeOK
<1>5. ASSUME ~overrun' PROVE SafeInv'
  <2>1. SafeInv
    BY <1>1, <1>5 DEF IInv
  <2>2. JobInv' /\ StreamInv'
    <3>1. CASE DeviceRun
      BY <1>1, <1>3, <2>1, <3>1 DEF SafeInv, JobInv, StreamInv, DeviceRun, JobReady, Queue
    <3>2. CASE /\ pc \in {"destination", "configure", "wait"} /\ allocated
               /\ job' = job /\ \E continue \in BOOLEAN : Abort(continue)
      BY <1>1, <1>3, <2>1, <3>2 DEF SafeInv, JobInv, StreamInv, Abort
    <3>3. QED
      BY <1>2, <3>1, <3>2
  <2>3. QED
    BY <1>3, <2>1, <2>2 DEF SafeInv
<1>6. QED
  BY <1>3, <1>4, <1>5 DEF IInv

\* decoder_start: a buffer goes from a ready queue to the task, or there is none.
LEMMA TakeSteps ==
  ASSUME IInv, TakeSource \/ TakeDestination
  PROVE  IInv'
<1> USE BufAssumption
<1>1. /\ UNCHANGED <<vb, stream, job, aborted, dropped, flushAll, completion, notify, asks,
                     status, allocated, overrun>>
      /\ UNCHANGED dpbVars
      /\ pc \in {"source", "destination"} /\ allocated
  BY DEF TakeSource, TakeDestination, hwVars
<1>2. DpbTypeOK' /\ RefsInUse' /\ InUse' = InUse /\ Held' = Held
      /\ (BuffersDistinct => BuffersDistinct')
  BY <1>1, SameDpbFacts DEF IInv, TypeOK
<1>3. QueuesTyped(rdy) /\ "src" \in Queue /\ "dst" \in Queue
      /\ BufOf("src") = SrcBuf /\ BufOf("dst") = DstBuf
  BY ViewFacts DEF IInv, Queue, BufOf
\* one buffer is taken, or none
<1>4. \/ /\ UNCHANGED <<rdy, dstBuf>> /\ srcBuf' \in {srcBuf, NoBuf}
         /\ pc = "destination" => srcBuf' = srcBuf
      \/ /\ rdy["src"] # << >> /\ rdy' = [rdy EXCEPT !["src"] = Tail(@)]
         /\ srcBuf' = Head(rdy["src"]) /\ dstBuf' = dstBuf
         /\ pc = "source" /\ pc' = "destination"
      \/ /\ rdy["dst"] # << >> /\ rdy' = [rdy EXCEPT !["dst"] = Tail(@)]
         /\ dstBuf' = Head(rdy["dst"]) /\ srcBuf' = srcBuf /\ dstBuf = NoBuf
         /\ pc = "destination" /\ pc' = "configure"
  BY DEF TakeSource, TakeDestination, Removed, AfterRemove, Ready
<1>5. \A q \in Queue : rdy[q] # << >> =>
        /\ QueuesTyped([rdy EXCEPT ![q] = Tail(@)]) /\ Head(rdy[q]) \in BufOf(q)
  BY <1>3, TypedFacts
<1>6. /\ QueuesTyped(rdy') /\ srcBuf' \in SrcBuf \cup {NoBuf}
      /\ dstBuf' \in DstBuf \cup {NoBuf}
  BY <1>3, <1>4, <1>5 DEF IInv, TypeOK
<1>7. TypeOK'
  <2>1. /\ hasStopped' \in BOOLEAN /\ isDraining' \in BOOLEAN /\ pc' \in Pc
        /\ hw' \in {"off", "running", "halted"} /\ resume' \in BOOLEAN
    BY DEF TakeSource, TakeDestination, Abort, MarkStopped, IInv, TypeOK, M2mTypeOK, Pc,
           drainVars, hwVars
  <2>2. M2mTypeOK'
    BY <1>1, <1>6, <2>1, NextViewFacts DEF IInv, TypeOK, M2mTypeOK
  <2>3. QED
    BY <1>1, <1>2, <1>6, <2>1, <2>2 DEF IInv, TypeOK
<1>8. ASSUME ~overrun' PROVE SafeInv'
  <2>1. SafeInv /\ QueuesOK(rdy) /\ Queued(rdy) = InReady
    BY <1>1, <1>8, ViewFacts DEF IInv, SafeInv
  <2>2. \A q \in Queue : rdy[q] # << >> =>
          LET r == [rdy EXCEPT ![q] = Tail(@)]
          IN  /\ QueuesOK(r) /\ Queued(r) = InReady \ {Head(rdy[q])}
              /\ Head(rdy[q]) \in InReady
    BY <2>1, TakeFacts
  <2>3. /\ srcBuf = NoBuf \/ pc = "destination"
        /\ job = "running"
    BY <1>1, <2>1 DEF SafeInv, JobInv
  <2>4. JobInv'
    <3>1. CASE TakeSource
      <4>1. srcBuf' # NoBuf \/ pc' = "abort"
        BY <1>3, <1>5, <3>1 DEF TakeSource, Ready, Removed, Abort, BufAssumption
      <4>2. pc' \in {"destination", "abort"}
        BY <3>1 DEF TakeSource, Abort
      <4>3. QED
        BY <1>1, <1>2, <2>1, <4>1, <4>2 DEF SafeInv, JobInv
    <3>2. CASE TakeDestination
      <4>1. dstBuf' # NoBuf /\ srcBuf' = srcBuf /\ pc = "destination" /\ pc' = "configure"
        BY <1>3, <1>5, <3>2 DEF TakeDestination, Ready, Removed, BufAssumption
      <4>2. QED
        BY <1>1, <1>2, <2>1, <4>1 DEF SafeInv, JobInv
    <3>3. QED
      BY <3>1, <3>2
  <2>5. StreamInv'
    BY <1>1, <1>2, <2>1, <2>3 DEF SafeInv, StreamInv, Queue
  <2>6. QueuesOK(rdy') /\ InReady' = InReady \ (InTask' \ InTask) /\ InTask \subseteq InTask'
        /\ InTask' \ InTask \subseteq InReady
    <3>1. InReady \cap InTask = {}
      BY <2>1 DEF SafeInv, Conserved, Places
    <3>2. CASE UNCHANGED <<rdy, dstBuf>> /\ srcBuf' \in {srcBuf, NoBuf}
               /\ (pc = "destination" => srcBuf' = srcBuf)
      <4>1. InTask' = InTask
        BY <2>3, <3>2 DEF InTask
      <4>2. QED
        BY <2>1, <3>2, <4>1, NextViewFacts
    <3>3. CASE /\ rdy["src"] # << >> /\ rdy' = [rdy EXCEPT !["src"] = Tail(@)]
               /\ srcBuf' = Head(rdy["src"]) /\ dstBuf' = dstBuf
               /\ pc = "source" /\ pc' = "destination"
      <4>1. Head(rdy["src"]) # NoBuf
        BY <1>3, <1>5, <3>3 DEF BufAssumption
      <4>2. InTask' = InTask \cup {Head(rdy["src"])}
        BY <2>3, <3>3, <4>1 DEF InTask
      <4>3. /\ QueuesOK(rdy') /\ Queued(rdy') = InReady \ {Head(rdy["src"])}
            /\ Head(rdy["src"]) \in InReady
        BY <1>3, <2>2, <3>3
      <4>4. QED
        BY <3>1, <4>2, <4>3, NextViewFacts
    <3>4. CASE /\ rdy["dst"] # << >> /\ rdy' = [rdy EXCEPT !["dst"] = Tail(@)]
               /\ dstBuf' = Head(rdy["dst"]) /\ srcBuf' = srcBuf /\ dstBuf = NoBuf
      <4>1. Head(rdy["dst"]) # NoBuf
        BY <1>3, <1>5, <3>4 DEF BufAssumption
      <4>2. InTask' = InTask \cup {Head(rdy["dst"])}
        BY <3>4, <4>1 DEF InTask
      <4>3. /\ QueuesOK(rdy') /\ Queued(rdy') = InReady \ {Head(rdy["dst"])}
            /\ Head(rdy["dst"]) \in InReady
        BY <1>3, <2>2, <3>4
      <4>4. QED
        BY <3>1, <4>2, <4>3, NextViewFacts
    <3>5. QED
      BY <1>4, <3>2, <3>3, <3>4
  <2>7. Active' = Active
    BY <1>1 DEF Active
  <2>8. Conserved'
    BY <1>1, <1>2, <2>1, <2>6, <2>7, NextViewFacts DEF SafeInv, Conserved, Places
  <2>9. QED
    BY <2>4, <2>5, <2>8 DEF SafeInv
<1>9. QED
  BY <1>2, <1>7, <1>8 DEF IInv

\* ... and gives the buffers of the task back to vb2.
LEMMA AbortStep ==
  ASSUME IInv, AbortReturns
  PROVE  IInv'
<1> USE BufAssumption
<1>1. /\ pc = "abort" /\ allocated /\ pc' = "flush" /\ srcBuf' = NoBuf /\ dstBuf' = NoBuf
      /\ UNCHANGED <<rdy, stream, job, hasStopped, isDraining, aborted, dropped, resume,
                     hwVars, allocated, overrun>>
      /\ UNCHANGED dpbVars /\ flushAll' = TRUE
  BY DEF AbortReturns, drainVars
<1>2. DpbTypeOK' /\ RefsInUse' /\ InUse' = InUse /\ Held' = Held
      /\ (BuffersDistinct => BuffersDistinct')
  BY <1>1, SameDpbFacts DEF IInv, TypeOK
<1> DEFINE f == BufDone(vb, srcBuf, "error")
<1>3. /\ f \in [Buf -> VbState] /\ ActiveIn(f) = Active \ {srcBuf}
      /\ vb' \in [Buf -> VbState] /\ Active' = (Active \ {srcBuf}) \ {dstBuf}
  <2>1. srcBuf \in Buf \cup {NoBuf} /\ dstBuf \in Buf \cup {NoBuf} /\ "error" \in VbState
    BY DEF IInv, TypeOK, Buf, VbState
  <2>2. f \in [Buf -> VbState] /\ ActiveIn(f) = Active \ {srcBuf}
    <3>1. vb \in [Buf -> VbState] /\ ActiveIn(vb) = Active
      BY ViewFacts DEF IInv
    <3>2. QED
      BY <2>1, <3>1, BufDoneFacts
  <2>3. vb' = BufDone(f, dstBuf, "error")
    BY DEF AbortReturns
  <2>4. QED
    BY <2>1, <2>2, <2>3, BufDoneFacts, NextViewFacts
<1>4. TypeOK'
  <2>1. M2mTypeOK'
    BY <1>1, <1>3 DEF IInv, TypeOK, M2mTypeOK
  <2>2. QED
    BY <1>1, <1>2, <2>1 DEF IInv, TypeOK, Pc, hwVars
<1>5. ASSUME ~overrun' PROVE SafeInv'
  <2>1. SafeInv
    BY <1>1, <1>5 DEF IInv
  <2>2. JobInv' /\ StreamInv'
    BY <1>1, <1>2, <2>1 DEF SafeInv, JobInv, StreamInv
  <2>3. InTask' = {} /\ InReady' = InReady
    BY <1>1 DEF InTask, InReady
  <2>4. Active' = Active \ InTask
    <3>1. NoBuf \notin Active
      BY DEF Active, BufAssumption, Buf
    <3>2. QED
      BY <1>3, <3>1 DEF InTask
  <2>5. Conserved'
    BY <1>1, <1>2, <2>1, <2>3, <2>4 DEF SafeInv, Conserved, Places
  <2>6. QED
    BY <2>2, <2>5 DEF SafeInv
<1>6. QED
  BY <1>2, <1>4, <1>5 DEF IInv

\* decoder_done up to its flush, without and with a picture: the source buffer
\* goes back to vb2 and the destination buffer into the picture buffer.
LEMMA DoneSteps ==
  ASSUME IInv, NoPicture \/ PictureDone
  PROVE  IInv'
<1> USE BufAssumption
<1>1. /\ FinishPicture
      /\ pc = "wait" /\ allocated
  BY DEF NoPicture, PictureDone, Woken
<1>2. UNCHANGED <<rdy, stream, job, drainVars, aborted, dropped, resume, completion,
                  notify, asks, status, allocated, overrun>>
  BY <1>1 DEF FinishPicture
<1>3. \/ UNCHANGED dpbVars /\ dstBuf' = dstBuf
      \/ /\ dstBuf' = NoBuf
         /\ \E type \in PicType, poc \in Poc : StorePic(dstBuf, type # "B", type = "I", poc)
  BY DEF NoPicture, PictureDone
<1>4. /\ DpbTypeOK' /\ RefsInUse'
      /\ \/ Held' = Held /\ dstBuf' = dstBuf
         \/ Held' = Held \cup {dstBuf} /\ dstBuf' = NoBuf
      /\ BuffersDistinct /\ dstBuf \notin Held => BuffersDistinct'
  <2>1. CASE UNCHANGED dpbVars /\ dstBuf' = dstBuf
    BY <2>1, SameDpbFacts DEF IInv, TypeOK
  <2>2. CASE /\ dstBuf' = NoBuf
             /\ \E type \in PicType, poc \in Poc : StorePic(dstBuf, type # "B", type = "I", poc)
    <3>1. PICK isRef \in BOOLEAN, new \in BOOLEAN, poc \in 0 .. (PocMod - 1) :
                 StorePic(dstBuf, isRef, new, poc)
      BY <2>2, MpegAssumption DEF MpegAssumption
    <3>2. dstBuf \in Frame \cup {NoFrame}
      BY MpegAssumption DEF MpegAssumption, IInv, TypeOK
    <3>3. PICK b \in Frame \cup {NoFrame} : b = dstBuf
      BY <3>2
    <3>4. StorePic(b, isRef, new, poc)
      BY <3>1, <3>3
    <3>5. /\ DpbTypeOK' /\ RefsInUse'
          /\ Held' = Held \cup {b}
          /\ BuffersDistinct /\ b \notin Held => BuffersDistinct'
      BY <3>4, StorePicFacts, DpbAssumption DEF IInv, TypeOK
    <3>6. QED
      BY <2>2, <3>3, <3>5
  <2>3. QED
    BY <1>3, <2>1, <2>2
<1>5. vb' \in [Buf -> VbState] /\ Active' = Active \ {srcBuf}
  <2>1. srcBuf \in Buf \cup {NoBuf} /\ "done" \in VbState /\ vb' = BufDone(vb, srcBuf, "done")
    BY <1>1 DEF IInv, TypeOK, Buf, VbState, FinishPicture
  <2>2. QED
    BY <2>1, ViewFacts, BufDoneFacts, NextViewFacts DEF IInv
<1>6. TypeOK'
  <2>1. M2mTypeOK'
    BY <1>2, <1>5 DEF IInv, TypeOK, M2mTypeOK, drainVars
  <2>2. QED
    BY <1>1, <1>2, <1>4, <2>1 DEF IInv, TypeOK, FinishPicture, Pc
<1>7. ASSUME ~overrun' PROVE SafeInv'
  <2>1. SafeInv /\ srcBuf # NoBuf /\ dstBuf # NoBuf
    BY <1>1, <1>2, <1>7 DEF IInv, SafeInv, JobInv
  <2>2. JobInv'
    BY <1>1, <1>2, <2>1 DEF SafeInv, JobInv, FinishPicture
  <2>3. StreamInv'
    BY <1>1, <1>2, <2>1 DEF SafeInv, StreamInv, JobInv, Queue, FinishPicture, IInv, TypeOK, M2mTypeOK
  <2>4. InReady' = InReady /\ srcBuf \in InTask /\ dstBuf \in InTask /\ srcBuf # dstBuf
    BY <1>2, <2>1 DEF InReady, InTask, IInv, TypeOK, BufAssumption
  <2>5. InTask' = InTask \ ({srcBuf} \cup (Held' \ Held)) /\ Held' \ Held \subseteq InTask
    <3>1. srcBuf' = NoBuf
      BY <1>1 DEF FinishPicture
    <3>2. dstBuf \notin Held
      BY <2>1, <2>4 DEF SafeInv, Conserved, Places
    <3>3. QED
      BY <1>4, <2>1, <2>4, <3>1, <3>2 DEF InTask
  <2>6. Held \subseteq Held' /\ srcBuf \notin Held'
    BY <1>4, <2>1, <2>4 DEF SafeInv, Conserved, Places
  <2>7. BuffersDistinct'
    BY <1>4, <2>1, <2>4 DEF SafeInv, Conserved, Places
  <2>8. Places(Active, InReady, InTask, Held, dropped) /\ dropped' = dropped
    BY <1>2, <2>1 DEF SafeInv, Conserved
  <2>9. Places(Active, InReady, InTask, Held, dropped)'
    BY <1>5, <2>4, <2>5, <2>6, <2>8 DEF Places
  <2>10. Conserved'
    BY <1>2, <2>1, <2>7, <2>9 DEF SafeInv, Conserved
  <2>11. QED
    BY <2>2, <2>3, <2>10 DEF SafeInv
<1>8. QED
  BY <1>4, <1>6, <1>7 DEF IInv

\* One iteration of vdec_mpeg_flush_dpb, in a job or in STREAMOFF: one buffer
\* goes from the picture buffer to vb2.
LEMMA OutputSteps ==
  ASSUME IInv, FlushStep \/ StopFlushStep
  PROVE  IInv'
<1> USE BufAssumption, DpbAssumption
<1>1. PICK all \in BOOLEAN : OutputPicture(all)
  BY DEF FlushStep, StopFlushStep, IInv, TypeOK
<1>2. PICK n \in InUse : n = NextOutput(all)
  BY <1>1, NextOutputFacts DEF OutputPicture
<1>3. UNCHANGED <<rdy, stream, job, drainVars, aborted, dropped, srcBuf, dstBuf, flushAll,
                  resume, hwVars, allocated, overrun>>
  BY DEF FlushStep, StopFlushStep, jobVars
<1>4. PICK b \in Frame \cup {NoFrame}, state \in {"done", "error"} :
        /\ b = pics[n].buffer
        /\ vb' = BufDone(vb, b, state)
        /\ RecyclePic(n)
  BY <1>1, <1>2 DEF OutputPicture, IInv, TypeOK, DpbTypeOK, InUse
<1>5. /\ DpbTypeOK' /\ RefsInUse'
      /\ BuffersDistinct => BuffersDistinct' /\ Held' = Held \ {b}
      /\ b \in Held
      /\ InUse = {} => InUse' = {}
  BY <1>4, RecyclePicFacts DEF IInv, TypeOK
<1>6. b \in Buf \cup {NoBuf}
  BY MpegAssumption DEF MpegAssumption, Buf
<1>7. vb' \in [Buf -> VbState] /\ Active' = Active \ {b}
  <2>1. vb \in [Buf -> VbState] /\ ActiveIn(vb) = Active /\ state \in VbState
    BY ViewFacts DEF IInv, VbState
  <2>2. QED
    BY <1>4, <1>6, <2>1, BufDoneFacts, NextViewFacts
<1>8. TypeOK'
  <2>1. M2mTypeOK'
    BY <1>3, <1>7 DEF IInv, TypeOK, M2mTypeOK, drainVars
  <2>2. pc' \in Pc
    BY DEF FlushStep, StopFlushStep, Pc, IInv, TypeOK, jobVars
  <2>3. QED
    BY <1>3, <1>5, <2>1, <2>2 DEF IInv, TypeOK, hwVars
<1>9. ASSUME ~overrun' PROVE SafeInv'
  <2>1. SafeInv
    BY <1>3, <1>9 DEF IInv
  <2>2. b \in Active /\ b # NoBuf
    BY <1>5, <2>1 DEF SafeInv, Conserved, Places, Active, BufAssumption, Buf
  <2>3. pc' = pc
    <3>1. CASE FlushStep
      <4>1. pics[NextOutput(flushAll)].buffer # NoBuf
        <5>1. NextOutput(flushAll) \in InUse
          BY <3>1, NextOutputFacts DEF FlushStep, OutputPicture, IInv, TypeOK
        <5>2. pics[NextOutput(flushAll)].buffer \in Active
          BY <2>1, <5>1 DEF SafeInv, Conserved, Places, Held
        <5>3. QED
          BY <5>2 DEF Active, BufAssumption, Buf
      <4>2. QED
        BY <3>1, <4>1 DEF FlushStep
    <3>2. CASE StopFlushStep
      BY <3>2 DEF StopFlushStep, jobVars
    <3>3. QED
      BY <3>1, <3>2
  <2>4. JobInv' /\ StreamInv'
    BY <1>3, <1>5, <2>1, <2>3 DEF SafeInv, JobInv, StreamInv
  <2>5. InReady' = InReady /\ InTask' = InTask
    BY <1>3 DEF InReady, InTask
  <2>6. Conserved'
    BY <1>3, <1>5, <1>7, <2>1, <2>5 DEF SafeInv, Conserved, Places
  <2>7. QED
    BY <2>4, <2>6 DEF SafeInv
<1>10. QED
  BY <1>5, <1>8, <1>9 DEF IInv

\* QBUF: one buffer of userspace becomes the driver's, queued or dropped.
LEMMA QBufStep ==
  ASSUME IInv, NEW b \in Buf, UserQBuf(b)
  PROVE  IInv'
<1> USE BufAssumption
<1>1. /\ QBuf(b) /\ UNCHANGED <<jobVars, hwVars, allocated, overrun>>
      /\ UNCHANGED <<stream, job, drainVars, aborted>> /\ UNCHANGED dpbVars
  BY DEF UserQBuf, QBuf
<1>2. DpbTypeOK' /\ RefsInUse' /\ InUse' = InUse /\ Held' = Held
      /\ (BuffersDistinct => BuffersDistinct')
  BY <1>1, SameDpbFacts DEF IInv, TypeOK
<1>3. vb' \in [Buf -> VbState] /\ Active' = Active \cup {b} /\ b \notin Active
  BY <1>1, ViewFacts DEF QBuf, Active, VbState, IInv
<1>4. \/ rdy' = rdy /\ dropped' = dropped \cup {b}
      \/ rdy' = [rdy EXCEPT ![QueueOf(b)] = Append(@, b)] /\ dropped' = dropped
  BY <1>1 DEF QBuf
<1>5. QueuesTyped(rdy')
  <2>1. QueuesTyped(rdy) /\ QueueOf(b) \in Queue /\ b \in BufOf(QueueOf(b))
    BY ViewFacts, BufOfFacts DEF IInv
  <2>2. QueuesTyped([rdy EXCEPT ![QueueOf(b)] = Append(@, b)])
    BY <2>1, TypedFacts
  <2>3. QED
    BY <1>4, <2>1, <2>2
<1>6. TypeOK'
  <2>1. M2mTypeOK'
    <3>1. dropped' \subseteq Buf
      BY <1>4 DEF IInv, TypeOK, M2mTypeOK
    <3>2. QED
      BY <1>1, <1>3, <1>5, <3>1, NextViewFacts DEF IInv, TypeOK, M2mTypeOK, drainVars
  <2>2. QED
    BY <1>1, <1>2, <2>1 DEF IInv, TypeOK, jobVars, hwVars
<1>7. ASSUME ~overrun' PROVE SafeInv'
  <2>1. SafeInv
    BY <1>1, <1>7 DEF IInv
  <2>2. JobInv' /\ StreamInv'
    BY <1>1, <1>2, <2>1 DEF SafeInv, JobInv, StreamInv, jobVars
  <2>3. /\ b \notin InReady /\ InTask' = InTask
        /\ Places(Active, InReady, InTask, Held, dropped)
    BY <1>1, <1>3, <2>1 DEF SafeInv, Conserved, Places, InTask, jobVars
  <2>4. /\ QueuesOK(rdy')
        /\ InReady' \cup dropped' = InReady \cup dropped \cup {b}
        /\ InReady' \cap dropped' = {}
        /\ InReady \subseteq InReady'
    <3>1. QueuesOK(rdy) /\ Queued(rdy) = InReady
      BY <2>1, ViewFacts DEF IInv, SafeInv
    <3>2. /\ QueuesOK([rdy EXCEPT ![QueueOf(b)] = Append(@, b)])
          /\ Queued([rdy EXCEPT ![QueueOf(b)] = Append(@, b)]) = InReady \cup {b}
      BY <2>3, <3>1, PutFacts
    <3>3. b \notin dropped
      BY <1>3, <2>3 DEF Places
    <3>4. QED
      BY <1>4, <2>3, <3>1, <3>2, <3>3, NextViewFacts DEF Places
  <2>5. Places(Active, InReady, InTask, Held, dropped)'
    BY <1>2, <1>3, <2>3, <2>4 DEF Places
  <2>6. Conserved'
    BY <1>2, <2>1, <2>4, <2>5, NextViewFacts DEF SafeInv, Conserved
  <2>7. QED
    BY <2>2, <2>6 DEF SafeInv
<1>8. QED
  BY <1>2, <1>6, <1>7 DEF IInv

\* DECODER_CMD STOP: at most one ready CAPTURE buffer goes back to vb2.
LEMMA CmdStopStep ==
  ASSUME IInv, CmdStop, UNCHANGED <<dpbVars, jobVars, hwVars, allocated, overrun>>
  PROVE  IInv'
<1> USE BufAssumption
<1>1. DpbTypeOK' /\ RefsInUse' /\ InUse' = InUse /\ Held' = Held
      /\ (BuffersDistinct => BuffersDistinct')
  BY SameDpbFacts DEF IInv, TypeOK
<1>2. UNCHANGED <<stream, job, aborted, dropped>>
  BY DEF CmdStop
<1>3. QueuesTyped(rdy) /\ vb \in [Buf -> VbState] /\ ActiveIn(vb) = Active /\ "dst" \in Queue
  BY ViewFacts DEF IInv, Queue
<1>4. \/ UNCHANGED <<vb, rdy>>
      \/ /\ rdy["dst"] # << >>
         /\ vb' = BufDone(vb, Head(rdy["dst"]), "done")
         /\ rdy' = [rdy EXCEPT !["dst"] = Tail(@)]
  BY DEF CmdStop, Removed, AfterRemove, Ready, BufDone
<1>5. TypeOK'
  <2>1. QueuesTyped(rdy') /\ vb' \in [Buf -> VbState]
    <3>1. CASE UNCHANGED <<vb, rdy>>
      BY <1>3, <3>1
    <3>2. CASE /\ rdy["dst"] # << >>
               /\ vb' = BufDone(vb, Head(rdy["dst"]), "done")
               /\ rdy' = [rdy EXCEPT !["dst"] = Tail(@)]
      <4>1. QueuesTyped(rdy') /\ Head(rdy["dst"]) \in BufOf("dst")
        BY <1>3, <3>2, TypedFacts
      <4>2. Head(rdy["dst"]) \in Buf /\ "done" \in VbState
        BY <4>1 DEF BufOf, Buf, VbState
      <4>3. QED
        BY <1>3, <3>2, <4>1, <4>2, BufDoneFacts
    <3>3. QED
      BY <1>4, <3>1, <3>2
  <2>2. hasStopped' \in BOOLEAN /\ isDraining' \in BOOLEAN
    BY DEF CmdStop, Ready, IInv, TypeOK, M2mTypeOK
  <2>3. M2mTypeOK'
    BY <1>2, <2>1, <2>2, NextViewFacts DEF IInv, TypeOK, M2mTypeOK
  <2>4. QED
    BY <1>1, <2>3 DEF IInv, TypeOK, jobVars, hwVars
<1>6. ASSUME ~overrun' PROVE SafeInv'
  <2>1. SafeInv
    BY <1>6 DEF IInv
  <2>2. JobInv' /\ StreamInv'
    BY <1>1, <1>2, <2>1 DEF SafeInv, JobInv, StreamInv, jobVars
  <2>3. QueuesOK(rdy) /\ Queued(rdy) = InReady
    BY <2>1, ViewFacts DEF IInv, SafeInv
  <2>4. QueuesOK(rdy') /\ \E b : (b \in InReady \/ b = NoBuf) /\ InReady' = InReady \ {b}
                                 /\ Active' = Active \ {b}
    <3>1. CASE UNCHANGED <<vb, rdy>>
      <4>1. NoBuf \notin Active /\ NoBuf \notin InReady
        BY <2>3, QueuedFacts DEF Active, Buf, BufAssumption
      <4>2. InReady' = InReady /\ Active' = Active
        BY <3>1 DEF InReady, Active
      <4>3. QED
        BY <2>3, <3>1, <4>1, <4>2
    <3>2. CASE /\ rdy["dst"] # << >>
               /\ vb' = BufDone(vb, Head(rdy["dst"]), "done")
               /\ rdy' = [rdy EXCEPT !["dst"] = Tail(@)]
      <4>1. /\ QueuesOK(rdy') /\ InReady' = InReady \ {Head(rdy["dst"])}
            /\ Head(rdy["dst"]) \in InReady
        BY <1>3, <2>3, <3>2, TakeFacts, NextViewFacts
      <4>2. Head(rdy["dst"]) \in Buf /\ "done" \in VbState
        BY <2>3, <4>1, QueuedFacts DEF VbState
      <4>3. Active' = Active \ {Head(rdy["dst"])}
        BY <1>3, <3>2, <4>2, BufDoneFacts, NextViewFacts
      <4>4. QED
        BY <4>1, <4>3
    <3>3. QED
      BY <1>4, <3>1, <3>2
  <2>5. InTask' = InTask
    BY DEF InTask, jobVars
  <2>6. NoBuf \notin InTask /\ NoBuf \notin Held /\ NoBuf \notin dropped
    BY <2>1 DEF SafeInv, Conserved, Places, Active, Buf, BufAssumption
  <2>7. Conserved'
    BY <1>1, <1>2, <2>1, <2>4, <2>5, <2>6, NextViewFacts DEF SafeInv, Conserved, Places
  <2>8. QED
    BY <2>2, <2>7 DEF SafeInv
<1>7. QED
  BY <1>1, <1>5, <1>6 DEF IInv

\* STREAMON: the first queue prepares the codec, with an empty picture buffer;
\* the second finds it so.
LEMMA StreamOnStep ==
  ASSUME IInv, NEW q \in Queue, StreamOn(q)
  PROVE  IInv'
<1>1. /\ UNCHANGED <<vb, rdy, job, hasStopped, isDraining, aborted, dropped,
                     jobVars, hwVars, overrun>>
      /\ allocated' = TRUE /\ stream' = [stream EXCEPT ![q] = "on"]
      /\ stream[q] = "idle" /\ stream[Other(q)] \in {"idle", "on", "off"}
      /\ stream[Other(q)] # "on" => DpbReset
      /\ stream[Other(q)] = "on" => UNCHANGED dpbVars
  BY DEF StreamOn, StreamOnQueue, drainVars, LockFree, Queue, Other, IInv, TypeOK, M2mTypeOK
<1>2. DpbTypeOK' /\ RefsInUse' /\ (InUse = {} => InUse' = {})
  BY <1>1, SameDpbFacts, ResetFacts, DpbAssumption DEF IInv, TypeOK
<1>3. TypeOK'
  <2>1. M2mTypeOK'
    BY <1>1 DEF IInv, TypeOK, M2mTypeOK
  <2>2. QED
    BY <1>1, <1>2, <2>1 DEF IInv, TypeOK, jobVars, hwVars
<1>4. ASSUME ~overrun' PROVE SafeInv'
  <2>1. SafeInv
    BY <1>1, <1>4 DEF IInv
  <2>2. StreamInv'
    BY <1>1, <1>2, <2>1 DEF SafeInv, StreamInv, jobVars, IInv, TypeOK, M2mTypeOK, Queue
  <2>3. JobInv'
    BY <1>1, <1>2, <2>1 DEF SafeInv, JobInv, jobVars
  <2>4. Conserved'
    <3>1. CASE stream[Other(q)] = "on"
      BY <1>1, <2>1, <3>1, NoMoveFacts DEF SafeInv, jobVars
    <3>2. CASE stream[Other(q)] # "on"
      <4>1. Held = {}
        <5>1. stream["dst"] \in {"idle", "off"}
          BY <1>1, <3>2 DEF Other, Queue
        <5>2. QED
          BY <2>1, <5>1 DEF SafeInv, StreamInv, Held
      <4>2. Held' = {} /\ InUse' = {}
        BY <1>1, <3>2, ResetFacts, DpbAssumption
      <4>3. BuffersDistinct'
        BY <4>2 DEF BuffersDistinct
      <4>4. Active' = Active /\ InReady' = InReady /\ InTask' = InTask
        BY <1>1 DEF Active, InReady, InTask, jobVars
      <4>5. QED
        BY <1>1, <2>1, <4>1, <4>2, <4>3, <4>4 DEF SafeInv, Conserved
    <3>3. QED
      BY <3>1, <3>2
  <2>5. QED
    BY <2>2, <2>3, <2>4 DEF SafeInv
<1>5. QED
  BY <1>2, <1>3, <1>4 DEF IInv

\* The end of STREAMOFF: vb2 gets every buffer of the queue back, and with a
\* drain pending one ready CAPTURE buffer.
LEMMA StopStep ==
  ASSUME IInv, NEW q \in Queue, StopStreaming(q)
  PROVE  IInv'
<1> USE BufAssumption
<1> DEFINE taken == IF StopTakesDst(q) THEN Removed("dst") ELSE NoBuf
           r1    == [rdy EXCEPT ![q] = << >>]
           r2    == [r1 EXCEPT !["dst"] = Tail(@)]
<1>1. /\ stream[q] = "cancel" /\ job = "none"
      /\ q = "dst" => Outputs(TRUE) = {}
      /\ vb' = [b \in Buf |-> IF b = taken THEN "done"
                              ELSE IF QueueOf(b) = q /\ vb[b] = "active" THEN "error"
                              ELSE vb[b]]
      /\ rdy' = [r \in Queue |-> IF r = q THEN << >>
                                 ELSE IF taken # NoBuf THEN Tail(rdy[r]) ELSE rdy[r]]
      /\ dropped' = {b \in dropped : QueueOf(b) # q}
      /\ stream' = [stream EXCEPT ![q] = "off"]
      /\ UNCHANGED <<job, aborted, pc, srcBuf, flushAll, resume, hwVars>>
      /\ UNCHANGED dpbVars
      /\ allocated' = (allocated /\ stream[Other(q)] # "off")
      /\ overrun' = (overrun \/ (stream[Other(q)] = "off" /\ pc # "idle"))
      /\ dstBuf' = IF q = "dst" THEN NoBuf ELSE dstBuf
  BY DEF StopStreaming, StopFlushed
<1>2. DpbTypeOK' /\ RefsInUse' /\ InUse' = InUse /\ Held' = Held
      /\ (BuffersDistinct => BuffersDistinct')
  BY <1>1, SameDpbFacts DEF IInv, TypeOK
<1>3. QueuesTyped(rdy)
  BY ViewFacts DEF IInv
<1>4. QueuesTyped(r1) /\ r1[q] = << >> /\ \A r \in Queue : r # q => r1[r] = rdy[r]
  <2>1. QueuesTyped(r1)
    BY <1>3, TypedFacts
  <2>2. QED
    BY <1>3, <2>1 DEF QueuesTyped
<1>5. /\ taken # NoBuf => /\ q = "src" /\ rdy["dst"] # << >> /\ r1["dst"] # << >>
                          /\ taken = Head(r1["dst"]) /\ rdy' = r2
      /\ taken = NoBuf => rdy' = r1
  <2>1. taken # NoBuf => q = "src" /\ rdy["dst"] # << >> /\ taken = Head(rdy["dst"])
    BY DEF StopTakesDst, Removed, Ready
  <2>2. r1 \in [Queue -> Seq(Buf)] /\ rdy \in [Queue -> Seq(Buf)]
    BY <1>3, <1>4 DEF QueuesTyped
  <2>3. taken = NoBuf => rdy' = r1
    BY <1>1, <2>2
  <2>4. taken # NoBuf => rdy' = r2
    BY <1>1, <2>1, <2>2 DEF Queue
  <2>5. q = "src" => r1["dst"] = rdy["dst"]
    BY <1>4 DEF Queue
  <2>6. QED
    BY <2>1, <2>3, <2>4, <2>5
<1>6. QueuesTyped(rdy') /\ taken \in Buf \cup {NoBuf}
  <2>1. CASE taken # NoBuf
    <3>1. QueuesTyped(r2) /\ Head(r1["dst"]) \in BufOf("dst")
      BY <1>4, <1>5, <2>1, TypedFacts DEF Queue
    <3>2. QED
      BY <1>5, <2>1, <3>1 DEF BufOf, Buf
  <2>2. CASE taken = NoBuf
    BY <1>4, <1>5, <2>2
  <2>3. QED
    BY <2>1, <2>2
<1>7. TypeOK'
  <2>1. vb' \in [Buf -> VbState]
    BY <1>1, ViewFacts DEF IInv, VbState
  <2>2. hasStopped' \in BOOLEAN /\ isDraining' \in BOOLEAN
    BY DEF StopStreaming, UpdateStopState, ClearState, drainVars, Ready, IInv, TypeOK, M2mTypeOK
  <2>3. M2mTypeOK'
    BY <1>1, <1>6, <2>1, <2>2, NextViewFacts DEF IInv, TypeOK, M2mTypeOK
  <2>4. QED
    BY <1>1, <1>2, <2>3 DEF IInv, TypeOK, hwVars
<1>8. ASSUME ~overrun' PROVE SafeInv'
  <2> DEFINE Of(S) == {b \in S : QueueOf(b) # q}
  <2>1. SafeInv /\ srcBuf = NoBuf /\ (stream[Other(q)] = "off" => pc = "idle")
    BY <1>1, <1>8 DEF IInv, SafeInv, JobInv, TypeOK, Pc
  <2>2. q = "dst" => InUse = {}
    BY <1>1, FlushAllEmpties DEF IInv, TypeOK
  <2>3. JobInv'
    BY <1>1, <1>2, <2>1, <2>2 DEF SafeInv, JobInv
  <2>4. StreamInv'
    BY <1>1, <1>2, <2>1, <2>2 DEF SafeInv, StreamInv, IInv, TypeOK, M2mTypeOK, Queue, Other
  <2>5. /\ QueuesOK(rdy') /\ InReady' = Of(InReady) \ {taken}
        /\ taken \in Of(InReady) \/ taken = NoBuf
    <3>1. QueuesOK(rdy) /\ Queued(rdy) = InReady
      BY <2>1, ViewFacts DEF IInv, SafeInv
    <3>2. QueuesOK(r1) /\ Queued(r1) = Of(InReady)
      BY <3>1, EmptyQueueFacts
    <3>3. CASE taken # NoBuf
      <4>1. /\ QueuesOK(r2) /\ Queued(r2) = Queued(r1) \ {taken}
            /\ taken \in Queued(r1)
        BY <1>5, <3>2, <3>3, TakeFacts DEF Queue
      <4>2. QED
        BY <1>5, <3>2, <3>3, <4>1, NextViewFacts
    <3>4. CASE taken = NoBuf
      <4>1. NoBuf \notin Queued(r1)
        BY <3>2, QueuedFacts DEF BufAssumption, Buf
      <4>2. QED
        BY <1>5, <3>2, <3>4, <4>1, NextViewFacts
    <3>5. QED
      BY <3>3, <3>4
  <2>6. Active' = Of(Active) \ {taken}
    BY <1>1, <2>1 DEF Active
  <2>7. InTask' = Of(InTask)
    BY <1>1, <2>1 DEF InTask, IInv, TypeOK, QueueOf, BufAssumption, Queue
  <2>8. Held' = Of(Held)
    <3>1. CASE q = "dst"
      BY <1>2, <2>2, <3>1 DEF Held
    <3>2. CASE q = "src"
      <4>1. Held \subseteq DstBuf
        <5>1. Held \subseteq DstBuf \cup {NoBuf}
          BY MpegAssumption DEF MpegAssumption, Held, InUse, IInv, TypeOK, DpbTypeOK
        <5>2. NoBuf \notin Held
          BY <2>1 DEF SafeInv, Conserved, Places, Active, Buf, BufAssumption
        <5>3. QED
          BY <5>1, <5>2
      <4>2. \A b \in DstBuf : QueueOf(b) # q
        BY <3>2 DEF QueueOf, BufAssumption
      <4>3. QED
        BY <1>2, <4>1, <4>2
    <3>3. QED
      BY <3>1, <3>2 DEF Queue
  <2>9. dropped' = Of(dropped)
    BY <1>1
  <2>10. NoBuf \notin InTask /\ NoBuf \notin Held /\ NoBuf \notin dropped
    BY <2>1 DEF SafeInv, Conserved, Places, Active, Buf, BufAssumption
  <2>11. Places(Active, InReady, InTask, Held, dropped)'
    BY <2>1, <2>5, <2>6, <2>7, <2>8, <2>9, <2>10 DEF SafeInv, Conserved, Places
  <2>12. Conserved'
    BY <1>2, <2>1, <2>5, <2>11, NextViewFacts DEF SafeInv, Conserved
  <2>13. QED
    BY <2>3, <2>4, <2>12 DEF SafeInv
<1>9. QED
  BY <1>2, <1>7, <1>8 DEF IInv

-----------------------------------------------------------------------------
\* Every step of the decoder keeps the invariant.
LEMMA StepInv == IInv /\ [Next]_vars => IInv'
<1> SUFFICES ASSUME IInv, [Next]_vars
             PROVE  IInv'
  OBVIOUS
<1>1. CASE Job
  BY <1>1, MarkSteps, TakeSteps, AbortStep, ThreadSteps, DoneSteps, OutputSteps, EndSteps DEF Job
<1>2. CASE Isr
  BY <1>2, IsrStep
<1>3. CASE Stop
  BY <1>3, OutputSteps, StopStep DEF Stop
<1>4. CASE Ioctl
  BY <1>4, QBufStep, StreamOnStep, CmdStopStep, ControlSteps DEF Ioctl, DecoderCmd
<1>5. CASE UNCHANGED vars
  <2>1. UNCHANGED <<m2mVars, jobVars, hwVars, allocated, overrun>> /\ UNCHANGED dpbVars
    BY <1>5 DEF vars
  <2>2. DpbTypeOK' /\ RefsInUse' /\ InUse' = InUse /\ (Conserved => Conserved')
    BY <2>1, DataKept DEF m2mVars, jobVars
  <2>3. M2mTypeOK'
    BY <2>1, SameM2mFacts DEF IInv, TypeOK
  <2>4. QED
    BY <2>1, <2>2, <2>3 DEF IInv, TypeOK, SafeInv, JobInv, StreamInv, m2mVars, jobVars, hwVars
<1>6. QED
  BY <1>1, <1>2, <1>3, <1>4, <1>5 DEF Next

\* The inductive invariant holds in every reachable state.
THEOREM Invariant == Spec => []IInv
<1>1. Init => IInv
  BY InitInv
<1>2. IInv /\ [Next]_vars => IInv'
  BY StepInv
<1>3. QED
  BY <1>1, <1>2, PTL DEF Spec

\* Type correctness, for every number of buffers and slots, overrun or not.
THEOREM TypeCorrect == Spec => []TypeOK
<1>1. IInv => TypeOK
  BY DEF IInv
<1>2. QED
  BY <1>1, Invariant, PTL

\* In every state the slots in state REF_IN_USE are the two reference pointers,
\* even after the thread has been overrun (amlvdec_mpeg_dpb.c:55-82).
THEOREM ReferencesSafe == Spec => []RefsInUse
<1>1. IInv => RefsInUse
  BY DEF IInv
<1>2. QED
  BY <1>1, Invariant, PTL

\* No buffer is lost, returned twice or in two places, as long as the job's
\* thread is not overrun (decoder_mpeg12.c, meson-vcodec.c).
THEOREM BuffersConserved == Spec => []BufferConservation
<1>1. IInv => BufferConservation
  BY DEF IInv, SafeInv, BufferConservation
<1>2. QED
  BY <1>1, Invariant, PTL

\* Until then no NULL or freed pointer is used either.
THEOREM NeverCrashes == Spec => []NoCrash
<1>1. IInv => NoCrash
  BY DEF IInv, SafeInv, JobInv, NoCrash, TypeOK
<1>2. QED
  BY <1>1, Invariant, PTL

\* A decoder_abort that is over has given everything back (decoder_mpeg12.c:725-749).
THEOREM AbortReturnsAll == Spec => []AbortGivesAllBack
<1>1. IInv => AbortGivesAllBack
  BY DEF IInv, SafeInv, JobInv, AbortGivesAllBack, InTask
<1>2. QED
  BY <1>1, Invariant, PTL

-----------------------------------------------------------------------------
\* Only a step of STREAMOFF turns a queue off.
LEMMA OffOnlyByStop ==
  ASSUME IInv, Next, NEW q \in Queue, stream[q] = "cancel", stream'[q] = "off"
  PROVE  StopStreaming(q)
<1>1. stream \in [Queue -> {"idle", "on", "cancel", "off"}]
  BY DEF IInv, TypeOK, M2mTypeOK
<1>2. ~Job
  <2>1. Job => stream' = stream
    BY DEF Job, DeviceRun, TakeSource, TakeDestination, NoDestination, AbortReturns,
           Configure, ConfigureFails, ReinitCompletion, Timeout, ServeNotify,
           NoPicture, PictureDone, PictureBufferFull, UnknownStatus, FlushStep, FinishJob,
           QueueEos, UseAfterFree, FinishPicture, m2mVars
  <2>2. QED
    BY <2>1
<1>3. ~Isr /\ ~StopFlushStep
  BY DEF Isr, Interrupt, StopFlushStep, m2mVars
<1>4. ~Ioctl
  BY <1>1 DEF Ioctl, UserQBuf, QBuf, StreamOn, StreamOnQueue, StreamOff, DecoderCmd, CmdStop,
              CmdStart, Reconfigure, LockFree
<1>5. ASSUME NEW r \in Queue, StopStreaming(r)
      PROVE  r = q
  BY <1>1, <1>5 DEF StopStreaming
<1>6. QED
  BY <1>2, <1>3, <1>4, <1>5 DEF Next, Stop

\* STREAMOFF leaves nothing of its queue hidden in the task or in the picture
\* buffer (decoder_mpeg_stop, meson_vcodec_stop_streaming).
THEOREM NothingHidden == Spec => StopHidesNothing
<1>1. ASSUME IInv, [Next]_vars, NEW q \in Queue,
             stream[q] = "cancel", stream'[q] = "off", ~overrun
      PROVE  {b \in Active : QueueOf(b) = q} \subseteq Range(rdy[q]) \cup {dstBuf} \cup dropped
  <2>1. Next
    BY <1>1 DEF vars, m2mVars
  <2>2. StopStreaming(q)
    BY <1>1, <2>1, OffOnlyByStop
  <2>3. SafeInv /\ srcBuf = NoBuf
    BY <1>1, <2>2 DEF IInv, SafeInv, JobInv, TypeOK, Pc, StopStreaming
  <2>4. {b \in Held : QueueOf(b) = q} = {}
    <3>1. CASE q = "dst"
      BY <1>1, <2>2, <3>1, FlushAllEmpties DEF StopStreaming, StopFlushed, IInv, TypeOK, Held
    <3>2. CASE q = "src"
      <4>1. Held \subseteq DstBuf \cup {NoBuf}
        BY <1>1, MpegAssumption DEF MpegAssumption, Held, InUse, IInv, TypeOK, DpbTypeOK
      <4>2. QED
        BY <3>2, <4>1, BufAssumption DEF QueueOf, BufAssumption
    <3>3. QED
      BY <3>1, <3>2 DEF Queue
  <2>5. {b \in InReady : QueueOf(b) = q} = Range(rdy[q])
    <3>1. QueuesOK(rdy) /\ Queued(rdy) = InReady
      BY <1>1, <2>3, ViewFacts DEF IInv, SafeInv
    <3>2. QED
      BY <3>1, QueuedFacts, BufAssumption
  <2>6. Active = InReady \cup InTask \cup Held \cup dropped
    BY <2>3 DEF SafeInv, Conserved, Places
  <2>7. InTask \subseteq {dstBuf}
    BY <2>3 DEF InTask
  <2>8. QED
    BY <2>4, <2>5, <2>6, <2>7
<1>2. IInv /\ [Next]_vars =>
        [\A q \in Queue : stream[q] = "cancel" /\ stream'[q] = "off" /\ ~overrun =>
           {b \in Active : QueueOf(b) = q} \subseteq Range(rdy[q]) \cup {dstBuf} \cup dropped]_vars
  BY <1>1
<1>3. QED
  BY <1>2, Invariant, PTL DEF Spec, StopHidesNothing

\* Nothing but a complete flush takes a reference out of the picture buffer,
\* whatever the stream (amlvdec_mpeg_dpb_pic_done, amlvdec_mpeg_dpb_next_output).
THEOREM ReferencesStay == Spec => NoReferenceOutput
<1>1. ASSUME IInv, Next, NEW s \in Slot, s \in InUse, s \notin InUse',
             stream["dst"] = "on", ~flushAll
      PROVE  s \notin {forwardRef, backwardRef, forwardRef', backwardRef'}
  <2>1. ~UNCHANGED dpbVars
    BY <1>1, SameDpbFacts
  <2>2. FlushStep
    <3>1. ~PictureDone
      <4>1. ASSUME NEW type \in PicType, NEW poc \in Poc, StorePic(dstBuf, type # "B", type = "I", poc)
            PROVE  FALSE
        <5>1. PICK n \in Free : n = FirstFree
          BY <1>1, <4>1, FirstFreeFacts DEF StorePic, IInv, TypeOK
        <5>2. PICK pic : pic = NewPic(dstBuf, type # "B", type = "I", poc)
          OBVIOUS
        <5>3. PicDone(n, pic)
          BY <4>1, <5>1, <5>2 DEF StorePic
        <5>4. n # s
          BY <1>1, <5>1 DEF Free
        <5>5. pics'[s].state # "unused"
          BY <1>1, <5>3, <5>4 DEF PicDone, InUse, IInv, TypeOK, DpbTypeOK
        <5>6. QED
          BY <1>1, <5>5 DEF InUse
      <4>2. QED
        BY <4>1 DEF PictureDone
    <3>2. \A q \in Queue : ~StreamOn(q)
      BY <1>1, <2>1 DEF StreamOn, StreamOnQueue, Queue, Other
    <3>3. ~StopFlushStep
      BY <1>1 DEF StopFlushStep
    <3>4. QED
      BY <1>1, <2>1, <3>1, <3>2, <3>3
         DEF Next, Job, Isr, Stop, Ioctl, DeviceRun, TakeSource, TakeDestination, NoDestination, AbortReturns,
           Configure, ConfigureFails,
             ReinitCompletion, Timeout, ServeNotify, NoPicture, PictureBufferFull,
             UnknownStatus, FinishJob, QueueEos, UseAfterFree, Interrupt, StopStreaming,
             UserQBuf, StreamOff, DecoderCmd, Reconfigure
  <2>3. PICK n \in InUse : n = NextOutput(FALSE) /\ pics[n].state = "output_ready"
    BY <1>1, <2>2, NextOutputFacts DEF FlushStep, OutputPicture, IInv, TypeOK
  <2>4. RecyclePic(n)
    BY <1>1, <2>2, <2>3 DEF FlushStep, OutputPicture, IInv, TypeOK
  <2>5. s = n
    BY <1>1, <2>4 DEF RecyclePic, InUse, IInv, TypeOK, DpbTypeOK
  <2>6. s \notin {forwardRef, backwardRef}
    <3>1. s \notin {t \in Slot : pics[t].state = "ref_in_use"}
      BY <2>3, <2>5
    <3>2. s # NoSlot
      BY DEF Slot, NoSlot
    <3>3. QED
      BY <1>1, <3>1, <3>2 DEF IInv, RefsInUse
  <2>7. QED
    BY <1>1, <2>4, <2>6 DEF RecyclePic, Slot, NoSlot
<1>2. IInv /\ [Next]_vars =>
        [\A s \in Slot :
           s \in InUse /\ s \notin InUse' /\ stream["dst"] = "on" /\ ~flushAll =>
             s \notin {forwardRef, backwardRef, forwardRef', backwardRef'}]_vars
  BY <1>1
<1>3. QED
  BY <1>2, Invariant, PTL DEF Spec, NoReferenceOutput
-----------------------------------------------------------------------------
(* Display order.  The picture buffer fed by a conforming stream holds the    *)
(* pictures that were decoded and not shown, their keys are in the order of   *)
(* their numbers (KeyInv), and what keeps the first of them is that it is one *)
(* of the last two anchors (AnchorInv).                                       *)

\* the display number of the picture in a slot, and those the picture buffer holds
NumberOf(s) == number[pics[s].buffer]
Waiting     == {NumberOf(s) : s \in InUse}

\* the pictures that were decoded and not shown
Due == (shown .. (next - 1)) \ bs

\* the B pictures to come are the last ones before the anchor, in a group that began earlier
GroupInv ==
  /\ phase \in {"decode", "flush", "drain"}
  /\ next \in Nat /\ base \in 0 .. next /\ shown \in 0 .. next
  /\ bs \subseteq Nat /\ \A b \in bs : shown <= b /\ base <= b /\ b < next - 1
  /\ \A b \in bs, c \in Nat : b <= c /\ c < next - 1 => c \in bs
  /\ phase = "drain" => bs = {}

\* each picture that was decoded and not shown is in one slot, with a buffer of its own
WaitInv ==
  /\ number \in [Frame -> Nat] /\ queued \subseteq Frame
  /\ \A s \in InUse : /\ pics[s].buffer \in Frame
                      /\ pics[s].state \in {"ref_in_use", "output_ready"}
  /\ BuffersDistinct /\ queued \cap Held = {}
  /\ \A s, t \in InUse : NumberOf(s) = NumberOf(t) => s = t
  /\ Waiting = Due

\* order keys follow display numbers; those of this sequence count from its base
KeyInv ==
  /\ \A s, t \in InUse : NumberOf(s) < NumberOf(t) => pics[s].key < pics[t].key
  /\ \A s \in InUse :
       \/ pics[s].key < sequence * PocMod
       \/ /\ NumberOf(s) \in base .. (base + PocMod - 1)
          /\ pics[s].key = sequence * PocMod + NumberOf(s) - base

\* the references are the last two anchors
AnchorInv ==
  phase # "drain" /\ next > 0 =>
    /\ forwardRef \in InUse /\ NumberOf(forwardRef) = next - 1
    /\ pics[forwardRef].key >= sequence * PocMod
    /\ backwardRef # NoSlot => NumberOf(backwardRef) >= next - 2 - MaxB

\* a flush has left nothing that may be given out
FlushedInv == phase = "decode" => Outputs(FALSE) = {}

OrderInv == DpbTypeOK /\ RefsInUse /\ GroupInv /\ WaitInv /\ KeyInv /\ AnchorInv /\ FlushedInv

\* vdec_mpeg_picture_done fills one slot; an anchor becomes the later reference.
LEMMA StoredFacts ==
  ASSUME DpbTypeOK, RefsInUse,
         NEW f \in Frame, NEW isRef \in BOOLEAN, NEW newSequence \in BOOLEAN,
         NEW poc \in 0 .. (PocMod - 1), StorePic(f, isRef, newSequence, poc)
  PROVE  \E n \in Free :
           /\ InUse' = InUse \cup {n}
           /\ pics'[n].buffer = f /\ pics'[n].key = OrderKey(sequence', poc)
           /\ pics'[n].state \in {"ref_in_use", "output_ready"}
           /\ \A t \in InUse : /\ pics'[t].buffer = pics[t].buffer /\ pics'[t].key = pics[t].key
                               /\ pics'[t].state \in {pics[t].state, "output_ready"}
           /\ IF isRef THEN forwardRef' = n /\ backwardRef' = forwardRef
              ELSE UNCHANGED <<forwardRef, backwardRef>>
           /\ sequence' = NextSequence(newSequence)
<1>1. PICK n \in Free : n = FirstFree
  BY FirstFreeFacts DEF StorePic
<1>2. n \in Slot /\ n \notin InUse /\ InUse \subseteq Slot
  BY DEF Free, InUse
<1>3. PICK pic : pic = NewPic(f, isRef, newSequence, poc)
  OBVIOUS
<1>4. PicDone(n, pic) /\ sequence' = NextSequence(newSequence)
  BY <1>1, <1>3 DEF StorePic
<1>5. /\ pic.buffer = f /\ pic.key = OrderKey(sequence', poc) /\ pic.isRef = isRef
      /\ DOMAIN pic = {"state", "buffer", "isRef", "key"}
  BY <1>3, <1>4 DEF NewPic
<1>6. ASSUME NEW state \in {"ref_in_use", "output_ready"}
      PROVE  /\ [pic EXCEPT !.state = state].state = state
             /\ [pic EXCEPT !.state = state].buffer = f
             /\ [pic EXCEPT !.state = state].key = OrderKey(sequence', poc)
  BY <1>5
<1>7. pics \in [Slot -> [state : PicState, buffer : Frame \cup {NoFrame}, isRef : BOOLEAN, key : Key]]
  BY DEF DpbTypeOK
<1>8. \A t \in InUse : /\ pics'[t].buffer = pics[t].buffer /\ pics'[t].key = pics[t].key
                       /\ pics'[t].state \in {pics[t].state, "output_ready"}
  <2>1. CASE isRef
    BY <1>2, <1>4, <1>5, <1>7, <2>1 DEF PicDone
  <2>2. CASE ~isRef
    BY <1>2, <1>4, <1>5, <1>7, <2>2 DEF PicDone
  <2>3. QED
    BY <2>1, <2>2
<1>9. \E state \in {"ref_in_use", "output_ready"} : pics'[n] = [pic EXCEPT !.state = state]
  BY <1>2, <1>4, <1>5, <1>7 DEF PicDone
<1>10. InUse' = InUse \cup {n}
  <2>1. pics'[n].state # "unused"
    BY <1>6, <1>9
  <2>2. \A t \in Slot \ {n} : pics'[t].state = "unused" <=> pics[t].state = "unused"
    <3>1. CASE isRef
      <4>1. \A t \in Slot : t = backwardRef => pics[t].state = "ref_in_use"
        BY DEF RefsInUse, Slot, NoSlot
      <4>2. \A t \in Slot \ {n} :
              pics'[t] = IF t = backwardRef THEN [pics[t] EXCEPT !.state = "output_ready"]
                         ELSE pics[t]
        BY <1>4, <1>5, <3>1 DEF PicDone
      <4>3. QED
        BY <1>7, <4>1, <4>2
    <3>2. CASE ~isRef
      BY <1>2, <1>4, <1>5, <1>7, <3>2 DEF PicDone
    <3>3. QED
      BY <3>1, <3>2
  <2>3. QED
    BY <1>2, <2>1, <2>2 DEF InUse
<1>11. IF isRef THEN forwardRef' = n /\ backwardRef' = forwardRef
       ELSE UNCHANGED <<forwardRef, backwardRef>>
  BY <1>4, <1>5 DEF PicDone
<1>12. /\ pics'[n].buffer = f /\ pics'[n].key = OrderKey(sequence', poc)
       /\ pics'[n].state \in {"ref_in_use", "output_ready"}
  BY <1>6, <1>9
<1>13. QED
  BY <1>4, <1>8, <1>10, <1>11, <1>12

LEMMA Within ==
  \A n, b, p \in Nat :
    b <= n /\ n - b < p => n - b \in 0 .. (p - 1) /\ n \in b .. (b + p - 1)
OBVIOUS

\* of the pictures that wait, only the anchor of a B picture is displayed after it
Follows(n, type) ==
  \A s \in InUse : NumberOf(s) < n \/ (type = "B" /\ s = forwardRef /\ next > 0)

\* Picture number n of the stream joins those that wait: its key is above those of the
\* pictures displayed before it, and below that of the anchor its group waits for.
LEMMA DecodedFacts ==
  ASSUME OrderInv, phase # "drain",
         NEW n \in Nat, NEW type \in {"I", "P", "B"}, Decode(n, type),
         base' \in Nat, base' <= n, base' # base => type = "I",
         type = "I" => sequence + 1 < SeqMod,
         n \notin Waiting,
         Follows(n, type),
         Due' = Waiting \cup {n}
  PROVE  /\ DpbTypeOK' /\ RefsInUse' /\ WaitInv' /\ KeyInv'
         /\ \A t \in InUse : t \in InUse' /\ NumberOf(t)' = NumberOf(t)
                             /\ pics'[t].key = pics[t].key
         /\ IF type = "B" THEN UNCHANGED <<sequence, forwardRef, backwardRef>>
            ELSE /\ backwardRef' = forwardRef /\ forwardRef' \in InUse'
                 /\ NumberOf(forwardRef)' = n
                 /\ pics'[forwardRef'].key >= sequence' * PocMod
<1> DEFINE poc == n - base'
           isRef == type # "B"
           newSequence == type = "I"
<1>1. PICK f \in queued :
        /\ n - base' < PocMod /\ StorePic(f, isRef, newSequence, poc)
        /\ number' = [number EXCEPT ![f] = n] /\ queued' = queued \ {f} /\ shown' = shown
  BY Zenon DEF Decode
<1>0. isRef \in BOOLEAN /\ newSequence \in BOOLEAN
  OBVIOUS
<1>2. poc \in 0 .. (PocMod - 1) /\ n \in base' .. (base' + PocMod - 1)
  <2>1. n - base' < PocMod /\ PocMod \in Nat
    BY <1>1, DpbAssumption, Zenon DEF DpbAssumption
  <2>2. QED
    BY <2>1, Within, Zenon
<1>3. /\ f \in Frame /\ f \notin Held /\ number \in [Frame -> Nat]
      /\ \A s \in InUse : pics[s].buffer \in Frame \ {f}
  BY DEF OrderInv, WaitInv, Held
<1>4. PICK new \in Free :
        /\ InUse' = InUse \cup {new}
        /\ pics'[new].buffer = f /\ pics'[new].key = OrderKey(sequence', poc)
        /\ pics'[new].state \in {"ref_in_use", "output_ready"}
        /\ \A t \in InUse : /\ pics'[t].buffer = pics[t].buffer /\ pics'[t].key = pics[t].key
                            /\ pics'[t].state \in {pics[t].state, "output_ready"}
        /\ IF isRef THEN forwardRef' = new /\ backwardRef' = forwardRef
           ELSE UNCHANGED <<forwardRef, backwardRef>>
        /\ sequence' = NextSequence(newSequence)
  <2> HIDE DEF isRef, newSequence, poc
  <2>1. QED
    BY <1>0, <1>1, <1>2, <1>3, StoredFacts DEF OrderInv
<1>5. /\ NumberOf(new)' = n /\ \A t \in InUse : NumberOf(t)' = NumberOf(t)
  BY <1>1, <1>3, <1>4 DEF NumberOf
<1>6. /\ DpbTypeOK' /\ RefsInUse' /\ Held' = Held \cup {f} /\ BuffersDistinct'
  <2>1. BuffersDistinct /\ f \in Frame \cup {NoFrame}
    BY <1>3 DEF OrderInv, WaitInv
  <2>2. QED
    <3> HIDE DEF isRef, newSequence, poc
    <3>1. QED
      BY <1>0, <1>1, <1>2, <1>3, <2>1, DpbAssumption, StorePicFacts DEF OrderInv
<1>7. WaitInv'
  <2>1. number' \in [Frame -> Nat] /\ queued' \subseteq Frame /\ queued' \cap Held' = {}
    BY <1>1, <1>3, <1>6 DEF OrderInv, WaitInv
  <2>2. \A s \in InUse' : /\ pics'[s].buffer \in Frame
                          /\ pics'[s].state \in {"ref_in_use", "output_ready"}
    BY <1>3, <1>4 DEF OrderInv, WaitInv
  <2>3. \A s, t \in InUse' : NumberOf(s)' = NumberOf(t)' => s = t
    BY <1>4, <1>5 DEF OrderInv, WaitInv, Waiting
  <2>4. Waiting' = Waiting \cup {n}
    BY <1>4, <1>5 DEF Waiting
  <2>5. Waiting' = Due'
    BY <2>4
  <2>6. QED
    BY <1>6, <2>1, <2>2, <2>3, <2>5 DEF WaitInv
<1> DEFINE q == sequence * PocMod
           r == sequence' * PocMod
<1>8. /\ q \in Nat /\ PocMod \in Nat \ {0} /\ base \in Nat
      /\ r = IF type = "I" THEN q + PocMod ELSE q
  <2>1. sequence \in 0 .. (SeqMod - 1) /\ PocMod \in Nat \ {0} /\ SeqMod \in Nat
    BY DpbAssumption DEF DpbAssumption, OrderInv, DpbTypeOK
  <2>2. sequence' = IF type = "I" THEN sequence + 1 ELSE sequence
    <3>1. sequence' = IF newSequence THEN (sequence + 1) % SeqMod ELSE sequence
      BY <1>4, Zenon DEF NextSequence
    <3>2. type = "I" => (sequence + 1) % SeqMod = sequence + 1
      BY <2>1
    <3>3. QED
      BY <3>1, <3>2, Zenon
  <2>3. q \in Nat /\ (sequence + 1) * PocMod = q + PocMod
    BY <2>1
  <2>4. QED
    BY <2>1, <2>2, <2>3 DEF OrderInv, GroupInv
<1>9. pics'[new].key = r + n - base'
  <2>1. r \in Int /\ n \in Int /\ base' \in Int
    BY <1>8
  <2>2. pics'[new].key = r + (n - base')
    BY <1>4 DEF OrderKey
  <2>3. QED
    BY <2>1, <2>2
<1>10. \A s \in InUse : /\ pics[s].key \in Int /\ NumberOf(s) \in Int
                        /\ \/ pics[s].key < q
                           \/ /\ NumberOf(s) \in base .. (base + PocMod - 1)
                              /\ pics[s].key = q + NumberOf(s) - base
  BY <1>3 DEF OrderInv, KeyInv, DpbTypeOK, Key, InUse, NumberOf
<1>11. next > 0 => pics[forwardRef].key >= q
  BY DEF OrderInv, AnchorInv
<1> HIDE DEF q, r
<1>12. ASSUME NEW s \in InUse
       PROVE  /\ NumberOf(s) < n => pics[s].key < pics'[new].key
              /\ n < NumberOf(s) => pics'[new].key < pics[s].key
              /\ \/ pics[s].key < r
                 \/ /\ NumberOf(s) \in base' .. (base' + PocMod - 1)
                    /\ pics[s].key = r + NumberOf(s) - base'
  <2>0. NumberOf(s) < n \/ (type = "B" /\ s = forwardRef /\ next > 0)
    BY <1>12 DEF Follows
  <2>1. CASE type = "I"
    BY <2>0, <1>2, <1>8, <1>9, <1>10, <1>12, <2>1
  <2>2. CASE type = "P"
    BY <2>0, <1>2, <1>8, <1>9, <1>10, <1>12, <2>2
  <2>3. CASE type = "B"
    <3>1. base' = base /\ r = q
      BY <1>8, <2>3
    <3>2. NumberOf(s) < n \/ pics[s].key >= q
      BY <2>0, <1>11, <1>12, <2>3
    <3>3. QED
      BY <1>2, <1>8, <1>9, <1>10, <1>12, <3>1, <3>2
  <2>4. QED
    BY <2>1, <2>2, <2>3
<1>13. KeyInv'
  <2>1. \A s, t \in InUse' : NumberOf(s)' < NumberOf(t)' => pics'[s].key < pics'[t].key
    <3>1. ASSUME NEW s \in InUse', NEW t \in InUse', NumberOf(s)' < NumberOf(t)'
          PROVE  pics'[s].key < pics'[t].key
      <4>1. CASE s = new /\ t = new
        BY <1>5, <3>1, <4>1
      <4>2. CASE s = new /\ t # new
        BY <1>4, <1>5, <1>12, <3>1, <4>2
      <4>3. CASE s # new /\ t = new
        BY <1>4, <1>5, <1>12, <3>1, <4>3
      <4>4. CASE s # new /\ t # new
        BY <1>4, <1>5, <3>1, <4>4 DEF OrderInv, KeyInv
      <4>5. QED
        BY <4>1, <4>2, <4>3, <4>4
    <3>2. QED
      BY <3>1
  <2>2. ASSUME NEW s \in InUse'
        PROVE  \/ pics'[s].key < r
               \/ /\ NumberOf(s)' \in base' .. (base' + PocMod - 1)
                  /\ pics'[s].key = r + NumberOf(s)' - base'
    <3>1. CASE s = new
      <4>1. NumberOf(s)' = n /\ pics'[s].key = r + n - base'
        BY <1>5, <1>9, <3>1, Zenon
      <4>2. QED
        BY <1>2, <4>1, Zenon
    <3>2. CASE s # new
      BY <1>4, <1>5, <1>12, <2>2, <3>2
    <3>3. QED
      BY <3>1, <3>2
  <2>3. QED
    BY <2>1, <2>2 DEF KeyInv, r
<1>14. pics'[new].key >= r
  BY <1>2, <1>8, <1>9
<1>15. type = "B" => sequence' = sequence
  BY <1>4 DEF NextSequence
<1>16. QED
  BY <1>4, <1>5, <1>6, <1>7, <1>13, <1>14, <1>15 DEF r

\* What waits has been decoded; the references are among it.
LEMMA WaitingFacts ==
  ASSUME OrderInv
  PROVE  /\ \A s \in InUse : /\ NumberOf(s) \in shown .. (next - 1) /\ NumberOf(s) \notin bs
                             /\ pics[s].key \in Int
         /\ forwardRef # NoSlot => forwardRef \in InUse /\ pics[forwardRef].state = "ref_in_use"
         /\ backwardRef # NoSlot => backwardRef \in InUse /\ pics[backwardRef].state = "ref_in_use"
<1>1. \A s \in InUse : NumberOf(s) \in Due
  BY DEF OrderInv, WaitInv, Waiting
<1>2. \A s \in InUse : pics[s].key \in Int
  BY DEF OrderInv, DpbTypeOK, Key, InUse
<1>3. {s \in Slot : pics[s].state = "ref_in_use"} = {forwardRef, backwardRef} \ {NoSlot}
  BY DEF OrderInv, RefsInUse
<1>4. QED
  BY <1>1, <1>2, <1>3 DEF Due, InUse

LEMMA AnchorStep ==
  ASSUME OrderInv, NEW type \in {"I", "P"}, NEW k \in 0 .. MaxB, NEW newGroup \in BOOLEAN,
         DecodeAnchor(type, k, newGroup)
  PROVE  /\ OrderInv' /\ shown' = shown /\ next + k < MaxPics
         /\ bs = {} /\ bs' = next .. (next + k - 1) /\ next' = next + k + 1
<1> DEFINE n == next + k
<1>1. /\ phase = "decode" /\ bs = {} /\ bs' = next .. (n - 1) /\ next' = n + 1
      /\ base' = IF newGroup THEN next ELSE base
      /\ newGroup => type = "I"
      /\ type = "I" => sequence + 1 < SeqMod
      /\ Decode(n, type)
  <2>1. phase = "decode" /\ bs = {} /\ bs' = next .. (n - 1) /\ next' = n + 1
    <3>1. next \in Nat /\ k \in Nat
      BY DEF OrderInv, GroupInv
    <3>2. next + (k - 1) = n - 1
      BY <3>1
    <3>3. phase = "decode" /\ bs = {} /\ bs' = next .. (next + k - 1) /\ next' = next + k + 1
      BY Zenon DEF DecodeAnchor
    <3>4. QED
      BY <3>2, <3>3, Zenon
  <2>2. base' = IF newGroup THEN next ELSE base
    BY Zenon DEF DecodeAnchor
  <2>3. (newGroup => type = "I") /\ (type = "I" => sequence + 1 < SeqMod)
    BY Zenon DEF DecodeAnchor
  <2>4. Decode(n, type)
    BY Zenon DEF DecodeAnchor
  <2>5. QED
    BY <2>1, <2>2, <2>3, <2>4, Zenon
<1>2. n < MaxPics /\ phase' = "flush" /\ shown' = shown
  BY <1>1 DEF Decode
<1>3. /\ next \in Nat /\ base \in Nat /\ base <= next /\ shown \in Nat /\ shown <= next
      /\ k \in Nat /\ MaxB \in Nat /\ k <= MaxB /\ n \in Nat /\ next <= n
  BY ReorderAssumption DEF OrderInv, GroupInv, ReorderAssumption
<1>4. /\ base' \in Nat /\ base' <= next /\ base' <= n /\ (base' # base => type = "I")
  BY <1>1, <1>3
<1>5. \A s \in InUse : NumberOf(s) \in shown .. (next - 1)
  BY WaitingFacts
<1>6. Follows(n, type) /\ n \notin Waiting
  BY <1>3, <1>5 DEF Follows, Waiting
<1>7. Due' = Waiting \cup {n}
  <2>1. Waiting = shown .. (next - 1)
    BY <1>1 DEF OrderInv, WaitInv, Due
  <2>2. Due' = (shown .. n) \ (next .. (n - 1))
    BY <1>1, <1>2, <1>3 DEF Due
  <2>3. QED
    BY <1>3, <2>1, <2>2
<1> HIDE DEF n
<1>8. /\ DpbTypeOK' /\ RefsInUse' /\ WaitInv' /\ KeyInv'
      /\ \A t \in InUse : NumberOf(t)' = NumberOf(t)
      /\ backwardRef' = forwardRef /\ forwardRef' \in InUse'
      /\ NumberOf(forwardRef)' = n
      /\ pics'[forwardRef'].key >= sequence' * PocMod
  <2>1. type \in {"I", "P", "B"} /\ type # "B" /\ phase # "drain"
    BY <1>1
  <2>2. QED
    BY <1>1, <1>3, <1>4, <1>6, <1>7, <2>1, DecodedFacts
<1>9. GroupInv'
  BY <1>1, <1>2, <1>3, <1>4 DEF GroupInv
<1>10. backwardRef' # NoSlot => NumberOf(backwardRef)' >= next' - 2 - MaxB
  <2>1. forwardRef # NoSlot => forwardRef \in InUse /\ next > 0
    BY <1>3, <1>5, WaitingFacts
  <2>2. forwardRef # NoSlot => NumberOf(forwardRef) = next - 1
    BY <1>1, <2>1 DEF OrderInv, AnchorInv
  <2>3. forwardRef # NoSlot => NumberOf(backwardRef)' = next - 1
    BY <1>8, <2>1, <2>2 DEF NumberOf
  <2>4. next' - 2 - MaxB <= next - 1
    BY <1>1, <1>3 DEF n
  <2>5. QED
    BY <1>3, <1>8, <2>3, <2>4
<1>11. AnchorInv'
  BY <1>1, <1>3, <1>8, <1>10 DEF AnchorInv
<1>12. FlushedInv'
  BY <1>2 DEF FlushedInv
<1>13. OrderInv'
  BY <1>8, <1>9, <1>11, <1>12 DEF OrderInv
<1>14. next + k < MaxPics /\ bs' = next .. (next + k - 1) /\ next' = next + k + 1
  <2>1. next + (k - 1) = n - 1
    BY <1>3 DEF n
  <2>2. QED
    BY <1>1, <1>2, <2>1, Zenon DEF n
<1>15. QED
  BY <1>1, <1>2, <1>13, <1>14, Zenon

LEMMA BStep ==
  ASSUME OrderInv, DecodeB
  PROVE  /\ OrderInv' /\ shown' = shown /\ next' = next
         /\ \E n \in bs : n < MaxPics /\ n < next /\ bs' = bs \ {n}
<1>1. /\ bs \subseteq Nat /\ next \in Nat /\ base \in Nat /\ shown \in Nat /\ MaxB \in Nat
      /\ \A b \in bs : shown <= b /\ base <= b /\ b < next - 1
      /\ \A b \in bs, c \in Nat : b <= c /\ c < next - 1 => c \in bs
  BY ReorderAssumption DEF OrderInv, GroupInv, ReorderAssumption
<1>2. PICK n \in bs : /\ \A b \in bs : n <= b
                      /\ Decode(n, "B") /\ bs' = bs \ {n} /\ UNCHANGED <<next, base>>
                      /\ phase = "decode"
  <2> DEFINE n == CHOOSE b \in bs : \A c \in bs : b <= c
  <2>1. bs # {} /\ Decode(n, "B") /\ bs' = bs \ {n} /\ UNCHANGED <<next, base>> /\ phase = "decode"
    BY DEF DecodeB
  <2>2. n \in bs /\ \A b \in bs : n <= b
    BY <1>1, <2>1, LeastExists
  <2>3. QED
    BY <2>1, <2>2
<1>3. n < MaxPics /\ phase' = "flush" /\ shown' = shown
  BY <1>2 DEF Decode
<1>4. n \in Nat /\ next > 0 /\ base' \in Nat /\ base' <= n /\ n < next - 1 /\ shown <= n
  BY <1>1, <1>2
<1>5. \A s \in InUse : NumberOf(s) \in shown .. (next - 1) /\ NumberOf(s) \notin bs
  BY WaitingFacts
<1>6. /\ forwardRef \in InUse /\ NumberOf(forwardRef) = next - 1
      /\ pics[forwardRef].key >= sequence * PocMod
      /\ backwardRef # NoSlot => backwardRef \in InUse /\ NumberOf(backwardRef) >= next - 2 - MaxB
  BY <1>2, <1>4, WaitingFacts DEF OrderInv, AnchorInv
<1>7. Follows(n, "B")
  <2>1. ASSUME NEW s \in InUse, ~(NumberOf(s) < n)
        PROVE  s = forwardRef
    <3>1. NumberOf(s) \in Nat /\ n <= NumberOf(s) /\ NumberOf(s) <= next - 1
      BY <1>1, <1>4, <1>5, <2>1
    <3>2. ~(NumberOf(s) < next - 1)
      BY <1>1, <1>2, <1>5, <3>1
    <3>3. NumberOf(s) = NumberOf(forwardRef)
      BY <1>1, <1>6, <3>1, <3>2
    <3>4. QED
      BY <1>6, <3>3 DEF OrderInv, WaitInv
  <2>2. QED
    BY <1>4, <2>1 DEF Follows
<1>8. n \notin Waiting
  BY <1>2, <1>5 DEF Waiting
<1>9. Due' = Waiting \cup {n}
  <2>1. Waiting = (shown .. (next - 1)) \ bs
    BY DEF OrderInv, WaitInv, Due
  <2>2. Due' = (shown .. (next - 1)) \ (bs \ {n})
    BY <1>2, <1>3 DEF Due
  <2>3. n \in shown .. (next - 1)
    BY <1>1, <1>4
  <2>4. QED
    BY <2>1, <2>2, <2>3
<1>10. /\ DpbTypeOK' /\ RefsInUse' /\ WaitInv' /\ KeyInv'
       /\ \A t \in InUse : t \in InUse' /\ NumberOf(t)' = NumberOf(t) /\ pics'[t].key = pics[t].key
       /\ UNCHANGED <<sequence, forwardRef, backwardRef>>
  <2>1. "B" \in {"I", "P", "B"} /\ base' = base /\ phase # "drain"
    BY <1>2
  <2>2. QED
    BY <1>2, <1>4, <1>7, <1>8, <1>9, <2>1, DecodedFacts
<1>11. GroupInv'
  <2>1. base' \in 0 .. next' /\ shown' \in 0 .. next' /\ next' \in Nat /\ phase' = "flush"
    BY <1>2, <1>3 DEF OrderInv, GroupInv
  <2>2. \A b \in bs' : b \in bs /\ n < b
    BY <1>1, <1>2
  <2>3. \A b \in bs', c \in Nat : b <= c /\ c < next' - 1 => c \in bs'
    BY <1>1, <1>2, <1>4, <2>2
  <2>4. QED
    BY <1>1, <1>2, <1>3, <2>1, <2>2, <2>3 DEF GroupInv
<1>12. AnchorInv'
  <2>1. /\ forwardRef' \in InUse' /\ NumberOf(forwardRef)' = NumberOf(forwardRef)
        /\ pics'[forwardRef'].key = pics[forwardRef].key
        /\ backwardRef # NoSlot => NumberOf(backwardRef)' = NumberOf(backwardRef)
    BY <1>6, <1>10 DEF NumberOf
  <2>2. QED
    BY <1>2, <1>6, <1>10, <2>1 DEF AnchorInv
<1>13. FlushedInv'
  BY <1>3 DEF FlushedInv
<1>14. QED
  BY <1>1, <1>2, <1>3, <1>4, <1>10, <1>11, <1>12, <1>13 DEF OrderInv

\* A flush gives out the next picture in display order, and no reference.
LEMMA OutputStep ==
  ASSUME OrderInv, NEW all \in BOOLEAN, all => phase = "drain", ~all => phase = "flush",
         Output(all)
  PROVE  /\ OrderInv' /\ shown \in (0 .. (next - 1)) \ bs /\ shown' = shown + 1
         /\ next' = next /\ bs' = bs
<1>1. PICK s \in InUse :
        /\ RecyclePic(s)
        /\ shown' = NumberOf(s) + 1
        /\ number' = [number EXCEPT ![pics[s].buffer] = 0]
        /\ UNCHANGED <<phase, next, base, bs, queued>>
        /\ all \/ pics[s].state = "output_ready"
        /\ \A t \in InUse \ {s} : pics[t].key >= pics[s].key
  <2> DEFINE s == NextOutput(all)
  <2>1. Outputs(all) # {}
    BY DEF Output
  <2>2. s \in InUse /\ (all \/ pics[s].state = "output_ready")
    BY <2>1, NextOutputFacts
  <2>3. s \in Outputs(all)
    <3>1. Outputs(all) \subseteq Nat
      BY DEF Outputs, InUse, Slot
    <3>2. \E t \in Outputs(all) : \A u \in Outputs(all) : t <= u
      BY <2>1, <3>1, LeastExists
    <3>3. QED
      BY <3>2 DEF NextOutput
  <2>4. \A t \in InUse \ {s} : pics[t].key >= pics[s].key
    BY <2>3 DEF Outputs
  <2>5. QED
    BY <2>2, <2>4 DEF Output, NumberOf
<1>2. /\ bs \subseteq Nat /\ next \in Nat /\ shown \in Nat /\ shown <= next /\ base \in 0 .. next
      /\ \A b \in bs : shown <= b /\ b < next - 1
      /\ \A b \in bs, c \in Nat : b <= c /\ c < next - 1 => c \in bs
      /\ phase = "drain" => bs = {}
  BY DEF OrderInv, GroupInv
<1>3. /\ \A t \in InUse : /\ NumberOf(t) \in shown .. (next - 1) /\ NumberOf(t) \notin bs
                          /\ pics[t].key \in Int
      /\ forwardRef # NoSlot => forwardRef \in InUse /\ pics[forwardRef].state = "ref_in_use"
      /\ backwardRef # NoSlot => backwardRef \in InUse /\ pics[backwardRef].state = "ref_in_use"
  BY WaitingFacts
<1>4. shown \notin bs
  <2> SUFFICES ASSUME shown \in bs
               PROVE  FALSE
    OBVIOUS
  <2>1. phase = "flush" /\ next > 0
    BY <1>2
  <2>2. forwardRef \in InUse /\ NumberOf(forwardRef) = next - 1
    BY <2>1 DEF OrderInv, AnchorInv
  <2>3. NumberOf(s) = next - 1
    BY <1>2, <1>3
  <2>4. s = forwardRef
    BY <2>2, <2>3 DEF OrderInv, WaitInv
  <2>5. forwardRef # NoSlot
    BY <2>2 DEF InUse, Slot, NoSlot
  <2>6. QED
    BY <1>1, <1>3, <2>1, <2>4, <2>5
<1>5. NumberOf(s) = shown
  <2>1. shown \in Due
    BY <1>2, <1>3, <1>4 DEF Due
  <2>2. PICK t \in InUse : NumberOf(t) = shown
    BY <2>1 DEF OrderInv, WaitInv, Waiting
  <2>3. NumberOf(t) < NumberOf(s) => pics[t].key < pics[s].key
    BY DEF OrderInv, KeyInv
  <2>4. t # s => pics[t].key >= pics[s].key
    BY <1>1
  <2>5. QED
    BY <1>2, <1>3, <2>2, <2>3, <2>4
<1>6. shown' = shown + 1 /\ shown < next
  BY <1>1, <1>2, <1>3, <1>5
<1>7. /\ DpbTypeOK' /\ RefsInUse' /\ BuffersDistinct'
      /\ Held' = Held \ {pics[s].buffer}
  BY <1>1, DpbAssumption, RecyclePicFacts DEF OrderInv, WaitInv
<1>8. /\ InUse' = InUse \ {s} /\ \A t \in InUse \ {s} : pics'[t] = pics[t]
      /\ forwardRef' = (IF forwardRef = s THEN NoSlot ELSE forwardRef)
      /\ backwardRef' = (IF backwardRef = s THEN NoSlot ELSE backwardRef)
      /\ sequence' = sequence
  BY <1>1 DEF RecyclePic, InUse, Unused, OrderInv, DpbTypeOK
<1>9. \A t \in InUse \ {s} : /\ pics[t].buffer \in Frame /\ pics[t].buffer # pics[s].buffer
                             /\ NumberOf(t)' = NumberOf(t)
  <2>1. \A t \in InUse \ {s} : pics[t].buffer \in Frame /\ pics[t].buffer # pics[s].buffer
    BY DEF OrderInv, WaitInv, BuffersDistinct
  <2>2. number \in [Frame -> Nat]
    BY DEF OrderInv, WaitInv
  <2>3. QED
    BY <1>1, <1>8, <2>1, <2>2 DEF NumberOf
<1>10. WaitInv'
  <2>1. number' \in [Frame -> Nat] /\ queued' \subseteq Frame /\ queued' \cap Held' = {}
    BY <1>1, <1>7 DEF OrderInv, WaitInv
  <2>2. \A t \in InUse' : /\ pics'[t].buffer \in Frame
                          /\ pics'[t].state \in {"ref_in_use", "output_ready"}
    BY <1>8 DEF OrderInv, WaitInv
  <2>3. \A t, u \in InUse' : NumberOf(t)' = NumberOf(u)' => t = u
    BY <1>8, <1>9 DEF OrderInv, WaitInv
  <2>4. Waiting' = Waiting \ {shown}
    <3>1. Waiting' = {NumberOf(t) : t \in InUse \ {s}}
      BY <1>8, <1>9 DEF Waiting
    <3>2. \A t \in InUse \ {s} : NumberOf(t) # shown
      BY <1>5 DEF OrderInv, WaitInv
    <3>3. QED
      BY <1>5, <3>1, <3>2 DEF Waiting
  <2>5. Due' = Due \ {shown}
    BY <1>1, <1>2, <1>6 DEF Due
  <2>6. Waiting = Due
    BY DEF OrderInv, WaitInv
  <2>7. QED
    BY <1>7, <2>1, <2>2, <2>3, <2>4, <2>5, <2>6 DEF WaitInv
<1>11. KeyInv'
  BY <1>1, <1>8, <1>9 DEF OrderInv, KeyInv
<1>12. AnchorInv'
  <2> SUFFICES ASSUME phase = "flush", next > 0
               PROVE  AnchorInv'
    BY <1>1 DEF AnchorInv
  <2>1. s # forwardRef /\ s # backwardRef
    BY <1>1, <1>3 DEF InUse, Slot, NoSlot
  <2>2. /\ forwardRef \in InUse /\ NumberOf(forwardRef) = next - 1
        /\ pics[forwardRef].key >= sequence * PocMod
        /\ backwardRef # NoSlot => backwardRef \in InUse /\ NumberOf(backwardRef) >= next - 2 - MaxB
    BY <1>3 DEF OrderInv, AnchorInv
  <2>3. UNCHANGED <<forwardRef, backwardRef, sequence, next>>
    BY <1>1, <1>8, <2>1
  <2>4. NumberOf(forwardRef)' = NumberOf(forwardRef)
    BY <1>9, <2>1, <2>2, <2>3 DEF NumberOf
  <2>5. backwardRef # NoSlot => NumberOf(backwardRef)' = NumberOf(backwardRef)
    BY <1>9, <2>1, <2>2, <2>3 DEF NumberOf
  <2>6. QED
    BY <1>8, <2>1, <2>2, <2>3, <2>4, <2>5 DEF AnchorInv
<1>13. GroupInv'
  BY <1>1, <1>2, <1>4, <1>6 DEF OrderInv, GroupInv
<1>14. FlushedInv'
  BY <1>1 DEF FlushedInv
<1>15. QED
  BY <1>1, <1>2, <1>4, <1>6, <1>7, <1>10, <1>11, <1>12, <1>13, <1>14 DEF OrderInv

\* The other steps show and decode nothing.
LEMMA QuietStep ==
  ASSUME OrderInv, FlushEnds \/ EndOfStream \/ (\E f \in Frame : Requeue(f))
                   \/ UNCHANGED reorderVars
  PROVE  OrderInv' /\ UNCHANGED <<shown, next, bs>>
<1>1. UNCHANGED <<dpbVars, next, base, bs, number, shown>>
  BY DEF FlushEnds, EndOfStream, Requeue, reorderVars
<1>2. DpbTypeOK' /\ RefsInUse' /\ BuffersDistinct' /\ InUse' = InUse /\ Held' = Held
  BY <1>1, SameDpbFacts DEF OrderInv, WaitInv
<1>3. UNCHANGED <<Waiting, Due, pics, forwardRef, backwardRef, sequence>>
  BY <1>1, <1>2 DEF Waiting, Due, NumberOf, dpbVars
<1>4. queued' \subseteq Frame /\ queued' \cap Held' = {}
  BY <1>2 DEF FlushEnds, EndOfStream, Requeue, reorderVars, OrderInv, WaitInv
<1>5. phase' = phase \/ (phase' = "decode" /\ Outputs(FALSE) = {} /\ phase = "flush")
      \/ (phase' = "drain" /\ bs = {})
  BY DEF FlushEnds, EndOfStream, Requeue, reorderVars
<1>6. WaitInv' /\ KeyInv'
  BY <1>1, <1>2, <1>3, <1>4 DEF OrderInv, WaitInv, KeyInv, NumberOf
<1>7. AnchorInv'
  BY <1>1, <1>2, <1>3, <1>5 DEF OrderInv, AnchorInv, NumberOf
<1>8. FlushedInv' /\ GroupInv'
  <2>1. Outputs(FALSE)' = Outputs(FALSE)
    BY <1>2, <1>3 DEF Outputs
  <2>2. QED
    BY <1>1, <1>5, <2>1 DEF OrderInv, FlushedInv, GroupInv
<1>9. QED
  BY <1>1, <1>2, <1>6, <1>7, <1>8 DEF OrderInv

LEMMA OrderInit == ReorderInit => OrderInv
<1> SUFFICES ASSUME ReorderInit
             PROVE  OrderInv
  OBVIOUS
<1>1. InUse = {} /\ Held = {} /\ Waiting = {} /\ Due = {}
  BY DEF ReorderInit, DpbInit, InUse, Held, Waiting, Due, Unused
<1>2. 0 \in Key /\ 0 \in 0 .. (SeqMod - 1)
  BY ZeroIsKey, DpbAssumption DEF DpbAssumption
<1>3. DpbTypeOK /\ RefsInUse
  BY <1>2 DEF ReorderInit, DpbInit, DpbTypeOK, PicState, Unused, RefsInUse, Slot, NoSlot
<1>4. GroupInv /\ WaitInv /\ KeyInv /\ AnchorInv /\ FlushedInv
  BY <1>1 DEF ReorderInit, GroupInv, WaitInv, KeyInv, AnchorInv, FlushedInv, BuffersDistinct,
              Outputs
<1>5. QED
  BY <1>3, <1>4 DEF OrderInv

LEMMA OrderStep ==
  ASSUME OrderInv, [ReorderNext]_reorderVars
  PROVE  OrderInv' /\ [Abstract!Next]_Abstract!vars
<1> USE DEF Abstract!vars, Abstract!Next
<1>1. ASSUME NEW type \in {"I", "P"}, NEW k \in 0 .. MaxB, NEW newGroup \in BOOLEAN,
             DecodeAnchor(type, k, newGroup)
      PROVE  OrderInv' /\ \E n \in 0 .. (MaxPics - 1) : Abstract!Decode(n)
  <2> DEFINE n == next + k
  <2>1. /\ OrderInv' /\ shown' = shown /\ n < MaxPics
        /\ bs = {} /\ bs' = next .. (next + k - 1) /\ next' = n + 1
    <3>1. next \in Nat /\ k \in Nat
      BY <1>1 DEF OrderInv, GroupInv
    <3>2. next + k + 1 = n + 1
      BY <3>1
    <3>3. QED
      BY <1>1, <3>2, AnchorStep
  <2>2. next \in Nat /\ k \in Nat /\ n \in 0 .. (MaxPics - 1)
    BY <2>1, ReorderAssumption DEF OrderInv, GroupInv, ReorderAssumption
  <2>3. n \notin (0 .. (next - 1)) \ bs
    BY <2>2
  <2>4. (0 .. (next' - 1)) \ bs' = ((0 .. (next - 1)) \ bs) \cup {n}
    BY <2>1, <2>2
  <2>5. Abstract!Decode(n)
    BY <2>1, <2>3, <2>4 DEF Abstract!Decode
  <2>6. QED
    BY <2>1, <2>2, <2>5
<1>2. ASSUME DecodeB
      PROVE  OrderInv' /\ \E n \in 0 .. (MaxPics - 1) : Abstract!Decode(n)
  <2>1. /\ OrderInv' /\ shown' = shown /\ next' = next
        /\ \E n \in bs : n < MaxPics /\ n < next /\ bs' = bs \ {n}
    BY <1>2, BStep
  <2>2. PICK n \in bs : n < MaxPics /\ n < next /\ bs' = bs \ {n}
    BY <2>1
  <2>3. n \in Nat /\ next \in Nat
    BY DEF OrderInv, GroupInv
  <2>4. n \in 0 .. (MaxPics - 1) /\ n \in 0 .. (next - 1)
    BY <2>2, <2>3, ReorderAssumption DEF ReorderAssumption
  <2>5. /\ n \notin (0 .. (next - 1)) \ bs
        /\ (0 .. (next' - 1)) \ bs' = ((0 .. (next - 1)) \ bs) \cup {n}
    BY <2>1, <2>2, <2>4
  <2>6. Abstract!Decode(n)
    BY <2>1, <2>5 DEF Abstract!Decode
  <2>7. QED
    BY <2>1, <2>4, <2>6
<1>3. ASSUME Flush \/ Drain
      PROVE  OrderInv' /\ Abstract!Show
  <2>1. PICK all \in BOOLEAN :
          (all => phase = "drain") /\ (~all => phase = "flush") /\ Output(all)
    BY <1>3 DEF Flush, Drain
  <2>2. /\ OrderInv' /\ shown \in (0 .. (next - 1)) \ bs /\ shown' = shown + 1
        /\ next' = next /\ bs' = bs
    BY <2>1, OutputStep
  <2>3. QED
    BY <2>2 DEF Abstract!Show
<1>4. ASSUME FlushEnds \/ EndOfStream \/ (\E f \in Frame : Requeue(f)) \/ UNCHANGED reorderVars
      PROVE  OrderInv' /\ UNCHANGED <<(0 .. (next - 1)) \ bs, shown>>
  BY <1>4, QuietStep
<1>5. QED
  BY <1>1, <1>2, <1>3, <1>4 DEF ReorderNext

\* The picture buffer is ordered as described in every reachable state, however many
\* pictures the stream has, up to the SeqMod I pictures after which keys begin anew.
THEOREM PicturesOrdered == ReorderSpec => []OrderInv
<1>1. OrderInv /\ [ReorderNext]_reorderVars => OrderInv'
  BY OrderStep
<1>2. QED
  BY <1>1, OrderInit, PTL DEF ReorderSpec

\* Userspace gets every picture once, in display order and after it was decoded: the
\* picture buffer (amlvdec_mpeg_dpb_new_pic, _pic_done, _next_output, _recycle_pic)
\* implements DisplayOrder.
THEOREM ShownInOrder == ReorderSpec => InDisplayOrder
<1>1. ReorderInit => Abstract!Init
  BY DEF ReorderInit, Abstract!Init
<1>2. OrderInv /\ [ReorderNext]_reorderVars => [Abstract!Next]_Abstract!vars
  BY OrderStep
<1>3. QED
  BY <1>1, <1>2, PicturesOrdered, PTL DEF ReorderSpec, InDisplayOrder, Abstract!Spec

\* Between two pictures at most the two references and the B pictures between them wait.
LEMMA FewWait ==
  ASSUME OrderInv, phase = "decode"
  PROVE  IsFiniteSet(InUse) /\ Cardinality(InUse) <= MaxB + 2
<1>1. MaxB \in Nat /\ next \in Nat /\ shown \in Nat
  BY ReorderAssumption DEF OrderInv, GroupInv, ReorderAssumption
<1> DEFINE I == (next - 2 - MaxB) .. (next - 1)
<1>2. IsFiniteSet(I) /\ Cardinality(I) = MaxB + 2
  <2>1. next - 2 - MaxB \in Int /\ next - 1 \in Int
    BY <1>1
  <2>2. (next - 1) - (next - 2 - MaxB) + 1 = MaxB + 2 /\ next - 2 - MaxB <= next - 1
    BY <1>1
  <2>3. QED
    BY <2>1, <2>2, FS_Interval
<1>3. \A s \in InUse : NumberOf(s) \in I
  <2> SUFFICES ASSUME InUse # {}
               PROVE  \A s \in InUse : NumberOf(s) \in I
    OBVIOUS
  <2>1. /\ \A s \in InUse : NumberOf(s) \in shown .. (next - 1) /\ pics[s].key \in Int
        /\ forwardRef # NoSlot => forwardRef \in InUse /\ pics[forwardRef].state = "ref_in_use"
        /\ backwardRef # NoSlot => backwardRef \in InUse /\ pics[backwardRef].state = "ref_in_use"
    BY WaitingFacts
  <2>2. PICK m \in Waiting : \A n \in Waiting : m <= n
    <3>1. Waiting \subseteq Nat /\ Waiting # {}
      BY <1>1, <2>1 DEF Waiting
    <3>2. QED
      BY <3>1, LeastExists
  <2>3. PICK s \in InUse : m = NumberOf(s)
    BY <2>2 DEF Waiting
  <2>4. \A t \in InUse : m <= NumberOf(t)
    BY <2>2 DEF Waiting
  <2>5. \A t \in InUse \ {s} : pics[t].key >= pics[s].key
    <3>1. ASSUME NEW t \in InUse \ {s}
          PROVE  pics[t].key >= pics[s].key
      <4>1. NumberOf(t) # NumberOf(s)
        BY <3>1 DEF OrderInv, WaitInv
      <4>2. NumberOf(s) < NumberOf(t)
        BY <1>1, <2>1, <2>3, <2>4, <4>1
      <4>3. QED
        BY <2>1, <4>2 DEF OrderInv, KeyInv
    <3>2. QED
      BY <3>1
  <2>6. pics[s].state = "ref_in_use"
    BY <2>5 DEF OrderInv, FlushedInv, WaitInv, Outputs
  <2>7. s \in {forwardRef, backwardRef} /\ s # NoSlot
    BY <2>6 DEF OrderInv, RefsInUse, InUse, Slot, NoSlot
  <2>8. next > 0
    BY <1>1, <2>1, <2>3
  <2>9. m >= next - 2 - MaxB
    BY <1>1, <2>3, <2>7, <2>8 DEF OrderInv, AnchorInv
  <2>10. ASSUME NEW t \in InUse
         PROVE  NumberOf(t) \in I
    <3>1. NumberOf(t) \in shown .. (next - 1) /\ m \in shown .. (next - 1) /\ m <= NumberOf(t)
      BY <2>1, <2>3, <2>4
    <3>2. QED
      BY <1>1, <2>9, <3>1
  <2>11. QED
    BY <2>10
<1> HIDE DEF I
<1>4. IsFiniteSet(InUse) /\ Cardinality(InUse) <= Cardinality(I)
  <2> DEFINE F == [s \in InUse |-> NumberOf(s)]
  <2>1. F \in Injection(InUse, I)
    BY <1>3, Zenon DEF OrderInv, WaitInv, Injection, IsInjective
  <2>2. QED
    BY <1>2, <2>1, FS_Injection
<1>5. QED
  BY <1>2, <1>4

\* With MaxB + 3 CAPTURE buffers, decoding waits for none that only decoding could free,
\* and STREAMOFF gives every picture out: vdec_mpeg_flush_dpb holds nothing back.
THEOREM Prompt ==
  ASSUME IsFiniteSet(Frame), Cardinality(Frame) >= MaxB + 3
  PROVE  ReorderSpec => []NothingHeldBack
<1>1. ASSUME OrderInv
      PROVE  Bounded
  <2> SUFFICES ASSUME phase = "decode"
               PROVE  Cardinality(InUse) <= MaxB + 2 /\ \E f \in Frame : f \notin Held
    BY DEF Bounded
  <2>1. IsFiniteSet(InUse) /\ Cardinality(InUse) <= MaxB + 2 /\ MaxB \in Nat
    BY <1>1, FewWait, ReorderAssumption DEF ReorderAssumption
  <2>2. IsFiniteSet(Held) /\ Cardinality(Held) <= Cardinality(InUse)
    <3> DEFINE F == [s \in InUse |-> pics[s].buffer]
    <3>1. F \in Surjection(InUse, Held)
      BY DEF Held, Surjection
    <3>2. QED
      BY <2>1, <3>1, FS_Surjection
  <2>3. Cardinality(InUse) \in Nat /\ Cardinality(Held) \in Nat /\ Cardinality(Frame) \in Nat
    BY <2>1, <2>2, FS_CardinalityType
  <2>4. ~(Frame \subseteq Held)
    BY <2>1, <2>2, <2>3, FS_Subset
  <2>5. QED
    BY <2>1, <2>4
<1>2. ASSUME OrderInv
      PROVE  AllShown
  <2> SUFFICES ASSUME phase = "drain", Outputs(TRUE) = {}
               PROVE  shown = next
    BY DEF AllShown
  <2>1. InUse = {}
    BY <1>2, FlushAllEmpties DEF OrderInv
  <2>2. Due = {} /\ bs = {} /\ next \in Nat /\ shown \in 0 .. next
    BY <1>2, <2>1 DEF OrderInv, WaitInv, Waiting, GroupInv
  <2>3. QED
    BY <2>2 DEF Due
<1>3. OrderInv => NothingHeldBack
  BY <1>1, <1>2 DEF NothingHeldBack
<1>4. QED
  BY <1>3, PicturesOrdered, PTL
=============================================================================
