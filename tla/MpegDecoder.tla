----------------------------- MODULE MpegDecoder -----------------------------
(***************************************************************************)
(* The MPEG-1/2 decoder job (decoder_mpeg12.c) between v4l2-mem2mem and    *)
(* the VDEC1 hardware.  Three threads of control interleave:               *)
(*   - the job: device_run takes buffers, starts the hardware, waits for   *)
(*     its interrupt or a 5 s timeout, stores the picture, outputs what    *)
(*     the picture buffer allows, finishes the job (variable pc);          *)
(*   - the interrupt handler, which completes the wait;                    *)
(*   - the ioctls: QBUF, STREAMON, STREAMOFF (which waits for the job and  *)
(*     then flushes), DECODER_CMD.                                         *)
(***************************************************************************)
EXTENDS M2m, MpegDpb

CONSTANTS PicType,    \* picture types the stream contains, of "I", "P", "B"
          Poc,        \* temporal references it contains
          MayFail,    \* whether configuring the hardware may fail
          MaxAsks     \* bound: service requests the firmware raises in one job

ASSUME MpegAssumption ==
  /\ Frame = DstBuf /\ NoFrame = NoBuf
  /\ PicType \subseteq {"I", "P", "B"}
  /\ Poc \subseteq 0 .. (PocMod - 1)
  /\ MayFail \in BOOLEAN /\ MaxAsks \in Nat

VARIABLES
  pc,          \* where the thread running the job is
  allocated,   \* the decoder context exists (prepare .. unprepare)
  srcBuf,      \* t->src_buf
  dstBuf,      \* t->dst_buf, kept from one job to the next
  flushAll,    \* argument of the flush the job is in; TRUE only in an abort
  resume,      \* decoder_start continues after the abort (line 615)
  hw,          \* VDEC1: "off", "running", "halted" (status posted)
  completion,  \* ctx->decoder_completion has been completed
  notify,      \* AV_SCRATCH_G, _J or _M ask for service
  asks,        \* how often they did in this job
  status,      \* ctx->status, the last MREG_BUFFEROUT
  overrun      \* history: the job's thread outlived its m2m job or its context

jobVars == <<pc, srcBuf, dstBuf, flushAll, resume>>
hwVars  == <<hw, completion, notify, asks, status>>
vars    == <<m2mVars, dpbVars, jobVars, hwVars, allocated, overrun>>

Pc     == {"idle", "source", "destination", "configure", "reinit", "wait", "abort", "flush",
           "eos", "oops"}
Status == {"none", "data", "picture", "invalid"}

TypeOK ==
  /\ M2mTypeOK /\ DpbTypeOK
  /\ pc \in Pc
  /\ allocated \in BOOLEAN
  /\ srcBuf \in SrcBuf \cup {NoBuf} /\ dstBuf \in DstBuf \cup {NoBuf}
  /\ flushAll \in BOOLEAN /\ resume \in BOOLEAN
  /\ hw \in {"off", "running", "halted"}
  /\ completion \in BOOLEAN /\ notify \in BOOLEAN /\ asks \in 0 .. MaxAsks
  /\ status \in Status
  /\ overrun \in BOOLEAN

Init ==
  /\ M2mInit /\ DpbInit
  /\ pc = "idle" /\ allocated = FALSE
  /\ srcBuf = NoBuf /\ dstBuf = NoBuf /\ flushAll = FALSE /\ resume = FALSE
  /\ hw = "off" /\ completion = FALSE /\ notify = FALSE /\ asks = 0
  /\ status = "none"
  /\ overrun = FALSE

-----------------------------------------------------------------------------
(* The job.                                                                *)

\* decoder_abort stops the hardware and marks the context stopped; "continue" is
\* what its caller does when it returns
Abort(continue) ==
  /\ hw' = "off"
  /\ MarkStopped
  /\ pc' = "abort" /\ resume' = continue

\* ... then gives back the buffers it has
AbortReturns ==
  /\ pc = "abort" /\ allocated
  /\ vb' = BufDone(BufDone(vb, srcBuf, "error"), dstBuf, "error")
  /\ srcBuf' = NoBuf /\ dstBuf' = NoBuf
  /\ pc' = "flush" /\ flushAll' = TRUE
  /\ UNCHANGED <<rdy, stream, job, drainVars, aborted, dropped, resume, dpbVars, hwVars,
                 allocated, overrun>>

\* v4l2-m2m finds the job ready and calls meson_vcodec_m2m_device_run
DeviceRun ==
  /\ JobReady /\ pc = "idle"
  /\ job' = "running"
  /\ pc' = "source"
  /\ UNCHANGED <<vb, rdy, stream, drainVars, aborted, dropped, srcBuf, dstBuf, flushAll,
                 resume, dpbVars, hwVars, allocated, overrun>>

\* decoder_start takes the bitstream; without any it aborts.  (Only a job takes
\* from this queue while it streams, so there is one.)
TakeSource ==
  /\ pc = "source" /\ allocated
  /\ srcBuf' = Removed("src")
  /\ rdy' = AfterRemove("src")
  /\ IF Ready("src")
       THEN pc' = "destination" /\ UNCHANGED <<hw, drainVars, resume>>
       ELSE Abort(FALSE)
  /\ UNCHANGED <<vb, stream, job, aborted, dropped, dstBuf, flushAll, dpbVars, completion,
                 notify, asks, status, allocated, overrun>>

\* ... then a CAPTURE buffer, unless it has kept one
TakeDestination ==
  /\ pc = "destination" /\ allocated
  /\ \/ dstBuf # NoBuf /\ UNCHANGED <<dstBuf, rdy>>
     \/ dstBuf = NoBuf /\ Ready("dst") /\ dstBuf' = Removed("dst") /\ rdy' = AfterRemove("dst")
  /\ pc' = "configure"
  /\ UNCHANGED <<vb, stream, job, drainVars, aborted, dropped, srcBuf, flushAll, resume,
                 dpbVars, hwVars, allocated, overrun>>

\* mutant: without a CAPTURE buffer decoder_start returns and leaves the job
NoDestinationReturns ==
  /\ pc = "destination" /\ allocated
  /\ dstBuf = NoBuf /\ ~Ready("dst")
  /\ pc' = "idle"
  /\ UNCHANGED <<m2mVars, srcBuf, dstBuf, flushAll, resume, dpbVars, hwVars, allocated, overrun>>

\* ... and aborts when a STOP has taken the last one since the job was found ready
NoDestination ==
  /\ pc = "destination" /\ allocated
  /\ dstBuf = NoBuf /\ ~Ready("dst")
  /\ Abort(FALSE)
  /\ UNCHANGED <<vb, rdy, stream, job, aborted, dropped, srcBuf, dstBuf, flushAll, dpbVars,
                 completion, notify, asks, status, allocated, overrun>>

\* init, configure_input and configure_output succeed: the hardware starts
Configure ==
  /\ pc = "configure" /\ allocated
  /\ hw' = "running" /\ notify' = FALSE /\ asks' = 0
  /\ pc' = "reinit"
  /\ UNCHANGED <<m2mVars, dpbVars, srcBuf, dstBuf, flushAll, resume, completion,
                 status, allocated, overrun>>

\* one of them fails: decoder_abort is called, but decoder_start goes on
ConfigureFails ==
  /\ MayFail
  /\ pc = "configure" /\ allocated
  /\ Abort(TRUE)
  /\ UNCHANGED <<vb, rdy, stream, job, aborted, dropped, srcBuf, dstBuf, flushAll, dpbVars,
                 completion, notify, asks, status, allocated, overrun>>

\* decoder_loop forgets completions that came before it waits
ReinitCompletion ==
  /\ pc = "reinit" /\ allocated
  /\ completion' = FALSE
  /\ pc' = "wait"
  /\ UNCHANGED <<m2mVars, dpbVars, srcBuf, dstBuf, flushAll, resume, hw, notify,
                 asks, status, allocated, overrun>>

Timeout ==
  /\ pc = "wait" /\ allocated
  /\ ~completion
  /\ Abort(FALSE)
  /\ UNCHANGED <<vb, rdy, stream, job, aborted, dropped, srcBuf, dstBuf, flushAll, dpbVars,
                 completion, notify, asks, status, allocated, overrun>>

\* woken up for a debug, sequence-info or user-data request: serve it, loop
ServeNotify ==
  /\ pc = "wait" /\ allocated
  /\ completion /\ notify
  /\ notify' = FALSE
  /\ pc' = "reinit"
  /\ UNCHANGED <<m2mVars, dpbVars, srcBuf, dstBuf, flushAll, resume, hw, completion,
                 asks, status, allocated, overrun>>

\* decoder_done up to its flush; a NULL src_buf is dereferenced
FinishPicture ==
  /\ hw' = "off"
  /\ vb' = BufDone(vb, srcBuf, "done")
  /\ srcBuf' = NoBuf
  /\ flushAll' = FALSE
  /\ pc' = IF srcBuf = NoBuf THEN "oops" ELSE "flush"
  /\ UNCHANGED <<rdy, stream, job, drainVars, aborted, dropped, resume, completion,
                 notify, asks, status, allocated, overrun>>

Woken(s) == pc = "wait" /\ allocated /\ completion /\ ~notify /\ status = s

\* mutant: no return after decoder_done, the loop goes on
NoPictureLoops ==
  /\ Woken("data")
  /\ vb' = BufDone(vb, srcBuf, "done")
  /\ srcBuf' = NoBuf /\ hw' = "running"
  /\ pc' = IF srcBuf = NoBuf THEN "oops" ELSE "reinit"
  /\ UNCHANGED <<rdy, stream, job, drainVars, aborted, dropped, resume, flushAll, completion,
                 notify, asks, status, allocated, overrun, dstBuf, dpbVars>>

\* MPEG12_DATA_REQUEST, MPEG12_DATA_EMPTY: no picture, dst_buf is kept
NoPicture ==
  /\ Woken("data")
  /\ FinishPicture
  /\ UNCHANGED <<dstBuf, dpbVars>>

\* mutant: t->dst_buf is not cleared once the picture has it
PictureKeepsDst ==
  /\ Woken("picture")
  /\ \E type \in PicType, poc \in Poc : StorePic(dstBuf, type # "B", type = "I", poc)
  /\ FinishPicture
  /\ UNCHANGED dstBuf

\* MPEG12_PIC_DONE, MPEG12_SEQ_END with a slot in the picture buffer
PictureDone ==
  /\ Woken("picture")
  /\ \E type \in PicType, poc \in Poc : StorePic(dstBuf, type # "B", type = "I", poc)
  /\ dstBuf' = NoBuf
  /\ FinishPicture

\* ... and without one: -ENOSPC
PictureBufferFull ==
  /\ Woken("picture")
  /\ Free = {}
  /\ Abort(FALSE)
  /\ UNCHANGED <<vb, rdy, stream, job, aborted, dropped, srcBuf, dstBuf, flushAll, dpbVars,
                 completion, notify, asks, status, allocated, overrun>>

UnknownStatus ==
  /\ Woken("invalid")
  /\ Abort(FALSE)
  /\ UNCHANGED <<vb, rdy, stream, job, aborted, dropped, srcBuf, dstBuf, flushAll, dpbVars,
                 completion, notify, asks, status, allocated, overrun>>

\* one iteration of vdec_mpeg_flush_dpb; a NULL buffer is dereferenced
OutputPicture(all) ==
  LET s == NextOutput(all)
  IN  /\ Outputs(all) # {}
      /\ vb' = BufDone(vb, pics[s].buffer,
                       IF pics[s].state = "init" THEN "error" ELSE "done")
      /\ RecyclePic(s)

FlushStep ==
  /\ pc = "flush" /\ allocated
  /\ OutputPicture(flushAll)
  /\ pc' = IF pics[NextOutput(flushAll)].buffer = NoBuf THEN "oops" ELSE pc
  /\ UNCHANGED <<rdy, stream, job, drainVars, aborted, dropped, srcBuf, dstBuf,
                 flushAll, resume, hwVars, allocated, overrun>>

\* the flush is over: v4l2_m2m_job_finish, the last act of decoder_done
FinishJob ==
  /\ pc = "flush" /\ allocated
  /\ Outputs(flushAll) = {}
  /\ JobFinish
  /\ pc' = IF flushAll THEN "eos" ELSE "idle"
  /\ UNCHANGED <<vb, rdy, stream, drainVars, aborted, dropped, srcBuf, dstBuf,
                 flushAll, resume, dpbVars, hwVars, allocated, overrun>>

\* decoder_abort still reads ctx->session after job_finish; then it returns,
\* into decoder_start when that called it from line 615
QueueEos ==
  /\ pc = "eos" /\ allocated
  /\ pc' = IF resume THEN "reinit" ELSE "idle"
  /\ hw' = IF resume THEN "running" ELSE hw
  /\ resume' = FALSE
  /\ overrun' = (overrun \/ resume)
  /\ UNCHANGED <<m2mVars, dpbVars, srcBuf, dstBuf, flushAll, completion, notify,
                 asks, status, allocated>>

\* the job thread touches a context unprepare has freed
UseAfterFree ==
  /\ pc \notin {"idle", "oops"} /\ ~allocated
  /\ pc' = "oops"
  /\ UNCHANGED <<m2mVars, dpbVars, srcBuf, dstBuf, flushAll, resume, hwVars, allocated, overrun>>

-----------------------------------------------------------------------------
(* The hardware and vdec1_isr.                                             *)

Interrupt(asking, s) ==
  /\ hw = "running"
  /\ completion' = TRUE
  /\ notify' = (notify \/ asking)
  /\ asks' = IF asking THEN asks + 1 ELSE asks
  /\ asks' <= MaxAsks
  /\ status' = s
  /\ hw' = IF asking THEN "running" ELSE "halted"
  /\ UNCHANGED <<m2mVars, dpbVars, jobVars, allocated, overrun>>

Isr == \/ Interrupt(TRUE, "none")
       \/ \E s \in Status \ {"none"} : Interrupt(FALSE, s)

-----------------------------------------------------------------------------
(* The ioctls.                                                             *)

Other(q) == IF q = "src" THEN "dst" ELSE "src"

UserQBuf(b) == QBuf(b) /\ UNCHANGED <<dpbVars, jobVars, hwVars, allocated, overrun>>

\* the first of the two queues prepares the codec
StreamOn(q) ==
  /\ StreamOnQueue(q)
  /\ allocated' = TRUE
  /\ IF stream[Other(q)] = "on" THEN UNCHANGED dpbVars ELSE DpbReset
  /\ UNCHANGED <<jobVars, hwVars, overrun>>

DecoderCmd == (CmdStop \/ CmdStart) /\ UNCHANGED <<dpbVars, jobVars, hwVars, allocated, overrun>>

\* STREAMOFF: v4l2_m2m_cancel_job calls job_abort when the job is running;
\* decoder_mpeg_abort finishes the job only if the context has stopped
StreamOff(q) ==
  /\ LockFree /\ stream[q] = "on"
  /\ stream' = [stream EXCEPT ![q] = "cancel"]
  /\ aborted' = (aborted \/ job = "running")
  /\ job' = IF hasStopped THEN "none" ELSE job
  /\ overrun' = (overrun \/ (job = "running" /\ hasStopped))
  /\ UNCHANGED <<vb, rdy, drainVars, dropped, dpbVars, jobVars, hwVars, allocated>>

\* decoder_mpeg_stop on the CAPTURE queue: one iteration of its flush
StopFlushStep ==
  /\ stream["dst"] = "cancel" /\ job = "none"
  /\ OutputPicture(TRUE)
  /\ UNCHANGED <<rdy, stream, job, drainVars, aborted, dropped, jobVars, hwVars, allocated, overrun>>

\* mutant: decoder_mpeg_stop flushes no more than a job would
FlushedReady(q) == q = "dst" => Outputs(FALSE) = {}

\* stopping the CAPTURE queue flushes the whole picture buffer
StopFlushed(q) == q = "dst" => Outputs(TRUE) = {}

\* the rest of decoder_mpeg_stop and meson_vcodec_stop_streaming: give back
\* t->dst_buf and the ready queue.  vb2 takes what is still active by force.
\* The second queue to go off frees the decoder context.
StopStreaming(q) ==
  LET taken == IF StopTakesDst(q) THEN Removed("dst") ELSE NoBuf
      held  == IF q = "dst" THEN dstBuf ELSE NoBuf
      last  == stream[Other(q)] = "off"
  IN
  /\ stream[q] = "cancel" /\ job = "none"
  /\ StopFlushed(q)
  /\ vb' = [b \in Buf |->
       IF b = taken THEN "done"
       ELSE IF QueueOf(b) = q /\ vb[b] = "active" THEN "error" ELSE vb[b]]
  /\ rdy' = [r \in Queue |-> IF r = q THEN << >>
                              ELSE IF taken # NoBuf THEN Tail(rdy[r]) ELSE rdy[r]]
  /\ dstBuf' = IF held # NoBuf THEN NoBuf ELSE dstBuf
  /\ UpdateStopState(q)
  /\ dropped' = {b \in dropped : QueueOf(b) # q}
  /\ stream' = [stream EXCEPT ![q] = "off"]
  /\ allocated' = (allocated /\ ~last)
  /\ overrun' = (overrun \/ (last /\ pc # "idle"))
  /\ UNCHANGED <<job, aborted, dpbVars, pc, srcBuf, flushAll, resume, hwVars>>

\* S_FMT and REQBUFS on both queues, the only way back from "off".  (A thread
\* that still runs in a freed context faults before this matters.)
Reconfigure ==
  /\ \A q \in Queue : stream[q] \in {"idle", "off"}
  /\ \E q \in Queue : stream[q] = "off"
  /\ pc = "idle"
  /\ stream' = [q \in Queue |-> "idle"]
  /\ aborted' = FALSE
  /\ UNCHANGED <<vb, rdy, job, drainVars, dropped, dpbVars, jobVars, hwVars, allocated,
                 overrun>>

-----------------------------------------------------------------------------
Job == \/ DeviceRun \/ TakeSource \/ TakeDestination \/ NoDestination \/ AbortReturns
       \/ Configure \/ ConfigureFails \/ ReinitCompletion
       \/ Timeout \/ ServeNotify \/ NoPicture \/ PictureDone \/ PictureBufferFull
       \/ UnknownStatus \/ FlushStep \/ FinishJob \/ QueueEos \/ UseAfterFree

Stop == StopFlushStep \/ \E q \in Queue : StopStreaming(q)

Ioctl == \/ \E b \in Buf : UserQBuf(b)
         \/ \E q \in Queue : StreamOn(q) \/ StreamOff(q)
         \/ DecoderCmd
         \/ Reconfigure

\* a NULL dereference stops the kernel
Next == pc # "oops" /\ (Job \/ Isr \/ Stop \/ Ioctl)

Spec == Init /\ [][Next]_vars

\* The kernel schedules the thread that runs a job and the one in STREAMOFF;
\* wait_for_completion_timeout returns.  Nothing is assumed of the hardware but
\* MaxAsks, and nothing of userspace.
FairSpec == Spec /\ WF_vars(pc # "oops" /\ Job) /\ WF_vars(pc # "oops" /\ Stop)

-----------------------------------------------------------------------------
(* What the driver promises.                                               *)

\* the places where the decoder itself keeps buffers: t->src_buf and
\* t->dst_buf, and the picture buffer (Held)
InTask == {srcBuf, dstBuf} \ {NoBuf}

\* what the driver was given is what it has, and each buffer is in one place
Places(active, ready, task, held, lost) ==
  /\ active = ready \cup task \cup held \cup lost
  /\ ready \cap task = {} /\ ready \cap held = {} /\ task \cap held = {}
  /\ lost \cap (ready \cup task \cup held) = {}

Conserved ==
  /\ Places(Active, InReady, InTask, Held, dropped)
  /\ BuffersDistinct
  /\ \A q \in Queue : IsInjective(rdy[q])

\* Buffer conservation: a buffer vb2 has given to the driver is in exactly one
\* place - a ready queue, the task, one picture - or was dropped by
\* meson_vcodec_buf_queue; and a buffer the driver holds is the driver's.  So
\* no buffer is returned twice and none is lost.  It holds until the job's
\* thread is overrun.  Code: every v4l2_m2m_buf_done and *_buf_remove of
\* decoder_mpeg12.c and meson-vcodec.c.
BufferConservation == ~overrun => Conserved

\* Without an overrun the driver dereferences no NULL buffer and no freed
\* context.  Code: decoder_done, vdec_mpeg_flush_dpb, decoder_mpeg_unprepare.
NoCrash == pc = "oops" => overrun

\* When a decoder_abort is over, the decoder holds nothing: pictures that were
\* still references have been given back too.  Code: decoder_abort (725-749).
AbortGivesAllBack == pc = "eos" /\ ~overrun => InTask = {} /\ InUse = {}

\* When stop_streaming of a queue returns, vb2 finds no buffer of the queue
\* still active except those the driver never queued: nothing is hidden in the
\* task or in the picture buffer.  Code: decoder_mpeg_stop,
\* meson_vcodec_stop_streaming ("Return all buffers", meson-vcodec.c:466).
StopHidesNothing ==
  [][\A q \in Queue :
       stream[q] = "cancel" /\ stream'[q] = "off" /\ ~overrun =>
         {b \in Active : QueueOf(b) = q}
            \subseteq Range(rdy[q]) \cup {dstBuf} \cup dropped]_vars

\* Outside a complete flush, a picture that leaves the picture buffer is not a
\* reference of a later picture, neither before nor after the step.
\* Code: amlvdec_mpeg_dpb_pic_done, vdec_mpeg_flush_dpb(ctx, false).
NoReferenceOutput ==
  [][\A s \in Slot :
       s \in InUse /\ s \notin InUse' /\ stream["dst"] = "on" /\ ~flushAll =>
         s \notin {forwardRef, backwardRef, forwardRef', backwardRef'}]_vars


\* A STREAMOFF returns, for which the job that runs has to finish, whatever the
\* hardware does, unless the kernel has stopped.  Code: decoder_loop's timeout,
\* decoder_done, decoder_abort.
StreamOffReturns ==
  \A q \in Queue : stream[q] = "cancel" ~> stream[q] = "off" \/ pc = "oops"
=============================================================================
