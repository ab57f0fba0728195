-------------------------------- MODULE Encoder --------------------------------
(***************************************************************************)
(* The H.264 encoder job (encoder_h264.c) between v4l2-mem2mem and the     *)
(* HCODEC hardware.  A job is a series of hardware commands: SEQUENCE and  *)
(* PICTURE for the header, then a frame, IDR frames twice when the rate is *)
(* controlled; after each the thread waits for the interrupt or 5 s.  The  *)
(* ioctls interleave with it, also ENCODER_CMD, which takes no lock a job  *)
(* or a queue ioctl holds.                                                 *)
(*                                                                         *)
(* The hardware answers a command with the status that belongs to it, with *)
(* one that hcodec_isr does not know, or not at all.                       *)
(***************************************************************************)
EXTENDS M2m

CONSTANTS Controls,   \* values of the controls: [gop, join, repeat, rc]
          IdMod,      \* idr_pic_id is a number modulo IdMod (65536)
          MayFail     \* whether the canvases of a frame may fail to be set up

ControlValue == [gop : Nat \ {0}, join : BOOLEAN, repeat : BOOLEAN, rc : BOOLEAN]

ASSUME EncoderAssumption ==
  /\ Controls \subseteq ControlValue /\ Controls # {}
  /\ IdMod \in Nat /\ IdMod > 1
  /\ MayFail \in BOOLEAN

VARIABLES
  pc,          \* where the thread that runs the job is
  allocated,   \* the encoder context exists (prepare .. unprepare)
  ctl,         \* the controls as prepare has read them
  cmd,         \* t->cmd
  srcBuf,      \* t->src_buf
  dstBuf,      \* t->dst_buf
  second,      \* t->is_2nd_pass
  isLast,      \* is_last of encoder_done
  hw,          \* HCODEC: "idle", "running", "done" (the thread has not seen it yet)
  starts,      \* ctx->enc_start_count, 3 for all greater values
  frameNumber, \* ctx->init_params.frame_number
  idrPicId,    \* ctx->init_params.idr_pic_id
  isNextIdr,   \* ctx->is_next_idr
  key,         \* OUTPUT buffers with V4L2_BUF_FLAG_KEYFRAME
  boost,       \* how often target_frame_bits was multiplied since it was set
  headed,      \* history: t->dst_buf contains a header
  delivered,   \* history: what CAPTURE has given back: "nothing", "header",
               \* "frames", or "bare" for frames without a header
  lastIdr,     \* history: idr_pic_id of the last IDR frame, IdMod before it and
               \* after a failure
  failed,      \* history: a configuration has failed
  raced,       \* history: STOP took a CAPTURE buffer while a job ran
  overtaken    \* history: STREAMOFF has finished the job whose thread is still in it

taskVars   == <<cmd, srcBuf, dstBuf, second, isLast>>
countVars  == <<starts, frameNumber, idrPicId>>
ctrlVars   == <<ctl, isNextIdr, key>>
races      == <<raced, overtaken>>
history    == <<headed, delivered, lastIdr, failed, races>>
vars == <<m2mVars, pc, allocated, taskVars, hw, countVars, ctrlVars, boost, history>>

Pc  == {"idle", "take", "configure", "wait", "finish", "return", "ended", "abort", "oops"}
Cmd == {"none", "sequence", "picture", "idr", "nonidr"}

TypeOK ==
  /\ M2mTypeOK
  /\ pc \in Pc /\ allocated \in BOOLEAN
  /\ ctl \in Controls /\ cmd \in Cmd
  /\ srcBuf \in SrcBuf \cup {NoBuf} /\ dstBuf \in DstBuf \cup {NoBuf}
  /\ second \in BOOLEAN /\ isLast \in BOOLEAN
  /\ hw \in {"idle", "running", "done"}
  /\ starts \in 0 .. 3 /\ frameNumber \in 0 .. ctl.gop /\ idrPicId \in 0 .. (IdMod - 1)
  /\ isNextIdr \in BOOLEAN /\ key \in SUBSET SrcBuf
  /\ boost \in 0 .. 2
  /\ headed \in BOOLEAN /\ delivered \in {"nothing", "header", "frames", "bare"}
  /\ lastIdr \in 0 .. IdMod /\ failed \in BOOLEAN
  /\ raced \in BOOLEAN /\ overtaken \in BOOLEAN

Init ==
  /\ M2mInit
  /\ pc = "idle" /\ allocated = FALSE
  /\ ctl \in Controls /\ cmd = "none"
  /\ srcBuf = NoBuf /\ dstBuf = NoBuf /\ second = FALSE /\ isLast = FALSE
  /\ hw = "idle"
  /\ starts = 0 /\ frameNumber = 0 /\ idrPicId = 1
  /\ isNextIdr = FALSE /\ key = {}
  /\ boost = 0
  /\ headed = FALSE /\ delivered = "nothing" /\ lastIdr = IdMod
  /\ failed = FALSE /\ raced = FALSE /\ overtaken = FALSE

-----------------------------------------------------------------------------
(* The job.                                                                *)

IsFrame(c) == c \in {"idr", "nonidr"}

\* an IDR frame is due: at the start of a group, or on demand
IsIdr(src) == frameNumber % ctl.gop = 0 \/ src \in key

\* mutant: the header is forgotten once it was encoded in a job of its own
StartCmdAgain(src) ==
  IF starts = 0 \/ (IsIdr(src) /\ starts = 2) THEN "sequence"
  ELSE IF ~IsIdr(src) THEN "nonidr"
  ELSE IF ctl.repeat THEN "sequence" ELSE "idr"

\* mutant: no header before the first frame
StartCmdBare(src) ==
  IF ~IsIdr(src) THEN "nonidr"
  ELSE IF ctl.repeat /\ starts # 2 THEN "sequence" ELSE "idr"

\* the first command of a job
StartCmd(src) ==
  IF starts = 0 THEN "sequence"
  ELSE IF ~IsIdr(src) THEN "nonidr"
  ELSE IF ctl.repeat /\ starts # 2 THEN "sequence" ELSE "idr"

\* a new IDR picture gets a new number, with its header if it has one
NewIdr(c) == c = "sequence" \/ (c = "idr" /\ ~ctl.repeat /\ starts # 2)

\* a header of its own takes no source buffer
TakesSrc(c) == c # "sequence" \/ ctl.join

\* meson_vcodec_m2m_device_run and encoder_start, up to the removal of the
\* destination buffer.  JobReady has seen both buffers, and only STREAMOFF,
\* which waits for the job, and this job could take the source buffer away.
EncoderStart ==
  LET src == Removed("src")
      c   == StartCmd(src)
  IN /\ JobReady /\ pc = "idle"
     /\ job' = "running"
     /\ cmd' = c
     /\ idrPicId' = IF NewIdr(c) THEN (idrPicId + 1) % IdMod ELSE idrPicId
     /\ frameNumber' = IF NewIdr(c) THEN 0 ELSE frameNumber
     /\ srcBuf' = IF TakesSrc(c) THEN src ELSE NoBuf
     /\ rdy' = IF TakesSrc(c) THEN AfterRemove("src") ELSE rdy
     /\ dstBuf' = Removed("dst")
     /\ second' = FALSE
     /\ pc' = "take"
     /\ UNCHANGED <<vb, stream, drainVars, aborted, dropped, allocated, isLast, hw,
                    starts, ctrlVars, boost, history>>

\* v4l2_m2m_dst_buf_remove_by_buf; a buffer STOP has taken in the meantime is
\* removed a second time from the list it left
TakeDst ==
  /\ pc = "take" /\ allocated
  /\ LET there == Ready("dst") /\ Removed("dst") = dstBuf
     IN /\ pc' = IF there THEN "configure" ELSE "oops"
        /\ rdy' = IF there THEN AfterRemove("dst") ELSE rdy
  /\ UNCHANGED <<vb, stream, job, drainVars, aborted, dropped, allocated, taskVars, hw,
                 countVars, ctrlVars, boost, history>>

\* mutant: in every pass
BoostsEachPass == ctl.rc /\ cmd = "idr"

\* amlvenc_h264_cbr_frame_prepare, in the first pass of an IDR frame
Boosts == ctl.rc /\ cmd = "idr" /\ ~second

FramePrepare == boost' = IF Boosts /\ boost < 2 THEN boost + 1 ELSE boost

\* encoder_loop: configure the hardware and give it the command
Configure ==
  /\ pc = "configure" /\ allocated
  /\ FramePrepare
  /\ starts' = IF starts < 3 THEN starts + 1 ELSE starts
  /\ hw' = "running"
  /\ pc' = "wait"
  /\ UNCHANGED <<m2mVars, allocated, taskVars, frameNumber, idrPicId, ctrlVars, history>>

\* ... or give up: encoder_init_mdfin fails, the buffers go back and the job
\* is over
ConfigureFails ==
  /\ MayFail
  /\ pc = "configure" /\ allocated /\ IsFrame(cmd)
  /\ FramePrepare
  /\ hw' = "idle"
  /\ vb' = BufDone(BufDone(vb, srcBuf, "error"), dstBuf, "error")
  /\ srcBuf' = NoBuf /\ dstBuf' = NoBuf
  /\ JobFinish
  /\ pc' = "idle"
  /\ failed' = TRUE /\ headed' = FALSE /\ lastIdr' = IdMod
  /\ UNCHANGED <<rdy, stream, drainVars, aborted, dropped, allocated, cmd, second, isLast,
                 countVars, ctrlVars, delivered, races>>

\* no interrupt: encoder_abort stops the hardware and marks the context stopped,
Timeout ==
  /\ pc = "wait" /\ allocated
  /\ hw = "running"
  /\ hw' = "idle"
  /\ MarkStopped
  /\ pc' = "abort"
  /\ UNCHANGED <<vb, rdy, stream, job, aborted, dropped, allocated, taskVars, countVars,
                 ctrlVars, boost, history>>

\* mutant: the source buffer is kept
AbortKeeps == {dstBuf}

AbortReturns == {srcBuf, dstBuf}

\* ... gives back the buffers - vb2 refuses one it has taken back already - and,
\* as it has none any more, does not finish the job
AbortEnds ==
  /\ pc = "abort" /\ allocated
  /\ vb' = [b \in Buf |-> IF b \in AbortReturns /\ vb[b] = "active" THEN "error" ELSE vb[b]]
  /\ srcBuf' = NoBuf /\ dstBuf' = NoBuf
  /\ pc' = "idle" /\ overtaken' = FALSE
  /\ UNCHANGED <<rdy, stream, job, drainVars, aborted, dropped, allocated, cmd, second, isLast,
                 hw, countVars, ctrlVars, boost, headed, delivered, lastIdr, failed, raced>>

-----------------------------------------------------------------------------
(* encoder_done.                                                           *)

Woken == pc = "wait" /\ allocated /\ hw = "done"

\* mutant: the second pass is not remembered
NeedsSecondAgain == ctl.rc /\ cmd = "idr"

NeedsSecond == ctl.rc /\ cmd = "idr" /\ ~second

SecondPass ==
  /\ Woken
  /\ NeedsSecond
  /\ second' = TRUE
  /\ hw' = "idle" /\ pc' = "configure"
  /\ UNCHANGED <<m2mVars, allocated, cmd, srcBuf, dstBuf, isLast, countVars, ctrlVars,
                 boost, history>>

\* the header goes on: PICTURE after SEQUENCE, and the frame after PICTURE
\* when both go into one buffer
NextPart ==
  /\ Woken
  /\ \/ cmd = "sequence" /\ cmd' = "picture" /\ UNCHANGED headed
     \/ cmd = "picture" /\ ctl.join /\ cmd' = "idr" /\ headed' = TRUE
  /\ hw' = "idle" /\ pc' = "configure"
  /\ UNCHANGED <<m2mVars, allocated, srcBuf, dstBuf, second, isLast, countVars, ctrlVars,
                 boost, delivered, lastIdr, failed, races>>

\* the job's output is complete.  amlvenc_h264_cbr_frame_done sets the target
\* anew, and the source buffer goes back,
JobDone ==
  /\ Woken
  /\ \/ IsFrame(cmd) /\ ~NeedsSecond
     \/ cmd = "picture" /\ ~ctl.join
  /\ boost' = IF IsFrame(cmd) /\ ctl.rc THEN 0 ELSE boost
  /\ vb' = IF IsFrame(cmd) THEN BufDone(vb, srcBuf, "done") ELSE vb
  /\ srcBuf' = NoBuf
  /\ headed' = (headed \/ cmd = "picture")
  /\ hw' = "idle" /\ pc' = "finish"
  /\ UNCHANGED <<rdy, stream, job, drainVars, aborted, dropped, allocated, cmd, dstBuf,
                 second, isLast, countVars, ctrlVars, delivered, lastIdr, failed, races>>

\* ... then the draining state is read: is_last
LastOfDrain ==
  /\ pc = "finish" /\ allocated
  /\ isLast' = (isDraining /\ ~Ready("src"))
  /\ pc' = "return"
  /\ UNCHANGED <<m2mVars, allocated, cmd, srcBuf, dstBuf, second, hw, countVars, ctrlVars,
                 boost, history>>

\* history: what userspace has now
Deliver ==
  /\ delivered' = IF ~IsFrame(cmd) THEN IF delivered = "nothing" THEN "header" ELSE delivered
                  ELSE IF delivered = "bare" \/ (delivered = "nothing" /\ ~headed)
                  THEN "bare" ELSE "frames"
  /\ lastIdr' = IF cmd = "idr" /\ ~failed THEN idrPicId ELSE lastIdr
  /\ headed' = FALSE

\* the destination buffer goes back; the last one stops the context,
Finish ==
  /\ pc = "return" /\ allocated
  /\ vb' = BufDone(vb, dstBuf, "done")
  /\ IF isLast THEN MarkStopped ELSE UNCHANGED drainVars
  /\ isLast' = FALSE
  /\ Deliver
  /\ pc' = "ended"
  /\ UNCHANGED <<rdy, stream, job, aborted, dropped, allocated, cmd, srcBuf, dstBuf, second, hw,
                 countVars, ctrlVars, boost, failed, races>>

\* ... the thread takes leave of the buffer, counts the frame, and the job is over
EndJob ==
  /\ pc = "ended" /\ allocated
  /\ dstBuf' = NoBuf
  /\ frameNumber' = IF IsFrame(cmd) THEN frameNumber + 1 ELSE frameNumber
  /\ JobFinish
  /\ pc' = "idle" /\ overtaken' = FALSE
  /\ UNCHANGED <<vb, rdy, stream, drainVars, aborted, dropped, allocated, cmd, srcBuf, second,
                 isLast, hw, starts, idrPicId, ctrlVars, boost, headed, delivered, lastIdr,
                 failed, raced>>

\* the thread goes on in a context that unprepare has freed
UseAfterFree ==
  /\ pc \notin {"idle", "oops"} /\ ~allocated
  /\ pc' = "oops"
  /\ UNCHANGED <<m2mVars, allocated, taskVars, hw, countVars, ctrlVars, boost, history>>

\* hcodec_isr completes the wait
Isr ==
  /\ hw = "running"
  /\ hw' = "done"
  /\ UNCHANGED <<m2mVars, pc, allocated, taskVars, countVars, ctrlVars, boost, history>>

-----------------------------------------------------------------------------
(* The ioctls.                                                             *)

Other(q) == IF q = "src" THEN "dst" ELSE "src"

\* meson_vcodec_buf_queue, which calls encoder_h264_queue for a buffer it has
\* queued
UserQBuf(b) ==
  LET queued == QueueOf(b) = "src" /\ ~aborted
  IN /\ QBuf(b)
     /\ key' = IF queued /\ isNextIdr THEN key \cup {b} ELSE key \ {b}
     /\ isNextIdr' = (isNextIdr /\ ~queued)
     /\ UNCHANGED <<pc, allocated, taskVars, hw, countVars, ctl, boost, history>>

\* h264_encoder_s_ctrl
ForceKeyFrame ==
  /\ allocated
  /\ isNextIdr' = TRUE
  /\ UNCHANGED <<m2mVars, pc, allocated, taskVars, hw, countVars, ctl, key, boost, history>>

\* encoder_h264_prepare
Prepare ==
  /\ allocated' = TRUE
  /\ ctl' \in Controls
  /\ cmd' = "none" /\ second' = FALSE /\ isLast' = FALSE
  /\ starts' = 0 /\ frameNumber' = 0 /\ idrPicId' = 1
  /\ isNextIdr' = FALSE /\ boost' = 0
  /\ headed' = FALSE /\ delivered' = "nothing" /\ lastIdr' = IdMod /\ failed' = FALSE

\* the first of the two queues prepares the codec
StreamOn(q) ==
  /\ StreamOnQueue(q)
  /\ IF stream[Other(q)] = "on"
       THEN UNCHANGED <<allocated, cmd, second, isLast, countVars, ctl, isNextIdr, boost,
                        headed, delivered, lastIdr, failed>>
       ELSE Prepare
  /\ UNCHANGED <<pc, srcBuf, dstBuf, hw, key, races>>

\* the job has a CAPTURE buffer that is still to be given back
HasBuffer == pc \notin {"idle", "ended", "oops"}

\* ENCODER_CMD
EncoderCmd ==
  /\ \/ CmdStart /\ UNCHANGED raced
     \/ CmdStop /\ raced' = (raced \/ (HasBuffer /\ ~Ready("src") /\ Ready("dst")))
  /\ UNCHANGED <<pc, allocated, taskVars, hw, countVars, ctrlVars, boost, headed, delivered,
                 lastIdr, failed, overtaken>>

\* mutant: also when a thread is inside the job
AbortFinishesAny == TRUE

\* encoder_h264_abort finishes the job only if the context has stopped
AbortFinishes == hasStopped

\* STREAMOFF: v4l2_m2m_cancel_job calls job_abort when a job runs.  A context is
\* marked as stopped before the thread of its last job is through.
StreamOff(q) ==
  /\ LockFree /\ stream[q] = "on"
  /\ stream' = [stream EXCEPT ![q] = "cancel"]
  /\ aborted' = (aborted \/ job = "running")
  /\ job' = IF AbortFinishes THEN "none" ELSE job
  /\ overtaken' = (overtaken \/ (hasStopped /\ pc \in {"ended", "abort"}))
  /\ UNCHANGED <<vb, rdy, drainVars, dropped, pc, allocated, taskVars, hw, countVars,
                 ctrlVars, boost, headed, delivered, lastIdr, failed, raced>>

\* v4l2_m2m_cancel_job has returned: encoder_h264_stop and
\* meson_vcodec_stop_streaming give back the ready queue, vb2 takes what is
\* still active.  The second queue to go off frees the encoder context.
StopStreaming(q) ==
  LET taken == IF StopTakesDst(q) THEN Removed("dst") ELSE NoBuf
  IN /\ stream[q] = "cancel" /\ job = "none"
     /\ vb' = [b \in Buf |->
          IF b = taken THEN "done"
          ELSE IF QueueOf(b) = q /\ vb[b] = "active" THEN "error" ELSE vb[b]]
     /\ rdy' = [r \in Queue |-> IF r = q THEN << >>
                                 ELSE IF taken # NoBuf THEN Tail(rdy[r]) ELSE rdy[r]]
     /\ UpdateStopState(q)
     /\ dropped' = {b \in dropped : QueueOf(b) # q}
     /\ stream' = [stream EXCEPT ![q] = "off"]
     /\ allocated' = (allocated /\ stream[Other(q)] # "off")
     /\ UNCHANGED <<job, aborted, pc, taskVars, hw, countVars, ctrlVars, boost, history>>

\* S_FMT and REQBUFS on both queues, the only way back from "off".  A thread that
\* STREAMOFF has left behind is then in a freed context, whatever comes next.
Reconfigure ==
  /\ \A q \in Queue : stream[q] \in {"idle", "off"}
  /\ \E q \in Queue : stream[q] = "off"
  /\ pc = "idle"
  /\ stream' = [q \in Queue |-> "idle"]
  /\ aborted' = FALSE
  /\ UNCHANGED <<vb, rdy, job, drainVars, dropped, pc, allocated, taskVars, hw, countVars,
                 ctrlVars, boost, history>>

-----------------------------------------------------------------------------
Job == \/ EncoderStart \/ TakeDst \/ Configure \/ ConfigureFails \/ Timeout \/ AbortEnds
       \/ SecondPass \/ NextPart \/ JobDone \/ LastOfDrain \/ Finish \/ EndJob \/ UseAfterFree

Stop == \E q \in Queue : StopStreaming(q)

Ioctl == \/ \E b \in Buf : UserQBuf(b)
         \/ \E q \in Queue : StreamOn(q) \/ StreamOff(q)
         \/ ForceKeyFrame \/ EncoderCmd \/ Reconfigure

\* a freed context or a broken list stops the kernel
Next == pc # "oops" /\ (Job \/ Isr \/ Stop \/ Ioctl)

Spec == Init /\ [][Next]_vars

\* The kernel schedules the thread that runs a job and the one in STREAMOFF;
\* wait_for_completion_timeout returns.  Nothing is assumed of the hardware and
\* of userspace.
FairSpec == Spec /\ WF_vars(pc # "oops" /\ Job) /\ WF_vars(pc # "oops" /\ Stop)

-----------------------------------------------------------------------------
(* Properties.  ENCODER_CMD STOP that finds the source queue empty while a   *)
(* job has its last buffer takes a CAPTURE buffer as the last one before the *)
(* job's (v4l2-mem2mem knows nothing of the job's): from then on (raced) the *)
(* order of the buffers, and the lists, are at the mercy of the timing.      *)

InTask == {srcBuf, dstBuf} \ {NoBuf}

\* encoder_start has not removed the destination buffer from its list yet
\* ("take"), encoder_done has given it back ("ended"), or vb2 has taken it back
\* from a thread that STREAMOFF did not wait for
Taken == {b \in InTask : /\ b = dstBuf => pc \notin {"take", "ended"}
                         /\ overtaken => vb[b] = "active"}

\* Each buffer that is the driver's is in one place: a ready queue or the job,
\* or it was dropped by meson_vcodec_buf_queue; also when a job ends, or is given
\* up, while STREAMOFF clears the queues.  Code: every *_buf_remove and
\* v4l2_m2m_buf_done of encoder_h264.c.
BufferConservation ==
  ~raced /\ pc # "oops" =>
    /\ Active = InReady \cup Taken \cup dropped
    /\ InReady \cap Taken = {} /\ dropped \cap (InReady \cup Taken) = {}
    /\ \A q \in Queue : IsInjective(rdy[q])
    /\ pc = "idle" => InTask = {}

\* The driver removes no buffer from a list it has left, and while its thread is
\* in a job the context stays.  There is one way out: encoder_done and
\* encoder_abort mark the context stopped before they are through with it, and
\* encoder_h264_abort takes that for the end of the job.  Both STREAMOFFs may then
\* pass a thread that is in encoder_done's last lines or in encoder_abort, and free
\* its context (overtaken); nothing else may, and no thread that got away in time
\* leaves a trace.  Code: encoder_start, encoder_h264_abort, encoder_h264_unprepare.
NoCrash == pc = "oops" => raced \/ overtaken

\* Userspace gets the header before, or with, the first frame, unless the frame
\* that was to follow a joined header could not be configured: the header is
\* lost with its buffer then ("Always before the first frame").
HeaderFirst == delivered = "bare" => failed

\* A header is followed by an IDR frame - in the same job or, for the first
\* header, in the next ("IDR by the next encoder_start").  Not so the later
\* headers of separate buffers: there each header is followed by another.
HeaderThenIdr ==
  [][cmd = "picture" /\ cmd' # "picture" /\ (~ctl.repeat \/ ctl.join \/ starts = 2) =>
       cmd' \in {"idr", "none"}]_vars

\* An IDR frame has frame_number 0 and, in both its passes, another idr_pic_id
\* than the IDR frame before, as H.264 demands (numbers are lost with frames that
\* fail: IdMod of them in a row bring back the same).
IdrNumbers ==
  pc = "wait" /\ cmd = "idr" =>
    /\ frameNumber = 0
    /\ ~failed => idrPicId # lastIdr

\* Another frame comes after an IDR frame that was delivered, less than a group
\* of pictures before; a frame userspace wants as key frame is not one.
InGroup ==
  pc = "wait" /\ cmd = "nonidr" =>
    /\ delivered \in {"frames", "bare"}
    /\ frameNumber \in 1 .. (ctl.gop - 1)
    /\ ~raced => srcBuf \notin key

\* The stream has the order H.264 demands: a header, then groups of pictures that
\* begin with an IDR frame of their own number.  Code: encoder_start, encoder_done.
GroupsInOrder == HeaderFirst /\ IdrNumbers /\ InGroup

\* The target of the rate control is raised at most once for an IDR frame,
\* which has two passes and perhaps a header in its job, as long as its
\* configuration does not fail.  Code: encoder_config_qp.
BoostedOnce == boost > 1 => failed

\* encoder_abort has returned without finishing the job
Stuck == job = "running" /\ pc = "idle"

\* A job ends in any case: finished, or aborted.
JobEnds == job = "running" ~> job = "none" \/ Stuck \/ pc = "oops"

\* A job an abort has left unfinished is finished by STREAMOFF ("let finish the
\* job once again to prevent v4l2-m2m hanging forever").
StreamOffReturns ==
  \A q \in Queue : stream[q] = "cancel" ~> stream[q] = "off" \/ pc = "oops"

=============================================================================
