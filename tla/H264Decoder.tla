----------------------------- MODULE H264Decoder -----------------------------
(***************************************************************************)
(* The H.264 decoder job (decoder_h264.c) between v4l2-mem2mem and VDEC1.   *)
(* As in MpegDecoder the job, the interrupt handler and the ioctls          *)
(* interleave.  What differs: the CAPTURE buffer is taken in the middle of  *)
(* the job, when the hardware has parsed a slice header; one job is a       *)
(* dialogue of several commands and interrupts; the two fields of a frame   *)
(* are two pictures that share a buffer.                                    *)
(***************************************************************************)
EXTENDS M2m, H264Dpb

CONSTANTS Streams,   \* streams, each as the set of its slice headers
          Sizes,     \* the sizes of the picture buffer it may ask for
          MaxPosts,  \* bound: interrupts the hardware raises in one job
          MaxIdr,    \* bound: IDR pictures, so that sequences do not wrap
          MbWidth, MbHeight, NumBuffers, MaxEntries, MaxCount  \* see H264Hw

\* what the firmware writes of a slice header; MMCO 3 has a second parameter
MemoryCommand ==
  {c \in [op : {"short_unused", "long_unused", "assign_long", "max_long_idx", "reset",
                "current_long"}, args : Seq(Int)] : c.op = "assign_long" => c.args # << >>}
ReorderCommand == [op : {"decrease", "increase", "long"}, arg : Nat]

Header == [idr : BOOLEAN, ref : BOOLEAN, structure : Structure, slice : {"I", "P", "B"},
           num : 0 .. (MaxFrameNum - 1), poc : 0 .. (PocMod - 1), longTerm : BOOLEAN,
           commands : Seq(MemoryCommand), reorder0 : Seq(ReorderCommand),
           reorder1 : Seq(ReorderCommand)]

ASSUME H264Assumption ==
  /\ Frame = DstBuf /\ NoFrame = NoBuf
  /\ Streams \subseteq SUBSET Header
  /\ Sizes \subseteq Nat /\ MaxPosts \in Nat /\ MaxIdr \in 0 .. (SequenceMod - 1)

\* pictures are not empty, the list registers have 32 entries, and counts fit into
\* the 16 bits of a picture's
ASSUME H264HwAssumption ==
  /\ MbWidth \in Nat \ {0} /\ MbHeight \in Nat \ {0} /\ NumBuffers \in Nat
  /\ MaxEntries \in 0 .. 32 /\ MaxCount \in 0 .. 65535

Hw == INSTANCE H264Hw

VARIABLES
  pc,           \* where the thread running the job is
  allocated,    \* the decoder context exists (prepare .. unprepare)
  srcBuf,       \* t->src_buf
  dpbPic,       \* t->dpb_pic
  pendingField, \* ctx->pending_field, a first field that waits for its second
  reason,       \* what the flush the job is in belongs to
  hw,           \* VDEC1: "off", "running", "halted" (status posted)
  command,      \* ctx->cmd
  completion,   \* ctx->decoder_completion has been completed
  status,       \* ctx->status; "error" stands for ctx->error # 0
  posts,        \* interrupts raised in this job
  headers,      \* the stream
  overrun,      \* history: the job's thread outlived its m2m job or its context
  starved       \* history: a header came and no CAPTURE buffer was left

jobVars == <<pc, srcBuf, dpbPic, pendingField, reason>>
hwVars  == <<hw, command, completion, status, posts>>
history == <<headers, overrun, starved>>
vars    == <<m2mVars, dpbVars, jobVars, hwVars, allocated, history>>

Pc      == {"idle", "wait", "flush", "eos", "oops"}
Reason  == {"header", "done", "abort"}
Status  == {"none", "config", "head", "sei", "picture", "error"}

TypeOK ==
  /\ M2mTypeOK /\ DpbTypeOK
  /\ pc \in Pc /\ reason \in Reason
  /\ allocated \in BOOLEAN
  /\ srcBuf \in SrcBuf \cup {NoBuf}
  /\ dpbPic \in Slot \cup {NoSlot} /\ pendingField \in Slot \cup {NoSlot}
  /\ hw \in {"off", "running", "halted"}
  /\ command \in {"search", "newpic"}
  /\ completion \in BOOLEAN /\ status \in Status /\ posts \in 0 .. MaxPosts
  /\ headers \in Streams
  /\ overrun \in BOOLEAN /\ starved \in BOOLEAN

Init ==
  /\ M2mInit /\ DpbInit
  /\ pc = "idle" /\ reason = "done" /\ allocated = FALSE
  /\ srcBuf = NoBuf /\ dpbPic = NoSlot /\ pendingField = NoSlot
  /\ hw = "off" /\ command = "search" /\ completion = FALSE /\ status = "none"
  /\ posts = 0
  /\ headers \in Streams
  /\ overrun = FALSE /\ starved = FALSE

-----------------------------------------------------------------------------
(* The job.                                                                *)

\* decoder_loop up to its wait: forget completions and the status, then give
\* the hardware its command
DecoderLoop(cmd) ==
  /\ hw' = "running" /\ command' = cmd
  /\ completion' = FALSE /\ status' = "none"
  /\ pc' = "wait"

\* meson_vcodec_m2m_device_run and decoder_start
DecoderStart ==
  /\ JobReady /\ pc = "idle"
  /\ job' = "running"
  /\ srcBuf' = Removed("src")
  /\ rdy' = AfterRemove("src")
  /\ DecoderLoop("search") /\ posts' = 0
  /\ UNCHANGED <<vb, stream, drainVars, aborted, dropped, dpbVars, dpbPic, pendingField,
                 reason, allocated, history>>

\* decoder_abort up to its flush
Abort ==
  /\ hw' = "off"
  /\ MarkStopped
  /\ vb' = BufDone(vb, srcBuf, "error")
  /\ srcBuf' = NoBuf
  /\ pc' = "flush" /\ reason' = "abort"
  /\ UNCHANGED <<stream, job, aborted, dropped, command, completion, status, posts,
                 allocated, headers, overrun>>

Timeout ==
  /\ pc = "wait" /\ allocated
  /\ ~completion
  /\ Abort
  /\ UNCHANGED <<rdy, dpbVars, dpbPic, pendingField, starved>>

Woken(s) == pc = "wait" /\ allocated /\ completion /\ status = s

\* ctx->error, the error statuses and the statuses nobody handles
DecodeError ==
  /\ Woken("error")
  /\ Abort
  /\ UNCHANGED <<rdy, dpbVars, dpbPic, pendingField, starved>>

\* H264_CONFIG_REQUEST: the picture buffer is given its size
ConfigRequest ==
  /\ Woken("config")
  /\ \E wanted \in Sizes : size' = AdjustedSize(wanted)
  /\ DecoderLoop("search")
  /\ UNCHANGED <<m2mVars, slots, sequence, list0, list1, srcBuf, dpbPic, pendingField,
                 reason, posts, allocated, history>>

\* H264_SEI_DATA_READY, H264_AUX_DATA_READY: ignored
IgnoreData ==
  /\ Woken("sei")
  /\ DecoderLoop(command)
  /\ UNCHANGED <<m2mVars, dpbVars, srcBuf, dpbPic, pendingField, reason, posts,
                 allocated, history>>

\* the headers that may come: a stream starts with an IDR picture, and sequence
\* numbers do not wrap within the bound
Coming == {h \in headers : IF h.idr THEN sequence < MaxIdr ELSE sequence > 0}

\* vdec_h264_header_done without a free slot: -EXFULL
PictureBufferFull ==
  /\ Woken("head")
  /\ Free = {} /\ Coming # {}
  /\ dpbPic' = NoSlot
  /\ Abort
  /\ UNCHANGED <<rdy, dpbVars, pendingField, starved>>

IsSecondField(p, h) == Matches(Added(p, h), SequenceAfter(h), pendingField, h)

\* mutant: both fields of a frame own the buffer
SecondFieldOwnsToo(p, h) ==
  /\ IsSecondField(p, h)
  /\ NewPic(p, h)
  /\ slots' = [Added(p, h) EXCEPT
       ![p] = [@ EXCEPT !.buffer = Added(p, h)[pendingField].buffer]]
  /\ pendingField' = NoSlot
  /\ UNCHANGED <<vb, rdy>>

\* the second field of a frame goes into the buffer of the first, and takes
\* over giving it back
SecondField(p, h) ==
  /\ IsSecondField(p, h)
  /\ NewPic(p, h)
  /\ slots' = [Added(p, h) EXCEPT
       ![p] = [@ EXCEPT !.buffer = Added(p, h)[pendingField].buffer],
       ![pendingField] = [@ EXCEPT !.output = FALSE]]
  /\ pendingField' = NoSlot
  /\ UNCHANGED <<vb, rdy>>

\* every other picture takes a CAPTURE buffer; a first field waits for its second
FirstField(p, h) ==
  /\ ~IsSecondField(p, h)
  /\ NewPic(p, h)
  /\ slots' = [Added(p, h) EXCEPT ![p] = [@ EXCEPT !.buffer = Removed("dst")]]
  /\ rdy' = AfterRemove("dst")
  /\ pendingField' = IF h.structure = "frame" THEN NoSlot ELSE p
  /\ UNCHANGED vb

\* H264_SLICE_HEAD_DONE: vdec_h264_header_done up to its flush.  A match whose
\* picture has no buffer is a NULL dereference.
HeaderDone ==
  /\ Woken("head")
  /\ Free # {}
  /\ \E h \in Coming :
       \/ SecondField(FirstFree, h)
       \/ Ready("dst") /\ FirstField(FirstFree, h)
  /\ dpbPic' = FirstFree
  /\ reason' = "header"
  /\ pc' = IF slots'[FirstFree].buffer = NoBuf THEN "oops" ELSE "flush"
  /\ UNCHANGED <<stream, job, drainVars, aborted, dropped, srcBuf, hwVars, allocated,
                 history>>

\* ... and without a CAPTURE buffer: -ENOSR; the picture stays in its slot
NoDestination ==
  /\ Woken("head")
  /\ Free # {} /\ ~Ready("dst")
  /\ \E h \in Coming :
       /\ ~IsSecondField(FirstFree, h)
       /\ NewPic(FirstFree, h)
       /\ slots' = Added(FirstFree, h)
  /\ dpbPic' = FirstFree
  /\ Abort
  /\ starved' = TRUE
  /\ UNCHANGED <<rdy, pendingField>>

\* H264_PIC_DATA_DONE: decoder_done up to its flush
DecoderDone ==
  /\ Woken("picture")
  /\ hw' = "off"
  /\ vb' = BufDone(vb, srcBuf, "done")
  /\ srcBuf' = NoBuf
  /\ PicDone(dpbPic)
  /\ pc' = "flush" /\ reason' = "done"
  /\ UNCHANGED <<rdy, stream, job, drainVars, aborted, dropped, dpbPic, pendingField,
                 command, completion, status, posts, allocated, history>>

\* one iteration of amlvdec_h264_dpb_flush_output with picture_done: the picture
\* that owns its buffer gives it back
OutputPicture(s) ==
  /\ vb' = IF slots[s].output
             THEN BufDone(vb, slots[s].buffer,
                          IF slots[s].state = "init" THEN "error" ELSE "done")
             ELSE vb
  /\ RecyclePic(s)

\* a NULL buffer is dereferenced
Faults(s) == slots[s].output /\ slots[s].buffer = NoBuf

FlushAll == reason = "abort"

FlushStep ==
  /\ pc = "flush" /\ allocated
  /\ \E s \in Outputs(FlushAll) :
       /\ OutputPicture(s)
       /\ pc' = IF Faults(s) THEN "oops" ELSE pc
  /\ UNCHANGED <<rdy, stream, job, drainVars, aborted, dropped, srcBuf, dpbPic,
                 pendingField, reason, hwVars, allocated, history>>

\* after the flush of a header: the canvases of all pictures are configured,
\* which needs their buffers, and the hardware decodes
DecodeNewPic ==
  /\ pc = "flush" /\ allocated
  /\ reason = "header" /\ Outputs(FALSE) = {}
  /\ IF \E s \in InUse : slots[s].buffer = NoBuf
       THEN pc' = "oops" /\ UNCHANGED <<hw, command, completion, status>>
       ELSE DecoderLoop("newpic")
  /\ UNCHANGED <<m2mVars, dpbVars, srcBuf, dpbPic, pendingField, reason, posts,
                 allocated, history>>

\* the end of decoder_done and of decoder_abort; the latter leaves t->dpb_pic
\* and ctx->pending_field as they are
FinishJob ==
  /\ pc = "flush" /\ allocated
  /\ reason # "header" /\ Outputs(FlushAll) = {}
  /\ JobFinish
  /\ dpbPic' = IF reason = "done" THEN NoSlot ELSE dpbPic
  /\ pc' = IF reason = "abort" THEN "eos" ELSE "idle"
  /\ UNCHANGED <<vb, rdy, stream, drainVars, aborted, dropped, dpbVars, srcBuf,
                 pendingField, reason, hwVars, allocated, history>>

\* decoder_abort reads ctx->session after it has finished the job
QueueEos ==
  /\ pc = "eos" /\ allocated
  /\ pc' = "idle"
  /\ UNCHANGED <<m2mVars, dpbVars, srcBuf, dpbPic, pendingField, reason, hwVars,
                 allocated, history>>

\* the job thread touches a context unprepare has freed
UseAfterFree ==
  /\ pc \notin {"idle", "oops"} /\ ~allocated
  /\ pc' = "oops"
  /\ UNCHANGED <<m2mVars, dpbVars, srcBuf, dpbPic, pendingField, reason, hwVars,
                 allocated, history>>

-----------------------------------------------------------------------------
(* The hardware and vdec1_isr.                                             *)

\* a picture is done only after its header, and more headers may follow the
\* first; H264_WRRSP_REQUEST is answered by the handler and wakes nobody
Isr ==
  /\ hw = "running" /\ posts < MaxPosts
  /\ \E s \in Status \ {"none"} :
       /\ s = "picture" => command = "newpic"
       /\ status' = s
  /\ completion' = TRUE
  /\ hw' = "halted"
  /\ posts' = posts + 1
  /\ UNCHANGED <<m2mVars, dpbVars, jobVars, command, allocated, history>>

-----------------------------------------------------------------------------
(* The ioctls, as in MpegDecoder.                                          *)

Other(q) == IF q = "src" THEN "dst" ELSE "src"

UserQBuf(b) == QBuf(b) /\ UNCHANGED <<dpbVars, jobVars, hwVars, allocated, history>>

\* the first of the two queues prepares the codec, with a zeroed context
StreamOn(q) ==
  /\ StreamOnQueue(q)
  /\ allocated' = TRUE
  /\ IF stream[Other(q)] = "on"
       THEN UNCHANGED <<dpbVars, dpbPic, pendingField>>
       ELSE /\ DpbReset
            /\ dpbPic' = NoSlot /\ pendingField' = NoSlot
  /\ UNCHANGED <<pc, srcBuf, reason, hwVars, history>>

DecoderCmd ==
  (CmdStop \/ CmdStart) /\ UNCHANGED <<dpbVars, jobVars, hwVars, allocated, history>>

\* STREAMOFF: decoder_h264_abort finishes a running job if the context has
\* stopped
StreamOff(q) ==
  /\ LockFree /\ stream[q] = "on"
  /\ stream' = [stream EXCEPT ![q] = "cancel"]
  /\ aborted' = (aborted \/ job = "running")
  /\ job' = IF hasStopped THEN "none" ELSE job
  /\ overrun' = (overrun \/ (job = "running" /\ hasStopped))
  /\ UNCHANGED <<vb, rdy, drainVars, dropped, dpbVars, jobVars, hwVars, allocated,
                 headers, starved>>

\* decoder_h264_stop on the CAPTURE queue: one iteration of its flush
StopFlushStep ==
  /\ stream["dst"] = "cancel" /\ job = "none"
  /\ \E s \in Outputs(TRUE) :
       /\ OutputPicture(s)
       /\ pc' = IF Faults(s) THEN "oops" ELSE pc
  /\ UNCHANGED <<rdy, stream, job, drainVars, aborted, dropped, srcBuf, dpbPic,
                 pendingField, reason, hwVars, allocated, history>>

\* stopping the CAPTURE queue flushes the whole picture buffer
StopFlushed(q) == q = "dst" => Outputs(TRUE) = {}

\* the rest of decoder_h264_stop and meson_vcodec_stop_streaming.  vb2 takes
\* what is still active by force; the second queue to go off frees the context.
StopStreaming(q) ==
  LET taken == IF StopTakesDst(q) THEN Removed("dst") ELSE NoBuf
      last  == stream[Other(q)] = "off"
  IN
  /\ stream[q] = "cancel" /\ job = "none"
  /\ StopFlushed(q)
  /\ vb' = [b \in Buf |->
       IF b = taken THEN "done"
       ELSE IF QueueOf(b) = q /\ vb[b] = "active" THEN "error" ELSE vb[b]]
  /\ rdy' = [r \in Queue |-> IF r = q THEN << >>
                              ELSE IF taken # NoBuf THEN Tail(rdy[r]) ELSE rdy[r]]
  /\ UpdateStopState(q)
  /\ dropped' = {b \in dropped : QueueOf(b) # q}
  /\ stream' = [stream EXCEPT ![q] = "off"]
  /\ allocated' = (allocated /\ ~last)
  /\ overrun' = (overrun \/ (last /\ pc # "idle"))
  /\ UNCHANGED <<job, aborted, dpbVars, jobVars, hwVars, headers, starved>>

\* S_FMT and REQBUFS on both queues, the only way back from "off"
Reconfigure ==
  /\ \A q \in Queue : stream[q] \in {"idle", "off"}
  /\ \E q \in Queue : stream[q] = "off"
  /\ pc = "idle"
  /\ stream' = [q \in Queue |-> "idle"]
  /\ aborted' = FALSE
  /\ UNCHANGED <<vb, rdy, job, drainVars, dropped, dpbVars, jobVars, hwVars, allocated,
                 history>>

-----------------------------------------------------------------------------
Job == \/ DecoderStart \/ Timeout \/ DecodeError \/ ConfigRequest \/ IgnoreData
       \/ PictureBufferFull \/ HeaderDone \/ NoDestination \/ DecoderDone
       \/ FlushStep \/ DecodeNewPic \/ FinishJob \/ QueueEos \/ UseAfterFree

Stop == StopFlushStep \/ \E q \in Queue : StopStreaming(q)

Ioctl == \/ \E b \in Buf : UserQBuf(b)
         \/ \E q \in Queue : StreamOn(q) \/ StreamOff(q)
         \/ DecoderCmd
         \/ Reconfigure

\* a NULL dereference stops the kernel
Next == pc # "oops" /\ (Job \/ Isr \/ Stop \/ Ioctl)

Spec == Init /\ [][Next]_vars

-----------------------------------------------------------------------------
(* What the driver promises.                                               *)

InTask == {srcBuf} \ {NoBuf}

\* the pictures that will give their buffer back
Owner == {s \in InUse : slots[s].output}
Owned == {slots[s].buffer : s \in Owner}

Conserved ==
  /\ Active = InReady \cup InTask \cup Owned \cup dropped
  /\ InReady \cap InTask = {} /\ InReady \cap Owned = {}
  /\ dropped \cap (InReady \cup InTask \cup Owned) = {}
  /\ \A s, t \in Owner : s # t => slots[s].buffer # slots[t].buffer
  /\ \A q \in Queue : IsInjective(rdy[q])

\* Buffer conservation: a buffer the driver was given is in a ready queue, in the
\* task, or owned by exactly one picture, also when two fields share it - or was
\* dropped by meson_vcodec_buf_queue.  So none is returned twice and none lost.
\* Code: every v4l2_m2m_buf_done and *_buf_remove of decoder_h264.c, is_output.
BufferConservation == ~overrun /\ ~starved /\ pc # "oops" => Conserved

\* A picture in the picture buffer has a buffer of the driver's, whether it owns
\* it or a second field does: the hardware never reads or writes a buffer that
\* is back with userspace.
PicturesBacked ==
  ~overrun /\ ~starved /\ pc # "oops" => \A s \in InUse : slots[s].buffer \in Owned

\* Every picture of the two reference lists is still a reference when the
\* hardware is told to decode, after the flush that came between.
ListsValid ==
  pc = "wait" /\ command = "newpic" /\ ~overrun =>
    \A s \in Range(list0) \cup Range(list1) :
      slots[s].state = "ref_in_use" /\ slots[s].buffer # NoBuf

\* The driver takes for granted that a picture does not undo its own marking, a
\* "reset" (MMCO 5) after the command that makes it a long-term reference, and that
\* the second field of a frame is displayed after the first.
KeepsItself(h) ==
  \A i, j \in DOMAIN h.commands :
    i < j /\ h.commands[i].op = "current_long" => h.commands[j].op # "reset"
Conforms(h) ==
  KeepsItself(h) /\ (IsSecondField(FirstFree, h) => slots[pendingField].poc < h.poc)

\* a stream all headers of which conform
StreamConforms ==
  [][HeaderDone => \E h \in Coming :
       /\ Conforms(h)
       /\ \/ SecondField(FirstFree, h)
          \/ Ready("dst") /\ FirstField(FirstFree, h)]_vars

\* What the hardware reads and writes is the driver's: the pictures of the buffer
\* have buffers, those of the lists are still references, and what the registers
\* say of them is so (see H264Hw).  Code: vdec_h264_header_done, picture_done,
\* dpb_build_ref_lists, configure_reference_buffers, configure_colocated_buffers.
ReferencesBacked ==
  PicturesBacked /\ ListsValid /\ (pc = "wait" /\ command = "newpic" => Hw!RegistersRight)

\* Without an overrun, and as long as a CAPTURE buffer is there for every header,
\* no NULL buffer and no freed context is used.
\* Code: picture_done, config_decode_canvas, decoder_h264_unprepare.
NoCrash == pc = "oops" => overrun \/ starved

=============================================================================
