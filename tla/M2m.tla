--------------------------------- MODULE M2m ---------------------------------
(***************************************************************************)
(* The V4L2 memory-to-memory framework (vb2 queues and v4l2-mem2mem) as    *)
(* meson-vcodec.c uses it, seen by one codec job: who owns each buffer,    *)
(* the two ready queues, the state of the one m2m job, and the draining    *)
(* flags.  The framework is not part of the repository; this module is     *)
(* the environment of the codec modules, which EXTEND it.                  *)
(*                                                                         *)
(* The ioctls that touch the queues hold session->lock for their whole     *)
(* duration (q->lock, meson-vcodec.c:628), so while one queue is being     *)
(* streamed off ("cancel") no other queue ioctl runs.  A job that the m2m  *)
(* worker runs holds no lock and interleaves with them.                    *)
(* last_src_buf and next_buf_last of the m2m context are left out: nothing *)
(* in the driver reads them.                                               *)
(***************************************************************************)
EXTENDS Naturals, Sequences, FiniteSets, Functions

CONSTANTS SrcBuf,   \* buffers of the OUTPUT queue (compressed for a decoder)
          DstBuf,   \* buffers of the CAPTURE queue
          NoBuf     \* the NULL buffer pointer

ASSUME BufAssumption ==
  /\ SrcBuf \cap DstBuf = {}
  /\ NoBuf \notin SrcBuf \cup DstBuf

Buf       == SrcBuf \cup DstBuf
Queue     == {"src", "dst"}
QueueOf(b) == IF b \in SrcBuf THEN "src" ELSE "dst"
BufOf(q)  == IF q = "src" THEN SrcBuf ELSE DstBuf

VARIABLES
  vb,          \* vb2 state: "active" is owned by the driver, the rest by userspace
  rdy,         \* the ready queues of the m2m context
  stream,      \* per queue: "idle" (set up), "on", "cancel" (in STREAMOFF), "off"
  job,         \* "none", or "running" between device_run and v4l2_m2m_job_finish
  hasStopped,  \* m2m_ctx->has_stopped
  isDraining,  \* m2m_ctx->is_draining
  aborted,     \* both stream statuses were set to STREAM_STATUS_ABORT
  dropped      \* buffers meson_vcodec_buf_queue neither queued nor gave back

drainVars == <<hasStopped, isDraining>>
m2mVars   == <<vb, rdy, stream, job, hasStopped, isDraining, aborted, dropped>>

VbState == {"user", "active", "done", "error"}

M2mTypeOK ==
  /\ vb \in [Buf -> VbState]
  /\ rdy \in [Queue -> Seq(Buf)] /\ \A q \in Queue : rdy[q] \in Seq(BufOf(q))
  /\ stream \in [Queue -> {"idle", "on", "cancel", "off"}]
  /\ job \in {"none", "running"}
  /\ hasStopped \in BOOLEAN /\ isDraining \in BOOLEAN
  /\ aborted \in BOOLEAN /\ dropped \in SUBSET Buf

M2mInit ==
  /\ vb = [b \in Buf |-> "user"]
  /\ rdy = [q \in Queue |-> << >>]
  /\ stream = [q \in Queue |-> "idle"]
  /\ job = "none"
  /\ hasStopped = FALSE /\ isDraining = FALSE
  /\ aborted = FALSE /\ dropped = {}

-----------------------------------------------------------------------------
(* Helpers the codec modules use inside their own actions.                 *)

Ready(q) == rdy[q] # << >>

Active  == {b \in Buf : vb[b] = "active"}
InReady == Range(rdy["src"]) \cup Range(rdy["dst"])

\* v4l2_m2m_src_buf_remove / v4l2_m2m_dst_buf_remove: NULL on an empty queue
Removed(q) == IF Ready(q) THEN Head(rdy[q]) ELSE NoBuf
AfterRemove(q) == IF Ready(q) THEN [rdy EXCEPT ![q] = Tail(@)] ELSE rdy

\* v4l2_m2m_buf_done(b, state) on a vb2 state function; b may be NoBuf where
\* the caller tests the pointer first
BufDone(f, b, state) == IF b = NoBuf THEN f ELSE [f EXCEPT ![b] = state]

MarkStopped == hasStopped' = TRUE /\ isDraining' = FALSE

ClearState == hasStopped' = FALSE /\ isDraining' = FALSE

\* v4l2_m2m_job_finish: ignored when the context has no running job
JobFinish == job' = "none"

\* no queue ioctl holds session->lock
LockFree == \A q \in Queue : stream[q] # "cancel"

\* the condition under which v4l2-m2m runs a job of this context
JobReady ==
  /\ job = "none"
  /\ stream["src"] = "on" /\ stream["dst"] = "on"
  /\ ~hasStopped
  /\ Ready("src") /\ Ready("dst")

-----------------------------------------------------------------------------
(* Framework actions that change no codec state.                           *)

\* VIDIOC_QBUF on a streaming queue: vb2 makes the buffer active and calls
\* meson_vcodec_buf_queue, which returns without queueing it when the status
\* is not in INIT..RUN.  On a streaming queue that is the status ABORT.
QBuf(b) ==
  /\ LockFree
  /\ stream[QueueOf(b)] = "on"
  /\ vb[b] # "active"
  /\ vb' = [vb EXCEPT ![b] = "active"]
  /\ IF aborted
       THEN dropped' = dropped \cup {b} /\ UNCHANGED rdy
       ELSE rdy' = [rdy EXCEPT ![QueueOf(b)] = Append(@, b)] /\ UNCHANGED dropped
  /\ UNCHANGED <<stream, job, drainVars, aborted>>

\* STREAMON once the driver has accepted it.  min_buffers_needed is 1: vb2
\* starts the queue with its first buffer; queueing before STREAMON gives
\* the same ready queue.
StreamOnQueue(q) ==
  /\ LockFree
  /\ stream[q] = "idle"
  /\ stream' = [stream EXCEPT ![q] = "on"]
  /\ UNCHANGED <<vb, rdy, job, drainVars, aborted, dropped>>

\* DECODER_CMD / ENCODER_CMD STOP, START.  They take core->lock, not
\* session->lock, so they interleave with every queue ioctl and every job.
CmdStop ==
  /\ ~isDraining /\ ~hasStopped
  /\ IF Ready("src")
       THEN /\ isDraining' = TRUE
            /\ UNCHANGED <<vb, rdy, hasStopped>>
       ELSE /\ vb' = BufDone(vb, Removed("dst"), "done")
            /\ rdy' = AfterRemove("dst")
            /\ hasStopped' = Ready("dst")
            /\ isDraining' = ~Ready("dst")
  /\ UNCHANGED <<stream, job, aborted, dropped>>

CmdStart ==
  /\ ~isDraining /\ hasStopped
  /\ hasStopped' = FALSE
  /\ UNCHANGED <<vb, rdy, stream, job, isDraining, aborted, dropped>>

\* What v4l2_m2m_update_stop_streaming_state does to the draining flags, and
\* the CAPTURE buffer it takes from the ready queue ("src" stop while draining)
StopTakesDst(q) == q = "src" /\ isDraining

UpdateStopState(q) ==
  IF q = "dst" THEN ClearState
  ELSE IF ~isDraining THEN UNCHANGED drainVars
  ELSE /\ hasStopped' = (Ready("dst") \/ hasStopped)
       /\ isDraining' = ~Ready("dst")
=============================================================================
