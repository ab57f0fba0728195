------------------------------- MODULE Adapter -------------------------------
(***************************************************************************)
(* meson-vdec-adapter.c: what the ioctls of meson-vcodec.c become for a    *)
(* decoder of the staging driver.  STREAMON starts the hardware once the   *)
(* OUTPUT queue streams, or resumes it after a change of the source;       *)
(* device_run only wakes the parser's work, and its job ends when it is    *)
(* aborted; STREAMOFF drains the frames and may power the decoder off.     *)
(*                                                                         *)
(* A codec module EXTENDS this one, adds the interrupt thread, and         *)
(* completes each operation with the calls of its amvdec_codec_ops.        *)
(***************************************************************************)
EXTENDS Parser

VARIABLES
  codec,  \* the thread in the codec's code: "idle", "frame", "show" (the
          \* interrupt thread, holding the codec's lock), "resume" (STREAMON,
          \* holding session->lock), "locked" (asks for a lock it holds)
  hw,     \* the firmware: "off", "run", "posted" (interrupt raised), "held"
  stop    \* where the STREAMOFF of the queue in "cancel" is

adapterVars == <<codec, hw, stop>>

AdapterTypeOK ==
  /\ codec \in {"idle", "frame", "show", "resume", "locked"}
  /\ hw \in {"off", "run", "posted", "held"}
  /\ stop \in {"none", "abort", "stop", "poweroff", "drain", "release"}

AdapterInit == codec = "idle" /\ hw = "off" /\ stop = "none"

-----------------------------------------------------------------------------
(* QBUF, DECODER_CMD, device_run.                                          *)

\* session->lock is free
NoIoctl == Unlocked /\ codec # "resume"

WorkBegins == codec # "resume" /\ WorkStart

\* vdec_vb2_buf_queue schedules the work
Wakes == pending \/ "src" \in streamon

\* meson_vcodec_buf_queue and vdec_vb2_buf_queue.  The bound is on the packets.
UserQBuf(b) ==
  /\ NoIoctl
  /\ b \in SrcBuf => packets + Len(rdy["src"]) < Len(PacketSize)
  /\ QBuf(b)
  /\ pending' = IF aborted THEN pending ELSE Wakes
  /\ UNCHANGED <<feedVars, recordVars, sessionVars, adapterVars>>

\* DECODER_CMD takes neither lock.  With no packet left to feed, STOP gives a
\* CAPTURE buffer back that the parser may have counted on.
DecoderCmd ==
  /\ Commands
  /\ CmdStop \/ CmdStart
  /\ overdrawn' = (overdrawn \/ rdy' # rdy)
  /\ UNCHANGED <<work, cur, seen, vififo, written, lastOffset, wrapCount, packets, recordVars,
                 sessionVars, pending, adapterVars>>

\* meson_vdec_adapter_run
DeviceRun ==
  /\ JobReady
  /\ job' = "running" /\ ClearState
  /\ shouldStop' = FALSE /\ pending' = TRUE
  /\ UNCHANGED <<vb, rdy, stream, aborted, dropped, feedVars, recordVars, status, streamon,
                 adapterVars>>

-----------------------------------------------------------------------------
(* STREAMON.                                                               *)

\* What vdec_start_streaming does: changed_format is set by every STREAMON, so
\* it is never 0 here.
StreamOnOutcome(q) ==
  IF "src" \notin streamon \cup {q} THEN "waits"
  ELSE IF q = "dst" /\ status = "needs_resume" THEN "resumes"
  ELSE IF status = "stopped" THEN "starts"
  ELSE "keeps"

\* STREAMON and the first buffer, with which vb2 starts the queue: the buffer
\* is queued before start_streaming is called
StreamOnBuffer(q, b) ==
  /\ NoIoctl
  /\ QueueOf(b) = q /\ vb[b] # "active" /\ stream[q] = "idle"
  /\ stream' = [stream EXCEPT ![q] = "on"]
  /\ vb' = [vb EXCEPT ![b] = "active"] /\ rdy' = [rdy EXCEPT ![q] = <<b>>]
  /\ streamon' = streamon \cup {q}
  /\ UNCHANGED <<job, drainVars, aborted, dropped, stop>>

\* vdec_poweron and esparser_power_up; the ops of the codec follow
StartSession ==
  /\ shouldStop' = FALSE /\ status' = "init"
  /\ queued' = 0 /\ lastOffset' = 0 /\ wrapCount' = 0
  /\ vififo' = << >> /\ written' = 0 /\ packets' = 0 /\ overdrawn' = FALSE
  /\ pending' = TRUE /\ hw' = "run"
  /\ UNCHANGED <<timestamps, work, cur, seen, codec>>

KeepSession == pending' = Wakes /\ UNCHANGED <<feedVars, recordVars, shouldStop, status>>

-----------------------------------------------------------------------------
(* STREAMOFF: the job's abort, stop_streaming, the release of the buffers. *)

\* a running job is aborted first (meson_vdec_adapter_abort)
StreamOff(q) ==
  /\ NoIoctl /\ stream[q] = "on"
  /\ stream' = [stream EXCEPT ![q] = "cancel"]
  /\ IF job = "running"
       THEN /\ aborted' = TRUE /\ shouldStop' = TRUE /\ MarkStopped
            /\ stop' = "abort"
       ELSE UNCHANGED <<aborted, shouldStop, drainVars>> /\ stop' = "stop"
  /\ UNCHANGED <<vb, rdy, job, dropped, feedVars, recordVars, pending, status, streamon, codec,
                 hw>>

\* vdec_wait_inactive: 50 ms without an interrupt.  A firmware with a packet to
\* decode, and the thread that serves it, are assumed to be faster.
Inactive == codec = "idle" /\ (hw \in {"off", "held"} \/ (hw = "run" /\ vififo = << >>))

Draining == \/ stop \in {"abort", "poweroff"} /\ Inactive
            \/ stop = "drain" /\ codec = "idle"

\* the end of meson_vdec_adapter_abort
AbortDone ==
  /\ stop = "abort"
  /\ JobFinish
  /\ stop' = "stop"
  /\ UNCHANGED <<vb, rdy, stream, drainVars, aborted, dropped, parserVars, codec, hw>>

\* vdec_stop_streaming powers the decoder off
PowersOff == \/ status \in {"init", "running"}
             \/ status = "needs_resume" /\ streamon # Queue

\* ... decides
StopStreaming(q) ==
  /\ stop = "stop" /\ stream[q] = "cancel"
  /\ shouldStop' = (shouldStop \/ PowersOff)
  /\ stop' = IF PowersOff THEN "poweroff"
             ELSE IF q = "dst" /\ status = "needs_resume" THEN "drain" ELSE "release"
  /\ UNCHANGED <<m2mVars, feedVars, recordVars, pending, status, streamon, codec, hw>>

\* ... and frees the session's state
PowerOff ==
  /\ stop = "poweroff"
  /\ hw' = "off"
  /\ timestamps' = << >>
  /\ status' = "stopped"
  /\ stop' = "release"
  /\ UNCHANGED <<m2mVars, feedVars, queued, shouldStop, streamon, pending, codec>>

DrainDone ==
  /\ stop = "drain"
  /\ stop' = "release"
  /\ UNCHANGED <<m2mVars, parserVars, codec, hw>>

\* the rest of stop_streaming; vb2 takes by force what is still active
Release(q) ==
  /\ stop = "release" /\ stream[q] = "cancel"
  /\ streamon' = streamon \ {q}
  /\ vb' = [b \in Buf |-> IF QueueOf(b) = q /\ vb[b] = "active" THEN "error" ELSE vb[b]]
  /\ rdy' = [rdy EXCEPT ![q] = << >>]
  /\ dropped' = {b \in dropped : QueueOf(b) # q}
  /\ stream' = [stream EXCEPT ![q] = "off"]
  /\ stop' = "none"
  /\ UNCHANGED <<job, drainVars, aborted, feedVars, recordVars, shouldStop, status, pending,
                 codec, hw>>

\* S_FMT and REQBUFS on both queues, the only way back from "off".  (Work that
\* is still pending faults before this matters.)
Reconfigure ==
  /\ \A q \in Queue : stream[q] \in {"idle", "off"}
  /\ \E q \in Queue : stream[q] = "off"
  /\ ~pending /\ work = "idle"
  /\ stream' = [q \in Queue |-> "idle"]
  /\ aborted' = FALSE
  /\ UNCHANGED <<vb, rdy, job, drainVars, dropped, parserVars, adapterVars>>

Ioctl == \/ \E q \in Queue : StreamOff(q)
         \/ DecoderCmd \/ DeviceRun \/ Reconfigure
         \/ \E q \in Queue : StopStreaming(q) \/ Release(q)
=============================================================================
