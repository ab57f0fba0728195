---------------------------- MODULE HevcDecoder ----------------------------
(***************************************************************************)
(* The HEVC decoder (vdec/codec_hevc.c, vdec/vdec_hevc.c) behind the       *)
(* parser: the firmware stops at the header of every picture; an interrupt *)
(* thread derives the picture's order count, shows the frames whose turn   *)
(* it is, takes a CAPTURE buffer for the picture and lets the firmware go  *)
(* on.  Four threads interleave: the parser's work, the firmware, the      *)
(* interrupt thread, and the ioctls, of which STREAMOFF drains the frames  *)
(* and powers the decoder off.                                             *)
(*                                                                         *)
(* The stream is chosen as it is decoded: one picture in each packet, with *)
(* order counts and reference sets that conform to the constants.          *)
(***************************************************************************)
EXTENDS Adapter

CONSTANTS Reorder,   \* sps_max_num_reorder_pics
          MaxLsb,    \* 2^log2_max_pic_order_cnt_lsb
          Poc,       \* order counts of the stream's pictures, those before an IDR negative
          MaxRefs    \* size of a reference picture set

\* A level allows a reorder depth of at most 15; a record is dropped after 32 frames (MaxUsed).
ASSUME HevcAssumption ==
  /\ Reorder \in Nat /\ MaxRefs \in Nat /\ Reorder < MaxUsed
  /\ MaxLsb \in Nat \ {0, 1} /\ MaxLsb % 2 = 0
  /\ Poc \subseteq Int /\ 0 \in Poc

VARIABLES
  frames,     \* ref_frames_list; "at" is the offset, "truth" the stream's order count
  framesNum,  \* frames_num
  currPoc,    \* curr_poc
  prevTid0,   \* prev_tid0_poc
  sized,      \* a picture size has been seen
  header,     \* the header the firmware has posted
  starved,    \* amvdec_abort: both queues are in error
  lost,       \* buffers of frames that a drain has freed and not given back
  led,        \* history: a picture before its IDR in display order has been decoded
              \* since the start
  sent,       \* history: order counts of the sequence's pictures so far
  kept,       \* history: those its next picture may refer to
  anchor      \* history: the last one at temporal layer 0

frameVars  == <<frames, framesNum, currPoc, prevTid0, sized>>
streamVars == <<sent, kept, anchor>>
codecVars  == <<frameVars, header, streamVars, starved, led>>
vars       == <<m2mVars, parserVars, adapterVars, codecVars, lost>>

NoHeader == [pkt |-> 0]

Init ==
  /\ M2mInit /\ ParserInit /\ AdapterInit
  /\ frames = {} /\ framesNum = 0 /\ currPoc = 0 /\ prevTid0 = 0 /\ sized = FALSE
  /\ header = NoHeader /\ starved = FALSE /\ lost = {} /\ led = FALSE
  /\ sent = {} /\ kept = {} /\ anchor = 0

Waiting == {f \in frames : f.show}

-----------------------------------------------------------------------------
(* The firmware.                                                           *)

\* the order counts a conforming stream may continue with: no picture has
\* more than Reorder pictures decoded before and displayed after it
Conforming(truth, idr) ==
  IF idr THEN truth = 0
  ELSE /\ sent # {} /\ truth \notin sent
       /\ Cardinality({s \in sent : s > truth}) <= Reorder
       /\ truth - anchor \in 1 - MaxLsb \div 2 .. MaxLsb \div 2

\* The firmware has parsed the next picture's header and waits.  The offset
\* it reports lies inside the packet: the farthest is taken.  Pictures of the
\* higher temporal layer are no references, and are displayed before the last one
\* of the lower layer.
PostHeader ==
  /\ hw = "run" /\ vififo # << >>
  /\ \E truth \in Poc, idr \in BOOLEAN, resize \in BOOLEAN, tid \in {0, 1},
        refs \in SUBSET kept :
       /\ Conforming(truth, idr)
       /\ (~sized => resize) /\ (resize => idr)
       /\ Cardinality(refs) <= MaxRefs /\ (idr => refs = {})
       /\ (tid = 1 => ~idr /\ truth < anchor)
       /\ header' = [pkt |-> Head(vififo).pkt, at |-> EndOf(Head(vififo)) - 1,
                     truth |-> truth, idr |-> idr, resize |-> resize,
                     lsb |-> truth % MaxLsb, tid |-> tid, rps |-> {r - truth : r \in refs}]
       /\ kept' = IF tid = 0 THEN refs \cup {truth} ELSE refs
       /\ anchor' = IF tid = 0 THEN truth ELSE anchor
       /\ led' = (led \/ truth < 0)
  /\ vififo' = Tail(vififo)
  /\ hw' = "posted"
  /\ UNCHANGED <<m2mVars, work, cur, seen, written, lastOffset, wrapCount, packets, overdrawn,
                 recordVars, sessionVars, pending, frameVars, codec, stop, starved, sent, lost>>

-----------------------------------------------------------------------------
(* The interrupt thread.                                                   *)

\* codec_hevc_update_pocs; temporal_id of the firmware is one more than tid
PocOf(h) ==
  LET prevLsb == prevTid0 % MaxLsb
      prevMsb == prevTid0 - prevLsb
  IN  IF h.idr THEN 0
      ELSE IF h.lsb < prevLsb /\ prevLsb - h.lsb >= MaxLsb \div 2
        THEN prevMsb + MaxLsb + h.lsb
      ELSE IF h.lsb > prevLsb /\ h.lsb - prevLsb > MaxLsb \div 2
        THEN prevMsb - MaxLsb + h.lsb
      ELSE prevMsb + h.lsb

\* codec_hevc_update_referenced
Referenced(poc, rps) ==
  {[f EXCEPT !.referenced = @ /\ f.poc \in {poc + d : d \in rps}] : f \in frames}

\* codec_hevc_process_segment_header, and the start of process_segment
ProcessHeader(thread) ==
  /\ currPoc' = PocOf(header)
  /\ prevTid0' = IF header.tid = 0 THEN currPoc' ELSE prevTid0
  /\ frames' = Referenced(currPoc', header.rps)
  /\ codec' = thread
  /\ UNCHANGED <<framesNum, hw, header>>

\* codec_hevc_threaded_isr
HandleHeader ==
  /\ hw = "posted" /\ codec = "idle" /\ ~header.resize
  /\ ProcessHeader("show")
  /\ UNCHANGED <<m2mVars, parserVars, sized, stop, starved, streamVars, lost, led>>

\* ... for a picture of another size than the last: amvdec_src_change goes on
\* when the CAPTURE queue will do, and else waits for userspace
SourceChange ==
  /\ hw = "posted" /\ codec = "idle" /\ header.resize
  /\ sized' = TRUE
  /\ \/ "dst" \in streamon /\ ProcessHeader("show") /\ UNCHANGED status
     \/ /\ status' = "needs_resume" /\ hw' = "held"
        /\ UNCHANGED <<frames, framesNum, currPoc, prevTid0, codec, header>>
  /\ UNCHANGED <<m2mVars, feedVars, recordVars, pending, shouldStop, streamon, stop, starved,
                 streamVars, lost, led>>

\* codec_hevc_get_next_ready_frame: order counts are unsigned and compared
\* with INT_MAX, so a negative one is never found
ReadyFrames == {f \in Waiting : f.poc >= 0}
NextReady   == CHOOSE f \in ReadyFrames : \A g \in ReadyFrames :
                 f.poc < g.poc \/ (f.poc = g.poc /\ f.pkt <= g.pkt)

Shown(f) == (frames \ {f}) \cup {[f EXCEPT !.show = FALSE, !.buf = NoBuf]}

\* mutant: a frame is shown one picture too early
ShowsEarly == ReadyFrames # {} /\ (currPoc = 0 \/ framesNum >= Reorder)

ShowsMore == ReadyFrames # {} /\ (currPoc = 0 \/ framesNum > Reorder)

\* one iteration of codec_hevc_show_frames
ShowFrame ==
  /\ codec # "idle" /\ ShowsMore
  /\ TakeByOffset(NextReady.at)
  /\ vb' = BufDone(vb, NextReady.buf, "done")
  /\ frames' = Shown(NextReady) /\ framesNum' = framesNum - 1
  /\ pending' = TRUE
  /\ UNCHANGED <<rdy, stream, job, drainVars, aborted, dropped, feedVars, sessionVars, currPoc,
                 prevTid0, sized, adapterVars, header, starved, streamVars, lost, led>>

\* the rest of show_frames and of process_segment
Cleaned == {f \in frames : f.referenced \/ f.show}

NewFrame == [pkt |-> header.pkt, at |-> header.at, poc |-> currPoc, truth |-> header.truth,
             buf |-> Removed("dst"), referenced |-> TRUE, show |-> TRUE]

PrepareFrame ==
  /\ codec # "idle" /\ ~ShowsMore
  /\ IF Ready("dst")
       THEN /\ frames' = Cleaned \cup {NewFrame} /\ framesNum' = framesNum + 1
            /\ rdy' = AfterRemove("dst")
            /\ sent' = (IF header.idr THEN {} ELSE sent) \cup {header.truth}
            /\ hw' = "run" /\ UNCHANGED starved
       ELSE /\ frames' = Cleaned
            /\ starved' = TRUE /\ hw' = "held"
            /\ UNCHANGED <<framesNum, rdy, sent>>
  /\ status' = IF codec = "resume" THEN "running" ELSE status
  /\ codec' = "idle" /\ header' = NoHeader
  /\ UNCHANGED <<vb, stream, job, drainVars, aborted, dropped, feedVars, recordVars, pending,
                 shouldStop, streamon, currPoc, prevTid0, sized, stop, kept, anchor, lost, led>>

-----------------------------------------------------------------------------
(* The ioctls.                                                             *)

\* after amvdec_abort vb2 refuses every QBUF
QueueBuf(b) == ~starved /\ UserQBuf(b) /\ UNCHANGED <<codecVars, lost>>

\* codec_hevc_start gives the decoder a new state, codec_hevc_resume takes the
\* header up again
StreamOn(q, b) ==
  /\ StreamOnBuffer(q, b)
  /\ \/ StreamOnOutcome(q) = "starts" /\ StartSession
        /\ starved' = FALSE /\ led' = FALSE
        /\ UNCHANGED <<frameVars, header, streamVars>>
     \/ StreamOnOutcome(q) = "resumes" /\ KeepSession
        /\ ProcessHeader("resume")
        /\ UNCHANGED <<sized, starved, streamVars, led>>
     \/ StreamOnOutcome(q) \in {"waits", "keeps"} /\ KeepSession
        /\ UNCHANGED <<codec, hw, codecVars>>
  /\ UNCHANGED lost

\* one iteration of codec_hevc_flush_output
DrainFrame ==
  /\ Draining /\ ReadyFrames # {}
  /\ TakeFirst
  /\ vb' = BufDone(vb, NextReady.buf, IF timestamps = << >> THEN "error" ELSE "done")
  /\ frames' = Shown(NextReady) /\ framesNum' = framesNum - 1
  /\ pending' = (pending \/ timestamps # << >>)
  /\ UNCHANGED <<rdy, stream, job, drainVars, aborted, dropped, feedVars, sessionVars, currPoc,
                 prevTid0, sized, adapterVars, header, starved, streamVars, lost, led>>

\* mutant: the drain shows no more than a new picture would
DrainedEarly ==
  /\ Draining /\ ~ShowsMore
  /\ frames' = {}
  /\ lost' = lost \cup {f.buf : f \in Waiting}

\* the rest of flush_output frees every frame, and those that still wait with their
\* buffers
Drained ==
  /\ Draining /\ ReadyFrames = {}
  /\ frames' = {}
  /\ lost' = lost \cup {f.buf : f \in Waiting}

AbortDrained == Drained /\ AbortDone
                /\ UNCHANGED <<framesNum, currPoc, prevTid0, sized, header, streamVars, starved, led>>

\* vdec_hevc_stop, codec_hevc_stop: the decoder's state is freed
HevcStop ==
  /\ Drained /\ PowerOff
  /\ framesNum' = 0 /\ currPoc' = 0 /\ prevTid0' = 0 /\ sized' = FALSE
  /\ header' = NoHeader
  /\ sent' = {} /\ kept' = {} /\ anchor' = 0
  /\ UNCHANGED <<starved, led>>

QueueDrained == Drained /\ DrainDone
                /\ UNCHANGED <<framesNum, currPoc, prevTid0, sized, header, streamVars, starved, led>>

-----------------------------------------------------------------------------
\* codec_hevc_num_pending_bufs waits for the codec's lock
ReadFramesNum == codec # "show" /\ ReadPending(framesNum)

Feed == (ReadFramesNum \/ WorkBegins \/ WorkEnds \/ Submit(framesNum + Reserve) \/ RecordFailed
           \/ Written \/ WriteFailed)
        /\ UNCHANGED <<adapterVars, codecVars, lost>>

Isr == PostHeader \/ HandleHeader \/ SourceChange \/ ShowFrame \/ PrepareFrame

Call == \/ \E b \in Buf : QueueBuf(b)
        \/ \E q \in Queue : \E b \in BufOf(q) : StreamOn(q, b)
        \/ DrainFrame \/ AbortDrained \/ HevcStop \/ QueueDrained

\* vb2 takes back by force what is lost, when its queue is released
Rest == Ioctl /\ lost' = {b \in lost : vb'[b] = "active"} /\ UNCHANGED codecVars

Next == work # "oops" /\ (Feed \/ Isr \/ Call \/ Rest)

Spec == Init /\ [][Next]_vars

-----------------------------------------------------------------------------
(* What the driver promises.                                               *)

\* Buffer conservation: what vb2 has given to the driver is in a ready queue,
\* in the hands of the parser's work, or the buffer of one frame that has not
\* been shown; and only that.  What meson_vcodec_buf_queue has dropped, and the
\* buffers that a drain loses with pictures of a negative order count, wait for vb2
\* to take them back; until such a picture comes, frames_num counts the frames.
\* Code: esparser_queue, codec_hevc_prepare_new_frame, show_frames, flush_output.
BufferConservation ==
  LET writing == {cur} \ {NoBuf}
      held    == {f.buf : f \in Waiting}
      gone    == dropped \cup lost
  IN  /\ Active = InReady \cup writing \cup held \cup gone
      /\ writing \cap InReady = {} /\ held \cap InReady = {}
      /\ gone \cap (InReady \cup writing \cup held) = {}
      /\ NoBuf \notin held /\ Cardinality(held) = Cardinality(Waiting)
      /\ led \/ (framesNum = Cardinality(Waiting) /\ lost = {})

\* Until a STREAMOFF drains the decoder, the record that a frame's offset will
\* match is that of the frame's own packet, so the frame is given the packet's
\* timestamp; and the parser's counter counts the records.
\* Code: esparser_get_offset, amvdec_add_ts, amvdec_remove_ts,
\* amvdec_dst_buf_done_offset, the uses of esparser_queued_bufs.
OwnTimestamp ==
  stop = "none" /\ status # "stopped" =>
    /\ \A f \in Waiting : /\ Matched(f.at) # 0
                          /\ timestamps[Matched(f.at)].pkt = f.pkt
    /\ queued = Len(timestamps) - (IF work = "write" THEN 1 ELSE 0)

\* Display order: the order counts are those of the stream.  Until a picture with
\* a negative order count comes, which is never shown and counts as one that waits,
\* so that the next ones are shown too early: every frame of the coded sequence that
\* has been shown - as a picture's turn comes, or by a drain - comes before every
\* frame that waits, and no two frames in the list have the same order count, by
\* which references are looked up.
\* Code: codec_hevc_update_pocs, update_referenced, show_frames, flush_output.
InOrder ==
  LET waiting == {f.truth : f \in Waiting}
  IN  /\ \A f \in Waiting : f.poc = f.truth
      /\ led \/ /\ \A s \in sent \ waiting, w \in waiting : s < w
                /\ \A f, g \in frames : f.poc = g.poc => f = g

\* The decoder runs out of CAPTURE buffers, which ends the session, only after
\* a packet was accepted on a negative credit, which is a huge unsigned number, or
\* DECODER_CMD took a buffer, or more than Reserve frames more were shown than begun
\* between the codec's count and its use: any fewer the reserve makes up for, and
\* the reorder depth must reach the reserve for there to be more.
\* Code: esparser_queue, codec_hevc_num_pending_bufs, codec_hevc_prepare_new_frame.
Throttled == [][~starved /\ starved' => overdrawn]_vars
=============================================================================
