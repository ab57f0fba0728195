------------------------------- MODULE Parser -------------------------------
(***************************************************************************)
(* How compressed packets reach the VP9 and HEVC firmware: the elementary  *)
(* stream parser (vdec/esparser.c), the records that tie a decoded frame   *)
(* to the packet it came from (vdec/vdec_helpers.c), and the state of the  *)
(* decoding session (struct amvdec_session, vdec/vdec.h).                  *)
(*                                                                         *)
(* A work item moves OUTPUT buffers into a ring buffer (the VIFIFO) that   *)
(* the firmware reads.  It holds session->lock, so no queue ioctl runs     *)
(* while it does, but the firmware, its interrupt thread and DECODER_CMD   *)
(* do.  Packets are numbered in the order of submission; the number is     *)
(* also the timestamp userspace gave the buffer.                           *)
(***************************************************************************)
EXTENDS M2m, Integers, SequencesExt, FiniteSetsExt

CONSTANTS VififoSize,  \* bytes of the ring, in units of the smallest packet
          Internal,    \* what the parser's own FIFO may hold (6 KiB)
          Reserve,     \* CAPTURE buffers kept back (3)
          MaxUsed,     \* match checks after which a record is dropped (32)
          PacketSize,  \* bytes that each packet takes in the ring: <<of packet 1, ...>>
          Payload,     \* ... of them those that userspace has given: the rest are headers
                       \* that VP9 gets, and padding
          WriteFails,  \* whether the parser may fail to find the end of a packet, or to
                       \* allocate its record
          Commands     \* whether userspace sends DECODER_CMD

ASSUME ParserAssumption ==
  /\ VififoSize \in Nat \ {0} /\ Internal \in 0 .. VififoSize
  /\ Reserve \in Nat /\ MaxUsed \in Nat
  /\ PacketSize \in Seq(1 .. VififoSize - 1) /\ PacketSize # << >>
  /\ DOMAIN Payload = DOMAIN PacketSize
  /\ \A pkt \in DOMAIN Payload : Payload[pkt] \in 1 .. PacketSize[pkt]
  /\ WriteFails \in BOOLEAN /\ Commands \in BOOLEAN

VARIABLES
  timestamps,   \* sess->timestamps
  queued,       \* sess->esparser_queued_bufs
  pending,      \* sess->esparser_queue_work is queued
  work,         \* where the work item is; "oops" once it uses a freed session
  cur,          \* the OUTPUT buffer it writes
  seen,         \* the number of waiting frames it has read
  vififo,       \* packets in the ring that the firmware has not begun
  written,      \* bytes written to the ring since the start
  lastOffset,   \* sess->last_offset
  wrapCount,    \* sess->wrap_count
  packets,      \* packets submitted since the start
  overdrawn,    \* history: the last packet was accepted on a negative credit or on a count
                \* that was too large, or a CAPTURE buffer it relied on was taken since
  shouldStop,   \* sess->should_stop
  status,       \* sess->status
  streamon      \* queues with streamon_out / streamon_cap set

feedVars    == <<work, cur, seen, vififo, written, lastOffset, wrapCount, packets, overdrawn>>
recordVars  == <<timestamps, queued>>
sessionVars == <<shouldStop, status, streamon>>
parserVars  == <<feedVars, recordVars, sessionVars, pending>>

Packet  == 1 .. Len(PacketSize)
Record  == [pkt : Packet, offset : Nat, used : 0 .. MaxUsed]

ParserTypeOK ==
  /\ timestamps \in Seq(Record) /\ queued \in Int
  /\ pending \in BOOLEAN /\ work \in {"idle", "scan", "admit", "write", "oops"}
  /\ cur \in SrcBuf \cup {NoBuf} /\ seen \in Nat
  /\ vififo \in Seq([pkt : Packet, start : Nat])
  /\ written \in Nat /\ lastOffset \in 0 .. VififoSize - 1 /\ wrapCount \in Nat
  /\ packets \in 0 .. Len(PacketSize) /\ overdrawn \in BOOLEAN
  /\ shouldStop \in BOOLEAN
  /\ status \in {"stopped", "init", "running", "needs_resume"}
  /\ streamon \in SUBSET Queue

ParserInit ==
  /\ timestamps = << >> /\ queued = 0 /\ pending = FALSE
  /\ work = "idle" /\ cur = NoBuf /\ seen = 0
  /\ vififo = << >> /\ written = 0 /\ lastOffset = 0 /\ wrapCount = 0
  /\ packets = 0 /\ overdrawn = FALSE
  /\ shouldStop = FALSE /\ status = "stopped" /\ streamon = {}

-----------------------------------------------------------------------------
(* Helpers.                                                                *)

EndOf(entry) == entry.start + PacketSize[entry.pkt]

\* vififo_level, and esparser_vififo_get_free_space
Level     == IF vififo = << >> THEN 0 ELSE written - Head(vififo).start
FreeSpace == IF Level + Internal > VififoSize THEN 0 ELSE VififoSize - Level - Internal

\* PARSER_VIDEO_WP, and esparser_get_offset
WritePointer == written % VififoSize

\* mutant: the wraps are not counted
NeverWraps == wrapCount
Wraps        == IF WritePointer < lastOffset THEN wrapCount + 1 ELSE wrapCount
Offset       == WritePointer + Wraps * VififoSize

\* num_dst_bufs of esparser_queue.  It is unsigned: a negative number is a
\* huge one, and then nothing is refused.
Credit  == seen + Len(rdy["dst"]) - Reserve

\* mutant: only the space in the ring counts
RefusedByRing == FreeSpace < Payload[packets + 1]

Refused == \/ FreeSpace < Payload[packets + 1]
           \/ Credit >= 0 /\ queued >= Credit

\* amvdec_dst_buf_done_offset walks the records up to the first whose offset
\* lies beyond the frame's; the one before it is the frame's
Beyond(offset)  == {i \in DOMAIN timestamps : timestamps[i].offset > offset}
Matched(offset) == IF Beyond(offset) = {} THEN Len(timestamps) ELSE Min(Beyond(offset)) - 1

\* ... and ages the record beyond
Aged(i) == IF i > Len(timestamps) THEN timestamps
           ELSE IF timestamps[i].used >= MaxUsed THEN RemoveAt(timestamps, i)
           ELSE [timestamps EXCEPT ![i].used = @ + 1]

TakeByOffset(offset) ==
  LET i == Matched(offset)
  IN  IF i = 0 THEN timestamps' = Aged(1) /\ UNCHANGED queued
      ELSE timestamps' = RemoveAt(Aged(i + 1), i) /\ queued' = queued - 1

\* amvdec_dst_buf_done takes the oldest record, and fails without one
TakeFirst ==
  IF timestamps = << >> THEN UNCHANGED recordVars
  ELSE timestamps' = Tail(timestamps) /\ queued' = queued - 1

-----------------------------------------------------------------------------
(* The work item, esparser_queue_all_src.                                  *)

\* no ioctl and no work item holds session->lock
Unlocked == LockFree /\ work = "idle"

\* Both queues are off: the session has been freed, but nothing has cancelled
\* the work.
Freed == \A q \in Queue : stream[q] = "off"

WorkStart ==
  /\ pending /\ Unlocked
  /\ pending' = FALSE
  /\ work' = IF Freed THEN "oops" ELSE "scan"
  /\ UNCHANGED <<m2mVars, recordVars, sessionVars, cur, seen, vififo, written, lastOffset,
                 wrapCount, packets, overdrawn>>

WorkEnds ==
  /\ \/ work = "scan" /\ (shouldStop \/ ~Ready("src"))
     \/ work = "admit" /\ Refused
  /\ work' = "idle"
  /\ UNCHANGED <<m2mVars, recordVars, sessionVars, pending, cur, seen, vififo, written,
                 lastOffset, wrapCount, packets, overdrawn>>

\* num_pending_bufs: the codec's count, read under the codec's own lock
ReadPending(count) ==
  /\ work = "scan" /\ ~shouldStop /\ Ready("src")
  /\ seen' = count
  /\ work' = "admit"
  /\ UNCHANGED <<m2mVars, recordVars, sessionVars, pending, cur, vififo, written, lastOffset,
                 wrapCount, packets, overdrawn>>

\* the packet is accepted: it leaves the ready queue and gets a record.  Each frame
\* shown since the codec's count was read makes the credit too large by one, each
\* picture begun since too small by one; "most" is the largest count that is still good.
Submit(most) ==
  /\ work = "admit" /\ ~Refused
  /\ cur' = Removed("src") /\ rdy' = AfterRemove("src")
  /\ timestamps' = Append(timestamps, [pkt |-> packets + 1, offset |-> Offset, used |-> 0])
  /\ lastOffset' = WritePointer /\ wrapCount' = Wraps
  /\ packets' = packets + 1
  /\ overdrawn' = (Credit < 0 \/ seen > most)
  /\ work' = "write"
  /\ UNCHANGED <<vb, stream, job, drainVars, aborted, dropped, queued, sessionVars, pending,
                 seen, vififo, written>>

\* ... but amvdec_add_ts has no memory for the record, which ends the work item
RecordFailed ==
  /\ WriteFails
  /\ work = "admit" /\ ~Refused
  /\ vb' = BufDone(vb, Removed("src"), "error") /\ rdy' = AfterRemove("src")
  /\ lastOffset' = WritePointer /\ wrapCount' = Wraps
  /\ work' = "idle"
  /\ UNCHANGED <<stream, job, drainVars, aborted, dropped, recordVars, sessionVars, pending,
                 cur, seen, vififo, written, packets, overdrawn>>

\* esparser_write_data finds the start code behind the packet (or times out
\* after some of it: that counts as written too)
Written ==
  /\ work = "write"
  /\ vififo' = Append(vififo, [pkt |-> packets, start |-> written])
  /\ written' = written + PacketSize[packets]
  /\ queued' = queued + 1
  /\ vb' = BufDone(vb, cur, "done")
  /\ cur' = NoBuf /\ work' = "scan"
  /\ UNCHANGED <<rdy, stream, job, drainVars, aborted, dropped, timestamps, sessionVars,
                 pending, seen, lastOffset, wrapCount, packets, overdrawn>>

\* mutant: the record of a packet that was not written stays
KeepsTs == UNCHANGED timestamps

\* amvdec_remove_ts: the first record with the packet's timestamp
RemoveTs ==
  LET own == {i \in DOMAIN timestamps : timestamps[i].pkt = packets}
  IN  IF own = {} THEN UNCHANGED timestamps
      ELSE timestamps' = RemoveAt(timestamps, Min(own))

\* ... or times out with nothing written: the record is removed again
WriteFailed ==
  /\ WriteFails
  /\ work = "write"
  /\ RemoveTs
  /\ vb' = BufDone(vb, cur, "error")
  /\ cur' = NoBuf /\ work' = "scan"
  /\ UNCHANGED <<rdy, stream, job, drainVars, aborted, dropped, queued, sessionVars, pending,
                 seen, vififo, written, lastOffset, wrapCount, packets, overdrawn>>

=============================================================================
