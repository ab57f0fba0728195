----------------------------- MODULE Vp9Decoder -----------------------------
(***************************************************************************)
(* The VP9 decoder (vdec/codec_vp9.c, vdec/vdec_hevc.c) behind the parser. *)
(* The firmware stops at every frame header; the interrupt thread, holding *)
(* vp9->lock, makes the previous frame's references current, takes a       *)
(* CAPTURE buffer for the new frame, starts it, and shows the frames before *)
(* it.  A frame that has been shown stays in the list while it is a        *)
(* reference, although userspace has its buffer and may queue it again.    *)
(*                                                                         *)
(* The stream is chosen as it is decoded, among those the driver can hold: *)
(* a packet is one shown frame, or a hidden frame and a shown one; there   *)
(* is one hidden frame at a time, and the one that replaces it also takes  *)
(* over its reference slots and does not refer to it; the size changes at  *)
(* key frames.  show_existing_frame is not used.                           *)
(***************************************************************************)
EXTENDS Adapter

CONSTANTS
  RefSlot,  \* indices of ref_frame_map, 0 .. REF_FRAMES - 1
  HeaderSize, MinPacket, PatternLen, MaxFrames, MaxSize, MaxPlane  \* see Superframe

\* esparser_queue keeps three buffers back; a hidden frame needs one of them
ASSUME ReserveAssumption == Reserve >= 1

\* the start code has at least a byte
ASSUME SuperframeAssumption ==
  /\ HeaderSize \in Nat /\ MinPacket \in Nat /\ PatternLen \in Nat \ {0}
  /\ MaxFrames \in Nat /\ MaxSize \in Nat /\ MaxPlane \in Nat

Writer == INSTANCE Superframe

VARIABLES
  frames,     \* ref_frames_list, in the order of "id", which names the coded frame;
              \* "pkt" is its packet
  framesNum,  \* frames_num
  refMap,     \* ref_frame_map: the buffer whose index a slot holds, NoBuf for -1
  nextMap,    \* next_ref_frame_map
  frameRefs,  \* frame_refs: the frames found, and those the stream means
  curFrame,   \* id of cur_frame, 0 for NULL
  prevFrame,  \* id of prev_frame
  sized,      \* a frame size has been seen
  header,     \* the header the firmware has posted
  mid,        \* the packet's hidden frame has been posted, its shown one not
  lacking,    \* "no", or why process_frame got no CAPTURE buffer: "none" was ready,
              \* or only "refs"
  truth       \* history: the frame each slot holds in the stream

frameVars == <<frames, framesNum, refMap, nextMap, frameRefs, curFrame, prevFrame>>
codecVars == <<frameVars, sized, header, mid, lacking, truth>>
vars      == <<m2mVars, parserVars, adapterVars, codecVars>>

NoHeader == [id |-> 0]

FreshCodec ==
  /\ frames' = {} /\ framesNum' = 0
  /\ refMap' = [s \in RefSlot |-> NoBuf] /\ nextMap' = [s \in RefSlot |-> NoBuf]
  /\ frameRefs' = {} /\ curFrame' = 0 /\ prevFrame' = 0
  /\ sized' = FALSE /\ header' = NoHeader /\ mid' = FALSE
  /\ lacking' = "no" /\ truth' = [s \in RefSlot |-> 0]

Init ==
  /\ M2mInit /\ ParserInit /\ AdapterInit
  /\ frames = {} /\ framesNum = 0
  /\ refMap = [s \in RefSlot |-> NoBuf] /\ nextMap = [s \in RefSlot |-> NoBuf]
  /\ frameRefs = {} /\ curFrame = 0 /\ prevFrame = 0
  /\ sized = FALSE /\ header = NoHeader /\ mid = FALSE
  /\ lacking = "no" /\ truth = [s \in RefSlot |-> 0]

-----------------------------------------------------------------------------
(* The firmware.                                                           *)

\* slots of the hidden frame of the list, which the next one must not refer to
Hidden      == {f \in frames : ~f.show}
HiddenSlots == {s \in RefSlot : \E f \in Hidden : truth[s] = f.id}

Conforming(h) ==
  /\ h.key => h.show /\ h.refresh = RefSlot /\ h.refs = {}
  /\ ~sized => h.key /\ h.resize
  /\ h.resize => h.key
  /\ ~h.show => ~mid /\ HiddenSlots \subseteq h.refresh /\ h.refresh # {}
  /\ ~h.key => h.refs = IF h.show THEN RefSlot ELSE RefSlot \ HiddenSlots

\* the firmware has parsed the next frame's header and waits
PostHeader ==
  /\ hw = "run" /\ vififo # << >>
  /\ \E key \in BOOLEAN, show \in BOOLEAN, resize \in BOOLEAN, refresh \in SUBSET RefSlot,
        refs \in SUBSET RefSlot :
       LET id == 2 * Head(vififo).pkt - (IF show THEN 0 ELSE 1)
       IN  /\ header' = [id |-> id, pkt |-> Head(vififo).pkt, key |-> key, show |-> show,
                         resize |-> resize, refresh |-> refresh, refs |-> refs,
                         meant |-> truth]
           /\ Conforming(header')
           /\ truth' = [s \in RefSlot |-> IF s \in refresh THEN id ELSE truth[s]]
           /\ mid' = ~show
           /\ vififo' = IF show THEN Tail(vififo) ELSE vififo
  /\ hw' = "posted"
  /\ UNCHANGED <<m2mVars, work, cur, seen, written, lastOffset, wrapCount, packets, overdrawn,
                 recordVars, sessionVars, pending, codec, stop, frameVars, sized, lacking>>

-----------------------------------------------------------------------------
(* The interrupt thread, codec_vp9_threaded_isr.                           *)

\* the first of some frames of the list
FirstOf(F) == CHOOSE f \in F : \A g \in F : f.id <= g.id

\* codec_vp9_get_frame_by_idx
WithBuf(b) == {f \in frames : f.buf = b}
IdAt(b)    == IF WithBuf(b) = {} THEN 0 ELSE FirstOf(WithBuf(b)).id

\* mutant: the buffer of the removed frame is not queued again
ForgetHidden ==
  IF header.show \/ Hidden = {} THEN UNCHANGED <<frames, framesNum, rdy>>
  ELSE /\ frames' = frames \ {FirstOf(Hidden)} /\ framesNum' = framesNum - 1
       /\ UNCHANGED rdy

\* codec_vp9_rm_noshow_frame: the first frame that is not for show
RemoveHidden ==
  IF header.show \/ Hidden = {} THEN UNCHANGED <<frames, framesNum, rdy>>
  ELSE LET f == FirstOf(Hidden)
       IN  /\ frames' = frames \ {f} /\ framesNum' = framesNum - 1
           /\ rdy' = [rdy EXCEPT !["dst"] = Append(@, f.buf)]

\* mutant: the map of the frame that failed to start is taken over, never the last one's
KeepsMap == refMap

\* codec_vp9_update_ref
UpdatedMap == IF curFrame = 0 THEN refMap ELSE nextMap

\* up to the removal of the hidden frame in process_frame
HandleHeader ==
  /\ hw = "posted" /\ codec = "idle" /\ ~header.resize
  /\ prevFrame' = curFrame /\ refMap' = UpdatedMap /\ frameRefs' = {}
  /\ RemoveHidden
  /\ codec' = "frame"
  /\ UNCHANGED <<vb, stream, job, drainVars, aborted, dropped, parserVars, hw, stop, nextMap,
                 curFrame, sized, header, mid, lacking, truth>>

\* Another size or depth: amvdec_src_change.  When the CAPTURE queue will do it
\* calls codec_vp9_resume, which takes vp9->lock a second time.
SourceChange ==
  /\ hw = "posted" /\ codec = "idle" /\ header.resize
  /\ prevFrame' = curFrame /\ refMap' = UpdatedMap /\ frameRefs' = {}
  /\ sized' = TRUE
  /\ \/ "dst" \in streamon /\ codec' = "locked" /\ UNCHANGED <<status, hw, curFrame>>
     \/ status' = "needs_resume" /\ codec' = "show" /\ hw' = "held" /\ curFrame' = 0
  /\ UNCHANGED <<m2mVars, feedVars, recordVars, pending, shouldStop, streamon, stop, frames,
                 framesNum, nextMap, header, mid, lacking, truth>>

\* codec_vp9_get_new_frame takes the first ready buffer that no frame of the
\* list has; the ones before it go to the end
Usable == {i \in DOMAIN rdy["dst"] : WithBuf(rdy["dst"][i]) = {}}
Rotated(i) == SubSeq(rdy["dst"], i + 1, Len(rdy["dst"])) \o SubSeq(rdy["dst"], 1, i - 1)

NewFrame(b) == [id |-> header.id, pkt |-> header.pkt, buf |-> b, show |-> header.show,
                done |-> FALSE]

\* codec_vp9_sync_ref and update_next_ref
Found == {[found |-> IdAt(refMap[s]), meant |-> header.meant[s]] : s \in header.refs}
Refreshed(b) == [s \in RefSlot |-> IF s \in header.refresh THEN b ELSE refMap[s]]

After == IF codec = "resume" THEN status' = "running" /\ codec' = "idle"
         ELSE UNCHANGED status /\ codec' = "show"

StartFrame ==
  /\ codec \in {"frame", "resume"} /\ Usable # {}
  /\ LET i == Min(Usable)
         b == rdy["dst"][i]
     IN  /\ rdy' = [rdy EXCEPT !["dst"] = Rotated(i)]
         /\ frames' = frames \cup {NewFrame(b)} /\ framesNum' = framesNum + 1
         /\ nextMap' = Refreshed(b)
  /\ frameRefs' = Found
  /\ curFrame' = header.id
  /\ hw' = "run" /\ After
  /\ UNCHANGED <<vb, stream, job, drainVars, aborted, dropped, feedVars, recordVars, pending,
                 shouldStop, streamon, stop, refMap, prevFrame, sized, header, mid, lacking,
                 truth>>

\* Without one the frame is not started: nobody is told, and the firmware waits
\* until the decoder is powered off.  (With several ready buffers, all of them
\* references, the search goes on, holding the lock.)
NoFrame ==
  /\ codec \in {"frame", "resume"} /\ Usable = {} /\ Len(rdy["dst"]) < 2
  /\ lacking' = IF Ready("dst") THEN "refs" ELSE "none"
  /\ curFrame' = 0
  /\ hw' = "held" /\ After
  /\ UNCHANGED <<m2mVars, feedVars, recordVars, pending, shouldStop, streamon, stop, frames,
                 framesNum, refMap, nextMap, frameRefs, prevFrame, sized, header, mid, truth>>

Waiting == {f \in frames : f.show /\ ~f.done}
ToShow  == {f \in Waiting : f.id # curFrame}

\* one iteration of codec_vp9_show_frame
ShowFrame ==
  /\ codec = "show" /\ ToShow # {}
  /\ LET f == FirstOf(ToShow)
     IN  /\ frames' = (frames \ {f}) \cup {[f EXCEPT !.done = TRUE]}
         /\ vb' = BufDone(vb, f.buf, IF timestamps = << >> THEN "error" ELSE "done")
  /\ TakeFirst
  /\ framesNum' = framesNum - 1
  /\ pending' = (pending \/ timestamps # << >>)
  /\ UNCHANGED <<rdy, stream, job, drainVars, aborted, dropped, feedVars, sessionVars,
                 adapterVars, refMap, nextMap, frameRefs, curFrame, prevFrame, sized, header,
                 mid, lacking, truth>>

\* ... keeps references and the previous frame
Kept(f) == ~f.show \/ f.id \in {curFrame, prevFrame} \/ f.buf \in Range(refMap)

ShowEnds ==
  /\ codec = "show" /\ ToShow = {}
  /\ frames' = {f \in frames : Kept(f)}
  /\ codec' = "idle"
  /\ UNCHANGED <<m2mVars, parserVars, hw, stop, framesNum, refMap, nextMap, frameRefs, curFrame,
                 prevFrame, sized, header, mid, lacking, truth>>

-----------------------------------------------------------------------------
(* The ioctls.                                                             *)

\* codec_vp9_start gives the decoder a new state, codec_vp9_resume processes
\* the frame whose header the firmware waits with
StreamOn(q, b) ==
  /\ StreamOnBuffer(q, b)
  /\ \/ StreamOnOutcome(q) = "starts" /\ StartSession /\ UNCHANGED codecVars
     \/ StreamOnOutcome(q) = "resumes" /\ KeepSession
        /\ codec = "idle" /\ codec' = "resume"
        /\ UNCHANGED <<hw, codecVars>>
     \/ StreamOnOutcome(q) \in {"waits", "keeps"} /\ KeepSession
        /\ UNCHANGED <<codec, hw, codecVars>>

\* codec_vp9_flush_output, one frame: it is shown or its buffer is ready again
DrainFrame ==
  /\ Draining /\ frames # {}
  /\ LET f == FirstOf(frames)
     IN  /\ frames' = frames \ {f}
         /\ IF f.done \/ ~f.show THEN UNCHANGED <<vb, recordVars, pending>>
            ELSE /\ TakeFirst
                 /\ vb' = BufDone(vb, f.buf, IF timestamps = << >> THEN "error" ELSE "done")
                 /\ pending' = (pending \/ timestamps # << >>)
         /\ rdy' = IF f.done \/ f.show THEN rdy ELSE [rdy EXCEPT !["dst"] = Append(@, f.buf)]
         /\ framesNum' = IF f.done THEN framesNum ELSE framesNum - 1
  /\ UNCHANGED <<stream, job, drainVars, aborted, dropped, feedVars, sessionVars, adapterVars,
                 refMap, nextMap, frameRefs, curFrame, prevFrame, sized, header, mid, lacking,
                 truth>>

Drained == Draining /\ frames = {}

AbortDrained == Drained /\ AbortDone /\ UNCHANGED codecVars
QueueDrained == Drained /\ DrainDone /\ UNCHANGED codecVars

\* vdec_hevc_stop, codec_vp9_stop: the decoder's state is freed
Vp9Stop == Drained /\ PowerOff /\ FreshCodec

-----------------------------------------------------------------------------
\* codec_vp9_num_pending_bufs takes no lock
Feed == (ReadPending(framesNum) \/ WorkBegins \/ WorkEnds \/ Submit(framesNum + Reserve - 1) \/ RecordFailed
           \/ Written \/ WriteFailed)
        /\ UNCHANGED <<adapterVars, codecVars>>

Isr == \/ PostHeader \/ HandleHeader \/ SourceChange
       \/ StartFrame \/ NoFrame \/ ShowFrame \/ ShowEnds

Call == \/ \E b \in Buf : UserQBuf(b) /\ UNCHANGED codecVars
        \/ \E q \in Queue : \E b \in BufOf(q) : StreamOn(q, b)
        \/ DrainFrame \/ AbortDrained \/ Vp9Stop \/ QueueDrained

Next == work # "oops" /\ (Feed \/ Isr \/ Call \/ (Ioctl /\ UNCHANGED codecVars))

Spec == Init /\ [][Next]_vars

-----------------------------------------------------------------------------
(* What the driver promises.                                               *)

Undone == {f \in frames : ~f.done}

\* Buffer conservation: what vb2 has given to the driver is in a ready queue, in
\* the hands of the parser's work, or the buffer of one frame that has been
\* neither shown nor dropped; frames_num counts those frames.  A reference whose
\* buffer userspace has queued again holds nothing.
\* Code: get_new_frame, rm_noshow_frame, show_frame, flush_output.
BufferConservation ==
  LET writing == {cur} \ {NoBuf}
      held    == {f.buf : f \in Undone}
  IN  /\ Active = InReady \cup writing \cup held \cup dropped
      /\ writing \cap InReady = {} /\ held \cap InReady = {} /\ dropped \cap InReady = {}
      /\ Cardinality(held) = Cardinality(Undone) /\ framesNum = Cardinality(Undone)

\* The hardware decodes into a buffer nobody else has, from the references the
\* stream means, which are still in the list with buffers of their own - although
\* they have been shown, and userspace may have queued them again.
\* Code: update_ref, sync_ref, update_next_ref, is_ref, get_new_frame.
RefsIntact ==
  curFrame # 0 /\ codec # "locked" /\ stop = "none" /\ status # "stopped" =>
    /\ \E f \in Undone : f.id = curFrame
    /\ \A r \in frameRefs : r.found = r.meant /\ \E f \in frames : f.id = r.found
    /\ \A f, g \in frames : f.buf = g.buf => f = g

\* Until a STREAMOFF drains the decoder, the oldest records are those of the
\* packets whose frames wait to be shown, in that order; the parser's counter
\* counts the records.
\* Code: codec_vp9_show_frame, amvdec_dst_buf_done, amvdec_add_ts, amvdec_remove_ts.
OwnTimestamp ==
  LET place(f) == Cardinality({g \in Waiting : g.id <= f.id})
  IN  stop = "none" /\ status # "stopped" =>
        /\ \A f \in Waiting : /\ place(f) <= Len(timestamps)
                              /\ timestamps[place(f)].pkt = f.pkt
        /\ queued = Len(timestamps) - (IF work = "write" THEN 1 ELSE 0)

\* The interrupt thread finds the ready queue empty only after a packet was accepted on
\* a negative credit, which is a huge unsigned number, or DECODER_CMD took a buffer, or
\* Reserve frames more were shown than begun between the codec's count and its use: any
\* fewer the reserve makes up for, together with a hidden frame.
\* Code: esparser_queue, codec_vp9_num_pending_bufs, codec_vp9_get_new_frame.
Throttled == [][lacking # "none" /\ lacking' = "none" => overdrawn]_vars

\* "Check if the capture queue is already configured well for our usecase. If so,
\* keep decoding with it" (vdec_helpers.c:446): the decoder does go on.
KeepsDecoding == codec # "locked"

\* While a packet is written, the frames in it are where the firmware looks for
\* them, whatever their sizes and number: see Superframe.
PacketIntact == work = "write" => Writer!PacketIntact
=============================================================================
