# Verification of the Meson codec driver

TLA+ models, TLC runs and TLAPS proofs for the Amlogic Meson V4L2 mem2mem codec
driver of this repository.  Every definition that models code is named in the
`map` of `PROJECT.json` with the lines it stands for.

Contents: [the system](#1-the-system) - [components](#2-components) -
[modules](#3-modules-and-how-they-correspond-to-the-code) - [runs](#4-runs) -
[bounds](#5-bounds) - [fairness](#6-fairness) - [proofs](#7-proofs) -
[what is not covered](#8-what-is-not-covered) -
[observations](#9-observations-beside-the-findings) - [plan](#10-plan)

## 1. The system

The driver offers the video hardware of a Meson SoC (platform `gxl` is the only
one `of_device_id` matches) as one memory-to-memory device.  Userspace queues
buffers on an OUTPUT queue (`src`: a compressed stream for a decoder, pictures
for an encoder) and a CAPTURE queue (`dst`), and a *job* turns one of the former
into some of the latter.

```
 userspace   open/close  S_FMT  REQBUFS  STREAMON/OFF  QBUF  DECODER_CMD/ENCODER_CMD
    |
 kernel      vb2 queues, v4l2-mem2mem, control framework          (external: M2m)
    |
 meson-vcodec.c       sessions, stream statuses, glue              (Session, M2m)
    |   meson-formats.c, meson-codecs.c, meson-platforms.c         (Formats, Resources)
    |
    |-- decoder_mpeg12.c   -> amlvdec_mpeg_dpb.c     VDEC1         (MpegDecoder, MpegDpb)
    |-- decoder_h264.c     -> amlvdec_h264_dpb.c     VDEC1         (H264Decoder, H264Dpb, H264Poc,
    |                                                               H264Hw)
    |-- encoder_h264.c     -> amlvenc_h264{,_cbr}.c  HCODEC        (Encoder, Cbr)
    |-- meson-vdec-adapter.c                                       (Adapter)
          |-- vdec/esparser.c, vdec/vdec_helpers.c                 (Parser, Superframe)
          |-- vdec/vdec_hevc.c                       HEVC core     (Resources)
          |-- vdec/codec_hevc.c                                    (HevcDecoder, HevcRefs)
          |-- vdec/codec_vp9.c                                     (Vp9Decoder, Vp9Probs,
          |                                                         Vp9LoopFilter)
          |-- vdec/codec_hevc_common.c, the registers of both      (HevcBuffers, FrameMemory,
                                                                    SliceSetup)
```

Who runs concurrently:

* the thread of the m2m worker that runs a job (`device_run` until
  `v4l2_m2m_job_finish`); it takes no lock of the queues.  It sleeps in
  `wait_for_completion_timeout` for the hardware.  A job of the adapter returns at
  once and only ends when it is aborted;
* the interrupt handlers of VDEC1 and HCODEC, which complete that wait;
* behind the adapter: the parser's work item, which holds `session->lock`; the
  firmware of the HEVC core, which reads the ring buffer the parser fills and stops
  at each header; and the threaded interrupt handler, which holds the codec's lock;
* the ioctls of userspace.  Those on the queues hold `session->lock` for their
  whole duration, a STREAMOFF also while it waits in `v4l2_m2m_cancel_job` for
  the running job.  S_FMT holds `core->lock` instead; `DECODER_CMD`,
  `ENCODER_CMD` and S_CTRL hold nothing a job or a queue ioctl holds;
* other sessions, which share `core->active_session` and the hardware.

What fails: the hardware does not answer within 5 s, answers late, or with a
status nobody handles; a packet cannot be written to the ring; a step of prepare or
start fails (memory, firmware, power); the picture buffer, the ring or a queue is
full or empty; userspace stops, drains and closes at any time.

## 2. Components

For each: state - operations - interaction - what is hard - what must hold.

**Sessions and streaming states** (`meson-vcodec.c`, `meson-platforms.c`).
`core->active_session`, per session the two formats, the codec found for them and
the status of each queue (`NONE .. ABORT`).  open, release, S_FMT, queue_setup,
prepare_streaming, start_streaming, stop_streaming, unprepare_streaming,
job_ready, device_run.  Calls init/prepare/start/.../release of a codec.  Hard:
two queues start and stop in any order, each start may fail and is undone, a
STREAMOFF waits for a job while S_FMT and other files go on.  Must hold: what
the status says of a queue is what vb2 says; a codec is prepared once for as long
as a queue streams; no core stays powered; jobs run only with both queues
started; one session at a time.

**Formats** (`meson-formats.c`, the formats' part of `meson-vcodec.c`, the canvases
of `meson-codecs.c`).  Two formats with sizes; ENUM, TRY_FMT, S_FMT.  Hard: what one
queue is offered depends on what the other was set to, in any order and again and
again.  Must hold: whatever is set is a pair of the table, with a size it allows,
and buffers and canvases large enough for it.

**Set-up and its undoing** (`meson-codecs.c`, `meson-platforms.c`, and the prepare and
start functions of all codecs).  Memory, firmware, canvases, clocks, power domains,
interrupts.  Hard: the failure of each single step, never seen in a test.  Must
hold: what was got is given back.

**mem2mem glue** (`meson-vcodec.c`: `buf_queue`, `job_ready`, `device_run`,
`job_abort`, `stop_streaming`, `decoder_cmd`, `encoder_cmd`).  Ready queues,
ownership of buffers, draining flags.  Shared by all codecs.

**MPEG-1/2 decoder job** (`decoder_mpeg12.c`, `decoder_common.c`).  `t->src_buf`,
`t->dst_buf` (kept from one job to the next), the completion, the picture buffer.
Hard: timeout against late interrupt, STREAMOFF and STOP against a running job,
failure of a configuration half way.  Must hold: each buffer goes back exactly
once; no job hangs; a STREAMOFF leaves nothing behind.

**MPEG-1/2 picture buffer** (`amlvdec_mpeg_dpb.c`).  Slots, forward and backward
reference, a 16-bit sequence number.  Must hold: display order, references stay
until they are none, a bounded number of slots.

**H.264 decoder job** (`decoder_h264.c`).  As above, but the CAPTURE buffer is
taken in the middle of the job when a header has been parsed, a job is a dialogue
of several commands, and the two fields of a frame share a buffer
(`ctx->pending_field`).  The registers it writes before a picture name canvases,
reference lists and the places of motion vectors: they must be those of the
pictures the lists mean.

**H.264 picture buffer and picture order counts** (`amlvdec_h264_dpb.c`).  Slots,
reference marking (sliding window, memory management commands, long-term
references), list 0 and list 1 and their reordering, output order; the three
types of picture order count.  Must hold: the POC is the encoder's, however its
parts wrap; display order; entries of the lists are references.

**H.264 encoder job** (`encoder_h264.c`).  A job is a series of hardware commands:
SEQUENCE and PICTURE for a header, then a frame, IDR frames twice if the rate is
controlled.  `enc_start_count`, `frame_number`, `idr_pic_id`, the key-frame flag,
the controls.  Hard: four combinations of header modes, abort and drain in the
middle of the series.  Must hold: a header before the first frame, an IDR frame
after a header, numbers that differ, targets raised once, buffers back once.

**Rate control** (`amlvenc_h264_cbr.c`).  Blocks, the hardware's statistics of them, bits and
quantisers for each, a moving total of the bits spent.  Hard: divisions by rounded
numbers, tables of fixed size, clamps.  Must hold: each macroblock has a block, the
blocks share the target, quantisers are ordered and bounded, the target follows
what was spent.

**Adapter** (`meson-vdec-adapter.c`).  `should_stop`, `status`, which queues have been
started.  Turns the operations of a codec into the staging driver's: STREAMON powers
on or resumes, STREAMOFF drains and powers off.  Hard: the order of two queues, with a
change of the source in between.

**Stream parser and buffer bookkeeping** (`vdec/esparser.c`, `vdec/vdec_helpers.c`).
The ring buffer, the number of queued packets, a list of records (timestamp and
offset in the ring).  A work item feeds packets while CAPTURE buffers are free, the
interrupt thread takes records when frames are done.  Hard: the count of free buffers
is read before it is used, under another lock; the ring wraps; a write may fail; a
record ages.  Must hold: a CAPTURE buffer gets the timestamp of its own packet, no
packet is accepted for which no CAPTURE buffer will be left, bytes of a packet
survive the headers put between its frames.

**HEVC decoder** (`vdec/codec_hevc.c`).  A list of frames, `frames_num`, the POC of the
current and the last lower-layer picture, a lock.  Interrupt thread, resume, drain.
Hard: frames wait for display order and are references at the same time, the
source changes in the middle, STREAMOFF drains what the interrupt thread fills.  Must
hold: conservation of buffers, display order, reference lists and the memory
behind them.

**VP9 decoder** (`vdec/codec_vp9.c`).  The same with `ref_frame_map` and
`next_ref_frame_map`, hidden frames, and CAPTURE buffers that go back to userspace while
they are references.  Must hold also: no frame is decoded into a buffer that is a
reference; the probabilities and filter levels of a frame follow the frame before.

**Hardware cores and registers** (`vdec_1.c`, `vdec_hevc.c`, `amlvdec_vdec.c`,
`amlogic.c`, `amlvenc_h264.c`, `amlvdec_h264_lmem.c`, register headers).  Start, load
and stop of the HEVC core are in `Resources`; the rest are straight sequences of
register writes and accessors without control state, and the codec modules have
their outcome.

**Not built or not part of the driver**: `encoder_hevc.c` is a stub no table offers;
`vdec/vdec.c`, `vdec/codec_h264.c`, `vdec/codec_mpeg12.c`, `vdec/vdec_platform.c` and
`encoder_h264_hwops.c` are not among the Makefile's objects; `firmware-extractor.c` is
a host tool.

## 3. Modules and how they correspond to the code

| module | models | composed with |
|---|---|---|
| `M2m` | vb2 and v4l2-mem2mem as `meson-vcodec.c` uses them: owner of each buffer, ready queues, draining, one job | extended by the codec jobs and `Parser` |
| `MpegDpb` | `amlvdec_mpeg_dpb.c` | extended by `MpegDecoder`, `MpegReorder` |
| `MpegDecoder` | job thread, interrupt and ioctls of `decoder_mpeg12.c` | `M2m` + `MpegDpb` |
| `DisplayOrder` | abstract: each picture once, in display order, none missing, after it was decoded | implemented by `MpegReorder`, `H264Stream` |
| `MpegReorder` | the picture buffer fed by conforming streams | `MpegDpb`, refines `DisplayOrder` |
| `H264Poc` | `amlvdec_h264_dpb_decode_poc` and the stream that codes the counts | |
| `H264Dpb` | the rest of `amlvdec_h264_dpb.c` | extended by `H264Decoder`, `H264Stream` |
| `H264Stream` | the picture buffer fed by conforming streams of frames | `H264Dpb`, refines `DisplayOrder` |
| `H264Decoder` | job thread, interrupt and ioctls of `decoder_h264.c` | `M2m` + `H264Dpb` |
| `H264Hw` | what `decoder_h264.c` tells the hardware about references and motion vectors | functions, in `H264Decoder` |
| `Session` | `meson-vcodec.c` above one job: who has the hardware | |
| `Formats` | ENUM_FMT, TRY_FMT, S_FMT, canvases | functions, in `Session` |
| `Resources` | set-up functions with their labels, and their counterparts | functions, in `MCSession` |
| `Encoder` | job thread, interrupt, ioctls and controls of `encoder_h264.c` | `M2m` |
| `Cbr` | `amlvenc_h264_cbr.c` | functions, in `MCEncoder` |
| `Parser` | `esparser.c` and the records of `vdec_helpers.c`: the work item | `M2m` |
| `Adapter` | `meson-vdec-adapter.c`: ioctls, STREAMOFF, start | `Parser` |
| `HevcDecoder` | interrupt thread, drain and resume of `codec_hevc.c` | `Adapter` |
| `Vp9Decoder` | the same of `codec_vp9.c` | `Adapter` |
| `HevcRefs` | reference lists of a slice | functions, in `MCHevcDecoder` |
| `HevcBuffers` | memory beside the CAPTURE buffers, `codec_hevc_common.c` | extended by `FrameMemory` |
| `FrameMemory` | registers of `codec_hevc.c` and `codec_vp9.c` that name memory | functions, in `MCHevcDecoder` |
| `SliceSetup` | registers of both about references, scaling, deblocking | functions, in `MCHevcDecoder` |
| `Vp9Probs`, `Vp9LoopFilter` | adaptation of probabilities; limits and levels of the filter | functions, in `MCVp9Decoder` |
| `Superframe` | headers and padding of a packet, `esparser.c` | functions, in `Vp9Decoder` |
| `MC*` | instances for TLC | |
| `M2mLemmas`, `*Proofs` | lemmas and theorems | |

**Threads.** A codec module has a variable `pc` for the thread that runs a job.  An
action is the code between two points where another thread can be noticed: a
wait, a list that another thread takes from, a completion that is reset, a call
that returns a buffer.  `pc = "oops"` stands for an oops of the kernel (NULL or
freed memory) and stops everything.  Ioctls are one action each, except
STREAMOFF, which is three: it aborts the job (`StreamOff`), waits
(`stream[q] = "cancel"`) and, when the framework says the job is over, flushes
(`StopFlushStep`, one buffer at a time) and returns (`StopStreaming`).

**Functions.** A module without variables holds code that computes: tables,
addresses, lists, unwinding.  Its definitions are the code's, and its last one is what
must hold of them, over bounded inputs.  An `MC` module instantiates it and states
that as an invariant of the run in whose states the code is executed, guarded by the
state in which it is (a frame has been set up, a packet is being written), so that
the run that calls the code checks what it computes.

**Hardware.** `hw` is `off`, `running` or `halted`/`done`; while it runs it may
answer at any time with any status of its firmware, or never.  Register contents
are abstracted to what the driver decides by: which status, which kind of
picture, how a header reads.

**M2m** (external): `vb[b]` is the vb2 state of a buffer (`active` = the driver's),
`rdy[q]` the ready queue, `dropped` the buffers that `meson_vcodec_buf_queue`
neither queues nor returns after an abort (line 263), `aborted` the ABORT status
of both queues.  `last_src_buf` and `next_buf_last` are left out: the driver reads
neither.

**MpegDpb / MpegDecoder.** `slots[s].state` is `enum` `UNUSED .. READY_FOR_OUTPUT`;
`forwardRef`, `backwardRef` the two pointers; `srcBuf`, `dstBuf` are `t->src_buf`,
`t->dst_buf`; `flushAll`, `resume` tell in whose flush the thread is.
`decoder_start` takes one buffer after the other (`DeviceRun`, `TakeSource`,
`TakeDestination`), since `DECODER_CMD STOP` may take the last CAPTURE buffer in between
(`NoDestination`).  `decoder_abort` is `Abort`, which marks the context stopped, and then
`AbortReturns`, shared by these, `Timeout`, `PictureBufferFull`, `UnknownStatus` and
`ConfigureFails`.  `overrun` remembers that STREAMOFF has
finished a job whose thread still runs (see section 9): after that nothing
holds and nothing is claimed.

**H264Poc.** The module has both sides: `truth` is the POC the encoder means and
`decoded` what the driver computes of the `lsb`, `frame_num` and deltas that the
stream sends of it, with the `uint16_t` fields of a picture (`Trunc`).

**H264Dpb.** A slot has the fields of `dpb_pic`; `Added`, `PicDone`, `SlidingWindow`,
`Command`, `List0`, `List1`, `Reorder`, `Outputs` follow the functions of the C
file.  `Outputs` is the set of slots the C comparator puts first; where the keys are
equal the code's choice is nondeterministic here.

**H264Decoder.** `pc`, `reason` (what the flush in progress belongs to), `command`
(`ctx->cmd`), `posts` (interrupts of a job), `dpbPic`, `pendingField`.  `starved`
remembers that a header came when no CAPTURE buffer was left.

**Session.** `queue` is vb2's view of a queue, `status` the driver's.  `PrepareFails`,
`StreamOn`, `StreamOnFails` are a STREAMON with its outcomes, `StartLater` the
start of a queue that was prepared without buffers, `StreamOffWaits`/`StreamOff`
the two halves of a STREAMOFF, `Close` the release of a file.  `reformatted`,
`early` and `stolen` remember the three misuses the properties except.

**Resources.** A function is the sequence of its steps, each with what it gets and the
label its failure jumps to, and the labels with what they give back; control falls
through labels as in C.  A loop is a step whose failure has the loop's own undoing.
`UncleanFailures` names the functions that do not give back everything, and what
they leave; `CleanFailures` says that no other does.

**Formats.** `SetFormat` and `TryFormat` are functions of the session's two formats,
following the order of the code: first the guesses of `common_try_fmt_vid`, then what
is stored, then the sizes.  `Codecs`, the table of the platform, is a constant; `Reached(n)`
are the sessions after up to `n` calls with any of the formats and sizes that applications ask
for (`Asked`).

**Encoder.** `cmd`, `second`, `starts`, `frameNumber`, `idrPicId` are `t->cmd`,
`t->is_2nd_pass`, `enc_start_count` (3 for all greater values), `frame_number`,
`idr_pic_id`.  `StartCmd` chooses the first command of a job, `NextPart` and
`SecondPass` continue it; `JobDone`, `LastOfDrain`, `Finish` and `EndJob` are `encoder_done`,
`Timeout` and `AbortEnds` are `encoder_abort`, between whose steps ioctls run.  `boost` counts how often
the bit target was multiplied since it was set.  `raced` remembers that
`ENCODER_CMD STOP` took a CAPTURE buffer while a job had one, `overtaken` that STREAMOFF has
finished a job whose thread was still in `encoder_done` or `encoder_abort`: both mark the
context stopped before they are through with it.

**Parser.** `work` is where the work item is, between the points at which it can be
overtaken: it reads the codec's count of waiting frames (`seen`), decides with the ring's
free space, the ready queue and `queued` (`Refused`), makes the record (`Submit`, or
`RecordFailed` without memory for it), writes
(`Written`, `WriteFailed`).  What is compared with the space is what userspace gave (`Payload`), what
is written may be more (`PacketSize`).  `Credit` is the unsigned `num_dst_bufs`: negative, it
refuses nothing.  `vififo` and `written` are the ring; offsets are the code's, with
`wrapCount`.  `overdrawn` remembers that the last packet was accepted without credit, or on
a count which the frames shown since then make too large by more than the reserve covers, or that
`DECODER_CMD` took a buffer since.

**Adapter.** `stop` is how far the STREAMOFF of a queue is: abort of the job, decision,
power-off or drain, release by vb2.  `codec` is who is in the codec's code:
the interrupt thread (`frame`, `show`), a STREAMON that resumes, or `locked`, the thread
that waits for a lock it holds.  `work = "oops"` is parser work that runs after the
session was freed.

**HevcDecoder / Vp9Decoder.** `frames`, `framesNum`, `refMap`, `nextMap`, `curFrame`,
`prevFrame` are the C fields.  Both lists are sets: HEVC's is searched by order count,
VP9's is kept in the order of `id` (`FirstOf` is the head of the list), which frames get as they are
made.  `PostHeader` is the firmware, which chooses the stream as
it goes, under `Conforming`; `header.truth` and `truth` are what the stream means.
`HandleHeader`, `SourceChange`, `ShowFrame`, `PrepareFrame`/`StartFrame`/`NoFrame`, `ShowEnds` are the
interrupt thread; `DrainFrame` is one iteration of `flush_output`.  `starved` (HEVC:
`amvdec_abort`) and `lacking` (VP9: nothing is said, the firmware waits for ever) remember that
no CAPTURE buffer was found.  `led` (HEVC) remembers that a picture before its IDR picture in display
order, with a negative order count, was decoded, and `lost` the buffers of such pictures, which a drain
frees without giving them back.

## 4. Runs

| run | shows |
|---|---|
| `mpeg_decoder` | Every interleaving of job, interrupt and ioctls. `BufferConservation`: a buffer the driver was given is in one place, so none is returned twice or lost, also when the last CAPTURE buffer is gone before the job has taken it, and between the steps of an abort. `NoCrash`: no NULL or freed pointer. `StopHidesNothing`: a STREAMOFF leaves nothing in the decoder. `RefsInUse`: slots in state REF_IN_USE are the two pointers. `NoReferenceOutput`: a picture leaves only when it is a reference no more. `StreamOffReturns`: STREAMOFF returns, whatever the hardware does. |
| `mpeg_reorder` | For every stream of anchors and B pictures, open and closed groups: `InDisplayOrder` (refinement of `DisplayOrder`) and `NothingHeldBack`: MaxB + 2 slots are enough, and all is shown at the end. |
| `poc` | The three POC types: `DecodedRight` (decoded = meant), fields and frames, references or not, until an MMCO 5, and again after the next IDR picture. |
| `h264_stream` | As `mpeg_reorder`, with pyramids, IDR pictures in the middle and a sliding window; `ReferencesChosen`, of streams whose B pictures are no references: what the window keeps, what the lists of a B picture start with, the order of a P list up to a wrap of `frame_num`. |
| `h264_mmco` | **finding**: a memory management command takes its own number for its parameter. |
| `h264_decoder` | `BufferConservation` and `NoCrash` as for MPEG, for frames with long-term references and for pairs of fields; `ReferencesBacked`: no picture without a buffer of the driver's, list entries are references when decoding starts, and the registers name their canvases and motion vectors. |
| `session` | Two files in every order of set-up, start, failure, job, stop and close: `StatusAgrees`, `HardwareHeld`, `Balanced`, `PoweredDown`, `Exclusive`. With a file open: `ResourcesReturned` (each failure of each set-up function, and each counterpart), `FormatsAgree` (both queues set in any order: what is accepted is a pair and a size some codec supports, offers and replies hold; not of the CAPTURE size kept when CAPTURE is set last, see section 9). |
| `encoder` | Every interleaving of commands, interrupt, loss of it and ioctls, those between the steps of `encoder_done` and `encoder_abort` among them: `BufferConservation`, `NoCrash` (a freed context is used only in the two windows of section 9), `GroupsInOrder` (a header before frames; IDR frames numbered apart, both passes alike; other frames inside a group and no key frames), `HeaderThenIdr` (an IDR frame after a header), `BoostedOnce`, `JobEnds`, `RateFollows` (what the rate control computes). |
| `encoder_stuck` | **finding**: an aborted encoder job is never finished, so STREAMOFF may wait for ever. |
| `hevc_decoder` | Every interleaving of parser, firmware, interrupt thread and ioctls: `BufferConservation`; `OwnTimestamp` (a frame's record is its packet's, the parser's counter counts the records); `InOrder` (POCs are the stream's, also negative ones; display order, and no two frames of one POC, until a negative one comes); `Throttled` (CAPTURE buffers run out only after an unsigned wrap, a `DECODER_CMD`, or more than the reserve shown between the parser's two looks); `ReferencesReach` (lists, canvases, memory and motion vectors of a picture, with the exceptions its comment lists). |
| `vp9_decoder` | As `hevc_decoder`, with `RefsIntact` (decoded into a buffer nobody has, from the references the stream means), `TablesRight` (probabilities but for the pairs, filter levels), `PacketIntact` (the bytes of a superframe). |
| `vp9_lock` | **finding**: a change of the source that needs no new buffers locks the interrupt thread out of its own lock. |

Each property of a passing run has a mutant in `PROJECT.json`: a plausible mistake
in the code it is about, under which TLC finds it violated.

### Findings

1. `h264_mmco`.  "command and parameter, until command is 0"
   (`amlvdec_h264_lmem.h:954`).  `adaptive_memory_management` reads the parameter from
   the word of the command (`amlvdec_h264_dpb.c:586`).
2. `encoder_stuck`.  `encoder_abort` clears both buffers and then finishes the job
   only if one is set (`encoder_h264.c:691-707`).  `encoder_h264_abort` is to make up for
   it, but it runs before the timeout, or after `ENCODER_CMD START` cleared
   `has_stopped`, without effect.
3. `vp9_lock`.  "Check if the capture queue is already configured well for our usecase.
   If so, keep decoding with it" (`vdec/vdec_helpers.c:446`).  The threaded interrupt handler
   holds `vp9->lock` (`codec_vp9.c:2091`) when `amvdec_src_change` calls `codec_vp9_resume`,
   which takes it (1346).

Properties exclude what the code does wrong, or its user, by a history variable
(`overrun`, `raced`, `overtaken`, `failed`, `starved`, `disturbed`, `reformatted`, `early`, `stolen`,
`overdrawn`, `led`); each is set at the one step where it happens, and the comments of the
properties say which.

## 5. Bounds

*Buffers.* One OUTPUT buffer and two CAPTURE buffers (three behind the parser, of which
one is its reserve): every queue runs empty, and full; buffers that differ only in name
are symmetric where no liveness is checked.  The proofs are for any number.

*Slots, keys.* `mpeg_decoder`: two slots and two CAPTURE buffers, I and B pictures with temporal
references 0 and 1; `SeqMod = 2` makes sequence numbers wrap at the second I picture.  `mpeg_reorder` has `MaxB + 3` slots and buffers, one slot
more than `NothingHeldBack` says are needed, ten pictures, i.e. three groups with two B
pictures; `DecodeAnchor` takes an I picture only while the 16-bit sequence does not wrap, since a wrap
breaks the order (section 9); the proofs are for any `MaxB`, `SeqMod` and number of slots and buffers.
`h264_stream`: three references, up to two B pictures, nine pictures: the window
slides at least five times, `frame_num` (4 values) wraps, also between two references of one list; the proofs are for streams of any length
and any number of slots and references.  `h264_decoder`:
two slots, one reference, `MaxPosts = 3` interrupts in a job (a header, a picture, and
one more), one IDR picture (`MaxIdr`), a stream of frames and one of fields.

*POC.* `MaxPicOrderCntLsb = 8`, `MaxFrameNum = 4`, ten reference frames: both wrap
at least twice; the cycle of two offsets runs five times.  Proved for all widths in
types 0 and 2.

*Session.* Two files and two codecs, and two preparations (`MaxPrepared`).  A format is
set while streaming only once (`MaxIrregular = 1`), in a history in which no file has
stopped early and none was or will be opened while the other one streams.

*Encoder.* Groups of two frames, `idr_pic_id` modulo 2, separate and joined headers,
once and repeated, one pass and two; the proofs are for every combination of the controls,
every group size and range.

*Parser and its codecs.* A ring of four units in which the parser's own FIFO takes one,
packets of one and two units: the ring wraps within four packets and refuses the
larger one.  `Reserve = 1` instead of three CAPTURE buffers held back, so that with three buffers
the parser both feeds and waits, and its unsigned difference wraps in the
first packets.  Records are dropped after one (VP9) or three (HEVC) checks instead of
32.  HEVC: one picture of reordering, `MaxLsb = 4` with POCs from -1 to 4, so that the
lsb wraps and pictures precede their IDR picture, one reference; four packets.  With `Reserve = 1` a count
that is too large by one is still covered; dropping stale counts from `overdrawn` altogether makes TLC find
`Throttled` violated.  One VP9 packet is larger in the ring than what was given.  A picture of the higher temporal layer is displayed
before the last one of the lower layer.  VP9: two reference slots instead of eight - one
keeps what the other replaces - and three packets, each with a hidden frame or not.

*Functions.* `HevcRefs`: a picture with POC 4 and sets over the distances -1, -3, 1, 2, lists of
up to two entries.  `HevcBuffers`: three buffers, every order of queueing,
every failure.  `FrameMemory`: the sizes up to 3840x2160 in `Sizes`, all platforms
and depths.  `SliceSetup`: three pictures, lists of up to three.  `H264Hw`: 4x4
macroblocks, every first macroblock.  `Superframe`: up to three frames of up to three
cells, with and without an index, payloads below and above the least packet.  `Vp9Probs`: the layouts whole, the arithmetic on
samples with the ends of the ranges.  `Vp9LoopFilter`: every level, and every sequence of three
sharpnesses.
`Cbr`: pictures of 20 to 120 by 15 to 80 macroblocks for the blocks, frame rates 0 to 300 for the divisors, samples
with the ends for the rest.  `Formats`: the whole table of `gxl_codecs` (`GxlCodecs`), up to two calls, sizes below, between and
above the limits.  `Resources`: every step of
every function fails.

`CHECK_DEADLOCK FALSE` is in every configuration: userspace may stop calling, a
crash or a deadlock of the kernel stops it, and a stream ends.

## 6. Fairness

`FairSpec` of `MpegDecoder` and `Encoder` is weak fairness of `Job` - the steps of the
thread that runs a job - and of `Stop` - those of the thread in STREAMOFF once
the job is over.  Both are kernel threads that hold what they need; the wait of a
job is `wait_for_completion_timeout`, whose `Timeout` is one of the steps of `Job`.
Nothing is assumed of the hardware, which may never answer, nor of userspace.  In
the MPEG decoder the number of times the firmware asks for service in a job is
finite (`MaxAsks`), in the H.264 decoder the number of interrupts (`MaxPosts`):
otherwise firmware that asks for ever would keep a job alive.

The other specifications state no fairness and no liveness.  The H.264 job's loop, timeout
and abort are those of the MPEG job.  Behind the adapter jobs end only by abort, and STREAMOFF waits
by polling until no interrupt has come for 50 ms (`Inactive`), which the model takes as
the end of what the firmware had to do.

## 7. Proofs

All with tlapm, SMT (Z3), Zenon and LS4; eight modules.  Each theorem `Spec => []P` goes
through an inductive invariant `IInv` (`Init => IInv`, `IInv /\ [Next]_vars => IInv'`,
`IInv => P`), which TLC checked on the run's instance before it was proved.

**`M2mLemmas`**: what `M2m`'s operations do.  `Balanced(vb, rdy, taken, held, lost)` says that the
active buffers are those in the ready queues, `taken`, `held` and `lost`, each in one place and
once; `QueueKeepsBalance`, `TakeKeepsBalance`, `PickKeepsBalance`, `DoneKeepsBalance`, `ReturnKeepsBalance` and
`ForceKeepsBalance` say that queueing, taking (the first buffer, or one from the middle), returning a buffer and the return of
all of them by a stop keep it so.  `RecordsOK(s)` says that the entries of `s` follow one another in
the order of their packets; `AppendRecord`, `TailRecord` and their companions say what adding and removing one leaves.
The decoders behind the adapter and the H.264 job use it with their own `held`.

**`MpegDecoderProofs`**.  Assumed: `BufAssumption`
(the two queues have different buffers, NULL is none), `DpbAssumption`,
`MpegAssumption`.  `IInv == TypeOK /\ RefsInUse /\ (~overrun => JobInv /\ StreamInv /\
Conserved)`.  Conservation alone is not inductive: that `decoder_done` returns the
buffer it took needs to know at which `pc` which of the two buffers is set
(`JobInv`); that preparing the codec loses no picture needs that the picture buffer is
empty while the CAPTURE queue is off (`StreamInv`).  Theorems: `TypeCorrect`,
`ReferencesSafe`, `BuffersConserved`, `NeverCrashes`, `AbortReturnsAll`, and the action
properties `NothingHidden`, `ReferencesStay`.  The module begins with what each operation
of the picture buffer does to the buffers it holds, and ends with the streams of `MpegReorder`,
under `ReorderAssumption`.  `OrderInv` says which pictures wait: those that were decoded and not
shown, each in one slot (`WaitInv`); that display numbers and order keys go together, those of
the current group counted from its base (`KeyInv`); that the references are the last two anchors,
less than `MaxB + 2` apart (`AnchorInv`); that a flush leaves nothing it could give out
(`FlushedInv`).  The display order is kept because of what is *missing*: B pictures still to come (`bs`)
are those right before the last anchor, which is a reference, and nothing before them waits
that may be shown after them.  Theorems: `PicturesOrdered` (`ReorderSpec => []OrderInv`), `ShownInOrder` (each step
is one of `DisplayOrder` or a stutter), and `Prompt`, which needs `MaxB + 3` buffers or more:
pictures that wait have consecutive numbers but for those to come, so they number at most `MaxB + 2`.

**`H264DecoderProofs`**, for any number of buffers, slots and interrupts, any widths, and any
`Streams` of headers with the fields' types (`H264Assumption`): no conformance is assumed.
`IInv` is, until the job is overrun or starved, `TypeInv`, `JobInv` (what the job thread has at
each `pc`), `StreamInv` (the picture buffer is empty while the CAPTURE queue is off), `SlotInv`,
`FieldInv` and `BufferInv`.  Marking may touch a slot whose picture was given back; `SlotInv`
says that it never does with one that is unused, except when the *current* picture has been
given back before it was decoded: `decoder_done` then marks an empty slot, the flush that
follows outputs that one first, and returns no buffer (`Ghost`).  `FieldInv` says that a first field that waits for its
second still owns its buffer, so that the pair's buffer is held once.  The marking, the
insertion of a picture, the commands of a header and the search for output are lemmas
(`ReleasedFacts`, `AddedFacts`, ...), by induction on a function where the code
goes through an array.  Theorems: `Invariant`, `BuffersConserved`, `NeverCrashes`.

The same module proves the streams of `H264Stream` right, for any groups of B pictures, pyramids,
IDR pictures, commands and reordering, any number of references and slots, and streams of any
length.  Assumed is what the modules name: `StreamAssumption`, and `ReferenceAssumption`, that an
anchor is a reference and a pyramid leaves room for a second one.  Three invariants:

* `FramesInv` gives the display order.  The pictures that wait are those decoded and not shown
  (`WaitInv`), their keys are in the order of their display numbers across IDR pictures
  (`KeyInv`); B pictures still to come are right before an anchor, and what is displayed after
  them is a reference (`KeptInv`), so that the flush cannot reach it.  When the window slides, it drops the
  reference displayed first: with B pictures to come that is never the anchor behind
  them, because another reference is displayed before.  Theorems: `FramesKept`, `FramesInOrder` (each
  step is one of `DisplayOrder` or a stutter).
* `SpanInv` bounds the distance from a reference to the end of the stream by the references behind it:
  each brings at most `MaxB` other pictures.  So the oldest has at most `MaxRefs + MaxB *
  (MaxRefs - 1)` pictures, itself included, behind it: `FramesPrompt`.  A stream that takes references
  away by commands may keep an old one and drop those after it, for which there is no such bound.
* `PlainInv`, where only anchors are references: they are displayed in the order
  they were coded in (`AnchorInv`), the references are the newest of them with their `frame_num`
  (`RefNumbersInv`), the lists of a B picture start with the nearest on each side
  (`NextToInv`), that of a P picture is the window in reverse (`ReverseInv`).  Theorems:
  `OldestAnchorsGo`, `ReferencesMeant`.  The second has one hypothesis, `MaxRefs >= 2`, without which a B picture
  has not one reference on each side.  `frame_num` wraps any number of times; a P list is claimed to be
  newest first only when it has not wrapped between its oldest reference and the picture
  (`NewestFirst`), because after that it is in the wrong order (section 9).

What the hardware reads (`ReferencesBacked`) rests on three more invariants.  `ListedInv`: from the
header to the end of the decoding the pictures of the lists are references in use.  It holds of any
stream (`ListsStayValid`): the marking comes before the lists are built, and sorting, cutting and reordering
only permute and drop entries (`ListOfSet`, `CutIn`, `ReorderIn`).  `CurrentKept`: the picture that is
decoded is not released before.  `BackedInv`: a field that does not own its buffer has a partner
that does, and is output later.  These two need a hypothesis about the stream, `StreamConforms`, a
property of behaviours: no picture resets everything (MMCO 5) after making itself long-term
(MMCO 6), and the second field of a frame is displayed after the first.  Without it
the claim is false (section 9).  Theorem: `PicturesStayBacked`.  What the registers say (`RegistersRight`)
is arithmetic on rows and macroblocks, for any size of picture (`Rows`, `Areas`), any buffers and counts of
16 bits.  Theorem: `ReferencesStayBacked`.

The place of a picture in a sorted list is the number of pictures that come before it, so that what
the lists start with is counting: `PastList`, `FutureList` (the first entry for a B picture) and `FallingList`
(every entry for a P picture, whose references have consecutive frame numbers).

**`HevcDecoderProofs`**, for any buffers, packet sizes, ring and reserve, any width of the lsb, any order counts,
reorder depth and stream that conforms to it.  `IInv` has `LockInv` (who may run while a
STREAMOFF is under way), `SessionInv` (hardware, session status and the thread in
the codec), `FrameInv`, `HeaderInv` (the POC
derived from the lsb is the stream's: `PocRight`, arithmetic modulo `MaxLsb`, also below zero), `OrderInv` and
`BufferInv`.  A picture with a negative order count is never shown (section 9): it stays in the list and in
`framesNum`, and a drain loses its buffer.  `BufferInv` keeps an account of that (`lost`); `OrderInv` and the
parts of `FrameInv` about numbers say nothing once such a picture has come (`led`), and `LostInv` that nothing is
lost before.  That shown frames come before waiting ones is not inductive: a frame
is shown when more than `Reorder` frames wait, so one must know that at least `Reorder` pictures
after it in display order were decoded already (`OrderInv`), which a
drain breaks unless nothing of the sequence is still to come (`Over`).  `NeverStarved` rests on a
second invariant (`StreamsInv`, `SizedInv`, `CreditInv`): packets in the ring, the header that
waits and the frames of the list are covered by CAPTURE buffers, unless the last packet was
accepted without credit, or on a count too large by more than `Reserve`.  A smaller excess is what the reserve is
for: the interleaving of the parser's two looks with the interrupt thread is part of what is proved.
A third one, `RecordsInv`, is about timestamps, holds until `led`, and assumes `Reorder < MaxUsed`
(a level allows at most 15; a record is dropped when it has been passed over 32 times).
`PointerInv`: less than a ring was written since the parser last looked at its write
pointer, so that the offset in 64 bits which `esparser_get_offset` computes from a pointer that wraps is right.
`PktInv`: the packets of the frames that wait, of the posted header and of
the ring follow one another in this order, the frames' among themselves in any.  `OffsetInv`: of the records, those
that begin at or before a picture are the ones of its own and of earlier packets, also after records
were removed from the middle.  `RecordInv`: each packet to come and each frame
that waits has a record, no other has one, and `framesNum` separates the two kinds; but a drain takes the oldest
record for the first frame of the list, after which only the numbers agree.  That is enough unless a record
ages, which it does each time a later frame is shown before its own.
A frame overtakes at most `Reorder` others (`OvertakeInv`, from the stream's conformance), so
the record it takes has at most `Reorder` before it; the record behind that one ages and moves up by
a place, and the sum of its age and its place never exceeds `Reorder + 2` (`AgeInv`).
Theorems: `Invariant`, `BuffersConserved`, `ShownInOrder`, `Accounted`, `RecordsKept`, `OwnTimestamps`, and the
action property `NeverStarved`.

**`Vp9DecoderProofs`**, for any buffers, packet sizes, ring, slots and streams.  Assumed beside the
modules' own: `ReserveAssumption`, that the parser keeps back at least one CAPTURE buffer (three in the code), which a
hidden frame needs.  Four invariants rest on one another.  `IInv` has
`LockInv`, `StreamsInv`, `SessionInv`, `SizedInv`, `FrameInv`, `HeaderInv`, `OrderInv` (the
list is in the order in which frames were decoded) and `BufferInv`.  `CreditInv`: what is in the ring, the
header that waits and the frames of the list are covered by CAPTURE buffers, with the hidden frame counted
once, unless the last packet was accepted without credit, or on a count too large by `Reserve` or more.  `RefInv`: `ref_frame_map`, its successor and the current frame
name frames of the list (`MapInv`, `CurInv`, `NextInv`) and what the stream means by each slot
(`SlotInv`); a frame that a slot names is never among those `codec_vp9_show_frame` and the replacement of a hidden
frame remove.  `RecordInv`, `LastInv`, `IdleInv`: there is one record for each packet that is being written, is
in the ring or has a frame that waits, in the order of the packets, and the place of a frame in the list is the
index of its record - a bijection between the frames and the records before, by counting; VP9 takes the
first record for every frame, so that records do not age.
Theorems: `Invariant`, `BuffersConserved`, `Accounted`, `MapsFollow`, `ReferencesIntact`, `RecordsKept`,
`OwnTimestamps` and the action property `NeverStarved`.

The end of the module is about the bytes of a packet.  Assumed is `SuperframeAssumption`: the constants are
natural numbers and the start code is not empty.  By induction over the frames from the last to the first (`AllMoved`),
those not yet moved are where userspace put them, and those moved are behind their headers: the new place of
a frame ends before that of the next begins and begins behind the old places of all frames before (`Places`),
which is why the direction of the loop matters.  Theorem: `PacketStaysIntact`.

`ProbabilitiesFollow` is the arithmetic of `TablesRight` for every old probability and every pair of counters, of which
TLC tries some (`WeightsRight`): the observed probability (`ObservedIs`) does not fall as events move to
its side, a weighted mean of two probabilities lies between them (`WeightedIs`), and the weight is at most a half
(`FactorIs`).  Numbers are exact; the code adds two counters in an `int`.

**`H264PocProofs`**: `PocRight`, for `PocTypes \subseteq {0, 2}`.
`IInv == TypeOK /\ InStep /\ DecodedRight`.  Type 0 is arithmetic of
`x % MaxLsb`: two counts less than half the range apart have the same turn as the
comparison picks; type 2 that `frame_num` grows by at most one.  Type 1 sums a
cycle of offsets by recursion over the frames, which is induction over data and
stays with TLC.

**`SessionProofs`**, for any number of files and any table of codecs.  `IInv` is
`TypeOK` and the properties, with `Marked` (a status above `RELEASE` means a
streaming queue, and the converse where a codec is set), `Backed` (a streaming
session is prepared at least once), `Alone` (nobody but the streaming session is
active until a file is opened), `Accounted` (a powered core belongs to a streaming
session; `PoweredDown` follows) and `Waiting` (a STREAMOFF waits with a queue
that streams).  Theorems: `SessionTypeCorrect`, `StatusRight`, `CodecOutlives`,
`PreparedOnce`, `CoresOff`, `JobsHaveQueues`, `HardwareStays`, `OneAtATime`.

`FormatsAgree` - the pair and the sizes S_FMT accepts are those of a codec (`Supported`), its offers and replies can be
relied on (`OffersHold`, `Stable`), OUTPUT set last gives both queues one size (`OneSize`) - is proved for any number of calls, any sizes and any table that satisfies `FormatsAssumption`: its
formats are in `meson-formats.c`, no limit is below the least size of `common_try_fmt_vid`, and codecs with
the OUTPUT format of the first have no lower limits than it - the fallback of TRY_FMT gives a format of the first codec the
first codec's size, and ENUM_FRAMESIZES reports the greatest of all with that format; the macro `DECODER` gives all
of them one limit.  The invariant is `Sound`: each queue has nothing, or a format of the table
with the planes `set_buffer_sizes` computes from its size, which is at least the least.  What TRY_FMT makes of a request
is `Guess` (`TriedIs`, one case for each way through `common_try_fmt_vid`), what S_FMT then
stores is `SetAs` (`ChosenIs`).  The reply to a reply is the reply (`Again`) because a limited size is within the
limit, and the canvases fit because the planes are aligned as they are (`CanvasesAre`, for a raw
format of any size).  Theorem: `FormatsStayAgreed`.

**`EncoderProofs`**, for any buffers, controls and group sizes.
`IInv == TypeOK /\ CommandInv /\ NoCrash /\ (~raced /\ pc # "oops" => JobInv /\ Conserved)`.  A timeout leaves the
counters in any state, but then no job starts until the codec is prepared anew
(`Blocked`): so `CommandInv` describes the job that runs (`InJob`) and the state from which
the next may start (`Startable`) - how many commands the hardware has had for each
`cmd` (`CountInv`), whether a header is delivered or in the buffer (`HeaderInv`), what
`idr_pic_id` is compared with the last delivered one (`NumberInv`), when the target may be
raised (`TargetInv`).  `encoder_done` and `encoder_abort` mark the context stopped before they are
through with it, and STREAMOFF then finishes the job under the thread (`overtaken`): buffers stay
conserved there too, because vb2 takes back only what is active and the thread returns only what
still is; the freed context is used in these two windows and in no other.  Theorems: `EncoderTypeCorrect`, `EncoderBuffersConserved`,
`EncoderNeverCrashes`, `HeaderComesFirst`, `HeadersBeginGroups`, `IdrNumbersDiffer`,
`FramesInGroup`, `GroupsRight`, `TargetRaisedOnce`.

Two theorems say of the rate control what `RateFollows` tries for some parameters.  `RateKept`: for any parameters in
`RateParams` (the quantiser's bounds in order, at least one bit per frame, 1 to 255 frames per second when rounded) and
frames of any sizes, the state stays in `RateState`, and each frame is `FrameRight` - the counter by which the
total is divided is not zero, the moving average is at most the largest frame (`TotalIs`: removing a part in `fps` of
`fps + 1` frames leaves at most `fps` of them), the target stays within half and twice the average, the quantiser
within its bounds, and it rises only on too many bits and falls only on too few.  `QuantisersOrdered`: for any
bounds in order, the sixteen tables and the frame's are within them and ordered by row and by table; by induction over the tables.  That
the bounds are in order is assumed, because `V4L2_CID_MPEG_VIDEO_H264_MIN_QP` and `_MAX_QP` are set independently and
nothing compares them.  Numbers are exact: overflow in C is not claimed of.

**Only model-checked**, and why:

* liveness (`StreamOffReturns`, `JobEnds`): fairness is out of the prover's reach;
* POC type 1: a sum by recursion over the frames;
* `OwnTimestamp` of HEVC once a picture with a negative order count has come (`OwnTimestamps` is proved up to there);
* the properties of functions `ResourcesReturned`, `RateFollows`, `ReferencesReach`,
  `TablesRight`: statements about the layouts and constants of the code, which are
  evaluated.  Of two of them parts are proved for all values (`RateKept`, `QuantisersOrdered`,
  `ProbabilitiesFollow`); the blocks of a picture, their shares of the target (a sum over macroblocks),
  the steady state (a fold over frames) and the places of probabilities are not.

## 8. What is not covered

* Registers that are given constants, firmware, metadata (timestamps are packet numbers; colour,
  timecode).  Registers are modelled where their value depends on other pictures, buffers or
  the header.  `amlvenc_h264.c`, `amlvdec_vdec.c` and `amlogic.c` are such sequences as a whole.
* The kernel framework beyond `M2m`; probe and remove but for their unwinding, the control
  framework's locking; failures of memory allocation inside the framework.
* `Session`: S_FMT is one step with respect to the queue ioctls of other
  sessions; frame intervals are left out.
* `H264Poc`: a stream of fields contains unpaired fields only.  `H264Decoder`: in the run's
  streams the first of two fields is displayed first.  `H264Stream`: frames only; at most
  one command and one reordering per picture.
* `Encoder`: QBUF and the key-frame flag are one step; the hardware answers a command
  with the status of this command, an unknown one or nothing; the retry
  (`encoder_h264.c:600`) is left out because `amlvenc_h264_cbr_frame_done` never asks for
  one; failures of prepare are in `Session` and `Resources`.  `Cbr`: the packing of tables into words.
* `Parser`: a write of a packet is one step; the end of the search (`search_done`, `esparser.c:229`)
  has only outcomes: found, found late, not found.  The recycle thread and the tables of
  canvases serve codecs of `vdec_1`, which the adapter never selects.
* `Resources`: the DMA of a firmware load that hangs.
* `HevcDecoder`: several slices of a picture are one step (`HevcRefs` has them); one picture in a
  packet.  `Vp9Decoder`: `show_existing_frame` is not used; one hidden frame at a time, which
  is no reference of the frame that replaces it; the size changes at key frames.
  The endless search (`codec_vp9.c:1207`) is excluded: the step is not taken.
* The components with status `not_modelled` in `PROJECT.json`: register programming of the
  encoder, the stub, files that are not built, host tools.

## 9. Observations beside the findings

Seen while modelling; no run asserts them.  Of most no comment, doc or test states the
contrary, or the model leaves the detail out.  Of three a comment does: "sort by frame_num difference"
(`amlvdec_h264_dpb.c:415`), "remove oldest reference" (`:673`) and "IDR by the next encoder_start"
(`encoder_h264.c:741`, where another header may follow).  There the properties claim the part that is
true, and say what they leave out (`ReferencesChosen`, `HeaderThenIdr`).

* `decoder_mpeg12.c:897`: `DECODER_CMD STOP` sets `has_stopped` also in the middle of a job (when it
  takes the last CAPTURE buffer), and then STREAMOFF finishes a live job and flushes, or frees,
  the context under it (`overrun`); `decoder_h264.c:1149` does the same.
* `decoder_mpeg12.c:615`: after a failed configuration `decoder_abort` has finished the
  job, and `decoder_start` starts the hardware all the same.
* `decoder_mpeg12.c:628`: the hardware is started before the completion is reset; an
  interrupt in between costs the timeout.
* `amlvdec_mpeg_dpb.c:44`: the 16-bit sequence wraps after 65536 I pictures; newer
  pictures then sort before held ones.
* `amlvdec_h264_dpb.c:666`: the sliding window drops the reference *displayed* first, not
  the oldest, when B pictures are references; the comment at 673 says "remove oldest".
* `amlvdec_h264_dpb.c:322`: reordering commands of list 1 are applied to list 0, and
  several commands end in reverse order; `:20`/`:415`: the P list is sorted by
  `frame_num` instead of its difference; `:530`: long-term marking ignores the state;
  `:572`: MMCO 5 is applied to the picture that carries it, `amlvdec_h264_dpb.h:88` speaks
  of the previous one; `:704`, `amlvdec_h264_dpb.h:65`: negative POCs become large.
* `amlvdec_h264_dpb.c:262`: a stream with three references and six B pictures needs 15 of
  the 14 slots it is given.
* `decoder_h264.c:668,709`: when STOP has taken the CAPTURE buffer, `vdec_h264_header_done`
  fails after storing the picture, and the abort dereferences NULL (`starved`); `:700`: the
  second field of a frame that is no reference takes a buffer of its own; `:808`: two
  fields with the same POC may return a shared buffer early.
* `amlvdec_h264_dpb.c:484,624,635`: a header whose commands make its own picture long-term (MMCO 6) and
  then reset everything (MMCO 5) releases the picture before it is decoded; the flush at the header gives its
  buffer back to userspace, and the hardware then decodes into it.  No buffer is lost (`BuffersConserved`), but the picture
  has none (`PicturesBacked`, which is why `ReferencesStayBacked` assumes `StreamConforms`); TLC finds the trace when such a header is among `Streams`.
* `decoder_h264.c`, registers: `:637-642` halves the row of a co-located field for pairs of macroblocks
  and not for frames, so that only the first row is right; `bool shift` takes the value 2 and
  keeps 1, so 48 instead of 24 bytes are kept for a macroblock (`amlvdec_h264.h:27`); the POCs are
  `uint16_t`, so distances and the choice of the nearer field are wrong across zero;
  `configure_buffer_info` gives every frame the structure and the POCs of the current picture.
* `encoder_h264.c:646,689`: the context is marked stopped before `encoder_done` (650-669) and `encoder_abort`
  (691-708) are through with it; two STREAMOFFs may free it under the thread (`overtaken`).
* `encoder_h264.c:756`: separate, repeated headers: each header job is followed by another,
  no IDR frame comes any more; `:643`: STOP during the last job marks another CAPTURE
  buffer as last, and with no CAPTURE buffer at hand the drain never ends; `:804`: a joined
  header is lost with the frame that fails; `:1225`: the control handler may write to a
  context that is being freed.
* `amlvenc_h264_cbr.c`: `fps` of 0 (`:332`) or 256 makes a divisor zero; at one frame per second
  the moving total loses the frame it has just counted, so it stays 0; without rate control `memset`
  counts bytes and fills half of the table of sizes; `:384` clamps fullness between equal bounds.
* `meson-vcodec.c:655,709`: opening or closing a file changes the active session of others;
  `:690`: a failed open leaves a dangling one; `:672`: the error check reads an unassigned
  field, and the unwinding omits `v4l2_fh_del`; `:968`: the filter for compatible formats
  matches what is being set; `:1489`: the device is registered before its lock exists.
  S_FMT (`:1096-1146`): after CAPTURE was set last the reply has OUTPUT's size and the
  session keeps the size asked for; S_FMT of OUTPUT with the format of another codec overwrites the session's
  and then returns EINVAL; TRY_FMT offers formats that S_FMT refuses.
* `meson-codecs.c`: odd heights lose a row of chroma on their canvas; the chroma planes of `yuv420` may be
  misaligned, and what `validate_canvas_align` finds is ignored.
* `meson-vdec-adapter.c:561`: teardown leaves work scheduled that will use the freed session
  (`work = "oops"`); `:463`: prepare undoes nothing when it fails; `:305`: the decoder is powered off with the
  first queue.  `meson-platforms.c:321`: power that fails half way stays on half.
* `vdec/esparser.c:318`: the unsigned difference wraps and lets the first packets in unchecked, which
  the reserve of three absorbs together with a stale count and a hidden frame; a count from before more than
three frames were shown, which an IDR picture after a deep reordering can do, is more than it absorbs; `:370`: a record is
  removed by timestamp value; the free space is compared with the packet before headers and
  padding are added.  `vdec/vdec_helpers.c:373`: a record that is dropped is never counted as parsed.
* `vdec/codec_hevc.c:476`: POCs are compared as unsigned numbers with INT_MAX, a frame with a negative one is
  never shown, counts as one that waits, so that the others are shown too early, and loses its buffer when the list is
  freed; so are they for the low delay flag (`:401`); `:573-662`: a start that fails leaks the
  workspace; `:588`: the workspace is set up before the depth of the stream is known, so ten-bit streams of
  G12A never get the MMU's memories (VP9 does it again when it resumes, `codec_vp9.c:1353`); `:742`: the
  slice type of a frame is its first slice's, `cur_slice_idx` has no bound; `:1143`: a reference
  that is missing is skipped, and the later ones are shifted against their POCs; an I slice keeps the
  `col_frame` of the slice before, which `show_frames` may have freed when `:1006` reads it; `:1122`: the cache gets entry 0 of list 0 twice for B slices.
* `vdec/codec_hevc_common.c:134`: on all but the first platform the table of frames is in the
  order of queueing, and is looked up by index of buffer; a second resume of a compressed stream writes its addresses over those of the first, whose memory leaks; what is
  freed is computed from the size at that time; 24 is the most buffers, which `queue_setup` does not say;
  4096x2304 would not fit the map of the MMU.
* `vdec/codec_vp9.c:1242`: the hidden frame that is dropped may still be a reference, and `prev_frame`
  may point to it; `:1207`: the search goes round for ever with two ready buffers that are references, and
  gives up silently with one or none; `:1624-1655`: all but the first pair of a group go to one place of the table of
  probabilities; `:681`: a list is counted without its lock; references are lost when the size changes between
  key frames (the FIXME); `show_existing_frame` becomes a new frame; the previous frame's motion vectors
  may lie in the area the current one writes.

## 10. Plan

In order of what matters most to the user of the driver: first that no
buffer is lost and no job hangs (M2m jobs), then that pictures come out right
(display order, POC, lists), then who holds the hardware, then the numbers.

| step | modules | state |
|---|---|---|
| 1 | `M2m`, `MpegDpb`, `MpegDecoder`; proofs | done |
| 2 | `DisplayOrder`, `MpegReorder`; proof of the refinement | done |
| 3 | `H264Poc`; proofs for types 0 and 2 | done |
| 4 | `H264Dpb`, `H264Stream`, `H264Decoder`, `H264Hw`; proofs of the job, of the display order and of the lists | done |
| 5 | `Session`; proofs | done |
| 6 | `Encoder`; proofs | done |
| 7 | `Parser`, `Adapter`, `Superframe`; proofs with `HevcDecoder`'s | done |
| 8 | `HevcDecoder`, `HevcRefs`, `HevcBuffers`, `FrameMemory`, `SliceSetup`; proofs of buffers, order, credit, records | done |
| 9 | `Vp9Decoder`, `Vp9Probs`, `Vp9LoopFilter` | done; proofs of buffers, credit, references, records |
| 10 | `Cbr`, `Formats`, `Resources` | done |
| 11 | proofs: which streams keep a buffer behind every picture in use and every list entry (`ReferencesBacked`); the bytes of a packet (`PacketIntact`); formats for any table of codecs (`FormatsAgree`) | done |
| 12 | `HevcDecoder` with several slices as steps, `show_existing_frame` and size changes between key frames in `Vp9Decoder`, an abstract decoder which both implement; probe and remove against open files | planned |

Each run keeps a question of its own: a new property joins the run whose states it is about.
