------------------------------- MODULE Resources -------------------------------
(***************************************************************************)
(* What the functions that set something up hold when one of their steps   *)
(* fails, and what their counterparts give back.  A function is a sequence *)
(* of steps, each with the label its failure jumps to, and the labels at   *)
(* its end, which the control falls through.  Most of them are written     *)
(* once for every decoder and are never seen failing.                      *)
(***************************************************************************)
EXTENDS Integers, SequencesExt, FiniteSetsExt

Step(gets, goto) == [gets |-> gets, goto |-> goto, fallout |-> {{}}]
Label(name, frees) == [name |-> name, frees |-> frees]

\* "drops" is given back on the way out in any case
Fn(steps, labels, drops) == [steps |-> steps, labels |-> labels, drops |-> drops]

\* what the labels from "name" on give back; "return" is none of them
Unwound(f, name) ==
  UNION {f.labels[i].frees :
           i \in {i \in DOMAIN f.labels : \E j \in 1 .. i : f.labels[j].name = name}}

Gotten(f, n) == UNION {f.steps[i].gets : i \in 1 .. n}

\* when it succeeds
Holds(f) == Gotten(f, Len(f.steps)) \ f.drops

\* when step k fails, whose callee has left "left" behind
Left(f, k, left) == ((Gotten(f, k - 1) \cup left) \ Unwound(f, f.steps[k].goto)) \ f.drops

Failures(f) == UNION {{Left(f, k, left) : left \in f.steps[k].fallout} : k \in DOMAIN f.steps}

\* a step that is such a function itself
Call(f, goto) == [gets |-> Holds(f), goto |-> goto, fallout |-> Failures(f)]

\* a loop that gets one after the other, and on failure frees from the one before
Loop(names) ==
  Fn([i \in DOMAIN names |-> Step({names[i]}, IF i = 1 THEN "return" ELSE names[i - 1])],
     Reverse([i \in DOMAIN names |-> Label(names[i], {names[i]})]), {})

-----------------------------------------------------------------------------
(* Helpers of meson-codecs.c and meson-platforms.c.                        *)

Buffers  == <<"buffer1", "buffer2", "buffer3">>
Canvases == <<"canvas1", "canvas2", "canvas3">>

BuffersAlloc  == Loop(Buffers)
BuffersFree   == ToSet(Buffers)
CanvasAlloc   == Loop(Canvases)
CanvasFree    == ToSet(Canvases)

RequestFirmware == Fn(<<Step({"firmware dma"}, "return"), Step({"firmware"}, "free_dma")>>,
                      <<Label("free_dma", {"firmware dma"})>>, {})
ReleaseFirmware == {"firmware", "firmware dma"}

\* load_firmware of a decoder: the hardware has its copy when it returns
LoadFirmware ==
  Fn(<<Call(RequestFirmware, "return"), Step({}, "release_firmware")>>,
     <<Label("release_firmware", ReleaseFirmware)>>, ReleaseFirmware)

\* clk_set_rate, clk_prepare_enable
ClkPrepare(clk) == Fn(<<Step({}, "return"), Step({clk}, "return")>>, << >>, {})

\* meson_vcodec_pwrc_on, which has no labels
PwrcOn  == Fn(<<Step({"awake"}, "return"), Step({"memories"}, "return"), Step({"joined"}, "return")>>,
              << >>, {})
PwrcOff == {"awake", "memories", "joined"}

-----------------------------------------------------------------------------
(* VDEC1 and the decoders on it (decoder_common.c, decoder_mpeg12.c,       *)
(* decoder_h264.c).                                                        *)

Vdec1Init == Fn(<<Call(ClkPrepare("vdec1 clk"), "return"), Call(PwrcOn, "disable_clk")>>,
                <<Label("disable_clk", {"vdec1 clk"})>>, {})
Vdec1Release == PwrcOff \cup {"vdec1 clk"}

\* decoder_mpeg_init, decoder_h264_init; the second step asks for the interrupt
DecoderInit == Fn(<<Call(Vdec1Init, "return"), Step({}, "release_vdec1")>>,
                  <<Label("release_vdec1", Vdec1Release)>>, {})

\* mutant: a canvas that cannot be had goes to the wrong label
DecoderPrepareLow ==
  Fn(<<Step({"ctx"}, "return"), Call(BuffersAlloc, "free_ctx"), Call(LoadFirmware, "free_buffers"),
       Call(CanvasAlloc, "free_ctx"), Step({"irq"}, "free_canvas")>>,
     <<Label("free_canvas", CanvasFree), Label("free_buffers", BuffersFree),
       Label("free_ctx", {"ctx"})>>, {})

\* decoder_mpeg_prepare, decoder_h264_prepare
DecoderPrepare ==
  Fn(<<Step({"ctx"}, "return"), Call(BuffersAlloc, "free_ctx"), Call(LoadFirmware, "free_buffers"),
       Call(CanvasAlloc, "free_buffers"), Step({"irq"}, "free_canvas")>>,
     <<Label("free_canvas", CanvasFree), Label("free_buffers", BuffersFree),
       Label("free_ctx", {"ctx"})>>, {})

DecoderUnprepare == {"irq", "ctx"} \cup CanvasFree \cup BuffersFree

-----------------------------------------------------------------------------
(* The H.264 encoder.                                                      *)

EncoderInit ==
  Fn(<<Call(ClkPrepare("hcodec clk"), "return"), Step({}, "disable_clk"),
       Call(PwrcOn, "disable_clk"), Call(LoadFirmware, "disable_hcodec"),
       Step({}, "disable_hcodec")>>,
     <<Label("disable_hcodec", PwrcOff), Label("disable_clk", {"hcodec clk"})>>, {})
EncoderRelease == PwrcOff \cup {"hcodec clk"}

\* the steps after the first: the table of the picture formats, buffers, the
\* rate control, canvases, their configuration, the interrupt
EncoderPrepare ==
  Fn(<<Step({"ctx"}, "return"), Step({}, "free_ctx"), Call(BuffersAlloc, "free_ctx"),
       Step({"block sads"}, "free_buffers"), Call(CanvasAlloc, "free_buffers"),
       Step({}, "free_canvas"), Step({"irq"}, "free_canvas")>>,
     <<Label("free_canvas", CanvasFree), Label("free_buffers", BuffersFree \cup {"block sads"}),
       Label("free_ctx", {"ctx"})>>, {})
EncoderUnprepare == {"irq", "ctx", "block sads"} \cup CanvasFree \cup BuffersFree

-----------------------------------------------------------------------------
(* The decoders of the staging driver: vdec_start_streaming, vdec_poweron, *)
(* vdec_hevc_start, codec_hevc_start and codec_vp9_start.                  *)

\* The context is sess->priv, which vdec_stop_streaming frees.  The label frees
\* it, and no more.
HevcCodecStart ==
  Fn(<<Step({"hevc"}, "return"), Step({"workspace"}, "free_hevc"), Step({"aux"}, "free_hevc")>>,
     <<Label("free_hevc", {"hevc"})>>, {})
HevcCodecStop == {"workspace", "aux"}

Vp9CodecStart ==
  Fn(<<Step({"vp9"}, "return"), Step({"workspace"}, "free_vp9")>>, <<Label("free_vp9", {"vp9"})>>, {})
Vp9CodecStop == {"workspace"}

\* vdec_hevc_load_firmware: too small, no memory, or a DMA that hangs
HevcLoadFirmware ==
  Fn(<<Step({"firmware"}, "return"), Step({}, "release_firmware"), Step({"mc"}, "release_firmware"),
       Step({}, "free_mc")>>,
     <<Label("free_mc", {"mc"}), Label("release_firmware", {"firmware"})>>, {"mc", "firmware"})

\* G12A and SM1 have a second clock
SecondClk(fast) == IF fast THEN <<Step({"hevcf clk"}, "return")>> ELSE << >>

\* vdec_hevc_stop.  It stops the codec only if sess->priv is set, which the codec
\* does last.
HevcStop(fast) == {"hevc clk", "hevc power"} \cup (IF fast THEN {"hevcf clk"} ELSE {})

\* vdec_hevc_start, of a codec.  The label clk_failed is code at the clock itself.
HevcStart(fast, codecStart) ==
  Fn(SecondClk(fast) \o
     <<Step({"hevc clk", "hevc power"}, "clk_failed"), Call(HevcLoadFirmware, "stop"),
       Call(codecStart, "stop")>>,
     <<Label("stop", HevcStop(fast)), Label("clk_failed", IF fast THEN {"hevcf clk"} ELSE {})>>, {})

PowerOn(fast, codecStart) ==
  Fn(<<Step({"parser clk"}, "return"), Step({"dos clk"}, "disable_dos_parser"),
       Call(HevcStart(fast, codecStart), "disable_dos")>>,
     <<Label("disable_dos", {"dos clk"}), Label("disable_dos_parser", {"parser clk"})>>, {})

StartStreaming(fast, codecStart) ==
  Fn(<<Step({"vififo"}, "return"), Call(PowerOn(fast, codecStart), "vififo_free")>>,
     <<Label("vififo_free", {"vififo"})>>, {})

\* vdec_stop_streaming and vdec_poweroff, of a codec that runs
StopStreamingFrees(fast, codecStop) ==
  HevcStop(fast) \cup codecStop \cup {"dos clk", "parser clk", "vififo", "hevc", "vp9"}

\* meson_vdec_adapter_prepare returns at every failure; the last step is vdec_open
AdapterPrepare ==
  Fn(<<Step({"adapter"}, "return"), Step({"parser irq"}, "return"), Step({"irq"}, "return"),
       Step({}, "return")>>, << >>, {})
AdapterUnprepare == {"adapter", "parser irq", "irq"}

-----------------------------------------------------------------------------
(* The driver itself (meson-vcodec.c).  What devm_ functions get goes back *)
(* by itself.                                                              *)

Probe ==
  Fn(<<Step({"v4l2_dev"}, "return"), Step({"m2m_dev"}, "err_v4l2_unregister"),
       Step({"vfd"}, "err_m2m_release")>>,
     <<Label("err_m2m_release", {"m2m_dev"}), Label("err_v4l2_unregister", {"v4l2_dev"})>>, {})
DriverRemove == {"vfd", "m2m_dev", "v4l2_dev"}

\* meson_vcodec_session_open.  The result of v4l2_m2m_ctx_init is tested through a
\* pointer that is not set yet: its failure is never seen.
SessionOpen ==
  Fn(<<Step({"session", "fh", "listed"}, "return"), Step({"ctrls", "m2m_ctx"}, "err_fh_exit")>>,
     <<Label("err_ctrl_handler_free", {"ctrls"}), Label("err_fh_exit", {"fh", "session"})>>, {})
SessionRelease == {"m2m_ctx", "ctrls", "listed", "fh", "session"}

-----------------------------------------------------------------------------
Clean(f) == Failures(f) = {{}}

\* what a register that cannot be written leaves of a power domain
HalfOn == {{}, {"awake"}, {"awake", "memories"}}

\* A function that fails holds nothing, whatever the step, ...
CleanFailures ==
  /\ Clean(BuffersAlloc) /\ Clean(CanvasAlloc) /\ Clean(RequestFirmware)
  /\ Clean(LoadFirmware) /\ Clean(HevcLoadFirmware)
  /\ Clean(DecoderPrepare) /\ Clean(EncoderPrepare) /\ Clean(Probe)
  /\ \A fast \in BOOLEAN : Clean(StartStreaming(fast, Vp9CodecStart))

\* ... but for these: HEVC without its second buffer leaves the first one, the
\* adapter undoes nothing, a file that cannot be opened stays in the list of
\* files, and a power domain that fails half way stays half on.
UncleanFailures ==
  /\ \A fast \in BOOLEAN : Failures(StartStreaming(fast, HevcCodecStart)) = {{}, {"workspace"}}
  /\ Failures(AdapterPrepare) =
       {{}, {"adapter"}, {"adapter", "parser irq"}, {"adapter", "parser irq", "irq"}}
  /\ Failures(SessionOpen) = {{}, {"listed"}}
  /\ Failures(DecoderInit) = HalfOn /\ Failures(EncoderInit) = HalfOn

\* what a success holds, the counterpart gives back: all of it and no more
Counterparts ==
  /\ Holds(DecoderInit) = Vdec1Release /\ Holds(DecoderPrepare) = DecoderUnprepare
  /\ Holds(EncoderInit) = EncoderRelease /\ Holds(EncoderPrepare) = EncoderUnprepare
  /\ Holds(AdapterPrepare) = AdapterUnprepare
  /\ Holds(SessionOpen) = SessionRelease /\ Holds(Probe) = DriverRemove
  /\ \A fast \in BOOLEAN :
       /\ Holds(StartStreaming(fast, HevcCodecStart)) \cup {"vp9"} =
            StopStreamingFrees(fast, HevcCodecStop)
       /\ Holds(StartStreaming(fast, Vp9CodecStart)) \cup {"hevc"} =
            StopStreamingFrees(fast, Vp9CodecStop)

\* Memory, clocks, power, canvases and interrupts: what was got is given back, by
\* the failure of any later step or by the counterpart, with the exceptions
\* UncleanFailures lists.  Code: the labels of each function.
ResourcesReturned == CleanFailures /\ UncleanFailures /\ Counterparts
=============================================================================
