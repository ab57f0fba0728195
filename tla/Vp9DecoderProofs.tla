--------------------------- MODULE Vp9DecoderProofs ---------------------------
(***************************************************************************)
(* Proofs about Vp9Decoder for any number of buffers, reference slots and  *)
(* packets, and any ring.  The invariant IInv says who may run beside a    *)
(* STREAMOFF, what the session's status, the firmware and the interrupt    *)
(* thread know of each other, in which order packets reach the list of     *)
(* frames, and that each buffer vb2 has given away is in one place.  On it *)
(* rest the sums of the parser's reserve of CAPTURE buffers.  The end is   *)
(* about the bytes of a packet and the probabilities after a frame.        *)
(***************************************************************************)
EXTENDS Vp9Decoder, M2mLemmas, FiniteSetTheorems

One(b) == IF b THEN 1 ELSE 0

\* a header the firmware waits with
Pending == hw \in {"posted", "held"}

\* the packets that are in the ring, as far as the firmware may see them
Sent == packets - One(work = "write")

\* who may run while a queue is streamed off
LockInv ==
  /\ stop = "none" <=> LockFree
  /\ \A q, r \in Queue : stream[q] = "cancel" /\ stream[r] = "cancel" => q = r
  /\ work \notin {"idle", "oops"} \/ codec = "resume" => LockFree
  /\ work # "write" => cur = NoBuf
  /\ \A q \in Queue : stream[q] \in {"idle", "off"} => rdy[q] = << >>

\* what vdec_start_streaming and vdec_stop_streaming know of the queues
StreamsInv ==
  /\ streamon = {q \in Queue : stream[q] \in {"on", "cancel"}}
  /\ hw # "off" => streamon # {}
  /\ stop \in {"drain", "release"} /\ status = "needs_resume" => streamon = Queue
  /\ codec \in {"frame", "resume"} \/ (sized /\ hw \in {"run", "posted"}) => "dst" \in streamon

\* what the firmware, the interrupt thread and the ioctls know of each other
SessionInv ==
  /\ hw = "off" <=> status = "stopped"
  /\ status \in {"stopped", "init", "running", "needs_resume"}
  /\ codec \in {"idle", "frame", "show", "resume", "locked"}
  /\ codec \in {"frame", "locked"} => hw = "posted"
  /\ codec = "frame" => ~header.resize
  /\ codec # "idle" => hw # "off"
  /\ codec = "resume" => status = "needs_resume"
  /\ status = "needs_resume" => hw = "held" /\ header.key /\ lacking = "no"
  /\ hw = "held" => status = "needs_resume" \/ lacking # "no"
  /\ lacking # "no" => hw = "held"
  /\ stop \in {"drain", "release"} => hw \in {"off", "held"}
  /\ stop = "drain" => status = "needs_resume"
  /\ stop = "release" => status \in {"stopped", "needs_resume"}
  /\ stop = "release" /\ stream["dst"] = "cancel" => frames = {} /\ codec = "idle"
  /\ stream["dst"] \in {"idle", "off"} => frames = {}

\* a frame is current when a size is known and the hardware decodes
SizedInv ==
  /\ sized \in BOOLEAN
  /\ hw = "posted" /\ ~sized => header.resize
  /\ hw \in {"run", "posted"} /\ codec # "locked" => (sized <=> curFrame # 0)
  /\ hw = "held" => sized /\ curFrame = 0
  /\ hw = "off" => ~sized /\ curFrame = 0 /\ frames = {}

\* frames that may be the list: each has a buffer of its own, and one at most is hidden
IsFrame(f) ==
  /\ f = [id |-> f.id, pkt |-> f.pkt, buf |-> f.buf, show |-> f.show, done |-> f.done]
  /\ f.pkt \in Nat \ {0} /\ f.id = 2 * f.pkt - One(~f.show)
  /\ f.buf \in DstBuf /\ f.show \in BOOLEAN /\ f.done \in BOOLEAN
  /\ f.done => f.show

FramesOK(F) ==
  /\ IsFiniteSet(F)
  /\ \A f \in F : IsFrame(f)
  /\ \A f, g \in F : f.buf = g.buf => f = g
  /\ \A f, g \in F : f.id = g.id => f = g
  /\ \A f, g \in F : ~f.show /\ ~g.show => f = g

FrameInv ==
  /\ FramesOK(frames)
  /\ framesNum = Cardinality(Undone)
  /\ codec = "frame" /\ ~header.show => Hidden = {}

HeaderInv ==
  /\ mid \in BOOLEAN
  /\ Pending =>
       /\ header.pkt \in Nat \ {0} /\ header.id = 2 * header.pkt - One(~header.show)
       /\ header.key \in BOOLEAN /\ header.show \in BOOLEAN /\ header.resize \in BOOLEAN
       /\ mid = ~header.show
       /\ header.key => header.show /\ header.refresh = RefSlot /\ header.refs = {}
       /\ header.resize => header.key
       /\ header.refresh \subseteq RefSlot /\ header.refs \subseteq RefSlot

\* what is decoded comes in the order of the packets, a hidden frame first
OrderInv ==
  /\ Sent \in Nat
  /\ \A i, j \in DOMAIN vififo : i < j => vififo[i].pkt < vififo[j].pkt
  /\ \A i \in DOMAIN vififo : vififo[i].pkt \in 1 .. Sent
  /\ \A f \in frames : f.pkt <= Sent
  /\ hw = "run" => \A f \in frames : \A i \in DOMAIN vififo : f.id < 2 * vififo[i].pkt - One(~mid)
  /\ Pending => /\ header.pkt <= Sent
                /\ \A f \in frames : f.id < header.id
                /\ \A i \in DOMAIN vififo : header.id < 2 * vififo[i].pkt - One(~mid)
                /\ mid => vififo # << >> /\ header.pkt = vififo[1].pkt

Held == {f.buf : f \in Undone}

BufferInv == Balanced(vb, rdy, {cur} \ {NoBuf}, Held, dropped)

TypeInv ==
  /\ M2mTypeOK /\ cur \in SrcBuf \cup {NoBuf} /\ packets \in Nat
  /\ vififo \in Seq(Range(vififo)) /\ \A e \in Range(vififo) : e.pkt \in Nat

IInv == TypeInv /\ LockInv /\ StreamsInv /\ SessionInv /\ SizedInv /\ FrameInv /\ HeaderInv
        /\ OrderInv /\ BufferInv

-----------------------------------------------------------------------------
(* The list of frames.                                                     *)

\* The first of some frames is one of them, and no other comes before it.
LEMMA FirstFacts ==
  ASSUME NEW F, FramesOK(F), NEW G, G \subseteq F, G # {}
  PROVE  FirstOf(G) \in G /\ \A g \in G : FirstOf(G).id <= g.id
<1> DEFINE I == {f.id : f \in G}
<1>1. \A f \in F : f.id \in Nat
  BY DEF FramesOK, IsFrame, One
<1>2. I \subseteq Nat /\ I # {}
  BY <1>1
<1>3. PICK n \in I : \A m \in I : n <= m
  BY <1>2, LeastExists
<1>4. \E f \in G : \A g \in G : f.id <= g.id
  BY <1>3
<1>5. QED
  BY <1>4 DEF FirstOf

-----------------------------------------------------------------------------
(* Locks and queues.                                                       *)

LEMMA LockStep ==
  ASSUME IInv, Next
  PROVE  LockInv'
<1> USE DEF IInv, LockInv, LockFree, Unlocked, NoIoctl, m2mVars, drainVars, adapterVars, Queue,
            SessionInv, TypeInv, M2mTypeOK
<1>1. CASE Feed
  BY <1>1 DEF Feed, ReadPending, WorkBegins, WorkStart, WorkEnds, Submit,
              AfterRemove, Ready, Removed, Written, RecordFailed, WriteFailed
<1>2. CASE Isr
  <2> USE DEF parserVars, feedVars, sessionVars
  <2>1. CASE PostHeader \/ SourceChange \/ NoFrame \/ ShowFrame \/ ShowEnds
    BY <2>1 DEF PostHeader, SourceChange, NoFrame, ShowFrame, ShowEnds, After
  <2>2. CASE HandleHeader
    <3>1. /\ UNCHANGED <<stop, stream, work, cur>> /\ codec' = "frame"
          /\ rdy' = rdy \/ \E b : rdy' = [rdy EXCEPT !["dst"] = Append(@, b)]
                                  /\ Hidden # {}
      BY <2>2 DEF HandleHeader, RemoveHidden
    <3>2. Hidden # {} => stream["dst"] \notin {"idle", "off"}
      BY DEF Hidden
    <3>3. QED
      BY <3>1, <3>2
  <2>3. CASE StartFrame
    <3>1. /\ UNCHANGED <<stop, stream, work, cur>> /\ codec' # "resume"
          /\ \E t : rdy' = [rdy EXCEPT !["dst"] = t]
      BY <2>3 DEF StartFrame, After
    <3>2. stream["dst"] \notin {"idle", "off"}
      BY <2>3 DEF StartFrame, StreamsInv
    <3>3. QED
      BY <3>1, <3>2
  <2>4. QED
    BY <1>2, <2>1, <2>2, <2>3 DEF Isr
<1>3. CASE Call
  <2>1. CASE \E b \in Buf : UserQBuf(b)
    BY <2>1, BufOfFacts, BufAssumption DEF UserQBuf, QBuf, feedVars
  <2>2. ASSUME NEW q \in Queue, NEW b \in BufOf(q), StreamOn(q, b)
        PROVE  LockInv'
    <3>1. /\ LockFree /\ work = "idle" /\ codec # "resume" /\ stream[q] = "idle"
          /\ stream' = [stream EXCEPT ![q] = "on"] /\ rdy' = [rdy EXCEPT ![q] = <<b>>]
          /\ UNCHANGED <<stop, work, cur>>
      BY <2>2 DEF StreamOn, StreamOnBuffer, StartSession, KeepSession, feedVars
    <3>2. LockFree'
      BY <3>1
    <3>3. QED
      BY <3>1, <3>2
  <2>3. CASE DrainFrame
    <3>1. /\ UNCHANGED <<stop, stream, work, cur, codec>>
          /\ rdy' = rdy \/ \E b : rdy' = [rdy EXCEPT !["dst"] = Append(@, b)]
          /\ frames # {}
      BY <2>3 DEF DrainFrame, feedVars
    <3>2. stream["dst"] \notin {"idle", "off"}
      BY <3>1
    <3>3. QED
      BY <3>1, <3>2
  <2>4. CASE AbortDrained \/ Vp9Stop \/ QueueDrained
    BY <2>4 DEF Draining, AbortDrained, AbortDone, Vp9Stop, PowerOff, QueueDrained, Drained,
       DrainDone, parserVars, feedVars, sessionVars
  <2>5. QED
    BY <1>3, <2>1, <2>2, <2>3, <2>4 DEF Call
<1>4. CASE Ioctl /\ UNCHANGED codecVars
  <2>1. CASE \E q \in Queue : StreamOff(q)
    BY <2>1 DEF StreamOff, feedVars, MarkStopped
  <2>2. CASE DecoderCmd \/ DeviceRun \/ Reconfigure
    BY <2>2 DEF DecoderCmd, DeviceRun, Reconfigure, CmdStop, CmdStart, AfterRemove, Ready,
                parserVars, feedVars
  <2>3. ASSUME NEW q \in Queue, StopStreaming(q) \/ Release(q)
        PROVE  LockInv'
    BY <2>3 DEF StopStreaming, Release, feedVars
  <2>4. QED
    BY <1>4, <2>1, <2>2, <2>3 DEF Ioctl
<1>5. QED
  BY <1>1, <1>2, <1>3, <1>4 DEF Next

-----------------------------------------------------------------------------
LEMMA StreamsStep ==
  ASSUME IInv, Next
  PROVE  StreamsInv'
<1> USE DEF IInv, StreamsInv, SessionInv, Queue, m2mVars, parserVars, sessionVars, adapterVars, frameVars,
            codecVars, feedVars
<1>1. CASE Feed
  BY <1>1 DEF Feed, ReadPending, WorkBegins, WorkStart, WorkEnds, Submit, RecordFailed,
              Written, WriteFailed
<1>2. CASE Isr
  <2>1. CASE PostHeader
    BY <2>1 DEF PostHeader
  <2>2. CASE HandleHeader
    BY <2>2 DEF HandleHeader, SizedInv
  <2>3. CASE SourceChange
    BY <2>3 DEF SourceChange
  <2>4. CASE StartFrame
    <3>1. codec \in {"frame", "resume"} /\ UNCHANGED <<stream, streamon, stop>> /\ "dst" \in streamon
      BY <2>4 DEF StartFrame
    <3>2. status' = status \/ status' = "running"
      BY <2>4 DEF StartFrame, After
    <3>3. QED
      BY <3>1, <3>2
  <2>5. CASE NoFrame
    <3>1. codec \in {"frame", "resume"} /\ UNCHANGED <<stream, streamon, stop>> /\ "dst" \in streamon
      BY <2>5 DEF NoFrame
    <3>2. status' = status \/ status' = "running"
      BY <2>5 DEF NoFrame, After
    <3>3. QED
      BY <3>1, <3>2
  <2>6. CASE ShowFrame \/ ShowEnds
    BY <2>6 DEF ShowFrame, ShowEnds
  <2>7. QED
    BY <1>2, <2>1, <2>2, <2>3, <2>4, <2>5, <2>6 DEF Isr
<1>3. CASE Call
  <2>1. CASE \E b \in Buf : UserQBuf(b) /\ UNCHANGED codecVars
    BY <2>1 DEF UserQBuf, QBuf
  <2>2. ASSUME NEW q \in Queue, NEW b \in BufOf(q), StreamOn(q, b)
        PROVE  StreamsInv'
    <3>1. /\ stop = "none" /\ stop' = "none" /\ streamon' = streamon \cup {q}
          /\ stream' = [stream EXCEPT ![q] = "on"] /\ stream \in [Queue -> {"idle", "on", "cancel", "off"}]
      BY <2>2 DEF StreamOn, StreamOnBuffer, NoIoctl, Unlocked, LockInv, TypeInv, M2mTypeOK
    <3>2. streamon' = {r \in Queue : stream'[r] \in {"on", "cancel"}}
      BY <3>1
    <3>3. \/ hw = "off" /\ codec' = codec /\ sized' = sized
          \/ codec' = "resume" /\ q = "dst"
          \/ UNCHANGED <<codec, hw, sized>>
      BY <2>2 DEF StreamOn, StreamOnOutcome, StartSession, KeepSession
    <3>4. QED
      BY <3>1, <3>2, <3>3 DEF SizedInv
  <2>3. CASE DrainFrame
    BY <2>3 DEF DrainFrame
  <2>4. CASE AbortDrained \/ QueueDrained
    BY <2>4 DEF AbortDrained, AbortDone, QueueDrained, DrainDone, Drained
  <2>5. CASE Vp9Stop
    BY <2>5 DEF Vp9Stop, PowerOff, Drained, Draining, Inactive
  <2>6. QED
    BY <1>3, <2>1, <2>2, <2>3, <2>4, <2>5 DEF Call
<1>4. CASE Ioctl /\ UNCHANGED codecVars
  <2>1. CASE \E q \in Queue : StreamOff(q)
    BY <1>4, <2>1 DEF StreamOff, TypeInv, M2mTypeOK
  <2>2. CASE DecoderCmd \/ DeviceRun \/ Reconfigure
    BY <1>4, <2>2 DEF DecoderCmd, DeviceRun, Reconfigure, CmdStop, CmdStart
  <2>3. ASSUME NEW q \in Queue, StopStreaming(q)
        PROVE  StreamsInv'
    BY <1>4, <2>3 DEF StopStreaming, PowersOff
  <2>4. ASSUME NEW q \in Queue, Release(q)
        PROVE  StreamsInv'
    <3>1. /\ stop = "release" /\ stop' = "none" /\ streamon' = streamon \ {q}
          /\ stream' = [stream EXCEPT ![q] = "off"] /\ UNCHANGED <<status, hw, codec, codecVars>>
          /\ stream \in [Queue -> {"idle", "on", "cancel", "off"}] /\ stream[q] = "cancel"
      BY <1>4, <2>4 DEF Release, TypeInv, M2mTypeOK
    <3>2. streamon' = {r \in Queue : stream'[r] \in {"on", "cancel"}}
      BY <3>1
    <3>3. hw \in {"off", "held"} /\ codec # "resume"
      BY <3>1 DEF LockInv
    <3>4. hw # "off" => streamon' # {}
      BY <3>1
    <3>5. QED
      BY <3>1, <3>2, <3>3, <3>4
  <2>5. QED
    BY <1>4, <2>1, <2>2, <2>3, <2>4 DEF Ioctl
<1>5. QED
  BY <1>1, <1>2, <1>3, <1>4 DEF Next

LEMMA SessionStep ==
  ASSUME IInv, Next
  PROVE  SessionInv'
<1> USE DEF IInv, SessionInv, m2mVars, parserVars, sessionVars, adapterVars, frameVars, codecVars
<1>1. CASE Feed
  BY <1>1 DEF Feed, ReadPending, WorkBegins, WorkStart, WorkEnds, Submit, RecordFailed,
              Written, WriteFailed
<1>2. CASE Isr
  <2>1. CASE PostHeader
    BY <2>1 DEF PostHeader
  <2>2. CASE HandleHeader
    <3>1. frames = {} => frames' = {}
      BY <2>2 DEF HandleHeader, RemoveHidden, Hidden
    <3>2. QED
      BY <2>2, <3>1 DEF HandleHeader
  <2>3. CASE SourceChange
    BY <2>3 DEF SourceChange, HeaderInv, Pending
  <2>4. CASE StartFrame \/ NoFrame
    <3>1. /\ codec \in {"frame", "resume"} /\ UNCHANGED <<stop, stream, header>>
          /\ codec = "resume" => status' = "running" /\ codec' = "idle"
          /\ codec = "frame" => status' = status /\ codec' = "show"
      BY <2>4 DEF StartFrame, NoFrame, After
    <3>2. stop \notin {"drain", "release"} /\ hw # "off" /\ lacking = "no"
      BY <3>1 DEF LockInv, LockFree
    <3>3. \/ hw' = "run" /\ lacking' = lacking
          \/ hw' = "held" /\ lacking' # "no" /\ frames' = frames
      BY <2>4 DEF StartFrame, NoFrame
    <3>4. stream["dst"] \in {"on", "cancel"}
      BY <3>1 DEF StreamsInv
    <3>5. codec = "frame" => status # "needs_resume"
      OBVIOUS
    <3>6. QED
      BY <3>1, <3>2, <3>3, <3>4, <3>5
  <2>5. CASE ShowFrame
    BY <2>5 DEF ShowFrame, ToShow, Waiting
  <2>6. CASE ShowEnds
    BY <2>6 DEF ShowEnds
  <2>7. QED
    BY <1>2, <2>1, <2>2, <2>3, <2>4, <2>5, <2>6 DEF Isr
<1>3. CASE Call
  <2>1. CASE \E b \in Buf : UserQBuf(b) /\ UNCHANGED codecVars
    BY <2>1 DEF UserQBuf, QBuf
  <2>2. ASSUME NEW q \in Queue, NEW b \in BufOf(q), StreamOn(q, b)
        PROVE  SessionInv'
    <3>1. /\ stop = "none" /\ stop' = "none" /\ UNCHANGED <<header, lacking, frames>>
          /\ stream' = [stream EXCEPT ![q] = "on"]
      BY <2>2 DEF StreamOn, StreamOnBuffer, NoIoctl, Unlocked, LockInv
    <3>2. \/ status = "stopped" /\ status' = "init" /\ hw' = "run" /\ codec' = codec
          \/ status = "needs_resume" /\ codec' = "resume" /\ UNCHANGED <<status, hw>>
          \/ UNCHANGED <<status, codec, hw>>
      BY <2>2 DEF StreamOn, StreamOnOutcome, StartSession, KeepSession
    <3>3. stream'["dst"] \in {"idle", "off"} => stream["dst"] \in {"idle", "off"}
      BY <3>1 DEF TypeInv, M2mTypeOK, Queue
    <3>4. QED
      BY <3>1, <3>2, <3>3
  <2>3. CASE DrainFrame
    BY <2>3 DEF DrainFrame
  <2>4. CASE AbortDrained \/ QueueDrained
    BY <2>4 DEF AbortDrained, AbortDone, QueueDrained, DrainDone, Drained, Draining, Inactive
  <2>5. CASE Vp9Stop
    BY <2>5 DEF Vp9Stop, PowerOff, Drained, Draining, Inactive, FreshCodec
  <2>6. QED
    BY <1>3, <2>1, <2>2, <2>3, <2>4, <2>5 DEF Call
<1>4. CASE Ioctl /\ UNCHANGED codecVars
  <2>1. CASE \E q \in Queue : StreamOff(q)
    BY <1>4, <2>1 DEF StreamOff, TypeInv, M2mTypeOK, Queue
  <2>2. CASE DecoderCmd \/ DeviceRun \/ Reconfigure
    <3>1. /\ UNCHANGED <<status, adapterVars>>
          /\ stream' = stream \/ (stream'["dst"] = "idle" /\ stream["dst"] \in {"idle", "off"})
      BY <2>2 DEF DecoderCmd, DeviceRun, Reconfigure, CmdStop, CmdStart, Queue
    <3>2. QED
      BY <1>4, <3>1
  <2>3. ASSUME NEW q \in Queue, StopStreaming(q)
        PROVE  SessionInv'
    <3>1. stream["dst"] = "cancel" => q = "dst"
      BY <2>3 DEF StopStreaming, LockInv, Queue
    <3>2. hw = "off" => frames = {}
      BY DEF SizedInv
    <3>3. QED
      BY <1>4, <2>3, <3>1, <3>2 DEF StopStreaming, PowersOff
  <2>4. ASSUME NEW q \in Queue, Release(q)
        PROVE  SessionInv'
    <3>1. /\ stop = "release" /\ stop' = "none" /\ UNCHANGED <<status, hw, codec, codecVars>>
          /\ stream' = [stream EXCEPT ![q] = "off"] /\ stream[q] = "cancel"
      BY <1>4, <2>4 DEF Release
    <3>2. stream'["dst"] \in {"idle", "off"} => frames = {}
      BY <3>1 DEF TypeInv, M2mTypeOK, Queue
    <3>3. QED
      BY <3>1, <3>2
  <2>5. QED
    BY <1>4, <2>1, <2>2, <2>3, <2>4 DEF Ioctl
<1>5. QED
  BY <1>1, <1>2, <1>3, <1>4 DEF Next

LEMMA SizedStep ==
  ASSUME IInv, Next
  PROVE  SizedInv'
<1> USE DEF IInv, SizedInv, SessionInv, frameVars, codecVars, adapterVars, parserVars, sessionVars
<1>1. CASE Feed
  BY <1>1 DEF Feed
<1>2. CASE Isr
  <2>1. CASE PostHeader
    <3>1. /\ hw = "run" /\ hw' = "posted" /\ UNCHANGED <<sized, curFrame, codec, frames>>
          /\ ~sized => header'.resize
      BY <2>1 DEF PostHeader, Conforming
    <3>2. QED
      BY <3>1
  <2>2. CASE HandleHeader
    BY <2>2 DEF HandleHeader
  <2>3. CASE SourceChange
    BY <2>3 DEF SourceChange
  <2>4. CASE StartFrame \/ NoFrame
    <3>1. codec \in {"frame", "resume"} /\ UNCHANGED <<sized, header>>
      BY <2>4 DEF StartFrame, NoFrame
    <3>2. sized /\ Pending
      BY <3>1 DEF Pending
    <3>3. header.id # 0
      BY <3>2 DEF HeaderInv, One
    <3>4. \/ hw' = "run" /\ curFrame' = header.id
          \/ hw' = "held" /\ curFrame' = 0
      BY <2>4 DEF StartFrame, NoFrame
    <3>5. QED
      BY <3>1, <3>2, <3>3, <3>4
  <2>5. CASE ShowFrame \/ ShowEnds
    BY <2>5 DEF ShowFrame, ShowEnds
  <2>6. QED
    BY <1>2, <2>1, <2>2, <2>3, <2>4, <2>5 DEF Isr
<1>3. CASE Call
  <2>1. CASE \E b \in Buf : UserQBuf(b) /\ UNCHANGED codecVars
    BY <2>1 DEF UserQBuf
  <2>2. ASSUME NEW q \in Queue, NEW b \in BufOf(q), StreamOn(q, b)
        PROVE  SizedInv'
    BY <2>2 DEF StreamOn, StreamOnOutcome, StartSession, KeepSession
  <2>3. CASE DrainFrame
    BY <2>3 DEF DrainFrame
  <2>4. CASE AbortDrained \/ QueueDrained
    BY <2>4 DEF AbortDrained, AbortDone, QueueDrained, DrainDone
  <2>5. CASE Vp9Stop
    BY <2>5 DEF Vp9Stop, PowerOff, FreshCodec
  <2>6. QED
    BY <1>3, <2>1, <2>2, <2>3, <2>4, <2>5 DEF Call
<1>4. CASE Ioctl /\ UNCHANGED codecVars
  <2>1. UNCHANGED <<codec, hw>>
    BY <1>4 DEF Ioctl, StreamOff, DecoderCmd, DeviceRun, Reconfigure, StopStreaming, Release
  <2>2. QED
    BY <1>4, <2>1
<1>5. QED
  BY <1>1, <1>2, <1>3, <1>4 DEF Next

-----------------------------------------------------------------------------
UndoneIn(F) == {f \in F : ~f.done}

\* A part of the list is a list.
LEMMA PartFacts ==
  ASSUME NEW F, FramesOK(F), NEW G, G \subseteq F
  PROVE  FramesOK(G) /\ IsFiniteSet(UndoneIn(G)) /\ Cardinality(UndoneIn(G)) \in Nat
<1>1. IsFiniteSet(G)
  BY FS_Subset DEF FramesOK
<1>2. FramesOK(G)
  BY <1>1 DEF FramesOK
<1>3. IsFiniteSet(UndoneIn(G))
  BY <1>1, FS_Subset DEF UndoneIn
<1>4. QED
  BY <1>2, <1>3, FS_CardinalityType

LEMMA DoneRecord ==
  ASSUME NEW f, NEW v,
         f = [id |-> f.id, pkt |-> f.pkt, buf |-> f.buf, show |-> f.show, done |-> f.done]
  PROVE  [f EXCEPT !.done = v] =
           [id |-> f.id, pkt |-> f.pkt, buf |-> f.buf, show |-> f.show, done |-> v]
OBVIOUS

\* A frame that is shown stays in the list, and holds its buffer no more.
LEMMA DoneFacts ==
  ASSUME NEW F, FramesOK(F), NEW f \in F, f.show, ~f.done
  PROVE  LET g == [f EXCEPT !.done = TRUE]
             G == (F \ {f}) \cup {g}
         IN  /\ FramesOK(G) /\ UndoneIn(G) = UndoneIn(F) \ {f}
             /\ g.id = f.id /\ g.pkt = f.pkt /\ g.buf = f.buf /\ g.show = f.show /\ g.done
<1> DEFINE g == [f EXCEPT !.done = TRUE]
           G == (F \ {f}) \cup {g}
<1>1. IsFrame(f)
  BY DEF FramesOK
<1>2. g = [id |-> f.id, pkt |-> f.pkt, buf |-> f.buf, show |-> f.show, done |-> TRUE]
  BY <1>1, DoneRecord DEF IsFrame
<1>3. g.id = f.id /\ g.pkt = f.pkt /\ g.buf = f.buf /\ g.show = f.show /\ g.done = TRUE
  BY <1>2
<1>4. IsFrame(g)
  BY <1>1, <1>2, <1>3 DEF IsFrame
<1> HIDE DEF g
<1>5. IsFiniteSet(G)
  <2>1. IsFiniteSet(F \ {f})
    BY FS_RemoveElement DEF FramesOK
  <2>2. QED
    BY <2>1, FS_AddElement
<1>6. FramesOK(G)
  <2>1. \A h \in G : IsFrame(h)
    BY <1>4 DEF FramesOK
  <2>2. \A h \in G : h = g \/ (h \in F /\ h # f)
    OBVIOUS
  <2>3. \A h, k \in G : h.buf = k.buf => h = k
    BY <1>3, <2>2 DEF FramesOK
  <2>4. \A h, k \in G : h.id = k.id => h = k
    BY <1>3, <2>2 DEF FramesOK
  <2>5. \A h, k \in G : ~h.show /\ ~k.show => h = k
    BY <1>3, <2>2 DEF FramesOK
  <2>6. QED
    BY <1>5, <2>1, <2>3, <2>4, <2>5 DEF FramesOK
<1>7. UndoneIn(G) = UndoneIn(F) \ {f}
  BY <1>3 DEF UndoneIn
<1>8. QED
  BY <1>3, <1>6, <1>7 DEF g

\* A new frame is like no other of the list.
LEMMA NewFacts ==
  ASSUME IInv, codec \in {"frame", "resume"}, NEW b \in DstBuf, WithBuf(b) = {}
  PROVE  LET n == NewFrame(b)
             G == frames \cup {n}
         IN  /\ FramesOK(G) /\ UndoneIn(G) = Undone \cup {n} /\ n \notin frames
             /\ n.id = header.id /\ n.pkt = header.pkt /\ n.buf = b /\ n.show = header.show
             /\ ~n.done
<1> DEFINE n == NewFrame(b)
           G == frames \cup {n}
<1>1. Pending
  BY DEF IInv, SessionInv, Pending
<1>2. n = [id |-> header.id, pkt |-> header.pkt, buf |-> b, show |-> header.show, done |-> FALSE]
  BY DEF NewFrame
<1>3. n.id = header.id /\ n.pkt = header.pkt /\ n.buf = b /\ n.show = header.show /\ n.done = FALSE
  BY <1>2
<1>4. IsFrame(n)
  BY <1>1, <1>2, <1>3 DEF IsFrame, IInv, HeaderInv
<1> HIDE DEF n
<1>5. \A f \in frames : f.id # n.id /\ f.buf # n.buf /\ (f.show \/ n.show)
  <2>1. \A f \in frames : f.id # n.id
    BY <1>1, <1>3 DEF IInv, OrderInv, HeaderInv, FrameInv, FramesOK, IsFrame, One
  <2>2. \A f \in frames : f.buf # n.buf
    BY <1>3 DEF WithBuf
  <2>3. header.show \/ \A f \in frames : f.show
    BY DEF IInv, FrameInv, SessionInv, HeaderInv, Pending, Hidden
  <2>4. QED
    BY <1>3, <2>1, <2>2, <2>3
<1>6. IsFiniteSet(G)
  BY FS_AddElement DEF IInv, FrameInv, FramesOK
<1>7. FramesOK(G)
  <2>1. FramesOK(frames)
    BY DEF IInv, FrameInv
  <2>2. QED
    BY <1>4, <1>5, <1>6, <2>1 DEF FramesOK
<1>8. UndoneIn(G) = Undone \cup {n}
  BY <1>3 DEF UndoneIn, Undone
<1>9. QED
  BY <1>3, <1>5, <1>7, <1>8 DEF n

\* What a step does to the list of frames.
Removes(f) == frames' = frames \ {f} /\ framesNum' = framesNum - 1
Shows(f)   == frames' = (frames \ {f}) \cup {[f EXCEPT !.done = TRUE]} /\ framesNum' = framesNum - 1

LEMMA RemoveHiddenFacts ==
  ASSUME FramesOK(frames), Hidden # {}
  PROVE  FirstOf(Hidden) \in Hidden /\ Hidden = {FirstOf(Hidden)} /\ FirstOf(Hidden) \in Undone
<1>1. FirstOf(Hidden) \in Hidden
  BY FirstFacts DEF Hidden
<1> DEFINE h == FirstOf(Hidden)
<1> HIDE DEF h
<1>2. h \in frames /\ ~h.show /\ h \in Hidden
  BY <1>1 DEF Hidden, h
<1>3. Hidden = {h}
  BY <1>2 DEF Hidden, FramesOK
<1>4. h \in Undone
  BY <1>2 DEF FramesOK, IsFrame, Undone
<1>5. QED
  BY <1>2, <1>3, <1>4 DEF h

LEMMA ListEffects ==
  ASSUME IInv, Next
  PROVE  \/ UNCHANGED <<frames, framesNum>>
         \/ \E f \in Undone : Removes(f)
         \/ \E f \in Waiting : Shows(f)
         \/ StartFrame
         \/ frames' \subseteq frames /\ Undone \subseteq frames' /\ framesNum' = framesNum
         \/ frames = {} /\ frames' = {} /\ framesNum' = 0
<1> USE DEF frameVars, codecVars, parserVars, sessionVars, adapterVars
<1>0. FramesOK(frames)
  BY DEF IInv, FrameInv
<1>1. CASE Feed
  BY <1>1 DEF Feed
<1>2. CASE Isr
  <2>1. CASE PostHeader \/ SourceChange \/ NoFrame
    BY <2>1 DEF PostHeader, SourceChange, NoFrame
  <2>2. CASE HandleHeader
    BY <1>0, <2>2, RemoveHiddenFacts DEF HandleHeader, RemoveHidden, Removes
  <2>3. CASE ShowFrame
    <3>1. FirstOf(ToShow) \in ToShow
      BY <1>0, <2>3, FirstFacts DEF ShowFrame, ToShow, Waiting
    <3>2. QED
      BY <2>3, <3>1 DEF ShowFrame, Shows, ToShow
  <2>4. CASE ShowEnds
    <3>1. \A f \in Undone : Kept(f)
      BY <1>0, <2>4 DEF ShowEnds, ToShow, Waiting, Undone, Kept
    <3>2. QED
      BY <2>4, <3>1 DEF ShowEnds, Undone
  <2>5. QED
    BY <1>2, <2>1, <2>2, <2>3, <2>4 DEF Isr
<1>3. CASE Call
  <2>1. CASE \E b \in Buf : UserQBuf(b) /\ UNCHANGED codecVars
    BY <2>1
  <2>2. ASSUME NEW q \in Queue, NEW b \in BufOf(q), StreamOn(q, b)
        PROVE  UNCHANGED <<frames, framesNum>>
    BY <2>2 DEF StreamOn
  <2>3. CASE DrainFrame
    <3>1. FirstOf(frames) \in frames
      BY <1>0, <2>3, FirstFacts DEF DrainFrame
    <3>2. QED
      BY <2>3, <3>1 DEF DrainFrame, Removes, Undone
  <2>4. CASE AbortDrained \/ Vp9Stop \/ QueueDrained
    BY <2>4 DEF AbortDrained, Vp9Stop, QueueDrained, Drained, FreshCodec
  <2>5. QED
    BY <1>3, <2>1, <2>2, <2>3, <2>4 DEF Call
<1>4. CASE Ioctl /\ UNCHANGED codecVars
  BY <1>4
<1>5. QED
  BY <1>1, <1>2, <1>3, <1>4 DEF Next

\* The frame that starts takes a buffer that no frame of the list has.
LEMMA UsableFacts ==
  ASSUME TypeInv, Usable # {}
  PROVE  /\ Min(Usable) \in DOMAIN rdy["dst"] /\ WithBuf(rdy["dst"][Min(Usable)]) = {}
         /\ rdy["dst"][Min(Usable)] \in DstBuf
<1>1. rdy["dst"] \in Seq(DstBuf)
  BY DEF TypeInv, M2mTypeOK, Queue, BufOf
<1>2. Usable \subseteq Nat
  BY <1>1, LenProperties DEF Usable
<1>3. \E x \in Usable : \A y \in Usable : x <= y
  BY <1>2, LeastExists
<1>4. Min(Usable) \in Usable
  BY <1>3 DEF Min
<1>5. QED
  BY <1>1, <1>4, ElementOfSeq, LenProperties DEF Usable

LEMMA FrameStep ==
  ASSUME IInv, Next
  PROVE  FrameInv'
<1>1. FramesOK(frames) /\ framesNum = Cardinality(Undone) /\ Undone = UndoneIn(frames)
  BY DEF IInv, FrameInv, Undone, UndoneIn
<1>2. Undone' = UndoneIn(frames') /\ (FramesOK(frames)' <=> FramesOK(frames'))
  BY DEF Undone, UndoneIn, FramesOK, IsFrame, One
<1>3. IsFiniteSet(Undone) /\ Cardinality(Undone) \in Nat
  BY <1>1, PartFacts
<1>4. FramesOK(frames') /\ framesNum' = Cardinality(UndoneIn(frames'))
  <2>1. CASE UNCHANGED <<frames, framesNum>>
    BY <1>1, <2>1
  <2>2. ASSUME NEW f \in Undone, Removes(f)
        PROVE  FramesOK(frames') /\ framesNum' = Cardinality(UndoneIn(frames'))
    <3>1. UndoneIn(frames') = Undone \ {f}
      BY <2>2 DEF Removes, Undone, UndoneIn
    <3>2. Cardinality(Undone \ {f}) = Cardinality(Undone) - 1
      BY <1>3, FS_RemoveElement
    <3>3. QED
      BY <1>1, <2>2, <3>1, <3>2, PartFacts DEF Removes
  <2>3. ASSUME NEW f \in Waiting, Shows(f)
        PROVE  FramesOK(frames') /\ framesNum' = Cardinality(UndoneIn(frames'))
    <3>1. f \in frames /\ f.show /\ ~f.done /\ f \in Undone
      BY DEF Waiting, Undone
    <3>2. FramesOK(frames') /\ UndoneIn(frames') = Undone \ {f}
      BY <1>1, <2>3, <3>1, DoneFacts DEF Shows
    <3>3. Cardinality(Undone \ {f}) = Cardinality(Undone) - 1
      BY <1>3, <3>1, FS_RemoveElement
    <3>4. QED
      BY <1>1, <2>3, <3>2, <3>3 DEF Shows
  <2>4. CASE StartFrame
    <3>1. PICK b \in DstBuf : /\ WithBuf(b) = {} /\ frames' = frames \cup {NewFrame(b)}
                              /\ framesNum' = framesNum + 1
      BY <2>4, UsableFacts DEF StartFrame, IInv
    <3>2. codec \in {"frame", "resume"}
      BY <2>4 DEF StartFrame
    <3>3. /\ FramesOK(frames') /\ UndoneIn(frames') = Undone \cup {NewFrame(b)}
          /\ NewFrame(b) \notin Undone
      BY <3>1, <3>2, NewFacts DEF Undone
    <3>4. Cardinality(Undone \cup {NewFrame(b)}) = Cardinality(Undone) + 1
      BY <1>3, <3>3, FS_AddElement
    <3>5. QED
      BY <1>1, <3>1, <3>3, <3>4
  <2>5. CASE frames' \subseteq frames /\ Undone \subseteq frames' /\ framesNum' = framesNum
    <3>1. UndoneIn(frames') = Undone
      BY <2>5 DEF Undone, UndoneIn
    <3>2. QED
      BY <1>1, <2>5, <3>1, PartFacts
  <2>6. CASE frames = {} /\ frames' = {} /\ framesNum' = 0
    <3>1. UndoneIn({}) = {}
      BY DEF UndoneIn
    <3>2. QED
      BY <1>1, <2>6, <3>1, FS_EmptySet
  <2>7. QED
    BY <2>1, <2>2, <2>3, <2>4, <2>5, <2>6, ListEffects
<1>5. codec' = "frame" /\ ~header'.show => Hidden' = {}
  <2> USE DEF frameVars, codecVars, parserVars, sessionVars, adapterVars
  <2>1. CASE HandleHeader
    <3>1. CASE Hidden = {}
      BY <2>1, <3>1 DEF HandleHeader, RemoveHidden, Hidden
    <3>2. CASE Hidden # {}
      <4>1. Hidden = {FirstOf(Hidden)}
        BY <1>1, <3>2, RemoveHiddenFacts
      <4>2. ~header.show => frames' = frames \ {FirstOf(Hidden)}
        BY <2>1, <3>2 DEF HandleHeader, RemoveHidden
      <4>3. ~header.show => Hidden' = {}
        BY <4>1, <4>2 DEF Hidden
      <4>4. QED
        BY <2>1, <4>3 DEF HandleHeader
    <3>3. QED
      BY <3>1, <3>2
  <2>2. CASE ~HandleHeader
    <3>1. codec' = "frame" => codec = "frame" /\ UNCHANGED <<frames, header>>
      <4>1. CASE Feed \/ (Ioctl /\ UNCHANGED codecVars)
        BY <4>1 DEF Feed, Ioctl, StreamOff, DecoderCmd, DeviceRun, Reconfigure, StopStreaming, Release
      <4>2. CASE Isr
        BY <2>2, <4>2 DEF Isr, PostHeader, SourceChange, StartFrame, NoFrame, ShowFrame, ShowEnds,
                          After, IInv, SessionInv
      <4>3. CASE Call
        <5>1. CASE \E b \in Buf : UserQBuf(b) /\ UNCHANGED codecVars
          BY <5>1 DEF UserQBuf
        <5>2. ASSUME NEW q \in Queue, NEW b \in BufOf(q), StreamOn(q, b)
              PROVE  codec' = "frame" => codec = "frame" /\ UNCHANGED <<frames, header>>
          BY <5>2 DEF StreamOn, StartSession
        <5>3. CASE DrainFrame
          BY <5>3 DEF DrainFrame, Draining, Inactive
        <5>4. CASE AbortDrained \/ Vp9Stop \/ QueueDrained
          BY <5>4 DEF AbortDrained, Vp9Stop, QueueDrained, Drained, Draining, Inactive, AbortDone,
                      PowerOff, DrainDone
        <5>5. QED
          BY <4>3, <5>1, <5>2, <5>3, <5>4 DEF Call
      <4>4. QED
        BY <4>1, <4>2, <4>3 DEF Next
    <3>2. QED
      BY <3>1 DEF IInv, FrameInv, Hidden
  <2>3. QED
    BY <2>1, <2>2
<1>6. QED
  BY <1>2, <1>4, <1>5 DEF FrameInv

-----------------------------------------------------------------------------
(* Headers and their order.                                                *)

\* What a step does to the header, the ring and the ids of the list.
Quiet ==
  /\ vififo' = vififo /\ Sent' \in {Sent, Sent + 1}
  /\ \A f \in frames' : \E g \in frames : f.id = g.id /\ f.pkt = g.pkt
  /\ \/ UNCHANGED <<header, mid>> /\ (Pending' => Pending) /\ (hw' = "run" => hw = "run")
     \/ hw' = "off" /\ mid' = FALSE

Starts == /\ vififo' = << >> /\ Sent' = 0 /\ frames' = {} /\ hw' = "run"
          /\ UNCHANGED <<header, mid>>

Fills == /\ work = "write" /\ vififo' = Append(vififo, [pkt |-> packets, start |-> written])
         /\ packets' = packets /\ Sent' = packets /\ Sent = packets - 1
         /\ UNCHANGED <<header, mid, hw, frames>>

LEMMA OrderEffects ==
  ASSUME IInv, Next
  PROVE  Quiet \/ Starts \/ Fills \/ PostHeader \/ StartFrame
<1> USE DEF Quiet, Pending, One, Sent, frameVars, codecVars, adapterVars, parserVars, feedVars, sessionVars
<1>0. packets \in Nat /\ Sent \in Nat
  BY DEF IInv, TypeInv, OrderInv
<1>1. CASE Feed
  <2>1. CASE Written
    BY <1>0, <1>1, <2>1 DEF Feed, Written, Fills
  <2>2. CASE ~Written
    <3>1. /\ vififo' = vififo
          /\ \/ packets' = packets /\ (work' = "write" <=> work = "write")
             \/ packets' = packets /\ work = "write" /\ work' # "write"
             \/ packets' = packets + 1 /\ work # "write" /\ work' = "write"
      BY <1>1, <2>2 DEF Feed, ReadPending, WorkBegins, WorkStart, WorkEnds, Submit, RecordFailed, WriteFailed
    <3>2. Sent' \in {Sent, Sent + 1}
      BY <1>0, <3>1
    <3>3. QED
      BY <1>1, <3>1, <3>2 DEF Feed
  <2>3. QED
    BY <2>1, <2>2
<1>2. CASE Isr
  <2>1. ASSUME vififo' = vififo, Sent' = Sent, UNCHANGED <<header, mid>>, Pending' => Pending,
               hw' = "run" => hw = "run", \A f \in frames' : \E g \in frames : f.id = g.id /\ f.pkt = g.pkt
        PROVE  Quiet
    BY <2>1
  <2>2. CASE HandleHeader
    <3>1. frames' \subseteq frames
      BY <2>2 DEF HandleHeader, RemoveHidden
    <3>2. QED
      BY <2>2, <3>1 DEF HandleHeader
  <2>3. CASE SourceChange \/ NoFrame
    BY <2>3 DEF SourceChange, NoFrame, IInv, SessionInv
  <2>4. CASE ShowFrame
    <3>1. PICK f \in Waiting : Shows(f)
      <4>1. FirstOf(ToShow) \in ToShow
        BY <2>4, FirstFacts DEF IInv, FrameInv, ShowFrame, ToShow, Waiting
      <4>2. QED
        BY <2>4, <4>1 DEF ShowFrame, Shows, ToShow
    <3>2. \A h \in frames' : \E g \in frames : h.id = g.id /\ h.pkt = g.pkt
      <4>1. f \in frames /\ f.show /\ ~f.done
        BY DEF Waiting
      <4>2. [f EXCEPT !.done = TRUE].id = f.id /\ [f EXCEPT !.done = TRUE].pkt = f.pkt
        BY <4>1, DoneFacts DEF IInv, FrameInv
      <4>3. QED
        BY <3>1, <4>1, <4>2 DEF Shows
    <3>3. QED
      BY <2>4, <3>2 DEF ShowFrame
  <2>5. CASE ShowEnds
    BY <2>5 DEF ShowEnds
  <2>6. QED
    BY <1>2, <2>2, <2>3, <2>4, <2>5 DEF Isr
<1>3. CASE Call
  <2>1. CASE \E b \in Buf : UserQBuf(b) /\ UNCHANGED codecVars
    BY <2>1 DEF UserQBuf
  <2>2. ASSUME NEW q \in Queue, NEW b \in BufOf(q), StreamOn(q, b)
        PROVE  Quiet \/ Starts
    <3>1. CASE StreamOnOutcome(q) = "starts" /\ StartSession /\ UNCHANGED codecVars
      <4>1. work = "idle" /\ frames = {}
        BY <2>2, <3>1 DEF StreamOn, StreamOnBuffer, NoIoctl, Unlocked, StreamOnOutcome, IInv,
                          SessionInv, SizedInv
      <4>2. QED
        BY <3>1, <4>1 DEF StartSession, Starts
    <3>2. CASE KeepSession /\ UNCHANGED <<hw, codecVars>>
      BY <3>2 DEF KeepSession
    <3>3. QED
      BY <2>2, <3>1, <3>2 DEF StreamOn
  <2>3. CASE DrainFrame
    BY <2>3 DEF DrainFrame
  <2>4. CASE AbortDrained \/ QueueDrained
    BY <2>4 DEF AbortDrained, QueueDrained, AbortDone, DrainDone
  <2>5. CASE Vp9Stop
    BY <2>5 DEF Vp9Stop, PowerOff, FreshCodec
  <2>6. QED
    BY <1>3, <2>1, <2>2, <2>3, <2>4, <2>5 DEF Call
<1>4. CASE Ioctl /\ UNCHANGED codecVars
  <2>1. UNCHANGED <<vififo, packets, work, hw>>
    BY <1>4 DEF Ioctl, StreamOff, DecoderCmd, DeviceRun, Reconfigure, StopStreaming, Release
  <2>2. QED
    BY <1>4, <2>1
<1>5. QED
  BY <1>1, <1>2, <1>3, <1>4 DEF Next

\* The header the firmware posts is that of the next packet.
LEMMA PostedFacts ==
  ASSUME IInv, PostHeader
  PROVE  /\ header'.pkt = vififo[1].pkt /\ vififo[1].pkt \in 1 .. Sent
         /\ header'.id = 2 * header'.pkt - One(~header'.show)
         /\ header'.key \in BOOLEAN /\ header'.show \in BOOLEAN /\ header'.resize \in BOOLEAN
         /\ header'.refresh \subseteq RefSlot /\ header'.refs \subseteq RefSlot
         /\ header'.meant = truth
         /\ truth' = [s \in RefSlot |-> IF s \in header'.refresh THEN header'.id ELSE truth[s]]
         /\ Conforming(header') /\ mid' = ~header'.show
         /\ vififo' = IF header'.show THEN Tail(vififo) ELSE vififo
         /\ vififo # << >> /\ Len(vififo) \in Nat \ {0}
<1>1. PICK key \in BOOLEAN, show \in BOOLEAN, resize \in BOOLEAN, refresh \in SUBSET RefSlot,
           refs \in SUBSET RefSlot :
       LET id == 2 * Head(vififo).pkt - (IF show THEN 0 ELSE 1)
       IN  /\ header' = [id |-> id, pkt |-> Head(vififo).pkt, key |-> key, show |-> show,
                         resize |-> resize, refresh |-> refresh, refs |-> refs,
                         meant |-> truth]
           /\ Conforming(header')
           /\ truth' = [s \in RefSlot |-> IF s \in refresh THEN id ELSE truth[s]]
           /\ mid' = ~show
           /\ vififo' = IF show THEN Tail(vififo) ELSE vififo
  BY Zenon DEF PostHeader
<1>2. vififo # << >> /\ Len(vififo) \in Nat /\ DOMAIN vififo = 1 .. Len(vififo)
  BY LenProperties DEF PostHeader, IInv, TypeInv
<1>3. Len(vififo) # 0 /\ Head(vififo) = vififo[1] /\ 1 \in DOMAIN vififo
  BY <1>2, EmptySeq DEF IInv, TypeInv
<1>4. vififo[1].pkt \in 1 .. Sent
  BY <1>3 DEF IInv, OrderInv
<1>5. /\ header'.id = 2 * Head(vififo).pkt - (IF show THEN 0 ELSE 1) /\ header'.pkt = Head(vififo).pkt
      /\ header'.key = key /\ header'.show = show /\ header'.resize = resize
      /\ header'.refresh = refresh /\ header'.refs = refs /\ header'.meant = truth
  BY <1>1
<1>6. header'.id = 2 * header'.pkt - One(~header'.show)
  BY <1>5 DEF One
<1>7. QED
  BY <1>1, <1>2, <1>3, <1>4, <1>5, <1>6

LEMMA HeaderStep ==
  ASSUME IInv, Next
  PROVE  HeaderInv'
<1>1. CASE Quiet \/ Starts \/ Fills
  BY <1>1 DEF IInv, HeaderInv, Quiet, Starts, Fills, Pending, One
<1>2. CASE StartFrame
  BY <1>2 DEF StartFrame, IInv, HeaderInv, Pending
<1>3. CASE PostHeader
  <2>1. Sent \in Nat
    BY DEF IInv, OrderInv
  <2>2. header'.pkt \in Nat \ {0}
    BY <1>3, <2>1, PostedFacts
  <2>3. QED
    BY <1>3, <2>2, PostedFacts DEF Conforming, HeaderInv, One
<1>4. QED
  BY <1>1, <1>2, <1>3, OrderEffects

LEMMA OrderStep ==
  ASSUME IInv, Next
  PROVE  OrderInv'
<1> USE DEF One
<1>0. /\ vififo \in Seq(Range(vififo)) /\ Len(vififo) \in Nat /\ DOMAIN vififo = 1 .. Len(vififo)
      /\ Sent \in Nat /\ packets \in Nat
      /\ \A i, j \in DOMAIN vififo : i < j => vififo[i].pkt < vififo[j].pkt
      /\ \A i \in DOMAIN vififo : vififo[i].pkt \in 1 .. Sent
      /\ \A f \in frames : f.pkt <= Sent /\ f.pkt \in Nat /\ f.id \in Nat /\ f.id <= 2 * f.pkt
  BY LenProperties DEF IInv, TypeInv, OrderInv, FrameInv, FramesOK, IsFrame
<1>1. CASE Quiet
  <2>1. /\ vififo' = vififo /\ Sent' \in Nat /\ Sent' >= Sent
        /\ \A f \in frames' : \E g \in frames : f.id = g.id /\ f.pkt = g.pkt
    BY <1>0, <1>1 DEF Quiet
  <2>2. \A f \in frames' : f.pkt <= Sent'
    BY <1>0, <2>1
  <2>3. \A i \in DOMAIN vififo : vififo[i].pkt \in 1 .. Sent'
    BY <1>0, <2>1
  <2>4. CASE hw' = "off"
    BY <1>0, <2>1, <2>2, <2>3, <2>4 DEF OrderInv, Pending
  <2>5. CASE UNCHANGED <<header, mid>> /\ (Pending' => Pending) /\ (hw' = "run" => hw = "run")
    <3>1. hw' = "run" => \A f \in frames' : \A i \in DOMAIN vififo : f.id < 2 * vififo[i].pkt - One(~mid)
      BY <2>1, <2>5 DEF IInv, OrderInv
    <3>2. Pending' => \A f \in frames' : f.id < header.id
      BY <2>1, <2>5 DEF IInv, OrderInv
    <3>3. Pending' => header.pkt <= Sent'
      <4>1. Pending => header.pkt <= Sent /\ header.pkt \in Nat
        BY DEF IInv, OrderInv, HeaderInv
      <4>2. QED
        BY <1>0, <2>1, <2>5, <4>1
    <3>4. Pending' => /\ \A i \in DOMAIN vififo : header.id < 2 * vififo[i].pkt - One(~mid)
                      /\ mid => vififo # << >> /\ header.pkt = vififo[1].pkt
      BY <2>5 DEF IInv, OrderInv
    <3> HIDE DEF One
    <3>5. QED
      BY <1>0, <2>1, <2>2, <2>3, <2>5, <3>1, <3>2, <3>3, <3>4 DEF OrderInv
  <2>6. QED
    BY <1>1, <2>4, <2>5 DEF Quiet
<1>2. CASE Starts
  <2>1. DOMAIN vififo' = {} /\ ~Pending' /\ Sent' \in Nat
    BY <1>2 DEF Starts, Pending
  <2>2. QED
    BY <1>2, <2>1 DEF Starts, OrderInv
<1>3. CASE Fills
  <2> DEFINE e == [pkt |-> packets, start |-> written]
             n == Len(vififo)
  <2>1. /\ vififo' = Append(vififo, e) /\ Sent' = packets /\ Sent = packets - 1
        /\ UNCHANGED <<header, mid, hw, frames>> /\ e.pkt = packets
    BY <1>3 DEF Fills
  <2>2. /\ DOMAIN vififo' = 1 .. n + 1 /\ vififo'[n + 1] = e
        /\ \A i \in 1 .. n : vififo'[i] = vififo[i]
        /\ vififo' # << >>
    <3>1. vififo \in Seq(Range(vififo) \cup {e}) /\ e \in Range(vififo) \cup {e}
      BY <1>0, SeqDef
    <3>2. /\ vififo' \in Seq(Range(vififo) \cup {e}) /\ Len(vififo') = n + 1
          /\ \A i \in 1 .. n : vififo'[i] = vififo[i] /\ vififo'[n + 1] = e
      BY <2>1, <3>1, AppendProperties
    <3>3. DOMAIN vififo' = 1 .. Len(vififo')
      BY <3>2, LenProperties
    <3>4. vififo'[n + 1] = e
      BY <2>1, <3>1, AppendProperties
    <3>5. vififo' # << >>
      BY <1>0, <3>2, EmptySeq
    <3>6. QED
      BY <3>2, <3>3, <3>4, <3>5
  <2> HIDE DEF e, n
  <2>3. \A i \in 1 .. n + 1 : i \in 1 .. n \/ i = n + 1
    BY <1>0 DEF n
  <2>4. n \in Nat /\ DOMAIN vififo = 1 .. n /\ packets >= 1
    BY <1>0, <2>1 DEF n
  <2>5. \A i, j \in DOMAIN vififo' : i < j => vififo'[i].pkt < vififo'[j].pkt
    <3>1. SUFFICES ASSUME NEW i \in 1 .. n + 1, NEW j \in 1 .. n + 1, i < j
                   PROVE  vififo'[i].pkt < vififo'[j].pkt
      BY <2>2
    <3>2. i \in 1 .. n
      BY <2>4, <3>1
    <3>3. CASE j \in 1 .. n
      BY <1>0, <2>2, <2>4, <3>1, <3>2, <3>3
    <3>4. CASE j = n + 1
      BY <1>0, <2>1, <2>2, <2>4, <3>1, <3>2, <3>4
    <3>5. QED
      BY <2>3, <3>3, <3>4
  <2>6. \A i \in DOMAIN vififo' : vififo'[i].pkt \in 1 .. Sent'
    BY <1>0, <2>1, <2>2, <2>3, <2>4
  <2>7. \A f \in frames : f.pkt <= Sent' /\ f.id < 2 * packets - 1
    BY <1>0, <2>1
  <2>8. ASSUME hw = "run", NEW f \in frames, NEW i \in DOMAIN vififo'
        PROVE  f.id < 2 * vififo'[i].pkt - One(~mid)
    <3>1. CASE i \in 1 .. n
      BY <2>2, <2>4, <2>8, <3>1 DEF IInv, OrderInv
    <3>2. CASE i = n + 1
      BY <1>0, <2>1, <2>2, <2>7, <2>8, <3>2
    <3>3. QED
      BY <2>2, <2>3, <3>1, <3>2
  <2>9. ASSUME Pending
        PROVE  /\ header.pkt <= Sent' /\ \A f \in frames : f.id < header.id
               /\ \A i \in DOMAIN vififo' : header.id < 2 * vififo'[i].pkt - One(~mid)
               /\ mid => vififo' # << >> /\ header.pkt = vififo'[1].pkt
    <3>1. /\ header.pkt <= Sent /\ header.pkt \in Nat \ {0} /\ header.id = 2 * header.pkt - One(~header.show)
          /\ \A f \in frames : f.id < header.id
          /\ \A i \in DOMAIN vififo : header.id < 2 * vififo[i].pkt - One(~mid)
          /\ mid => vififo # << >> /\ header.pkt = vififo[1].pkt
      BY <2>9 DEF IInv, OrderInv, HeaderInv
    <3>2. header.id < 2 * packets - One(~mid) /\ header.pkt <= Sent'
      BY <1>0, <2>1, <3>1
    <3>3. ASSUME NEW i \in DOMAIN vififo'
          PROVE  header.id < 2 * vififo'[i].pkt - One(~mid)
      <4>1. CASE i \in 1 .. n
        BY <2>2, <2>4, <3>1, <4>1
      <4>2. CASE i = n + 1
        BY <2>1, <2>2, <3>2, <4>2
      <4>3. QED
        BY <2>2, <2>3, <4>1, <4>2
    <3>4. mid => vififo' # << >> /\ header.pkt = vififo'[1].pkt
      <4>1. CASE n = 0
        BY <1>0, <3>1, <4>1, EmptySeq DEF n
      <4>2. CASE n # 0
        <5>1. 1 \in 1 .. n /\ 1 \in DOMAIN vififo'
          BY <2>2, <2>4, <4>2
        <5>2. vififo'[1] = vififo[1] /\ vififo' # << >>
          BY <2>2, <5>1
        <5>3. QED
          BY <3>1, <5>2
      <4>3. QED
        BY <4>1, <4>2
    <3>5. QED
      BY <3>1, <3>2, <3>3, <3>4
  <2>10. Pending' = Pending
    BY <2>1 DEF Pending
  <2>11. Sent' \in Nat
    BY <1>0, <2>1
  <2> HIDE DEF One
  <2>12. QED
    BY <2>1, <2>5, <2>6, <2>7, <2>8, <2>9, <2>10, <2>11 DEF OrderInv
<1>4. CASE StartFrame
  <2>1. PICK b \in DstBuf : WithBuf(b) = {} /\ frames' = frames \cup {NewFrame(b)}
    BY <1>4, UsableFacts DEF StartFrame, IInv
  <2>2. codec \in {"frame", "resume"} /\ hw' = "run" /\ UNCHANGED <<header, mid, vififo>> /\ Sent' = Sent
    BY <1>4 DEF StartFrame, feedVars, Sent
  <2>3. Pending /\ ~Pending'
    BY <2>2 DEF IInv, SessionInv, Pending
  <2>4. NewFrame(b).id = header.id /\ NewFrame(b).pkt = header.pkt
    BY <2>1, <2>2, NewFacts
  <2>5. /\ header.pkt <= Sent /\ \A f \in frames : f.id < header.id
        /\ \A i \in DOMAIN vififo : header.id < 2 * vififo[i].pkt - One(~mid)
        /\ header.id \in Int /\ mid \in BOOLEAN
    BY <2>3 DEF IInv, OrderInv, HeaderInv
  <2>6. \A f \in frames' : f.pkt <= Sent
    BY <1>0, <2>1, <2>4, <2>5
  <2>7. ASSUME NEW f \in frames', NEW i \in DOMAIN vififo
        PROVE  f.id < 2 * vififo[i].pkt - One(~mid)
    <3>1. f.id <= header.id /\ f.id \in Int
      BY <1>0, <2>1, <2>4, <2>5
    <3>2. vififo[i].pkt \in Nat
      BY <1>0
    <3>3. QED
      BY <2>5, <3>1, <3>2
  <2> HIDE DEF One
  <2>8. QED
    BY <1>0, <2>2, <2>3, <2>6, <2>7 DEF OrderInv
<1>5. CASE PostHeader
  <2> DEFINE h == header'
  <2>1. /\ h.pkt = vififo[1].pkt /\ vififo[1].pkt \in 1 .. Sent /\ h.id = 2 * h.pkt - One(~h.show)
        /\ h.show \in BOOLEAN /\ mid' = ~h.show /\ vififo' = (IF h.show THEN Tail(vififo) ELSE vififo)
        /\ vififo # << >> /\ Len(vififo) \in Nat \ {0} /\ (~h.show => ~mid)
    BY <1>5, PostedFacts DEF Conforming
  <2> HIDE DEF h
  <2>2. /\ hw = "run" /\ hw' = "posted" /\ UNCHANGED <<frames, packets>> /\ Sent' = Sent
    BY <1>5 DEF PostHeader, frameVars, Sent
  <2>3. Pending'
    BY <2>2 DEF Pending
  <2>4. \A f \in frames : f.id < h.id
    <3>1. 1 \in DOMAIN vififo /\ mid \in BOOLEAN
      BY <1>0, <2>1 DEF IInv, HeaderInv
    <3>2. \A f \in frames : f.id < 2 * vififo[1].pkt - One(~mid)
      BY <2>2, <3>1 DEF IInv, OrderInv
    <3>3. QED
      BY <1>0, <2>1, <3>1, <3>2
  <2>5. CASE ~h.show
    <3>1. vififo' = vififo /\ mid' = TRUE
      BY <2>1, <2>5
    <3>2. \A i \in DOMAIN vififo : vififo[1].pkt <= vififo[i].pkt /\ vififo[i].pkt \in Nat
      <4>1. 1 \in DOMAIN vififo
        BY <1>0, <2>1
      <4>2. \A i \in DOMAIN vififo : i = 1 \/ 1 < i
        BY <1>0
      <4>3. QED
        BY <1>0, <4>1, <4>2
    <3>3. \A i \in DOMAIN vififo : h.id < 2 * vififo[i].pkt - One(~mid')
      BY <1>0, <2>1, <2>5, <3>1, <3>2
    <3>4. h.pkt <= Sent /\ h.pkt = vififo[1].pkt
      BY <1>0, <2>1
    <3> HIDE DEF One
    <3>5. QED
      BY <1>0, <2>1, <2>2, <2>3, <2>4, <3>1, <3>3, <3>4 DEF OrderInv, h
  <2>6. CASE h.show
    <3> DEFINE t == Tail(vififo)
               n == Len(vififo)
    <3>1. t \in Seq(Range(vififo)) /\ Len(t) = n - 1 /\ \A i \in 1 .. Len(t) : t[i] = vififo[i + 1]
      BY <1>0, <2>1, HeadTailProperties
    <3>2. DOMAIN t = 1 .. n - 1
      BY <3>1, LenProperties
    <3> HIDE DEF t, n
    <3>3. vififo' = t /\ mid' = FALSE /\ n \in Nat /\ DOMAIN vififo = 1 .. n
      BY <1>0, <2>1, <2>6 DEF t, n
    <3>4. \A i \in 1 .. n - 1 : t[i] = vififo[i + 1] /\ i + 1 \in 1 .. n /\ 1 \in 1 .. n /\ 1 < i + 1
      BY <3>1, <3>3
    <3>5. \A i \in 1 .. n - 1 : t[i].pkt \in 1 .. Sent /\ vififo[1].pkt < t[i].pkt
      BY <1>0, <3>3, <3>4
    <3>6. \A i, j \in 1 .. n - 1 : i < j => t[i].pkt < t[j].pkt
      <4>1. \A i, j \in 1 .. n - 1 : i < j => i + 1 < j + 1
        BY <3>3
      <4>2. QED
        BY <1>0, <3>3, <3>4, <4>1
    <3>7. \A i \in 1 .. n - 1 : h.id < 2 * t[i].pkt - One(~mid')
      BY <1>0, <2>1, <2>6, <3>3, <3>5
    <3>8. h.pkt <= Sent
      BY <1>0, <2>1
    <3> HIDE DEF One
    <3>9. \A f \in frames : f.pkt <= Sent
      BY <1>0
    <3>10. QED
      BY <1>0, <2>2, <2>3, <2>4, <3>2, <3>3, <3>5, <3>6, <3>7, <3>8, <3>9 DEF OrderInv, h
  <2>7. QED
    BY <2>1, <2>5, <2>6
<1>6. QED
  BY <1>1, <1>2, <1>3, <1>4, <1>5, OrderEffects

-----------------------------------------------------------------------------
(* Buffers.                                                                *)

\* A frame that leaves or is shown gives up its buffer, and no other.
LEMMA HeldFacts ==
  ASSUME FramesOK(frames), NEW f \in Undone
  PROVE  /\ f.buf \in Held /\ f.buf \in DstBuf
         /\ {g.buf : g \in Undone \ {f}} = Held \ {f.buf}
         /\ Removes(f) => Held' = Held \ {f.buf}
         /\ f.show /\ Shows(f) => Held' = Held \ {f.buf}
<1>1. f \in frames /\ ~f.done /\ f.buf \in DstBuf
  BY DEF Undone, FramesOK, IsFrame
<1>2. {g.buf : g \in Undone \ {f}} = Held \ {f.buf}
  BY <1>1 DEF Held, Undone, FramesOK
<1>3. Removes(f) => Undone' = Undone \ {f}
  BY DEF Removes, Undone
<1>4. f.show /\ Shows(f) => Undone' = Undone \ {f}
  <2>1. f.show => UndoneIn((frames \ {f}) \cup {[f EXCEPT !.done = TRUE]}) = UndoneIn(frames) \ {f}
    BY <1>1, DoneFacts
  <2>2. QED
    BY <2>1 DEF Shows, Undone, UndoneIn
<1>5. QED
  BY <1>1, <1>2, <1>3, <1>4 DEF Held

\* Steps that move no buffer.
LEMMA BuffersKept ==
  ASSUME IInv, UNCHANGED <<vb, rdy, cur, dropped>>, Undone' = Undone
  PROVE  BufferInv'
BY DEF IInv, BufferInv, Held

\* A frame that is shown gives its buffer back.
LEMMA ShowReturns ==
  ASSUME IInv, NEW f \in Undone, Held' = Held \ {f.buf}, UNCHANGED <<rdy, cur, dropped>>,
         NEW state \in VbState \ {"active"}, vb' = BufDone(vb, f.buf, state)
  PROVE  BufferInv'
<1> USE BufAssumption
<1>1. f.buf \in Held /\ f.buf \in DstBuf /\ f.buf # NoBuf
  BY HeldFacts DEF IInv, FrameInv, BufAssumption
<1>2. vb' = [vb EXCEPT ![f.buf] = state]
  BY <1>1 DEF BufDone
<1>3. f.buf \notin {cur} \ {NoBuf}
  BY <1>1 DEF BufAssumption, IInv, TypeInv
<1>4. Balanced([vb EXCEPT ![f.buf] = state], rdy, ({cur} \ {NoBuf}) \ {f.buf}, Held \ {f.buf}, dropped)
  BY <1>1, DoneKeepsBalance DEF IInv, BufferInv
<1>5. ({cur} \ {NoBuf}) \ {f.buf} = {cur} \ {NoBuf}
  BY <1>3
<1>6. QED
  BY <1>2, <1>4, <1>5 DEF BufferInv

\* A hidden frame that is removed leaves its buffer ready.
LEMMA HiddenReturns ==
  ASSUME IInv, NEW f \in Undone, Held' = Held \ {f.buf}, UNCHANGED <<vb, cur, dropped>>,
         rdy' = [rdy EXCEPT !["dst"] = Append(@, f.buf)]
  PROVE  BufferInv'
<1>1. f.buf \in Held
  BY HeldFacts DEF IInv, FrameInv
<1>2. Balanced(vb, rdy', {cur} \ {NoBuf}, Held \ {f.buf}, dropped)
  BY <1>1, ReturnKeepsBalance, BufAssumption DEF IInv, BufferInv
<1>3. QED
  BY <1>2 DEF BufferInv

LEMMA BufferStep ==
  ASSUME IInv, Next
  PROVE  BufferInv'
<1> USE BufAssumption
<1> DEFINE writing == {cur} \ {NoBuf}
<1>1. Balanced(vb, rdy, writing, Held, dropped) /\ FramesOK(frames)
  BY DEF IInv, BufferInv, FrameInv
<1>2. ASSUME UNCHANGED frames
      PROVE  /\ Held' = Held /\ Undone' = Undone
             /\ BufferInv' <=> Balanced(vb', rdy', {cur'} \ {NoBuf}, Held, dropped')
  BY <1>2 DEF Undone, Held, IInv, BufferInv
<1>3. {"done", "error"} \subseteq VbState \ {"active"} /\ "src" \in Queue /\ "dst" \in Queue
  BY DEF VbState, Queue
<1>4. CASE Feed
  <2> USE DEF codecVars, frameVars
  <2>1. CASE ReadPending(framesNum) \/ WorkBegins \/ WorkEnds
    BY <1>2, <1>4, <2>1, BuffersKept DEF Feed, ReadPending, WorkBegins, WorkStart, WorkEnds, m2mVars
  <2>2. CASE Submit(framesNum + Reserve - 1)
    <3>1. cur = NoBuf
      BY <2>2 DEF Submit, IInv, LockInv
    <3>2. CASE Ready("src")
      <4>1. cur' = Head(rdy["src"]) /\ rdy' = [rdy EXCEPT !["src"] = Tail(@)] /\ UNCHANGED <<vb, dropped>>
        BY <2>2, <3>2 DEF Submit, Removed, AfterRemove
      <4>2. /\ Balanced(vb, rdy', writing \cup {cur'}, Held, dropped)
            /\ cur' \in BufOf("src")
        BY <1>1, <1>3, <3>2, <4>1, TakeKeepsBalance DEF Ready
      <4>3. writing \cup {cur'} = {cur'} \ {NoBuf}
        BY <3>1, <4>2 DEF BufOf, BufAssumption
      <4>4. QED
        BY <1>2, <1>4, <4>1, <4>2, <4>3 DEF Feed
    <3>3. CASE ~Ready("src")
      <4>1. cur' = cur /\ UNCHANGED <<vb, rdy, dropped>>
        BY <2>2, <3>1, <3>3 DEF Submit, Removed, AfterRemove
      <4>2. QED
        BY <1>2, <1>4, <4>1, BuffersKept DEF Feed
    <3>4. QED
      BY <3>2, <3>3
  <2>3. CASE Written \/ WriteFailed
    <3>1. /\ \E state \in {"done", "error"} : vb' = BufDone(vb, cur, state)
          /\ cur' = NoBuf /\ UNCHANGED <<rdy, dropped>>
      BY <2>3 DEF Written, WriteFailed
    <3>2. CASE cur = NoBuf
      BY <1>2, <1>4, <3>1, <3>2, BuffersKept DEF Feed, BufDone
    <3>3. CASE cur # NoBuf
      <4>1. PICK state \in VbState \ {"active"} : vb' = [vb EXCEPT ![cur] = state]
        BY <1>3, <3>1, <3>3 DEF BufDone
      <4>2. Balanced(vb', rdy', writing \ {cur}, Held \ {cur}, dropped)
        BY <1>1, <3>1, <3>3, <4>1, DoneKeepsBalance
      <4>3. writing \ {cur} = {cur'} \ {NoBuf} /\ Held \ {cur} = Held
        BY <1>1, <3>1, <3>3 DEF Balanced, BufAssumption
      <4>4. QED
        BY <1>2, <1>4, <3>1, <4>2, <4>3 DEF Feed
    <3>4. QED
      BY <3>2, <3>3
  <2>4. CASE RecordFailed
    <3>1. UNCHANGED <<cur, dropped>>
      BY <2>4 DEF RecordFailed
    <3>2. CASE Ready("src")
      <4>1. /\ vb' = BufDone(vb, Head(rdy["src"]), "error")
            /\ rdy' = [rdy EXCEPT !["src"] = Tail(@)] /\ rdy["src"] # << >>
        BY <2>4, <3>2 DEF RecordFailed, Removed, AfterRemove, Ready
      <4>2. /\ Head(rdy["src"]) \in BufOf("src")
            /\ Balanced([vb EXCEPT ![Head(rdy["src"])] = "error"], rdy', writing, Held, dropped)
        BY <1>1, <1>3, <4>1, TakeKeepsBalance
      <4>3. vb' = [vb EXCEPT ![Head(rdy["src"])] = "error"]
        BY <4>1, <4>2 DEF BufDone, BufOf, BufAssumption
      <4>4. QED
        BY <1>2, <1>4, <3>1, <4>2, <4>3 DEF Feed
    <3>3. CASE ~Ready("src")
      <4>1. UNCHANGED <<vb, rdy>>
        BY <2>4, <3>3 DEF RecordFailed, Removed, AfterRemove, BufDone
      <4>2. QED
        BY <1>2, <1>4, <3>1, <4>1, BuffersKept DEF Feed
    <3>4. QED
      BY <3>2, <3>3
  <2>5. QED
    BY <1>4, <2>1, <2>2, <2>3, <2>4 DEF Feed
<1>5. CASE Isr
  <2>1. CASE PostHeader \/ SourceChange \/ NoFrame
    BY <1>2, <2>1, BuffersKept DEF PostHeader, SourceChange, NoFrame, m2mVars, feedVars, frameVars
  <2>2. CASE HandleHeader
    <3>1. UNCHANGED <<vb, cur, dropped>>
      BY <2>2 DEF HandleHeader, parserVars, feedVars
    <3>2. CASE header.show \/ Hidden = {}
      BY <1>2, <2>2, <3>1, <3>2, BuffersKept DEF HandleHeader, RemoveHidden
    <3>3. CASE ~(header.show \/ Hidden = {})
      <4>1. /\ FirstOf(Hidden) \in Undone /\ Removes(FirstOf(Hidden))
            /\ rdy' = [rdy EXCEPT !["dst"] = Append(@, FirstOf(Hidden).buf)]
        BY <1>1, <2>2, <3>3, RemoveHiddenFacts DEF HandleHeader, RemoveHidden, Removes
      <4>2. QED
        BY <1>1, <3>1, <4>1, HeldFacts, HiddenReturns
    <3>4. QED
      BY <3>2, <3>3
  <2>3. CASE StartFrame
    <3>1. UNCHANGED <<vb, cur, dropped>> /\ codec \in {"frame", "resume"} /\ Usable # {}
      BY <2>3 DEF StartFrame, feedVars
    <3> DEFINE i == Min(Usable)
               b == rdy["dst"][i]
    <3>2. i \in DOMAIN rdy["dst"] /\ WithBuf(b) = {} /\ b \in DstBuf
      BY <3>1, UsableFacts DEF IInv
    <3>3. rdy' = [rdy EXCEPT !["dst"] = Rotated(i)] /\ frames' = frames \cup {NewFrame(b)}
      BY <2>3 DEF StartFrame
    <3> HIDE DEF i
    <3>4. Balanced(vb, rdy', writing, Held \cup {b}, dropped)
      BY <1>1, <3>2, <3>3, PickKeepsBalance DEF Rotated
    <3> HIDE DEF b
    <3>5. Held' = Held \cup {b}
      <4>1. UndoneIn(frames') = Undone \cup {NewFrame(b)} /\ NewFrame(b).buf = b
        BY <3>1, <3>2, <3>3, NewFacts
      <4>2. Undone' = Undone \cup {NewFrame(b)}
        BY <4>1 DEF Undone, UndoneIn
      <4>3. QED
        BY <4>1, <4>2 DEF Held
    <3>6. QED
      BY <3>1, <3>4, <3>5 DEF BufferInv
  <2>4. CASE ShowFrame
    <3>1. FirstOf(ToShow) \in ToShow
      BY <1>1, <2>4, FirstFacts DEF ShowFrame, ToShow, Waiting
    <3> DEFINE f == FirstOf(ToShow)
    <3> HIDE DEF f
    <3>2. f \in Undone /\ f.show
      BY <3>1 DEF f, ToShow, Waiting, Undone
    <3>3. /\ Shows(f) /\ UNCHANGED <<rdy, cur, dropped>>
          /\ vb' = BufDone(vb, f.buf, IF timestamps = << >> THEN "error" ELSE "done")
      BY <2>4 DEF ShowFrame, Shows, feedVars, f
    <3>4. Held' = Held \ {f.buf}
      BY <1>1, <3>2, <3>3, HeldFacts
    <3>5. (IF timestamps = << >> THEN "error" ELSE "done") \in VbState \ {"active"}
      BY <1>3
    <3>6. QED
      BY <3>2, <3>3, <3>4, <3>5, ShowReturns
  <2>5. CASE ShowEnds
    <3>1. \A f \in Undone : Kept(f)
      BY <1>1, <2>5 DEF ShowEnds, ToShow, Waiting, Undone, Kept
    <3>2. Undone' = Undone
      BY <2>5, <3>1 DEF ShowEnds, Undone
    <3>3. QED
      BY <2>5, <3>2, BuffersKept DEF ShowEnds, m2mVars, parserVars, feedVars
  <2>6. QED
    BY <1>5, <2>1, <2>2, <2>3, <2>4, <2>5 DEF Isr
<1>6. CASE Call
  <2>1. ASSUME NEW b \in Buf, UserQBuf(b), UNCHANGED codecVars
        PROVE  BufferInv'
    <3>1. /\ vb[b] # "active" /\ vb' = [vb EXCEPT ![b] = "active"] /\ UNCHANGED <<cur, frames>>
          /\ \/ dropped' = dropped \cup {b} /\ UNCHANGED rdy
             \/ rdy' = [rdy EXCEPT ![QueueOf(b)] = Append(@, b)] /\ UNCHANGED dropped
      BY <2>1 DEF UserQBuf, QBuf, feedVars, codecVars, frameVars
    <3>2. Balanced(vb', rdy', writing, Held, dropped')
      <4>1. /\ Balanced([vb EXCEPT ![b] = "active"], [rdy EXCEPT ![QueueOf(b)] = Append(@, b)],
                        writing, Held, dropped)
            /\ Balanced([vb EXCEPT ![b] = "active"], rdy, writing, Held, dropped \cup {b})
        BY <1>1, <3>1, QueueKeepsBalance
      <4>2. QED
        BY <3>1, <4>1
    <3>3. QED
      BY <1>2, <3>1, <3>2
  <2>2. ASSUME NEW q \in Queue, NEW b \in BufOf(q), StreamOn(q, b)
        PROVE  BufferInv'
    <3>1. /\ QueueOf(b) = q /\ vb[b] # "active" /\ stream[q] = "idle"
          /\ vb' = [vb EXCEPT ![b] = "active"] /\ rdy' = [rdy EXCEPT ![q] = <<b>>]
          /\ UNCHANGED dropped
      BY <2>2 DEF StreamOn, StreamOnBuffer
    <3>2. rdy[q] = << >> /\ b \in Buf
      BY <3>1 DEF IInv, LockInv, BufOf, Buf
    <3>3. [rdy EXCEPT ![q] = <<b>>] = [rdy EXCEPT ![QueueOf(b)] = Append(@, b)]
      BY <3>1, <3>2
    <3>4. Balanced(vb', rdy', writing, Held, dropped)
      BY <1>1, <3>1, <3>2, <3>3, QueueKeepsBalance
    <3>5. cur' = cur /\ frames' = frames
      BY <2>2 DEF StreamOn, StartSession, KeepSession, feedVars, codecVars, frameVars
    <3>6. QED
      BY <1>2, <3>1, <3>4, <3>5
  <2>3. CASE DrainFrame
    <3>1. FirstOf(frames) \in frames
      BY <1>1, <2>3, FirstFacts DEF DrainFrame
    <3> DEFINE f == FirstOf(frames)
    <3>2. IsFrame(f)
      BY <1>1, <3>1 DEF FramesOK
    <3>3. frames' = frames \ {f} /\ UNCHANGED <<cur, dropped>>
      BY <2>3 DEF DrainFrame, feedVars
    <3>4. CASE f.done
      <4>1. UNCHANGED <<vb, rdy>>
        BY <2>3, <3>4 DEF DrainFrame
      <4>2. Undone' = Undone
        BY <3>3, <3>4 DEF Undone
      <4>3. QED
        BY <3>3, <4>1, <4>2, BuffersKept
    <3>5. CASE ~f.done
      <4>1. f \in Undone /\ Removes(f)
        BY <2>3, <3>1, <3>5 DEF Undone, Removes, DrainFrame
      <4>2. Held' = Held \ {f.buf}
        BY <1>1, <4>1, HeldFacts
      <4>3. CASE f.show
        <5>1. /\ vb' = BufDone(vb, f.buf, IF timestamps = << >> THEN "error" ELSE "done")
              /\ rdy' = rdy
          BY <2>3, <3>5, <4>3 DEF DrainFrame
        <5>2. (IF timestamps = << >> THEN "error" ELSE "done") \in VbState \ {"active"}
          BY <1>3
        <5> HIDE DEF f
        <5>3. QED
          BY <3>3, <4>1, <4>2, <5>1, <5>2, ShowReturns
      <4>4. CASE ~f.show
        <5>1. vb' = vb /\ rdy' = [rdy EXCEPT !["dst"] = Append(@, f.buf)]
          BY <2>3, <3>5, <4>4 DEF DrainFrame
        <5> HIDE DEF f
        <5>2. QED
          BY <3>3, <4>1, <4>2, <5>1, HiddenReturns
      <4>5. QED
        BY <4>3, <4>4
    <3>6. QED
      BY <3>4, <3>5
  <2>4. CASE AbortDrained \/ QueueDrained \/ Vp9Stop
    <3>1. UNCHANGED <<vb, rdy, cur, dropped, frames>>
      BY <2>4 DEF AbortDrained, AbortDone, QueueDrained, DrainDone, Vp9Stop, PowerOff,
                  Drained, FreshCodec, codecVars, frameVars, parserVars, feedVars, m2mVars
    <3>2. QED
      BY <1>2, <3>1, BuffersKept
  <2>5. QED
    BY <1>6, <2>1, <2>2, <2>3, <2>4 DEF Call
<1>7. CASE Ioctl /\ UNCHANGED codecVars
  <2>1. UNCHANGED frames
    BY <1>7 DEF codecVars, frameVars
  <2>2. CASE CmdStop /\ cur' = cur
    <3>1. /\ dropped' = dropped
          /\ \/ UNCHANGED <<vb, rdy>>
             \/ /\ rdy["dst"] # << >>
                /\ vb' = BufDone(vb, Head(rdy["dst"]), "done")
                /\ rdy' = [rdy EXCEPT !["dst"] = Tail(@)]
      BY <2>2 DEF CmdStop, Removed, AfterRemove, Ready, BufDone
    <3>2. CASE rdy["dst"] # << >> /\ vb' = BufDone(vb, Head(rdy["dst"]), "done")
               /\ rdy' = [rdy EXCEPT !["dst"] = Tail(@)]
      <4>1. /\ Head(rdy["dst"]) \in BufOf("dst")
            /\ Balanced([vb EXCEPT ![Head(rdy["dst"])] = "done"], rdy', writing, Held, dropped)
        BY <1>1, <1>3, <3>2, TakeKeepsBalance
      <4>2. vb' = [vb EXCEPT ![Head(rdy["dst"])] = "done"]
        BY <3>2, <4>1 DEF BufDone, BufOf, BufAssumption
      <4>3. QED
        BY <1>2, <2>1, <2>2, <3>1, <4>1, <4>2
    <3>3. QED
      BY <1>2, <2>1, <2>2, <3>1, <3>2, BuffersKept
  <2>3. ASSUME NEW q \in Queue, Release(q)
        PROVE  BufferInv'
    <3>1. /\ stop = "release" /\ stream[q] = "cancel"
          /\ vb' = [b \in Buf |-> IF QueueOf(b) = q /\ vb[b] = "active" THEN "error" ELSE vb[b]]
          /\ rdy' = [rdy EXCEPT ![q] = << >>]
          /\ dropped' = {b \in dropped : QueueOf(b) # q}
          /\ cur' = cur
      BY <2>3 DEF Release, feedVars
    <3>2. cur = NoBuf
      BY <3>1 DEF IInv, LockInv, LockFree
    <3>3. q = "dst" => Held = {}
      BY <3>1 DEF IInv, SessionInv, Held, Undone
    <3>4. /\ q = "src" => Balanced(vb', rdy', {}, Held, dropped')
          /\ q = "dst" => Balanced(vb', rdy', writing, {}, dropped')
      BY <1>1, <3>1, ForceKeepsBalance
    <3>5. writing = {} /\ {cur'} \ {NoBuf} = {}
      BY <3>1, <3>2
    <3>6. QED
      BY <1>2, <2>1, <3>3, <3>4, <3>5 DEF Queue
  <2>4. CASE UNCHANGED <<vb, rdy, cur, dropped>>
    BY <1>2, <2>1, <2>4, BuffersKept
  <2>5. QED
    BY <1>7, <2>2, <2>3, <2>4 DEF Ioctl, StreamOff, DecoderCmd, CmdStart, DeviceRun, StopStreaming,
       Reconfigure, m2mVars, parserVars, feedVars
<1>8. QED
  BY <1>4, <1>5, <1>6, <1>7 DEF Next

-----------------------------------------------------------------------------
LEMMA TypeStep ==
  ASSUME IInv, Next, BufferInv'
  PROVE  TypeInv'
<1>1. vb' \in [Buf -> VbState] /\ QueuesTyped(rdy')
  BY DEF BufferInv, Balanced, QueuesOK
<1>2. ASSUME job' \in {"none", "running"}, hasStopped' \in BOOLEAN, isDraining' \in BOOLEAN,
             aborted' \in BOOLEAN, dropped' \in SUBSET Buf,
             stream' \in [Queue -> {"idle", "on", "cancel", "off"}]
      PROVE  M2mTypeOK'
  BY <1>1, <1>2 DEF M2mTypeOK, QueuesTyped
<1>3. ASSUME UNCHANGED <<stream, job, drainVars, aborted, dropped>>
      PROVE  M2mTypeOK'
  BY <1>2, <1>3 DEF IInv, TypeInv, M2mTypeOK, drainVars
<1>4. ASSUME UNCHANGED feedVars
      PROVE  /\ cur' \in SrcBuf \cup {NoBuf} /\ packets' \in Nat
             /\ vififo' \in Seq(Range(vififo')) /\ \A e \in Range(vififo') : e.pkt \in Nat
  BY <1>4 DEF IInv, TypeInv, feedVars
<1> USE DEF parserVars, m2mVars, drainVars
<1>5. CASE Feed
  <2>1. UNCHANGED <<stream, job, drainVars, aborted, dropped>>
    BY <1>5 DEF Feed, ReadPending, WorkBegins, WorkStart, WorkEnds, Submit,
                Written, RecordFailed, WriteFailed
  <2>2. \/ UNCHANGED <<cur, packets, vififo>>
        \/ Submit(framesNum + Reserve - 1)
        \/ /\ cur' = NoBuf /\ packets' = packets
           /\ vififo' \in {vififo, Append(vififo, [pkt |-> packets, start |-> written])}
    BY <1>5 DEF Feed, ReadPending, WorkBegins, WorkStart, WorkEnds, Written,
                RecordFailed, WriteFailed
  <2>3. CASE Submit(framesNum + Reserve - 1)
    <3>1. packets' = packets + 1 /\ cur' = Removed("src") /\ vififo' = vififo
      BY <2>3 DEF Submit
    <3>2. cur' \in SrcBuf \cup {NoBuf}
      BY <3>1, TypedFacts DEF Removed, Ready, IInv, TypeInv, M2mTypeOK, QueuesTyped, Queue, BufOf
    <3>3. QED
      BY <1>3, <2>1, <3>1, <3>2 DEF IInv, TypeInv
  <2>4. CASE vififo' = Append(vififo, [pkt |-> packets, start |-> written]) /\ cur' = NoBuf
             /\ packets' = packets
    <3> DEFINE e == [pkt |-> packets, start |-> written]
               S == Range(vififo) \cup {e}
    <3>1. vififo \in Seq(S)
      BY SeqDef, LenProperties DEF IInv, TypeInv
    <3>2. vififo' \in Seq(S) /\ Range(vififo') = S
      BY <2>4, <3>1, AppendFacts
    <3>3. \A x \in S : x.pkt \in Nat
      BY DEF IInv, TypeInv
    <3>4. QED
      BY <1>3, <2>1, <2>4, <3>2, <3>3 DEF IInv, TypeInv
  <2>5. QED
    BY <1>3, <2>1, <2>2, <2>3, <2>4 DEF IInv, TypeInv
<1>6. CASE Isr
  <2>1. UNCHANGED <<stream, job, drainVars, aborted, dropped, cur, packets>>
    BY <1>6 DEF Isr, PostHeader, HandleHeader, SourceChange, StartFrame, NoFrame,
                ShowFrame, ShowEnds, feedVars
  <2>2. vififo' = vififo \/ (vififo # << >> /\ vififo' = Tail(vififo))
    BY <1>6 DEF Isr, PostHeader, HandleHeader, SourceChange, StartFrame, NoFrame,
                ShowFrame, ShowEnds, feedVars
  <2>3. vififo' \in Seq(Range(vififo')) /\ Range(vififo') \subseteq Range(vififo)
    <3>1. CASE vififo' = vififo
      BY <3>1 DEF IInv, TypeInv
    <3>2. CASE vififo # << >> /\ vififo' = Tail(vififo)
      <4>1. Tail(vififo) \in Seq(Range(vififo))
        BY <3>2, HeadTailProperties DEF IInv, TypeInv
      <4>2. QED
        BY <3>2, <4>1, RangeInSet, RangeSeq
    <3>3. QED
      BY <2>2, <3>1, <3>2
  <2>4. QED
    BY <1>3, <2>1, <2>3 DEF IInv, TypeInv
<1>7. CASE Call
  <2>1. ASSUME NEW b \in Buf, UserQBuf(b)
        PROVE  TypeInv'
    <3>1. /\ UNCHANGED <<stream, job, drainVars, aborted, feedVars>>
          /\ dropped' \in {dropped, dropped \cup {b}}
      BY <2>1 DEF UserQBuf, QBuf
    <3>2. QED
      BY <1>2, <1>4, <3>1 DEF IInv, TypeInv, M2mTypeOK, drainVars
  <2>2. ASSUME NEW q \in Queue, NEW b \in BufOf(q), StreamOn(q, b)
        PROVE  TypeInv'
    <3>1. /\ UNCHANGED <<job, drainVars, aborted, dropped>>
          /\ stream' = [stream EXCEPT ![q] = "on"]
      BY <2>2 DEF StreamOn, StreamOnBuffer
    <3>2. M2mTypeOK'
      BY <1>2, <3>1 DEF IInv, TypeInv, M2mTypeOK, drainVars
    <3>3. UNCHANGED feedVars \/ (cur' = cur /\ packets' = 0 /\ vififo' = << >>)
      BY <2>2 DEF StreamOn, StartSession, KeepSession
    <3>4. << >> \in Seq(Range(<< >>)) /\ Range(<< >>) = {}
      BY EmptyFacts
    <3>5. CASE UNCHANGED feedVars
      BY <1>4, <3>2, <3>5 DEF TypeInv
    <3>6. CASE cur' = cur /\ packets' = 0 /\ vififo' = << >>
      <4>1. cur \in SrcBuf \cup {NoBuf}
        BY DEF IInv, TypeInv
      <4>2. QED
        BY <3>2, <3>4, <3>6, <4>1 DEF TypeInv
    <3>7. QED
      BY <3>3, <3>5, <3>6
  <2>3. CASE DrainFrame \/ AbortDrained \/ QueueDrained \/ Vp9Stop
    <3>1. UNCHANGED <<stream, drainVars, aborted, dropped, feedVars>> /\ job' \in {job, "none"}
      BY <2>3 DEF DrainFrame, AbortDrained, AbortDone, QueueDrained, DrainDone, Vp9Stop, PowerOff,
                  JobFinish
    <3>2. QED
      BY <1>2, <1>4, <3>1 DEF IInv, TypeInv, M2mTypeOK, drainVars
  <2>4. QED
    BY <1>7, <2>1, <2>2, <2>3 DEF Call
<1>8. CASE Ioctl /\ UNCHANGED codecVars
  <2>1. CASE DecoderCmd
    <3>1. UNCHANGED <<cur, packets, vififo>> /\ (CmdStop \/ CmdStart)
      BY <2>1 DEF DecoderCmd
    <3>2. M2mTypeOK'
      BY <1>2, <3>1 DEF CmdStop, CmdStart, Ready, IInv, TypeInv, M2mTypeOK, drainVars
    <3>3. QED
      BY <3>1, <3>2 DEF IInv, TypeInv
  <2>2. CASE DeviceRun
    BY <1>2, <1>4, <2>2 DEF DeviceRun, ClearState, IInv, TypeInv, M2mTypeOK, drainVars
  <2>3. CASE Reconfigure
    BY <1>2, <1>4, <2>3 DEF Reconfigure, IInv, TypeInv, M2mTypeOK, drainVars
  <2>4. ASSUME NEW q \in Queue, StreamOff(q)
        PROVE  TypeInv'
    BY <1>2, <1>4, <2>4 DEF StreamOff, MarkStopped, IInv, TypeInv, M2mTypeOK, drainVars
  <2>5. ASSUME NEW q \in Queue, StopStreaming(q)
        PROVE  TypeInv'
    BY <1>3, <1>4, <2>5 DEF StopStreaming, TypeInv
  <2>6. ASSUME NEW q \in Queue, Release(q)
        PROVE  TypeInv'
    <3>1. /\ UNCHANGED <<job, drainVars, aborted, feedVars>>
          /\ stream' = [stream EXCEPT ![q] = "off"]
          /\ dropped' = {b \in dropped : QueueOf(b) # q}
      BY <2>6 DEF Release
    <3>2. QED
      BY <1>2, <1>4, <3>1 DEF IInv, TypeInv, M2mTypeOK, drainVars
  <2>7. QED
    BY <1>8, <2>1, <2>2, <2>3, <2>4, <2>5, <2>6 DEF Ioctl
<1>9. QED
  BY <1>5, <1>6, <1>7, <1>8 DEF Next

-----------------------------------------------------------------------------
LEMMA InitInv ==
  ASSUME Init
  PROVE  IInv
<1> USE DEF Init, M2mInit, ParserInit, AdapterInit
<1>1. Undone = {} /\ Hidden = {} /\ IsFiniteSet({}) /\ Cardinality({}) = 0
  BY FS_EmptySet DEF Undone, Hidden
<1>2. << >> \in Seq(Buf) /\ << >> \in Seq(SrcBuf) /\ << >> \in Seq(DstBuf)
      /\ << >> \in Seq(Range(<< >>)) /\ Range(<< >>) = {} /\ IsInjective(<< >>)
  BY EmptyFacts
<1>3. TypeInv
  BY <1>2 DEF TypeInv, M2mTypeOK, VbState, Queue, BufOf
<1>4. LockInv /\ StreamsInv
  BY DEF LockInv, LockFree, StreamsInv, Queue
<1>5. SessionInv /\ SizedInv
  BY DEF SessionInv, SizedInv, NoHeader
<1>6. FrameInv
  BY <1>1 DEF FrameInv, FramesOK
<1>7. HeaderInv
  BY DEF HeaderInv, Pending
<1>8. OrderInv
  <2>1. DOMAIN vififo = {} /\ Sent = 0 /\ ~Pending
    BY DEF Sent, One, Pending
  <2>2. QED
    BY <2>1 DEF OrderInv
<1>9. BufferInv
  <2>1. QueuesOK(rdy) /\ Queued(rdy) = {} /\ ActiveIn(vb) = {}
    BY <1>2 DEF QueuesOK, QueuesTyped, Queued, ActiveIn, Queue, BufOf
  <2>2. QED
    BY <1>1, <2>1 DEF BufferInv, Balanced, Held, VbState
<1>10. QED
  BY <1>3, <1>4, <1>5, <1>6, <1>7, <1>8, <1>9 DEF IInv

LEMMA StepInv == IInv /\ [Next]_vars => IInv'
<1> SUFFICES ASSUME IInv, [Next]_vars
             PROVE  IInv'
  OBVIOUS
<1>1. CASE Next
  BY <1>1, LockStep, StreamsStep, SessionStep, SizedStep, FrameStep, HeaderStep, OrderStep,
     BufferStep, TypeStep DEF IInv
<1>2. CASE UNCHANGED vars
  <2> USE <1>2 DEF IInv, vars, m2mVars, drainVars, parserVars, feedVars, sessionVars, adapterVars,
                   codecVars, frameVars
  <2>1. TypeInv' /\ LockInv'
    BY DEF TypeInv, M2mTypeOK, LockInv, LockFree
  <2>2. StreamsInv' /\ SessionInv' /\ SizedInv'
    BY DEF StreamsInv, SessionInv, SizedInv
  <2>3. Undone' = Undone /\ Hidden' = Hidden /\ Held' = Held
    BY DEF Undone, Hidden, Held
  <2>4. FrameInv' /\ BufferInv'
    BY <2>3 DEF FrameInv, FramesOK, IsFrame, BufferInv
  <2>5. Pending' = Pending /\ Sent' = Sent
    BY DEF Pending, Sent
  <2>6. HeaderInv' /\ OrderInv'
    BY <2>5 DEF HeaderInv, OrderInv
  <2>7. QED
    BY <2>1, <2>2, <2>4, <2>6
<1>3. QED
  BY <1>1, <1>2

\* The inductive invariant holds in every reachable state, of any stream the
\* driver can hold.
THEOREM Invariant == Spec => []IInv
<1>1. Init => IInv
  BY InitInv
<1>2. QED
  BY <1>1, StepInv, PTL DEF Spec

\* No buffer is lost, given back twice or in two places, although userspace queues
\* the buffers of references again (codec_vp9_get_new_frame, rm_noshow_frame,
\* show_frame, flush_output).
THEOREM BuffersConserved == Spec => []BufferConservation
<1>1. ASSUME IInv
      PROVE  BufferConservation
  <2> DEFINE h == [f \in Undone |-> f.buf]
  <2>1. h \in Bijection(Undone, Held)
    BY <1>1 DEF Bijection, Injection, Surjection, IsInjective, Held, Undone, IInv, FrameInv, FramesOK
  <2>2. IsFiniteSet(Undone) /\ framesNum = Cardinality(Undone)
    BY <1>1, FS_Subset DEF IInv, FrameInv, FramesOK, Undone
  <2>3. Cardinality(Held) = Cardinality(Undone)
    BY <2>1, <2>2, FS_Bijection DEF ExistsBijection
  <2>4. /\ Active = InReady \cup ({cur} \ {NoBuf}) \cup Held \cup dropped
        /\ ({cur} \ {NoBuf}) \cap InReady = {} /\ Held \cap InReady = {}
        /\ dropped \cap InReady = {}
    BY <1>1, BufAssumption DEF IInv, BufferInv, Balanced, Active, ActiveIn, InReady, Queued, BufAssumption
  <2>5. QED
    BY <2>2, <2>3, <2>4 DEF BufferConservation, Held
<1>2. QED
  BY <1>1, Invariant, PTL

-----------------------------------------------------------------------------
(* The reserve of CAPTURE buffers.  A packet takes one buffer for the frame  *)
(* it shows; the buffer of the hidden frame is kept back once, and the next  *)
(* hidden frame takes it over.                                               *)

InFlight   == Len(vififo) + One(Pending /\ header.show)
Due        == InFlight + One(work = "write")
NumWaiting == Cardinality(Waiting)
NumHidden  == Cardinality(Hidden)

CreditInv ==
  /\ seen \in Nat /\ queued \in Int
  /\ queued >= InFlight + NumWaiting
  /\ ~overdrawn /\ lacking = "no" /\ hw # "off" /\ stream["dst"] # "off" /\ Due > 0 =>
       Len(rdy["dst"]) + NumHidden >= Due + 1

\* The numbers in the sums.
LEMMA CreditTypes ==
  ASSUME IInv
  PROVE  /\ Len(rdy["dst"]) \in Nat /\ Len(vififo) \in Nat /\ framesNum = NumWaiting + NumHidden
         /\ InFlight \in Nat /\ One(work = "write") \in {0, 1} /\ NumWaiting \in Nat /\ NumHidden \in {0, 1}
         /\ IsFiniteSet(Waiting) /\ IsFiniteSet(Hidden)
<1>1. rdy["dst"] \in Seq(DstBuf)
  BY DEF IInv, TypeInv, M2mTypeOK, Queue, BufOf
<1>2. Len(rdy["dst"]) \in Nat /\ Len(vififo) \in Nat
  BY <1>1, LenProperties DEF IInv, TypeInv
<1>3. FramesOK(frames) /\ framesNum = Cardinality(Undone)
  BY DEF IInv, FrameInv
<1>4. IsFiniteSet(Waiting) /\ IsFiniteSet(Hidden)
  BY <1>3, FS_Subset DEF FramesOK, Waiting, Hidden
<1>5. Undone = Waiting \cup Hidden /\ Waiting \cap Hidden = {}
  BY <1>3 DEF FramesOK, IsFrame, Undone, Waiting, Hidden
<1>6. NumWaiting \in Nat /\ NumHidden \in Nat
  BY <1>4, FS_CardinalityType DEF NumWaiting, NumHidden
<1>7. framesNum = NumWaiting + NumHidden
  <2>1. Cardinality(Waiting \cap Hidden) = 0
    BY <1>5, FS_EmptySet
  <2>2. Cardinality(Waiting \cup Hidden) = Cardinality(Waiting) + Cardinality(Hidden) - Cardinality(Waiting \cap Hidden)
    BY <1>4, FS_Union
  <2>3. QED
    BY <1>3, <1>5, <1>6, <2>1, <2>2 DEF NumWaiting, NumHidden
<1>8. NumHidden \in {0, 1}
  <2>1. CASE Hidden = {}
    BY <2>1, FS_EmptySet DEF NumHidden
  <2>2. CASE Hidden # {}
    <3>1. Hidden = {FirstOf(Hidden)}
      BY <1>3, <2>2, RemoveHiddenFacts
    <3>2. QED
      BY <3>1, FS_Singleton, Zenon DEF NumHidden
  <2>3. QED
    BY <2>1, <2>2
<1>9. QED
  BY <1>2, <1>4, <1>6, <1>7, <1>8 DEF InFlight, One

\* What a change of the list does to the sums.
LEMMA CountEffects ==
  ASSUME IInv
  PROVE  /\ frames' = frames => NumWaiting' = NumWaiting /\ NumHidden' = NumHidden
         /\ frames' \subseteq frames /\ Undone \subseteq frames' =>
              NumWaiting' = NumWaiting /\ NumHidden' = NumHidden
         /\ frames' = {} => NumWaiting' = 0 /\ NumHidden' = 0
         /\ \A f \in Undone : Removes(f) =>
              /\ f.show => NumWaiting' = NumWaiting - 1 /\ NumHidden' = NumHidden
              /\ ~f.show => NumWaiting' = NumWaiting /\ NumHidden' = NumHidden - 1
         /\ \A f \in Waiting : Shows(f) => NumWaiting' = NumWaiting - 1 /\ NumHidden' = NumHidden
<1> USE DEF NumWaiting, NumHidden
<1>0. FramesOK(frames) /\ IsFiniteSet(Waiting) /\ IsFiniteSet(Hidden)
  BY CreditTypes DEF IInv, FrameInv
<1>1. frames' = frames => NumWaiting' = NumWaiting /\ NumHidden' = NumHidden
  BY DEF Waiting, Hidden
<1>2. ASSUME frames' \subseteq frames, Undone \subseteq frames'
      PROVE  NumWaiting' = NumWaiting /\ NumHidden' = NumHidden
  <2>1. Waiting' = Waiting
    BY <1>2 DEF Waiting, Undone
  <2>2. Hidden' = Hidden
    BY <1>0, <1>2 DEF Hidden, Undone, FramesOK, IsFrame
  <2>3. QED
    BY <2>1, <2>2
<1>3. frames' = {} => NumWaiting' = 0 /\ NumHidden' = 0
  <2>1. frames' = {} => Waiting' = {} /\ Hidden' = {}
    BY DEF Waiting, Hidden
  <2>2. QED
    BY <2>1, FS_EmptySet
<1>4. ASSUME NEW f \in Undone, Removes(f)
      PROVE  /\ f.show => NumWaiting' = NumWaiting - 1 /\ NumHidden' = NumHidden
             /\ ~f.show => NumWaiting' = NumWaiting /\ NumHidden' = NumHidden - 1
  <2>1. f.show => Waiting' = Waiting \ {f} /\ Hidden' = Hidden /\ f \in Waiting
    BY <1>4 DEF Removes, Waiting, Hidden, Undone
  <2>2. ~f.show => Waiting' = Waiting /\ Hidden' = Hidden \ {f} /\ f \in Hidden
    BY <1>4 DEF Removes, Waiting, Hidden, Undone
  <2>3. QED
    BY <1>0, <2>1, <2>2, FS_RemoveElement
<1>5. ASSUME NEW f \in Waiting, Shows(f)
      PROVE  NumWaiting' = NumWaiting - 1 /\ NumHidden' = NumHidden
  <2> DEFINE g == [f EXCEPT !.done = TRUE]
  <2>1. f \in frames /\ f.show /\ ~f.done
    BY DEF Waiting
  <2>2. g.show = f.show /\ g.done
    BY <1>0, <2>1, DoneFacts
  <2>3. frames' = (frames \ {f}) \cup {g}
    BY <1>5 DEF Shows
  <2> HIDE DEF g
  <2>4. Waiting' = Waiting \ {f} /\ Hidden' = Hidden
    BY <2>1, <2>2, <2>3 DEF Waiting, Hidden
  <2>5. QED
    BY <1>0, <2>4, FS_RemoveElement
<1>6. QED
  BY <1>1, <1>2, <1>3, <1>4, <1>5

\* Steps that take nothing from the sums.
LEMMA CreditKept ==
  ASSUME IInv, IInv', CreditInv,
         seen' \in Nat, queued' = queued, frames' = frames, vififo' = vififo,
         Pending' = Pending, header' = header, work' = "write" => work = "write",
         overdrawn => overdrawn', lacking # "no" => lacking' # "no", hw = "off" => hw' = "off",
         stream["dst"] = "off" => stream'["dst"] = "off" \/ hw' = "off",
         Len(rdy'["dst"]) >= Len(rdy["dst"]) \/ stream'["dst"] = "off" \/ overdrawn'
  PROVE  CreditInv'
<1>1. InFlight' = InFlight
  BY DEF InFlight, One
<1>2. One(work = "write")' <= One(work = "write")
  BY DEF One
<1>3. /\ Len(rdy["dst"]) \in Nat /\ InFlight \in Nat /\ One(work = "write") \in {0, 1}
      /\ NumHidden \in {0, 1}
  BY CreditTypes
<1>4. Len(rdy'["dst"]) \in Nat /\ One(work = "write")' \in {0, 1}
  <2>1. (Len(rdy["dst"]) \in Nat /\ One(work = "write") \in {0, 1})'
    BY CreditTypes, PTL
  <2>2. QED
    BY <2>1
<1>5. NumWaiting' = NumWaiting /\ NumHidden' = NumHidden
  BY CountEffects
<1>6. QED
  BY <1>1, <1>2, <1>3, <1>4, <1>5 DEF CreditInv, Due

LEMMA FeedCredit ==
  ASSUME IInv, IInv', CreditInv, Feed
  PROVE  CreditInv'
<1> USE DEF adapterVars, codecVars, frameVars
<1>1. /\ Len(rdy["dst"]) \in Nat /\ Len(vififo) \in Nat /\ framesNum = NumWaiting + NumHidden
      /\ InFlight \in Nat /\ One(work = "write") \in {0, 1} /\ NumWaiting \in Nat /\ NumHidden \in {0, 1}
  BY CreditTypes
<1>2. UNCHANGED <<hw, stream, lacking, frames, header>>
  BY DEF Feed, ReadPending, WorkBegins, WorkStart, WorkEnds, Submit, RecordFailed,
              Written, WriteFailed, m2mVars
<1>3. Pending' = Pending /\ NumWaiting' = NumWaiting /\ NumHidden' = NumHidden
  BY <1>2, CountEffects DEF Pending
<1>4. CASE ReadPending(framesNum) \/ WorkBegins \/ WorkEnds \/ RecordFailed \/ WriteFailed
  <2>1. /\ UNCHANGED <<queued, vififo, overdrawn>> /\ seen' \in {seen, framesNum}
        /\ work' # "write"
    BY <1>4
       DEF ReadPending, WorkBegins, WorkStart, WorkEnds, RecordFailed, WriteFailed, m2mVars,
           recordVars
  <2>2. rdy'["dst"] = rdy["dst"]
    <3>1. rdy' = rdy \/ rdy' = [rdy EXCEPT !["src"] = Tail(@)]
      BY <1>4
         DEF ReadPending, WorkBegins, WorkStart, WorkEnds, RecordFailed, WriteFailed,
             AfterRemove, m2mVars
    <3>2. QED
      BY <3>1 DEF IInv, TypeInv, M2mTypeOK, Queue
  <2>3. QED
    BY <1>1, <1>2, <1>3, <2>1, <2>2, CreditKept DEF CreditInv
<1>5. CASE Submit(framesNum + Reserve - 1)
  <2>1. /\ ~Refused /\ overdrawn' = (Credit < 0 \/ seen > framesNum + Reserve - 1)
        /\ rdy'["dst"] = rdy["dst"] /\ UNCHANGED <<queued, seen, vififo>> /\ work' = "write"
    BY <1>5 DEF Submit, AfterRemove, Ready
  <2>2. InFlight' = InFlight /\ Due' = InFlight + 1
    BY <1>2, <1>3, <2>1 DEF InFlight, One, Due
  <2>3. Credit = seen + Len(rdy["dst"]) - Reserve /\ Reserve \in Nat /\ Reserve >= 1
    BY ParserAssumption, ReserveAssumption DEF Credit, ParserAssumption, ReserveAssumption
  <2>4. ~overdrawn' => Len(rdy["dst"]) + NumHidden >= InFlight + 2
    <3>1. Credit >= 0 => ~(queued >= Credit)
      BY <2>1 DEF Refused
    <3>2. queued \in Int /\ seen \in Nat /\ queued >= InFlight + NumWaiting
      BY DEF CreditInv
    <3>3. ~overdrawn' => Credit >= 0 /\ seen <= framesNum + Reserve - 1
      <4>1. ~overdrawn' => ~(Credit < 0) /\ ~(seen > framesNum + Reserve - 1)
        BY <2>1, Zenon
      <4>2. Credit \in Int /\ framesNum \in Nat /\ Reserve \in Nat
        BY <1>1, <2>3, <3>2
      <4>3. QED
        BY <3>2, <4>1, <4>2
    <3>4. Credit >= 0 => queued < Credit
      BY <1>1, <2>3, <3>1, <3>2
    <3>5. QED
      BY <1>1, <2>3, <3>2, <3>3, <3>4
  <2>5. QED
    BY <1>1, <1>2, <1>3, <2>1, <2>2, <2>4 DEF CreditInv
<1>6. CASE Written
  <2>1. /\ work = "write" /\ work' = "scan" /\ queued' = queued + 1 /\ UNCHANGED <<rdy, seen, overdrawn>>
        /\ vififo' = Append(vififo, [pkt |-> packets, start |-> written])
    BY <1>6 DEF Written
  <2>2. Len(vififo') = Len(vififo) + 1
    <3> DEFINE e == [pkt |-> packets, start |-> written]
    <3>1. vififo \in Seq(Range(vififo) \cup {e})
      BY SeqDef, LenProperties DEF IInv, TypeInv
    <3>2. QED
      BY <2>1, <3>1, AppendProperties
  <2>3. InFlight' = InFlight + 1 /\ Due = InFlight + 1 /\ Due' = InFlight + 1
    BY <1>1, <1>2, <1>3, <2>1, <2>2 DEF InFlight, One, Due
  <2>4. QED
    BY <1>1, <1>2, <1>3, <2>1, <2>3 DEF CreditInv
<1>7. QED
  BY <1>4, <1>5, <1>6 DEF Feed

LEMMA IsrCredit ==
  ASSUME IInv, IInv', CreditInv, Isr
  PROVE  CreditInv'
<1> USE DEF m2mVars, parserVars, feedVars, recordVars, sessionVars, frameVars
<1>1. /\ Len(rdy["dst"]) \in Nat /\ Len(vififo) \in Nat
      /\ InFlight \in Nat /\ One(work = "write") \in {0, 1} /\ NumWaiting \in Nat /\ NumHidden \in {0, 1}
  BY CreditTypes
<1>2. UNCHANGED <<seen, work, overdrawn, stream>> /\ hw # "off"
  BY DEF Isr, PostHeader, HandleHeader, SourceChange, StartFrame, NoFrame, ShowFrame, ShowEnds,
         IInv, SessionInv
<1>3. CASE PostHeader
  <2>1. hw = "run" /\ hw' = "posted" /\ UNCHANGED <<rdy, queued, frames, lacking>>
    BY <1>3 DEF PostHeader
  <2>2. /\ vififo # << >> /\ vififo' = (IF header'.show THEN Tail(vififo) ELSE vififo)
        /\ header'.show \in BOOLEAN
    BY <1>3, PostedFacts
  <2>3. Len(Tail(vififo)) = Len(vififo) - 1
    BY <2>2, HeadTailProperties DEF IInv, TypeInv
  <2>4. ~Pending /\ Pending'
    BY <2>1 DEF Pending
  <2>5. InFlight' = InFlight /\ Due' = Due
    BY <1>1, <1>2, <2>2, <2>3, <2>4 DEF InFlight, One, Due
  <2>6. NumWaiting' = NumWaiting /\ NumHidden' = NumHidden
    BY <2>1, CountEffects
  <2>7. QED
    BY <1>2, <2>1, <2>5, <2>6 DEF CreditInv
<1>4. CASE HandleHeader
  <2>1. UNCHANGED <<queued, lacking, vififo, hw, header>>
    BY <1>4 DEF HandleHeader
  <2>2. Pending' = Pending
    BY <2>1 DEF Pending
  <2>3. InFlight' = InFlight /\ Due' = Due
    BY <1>2, <2>1, <2>2 DEF InFlight, Due, One
  <2>4. CASE header.show \/ Hidden = {}
    BY <1>1, <1>2, <1>4, <2>1, <2>2, <2>4, CreditKept DEF HandleHeader, RemoveHidden, CreditInv
  <2>5. CASE ~(header.show \/ Hidden = {})
    <3> DEFINE f == FirstOf(Hidden)
    <3>1. f \in Undone /\ ~f.show /\ Removes(f) /\ f.buf \in DstBuf
          /\ rdy' = [rdy EXCEPT !["dst"] = Append(@, f.buf)]
      BY <1>4, <2>5, RemoveHiddenFacts DEF HandleHeader, RemoveHidden, Removes, IInv, FrameInv, Hidden,
         FramesOK, IsFrame
    <3> HIDE DEF f
    <3>2. NumWaiting' = NumWaiting /\ NumHidden' = NumHidden - 1
      BY <3>1, CountEffects
    <3>3. rdy["dst"] \in Seq(DstBuf) /\ rdy'["dst"] = Append(rdy["dst"], f.buf)
      BY <3>1 DEF IInv, TypeInv, M2mTypeOK, Queue, BufOf
    <3>4. Len(rdy'["dst"]) = Len(rdy["dst"]) + 1
      BY <3>1, <3>3, AppendProperties
    <3>5. QED
      BY <1>1, <1>2, <2>1, <2>3, <3>2, <3>4 DEF CreditInv
  <2>6. QED
    BY <2>4, <2>5
<1>5. CASE SourceChange
  <2>1. UNCHANGED <<rdy, queued, frames, lacking, vififo, header>> /\ hw = "posted" /\ hw' \in {hw, "held"}
    BY <1>5 DEF SourceChange
  <2>2. Pending' = Pending
    BY <2>1 DEF Pending
  <2>3. QED
    BY <1>1, <1>2, <2>1, <2>2, CreditKept DEF CreditInv
<1>6. CASE StartFrame
  <2> DEFINE i == Min(Usable)
             b == rdy["dst"][i]
             n == NewFrame(b)
  <2>1. /\ i \in DOMAIN rdy["dst"] /\ WithBuf(b) = {} /\ b \in DstBuf
        /\ codec \in {"frame", "resume"}
    BY <1>6, UsableFacts DEF StartFrame, IInv
  <2>2. /\ rdy' = [rdy EXCEPT !["dst"] = Rotated(i)] /\ frames' = frames \cup {n} /\ hw' = "run"
        /\ UNCHANGED <<queued, vififo, header, lacking>>
    BY <1>6 DEF StartFrame
  <2>3. Len(rdy'["dst"]) = Len(rdy["dst"]) - 1
    <3> HIDE DEF i
    <3>1. Len(Rotated(i)) = Len(rdy["dst"]) - 1
      BY <2>1, PickKeepsBalance, BufAssumption DEF IInv, BufferInv, Rotated
    <3>2. rdy'["dst"] = Rotated(i)
      BY <2>2 DEF IInv, TypeInv, M2mTypeOK, Queue
    <3>3. QED
      BY <3>1, <3>2
  <2>4. n.show = header.show /\ ~n.done /\ n \notin frames
    BY <2>1, NewFacts
  <2>5. Pending /\ ~Pending' /\ header.show \in BOOLEAN
    BY <2>1, <2>2 DEF IInv, SessionInv, HeaderInv, Pending
  <2>6. IsFiniteSet(Waiting) /\ IsFiniteSet(Hidden)
    BY CreditTypes
  <2> HIDE DEF b, i, n
  <2>7. CASE header.show
    <3>1. Waiting' = Waiting \cup {n} /\ Hidden' = Hidden /\ n \notin Waiting
      BY <2>2, <2>4, <2>7 DEF Waiting, Hidden
    <3>2. NumWaiting' = NumWaiting + 1 /\ NumHidden' = NumHidden
      BY <2>6, <3>1, FS_AddElement DEF NumWaiting, NumHidden
    <3>3. InFlight' = InFlight - 1 /\ Due' = Due - 1
      BY <1>1, <1>2, <2>2, <2>5, <2>7 DEF InFlight, Due, One
    <3>4. Due' \in Nat /\ Due \in Nat
      <4>1. (InFlight \in Nat /\ One(work = "write") \in {0, 1})'
        BY CreditTypes, PTL
      <4>2. QED
        BY <1>1, <4>1 DEF Due
    <3>5. QED
      BY <1>1, <1>2, <2>2, <2>3, <3>2, <3>3, <3>4 DEF CreditInv
  <2>8. CASE ~header.show
    <3>1. Waiting' = Waiting /\ Hidden' = Hidden \cup {n} /\ n \notin Hidden
      BY <2>2, <2>4, <2>8 DEF Waiting, Hidden
    <3>2. NumWaiting' = NumWaiting /\ NumHidden' = NumHidden + 1
      BY <2>6, <3>1, FS_AddElement DEF NumWaiting, NumHidden
    <3>3. InFlight' = InFlight /\ Due' = Due
      BY <1>1, <1>2, <2>2, <2>5, <2>8 DEF InFlight, Due, One
    <3>4. queued' >= InFlight' + NumWaiting' /\ seen' \in Nat /\ queued' \in Int
      BY <1>2, <2>2, <3>2, <3>3 DEF CreditInv
    <3>5. Len(rdy'["dst"]) + NumHidden' = Len(rdy["dst"]) + NumHidden
      <4>1. \A x, y \in Int : (x - 1) + (y + 1) = x + y
        OBVIOUS
      <4>2. Len(rdy["dst"]) \in Int /\ NumHidden \in Int
        BY <1>1
      <4>3. (Len(rdy["dst"]) - 1) + (NumHidden + 1) = Len(rdy["dst"]) + NumHidden
        BY <4>1, <4>2, Zenon
      <4>4. QED
        BY <2>3, <3>2, <4>3, Zenon
    <3>6. QED
      BY <1>2, <2>2, <3>3, <3>4, <3>5 DEF CreditInv
  <2>9. QED
    BY <2>5, <2>7, <2>8
<1>7. CASE NoFrame
  <2>1. UNCHANGED <<queued, vififo, frames, header>> /\ lacking' # "no" /\ hw' = "held"
    BY <1>7 DEF NoFrame
  <2>2. Pending /\ Pending'
    BY <1>7, <2>1 DEF NoFrame, IInv, SessionInv, Pending
  <2>3. InFlight' = InFlight
    BY <2>1, <2>2 DEF InFlight, One
  <2>4. NumWaiting' = NumWaiting
    BY <2>1, CountEffects
  <2>5. QED
    BY <1>2, <2>1, <2>3, <2>4 DEF CreditInv
<1>8. CASE ShowFrame
  <2> DEFINE f == FirstOf(ToShow)
  <2>1. f \in Waiting /\ Shows(f)
    <3>1. f \in ToShow
      BY <1>8, FirstFacts DEF ShowFrame, ToShow, Waiting, IInv, FrameInv
    <3>2. QED
      BY <1>8, <3>1 DEF ShowFrame, Shows, ToShow
  <2>2. /\ UNCHANGED <<rdy, vififo, header, hw, lacking>> /\ queued' \in {queued, queued - 1}
    BY <1>8 DEF ShowFrame, TakeFirst, adapterVars
  <2>3. NumWaiting' = NumWaiting - 1 /\ NumHidden' = NumHidden
    BY <2>1, CountEffects
  <2>4. InFlight' = InFlight /\ Due' = Due
    BY <1>2, <2>2 DEF InFlight, Due, One, Pending
  <2>5. QED
    BY <1>1, <1>2, <2>2, <2>3, <2>4 DEF CreditInv
<1>9. CASE ShowEnds
  <2>1. UNCHANGED <<rdy, vififo, header, hw, lacking, queued>>
    BY <1>9 DEF ShowEnds
  <2>2. frames' \subseteq frames /\ Undone \subseteq frames'
    <3>1. \A f \in Undone : Kept(f)
      BY <1>9 DEF ShowEnds, ToShow, Waiting, Undone, Kept, IInv, FrameInv, FramesOK, IsFrame
    <3>2. QED
      BY <1>9, <3>1 DEF ShowEnds, Undone
  <2>3. NumWaiting' = NumWaiting /\ NumHidden' = NumHidden
    BY <2>2, CountEffects
  <2>4. InFlight' = InFlight /\ Due' = Due
    BY <1>2, <2>1 DEF InFlight, Due, One, Pending
  <2>5. QED
    BY <1>2, <2>1, <2>3, <2>4 DEF CreditInv
<1>10. QED
  BY <1>3, <1>4, <1>5, <1>6, <1>7, <1>8, <1>9 DEF Isr

\* QBUF and STREAMON add to a ready queue.
LEMMA LongerQueue ==
  ASSUME IInv, NEW b \in Buf, rdy' = [rdy EXCEPT ![QueueOf(b)] = Append(@, b)]
  PROVE  Len(rdy'["dst"]) >= Len(rdy["dst"])
<1>1. rdy["dst"] \in Seq(Buf) /\ "dst" \in Queue
  BY DEF IInv, TypeInv, M2mTypeOK, Queue
<1>2. rdy'["dst"] = IF QueueOf(b) = "dst" THEN Append(rdy["dst"], b) ELSE rdy["dst"]
  BY <1>1 DEF IInv, TypeInv, M2mTypeOK
<1>3. Len(Append(rdy["dst"], b)) = Len(rdy["dst"]) + 1 /\ Len(rdy["dst"]) \in Nat
  BY <1>1, AppendProperties, LenProperties
<1>4. QED
  BY <1>2, <1>3

\* One frame of a STREAMOFF: it is hidden, waits to be shown, or was shown.
LEMMA DrainCredit ==
  ASSUME IInv, IInv', CreditInv, DrainFrame
  PROVE  CreditInv'
<1> DEFINE f == FirstOf(frames)
<1>0. FramesOK(frames) /\ f \in frames /\ IsFrame(f)
  <2>1. FramesOK(frames) /\ frames # {}
    BY DEF DrainFrame, IInv, FrameInv
  <2>2. f \in frames
    BY <2>1, FirstFacts
  <2>3. QED
    BY <2>1, <2>2 DEF FramesOK
<1>1. /\ Len(rdy["dst"]) \in Nat /\ Len(vififo) \in Nat
      /\ InFlight \in Nat /\ One(work = "write") \in {0, 1} /\ NumWaiting \in Nat /\ NumHidden \in {0, 1}
  BY CreditTypes
<1>2. UNCHANGED <<seen, work, overdrawn, stream, vififo, hw, header, lacking>>
  BY DEF DrainFrame, feedVars, adapterVars
<1>3. InFlight' = InFlight /\ Due' = Due /\ Due \in Nat
  <2>1. InFlight' = InFlight /\ Due' = Due
    BY <1>2 DEF InFlight, Due, One, Pending
  <2>2. Due \in Nat
    BY <1>1 DEF Due
  <2>3. QED
    BY <2>1, <2>2
<1>4. /\ frames' = frames \ {f} /\ framesNum' = (IF f.done THEN framesNum ELSE framesNum - 1)
      /\ rdy' = (IF f.done \/ f.show THEN rdy ELSE [rdy EXCEPT !["dst"] = Append(@, f.buf)])
      /\ f.done \/ ~f.show => UNCHANGED recordVars
      /\ queued' \in {queued, queued - 1}
  BY DEF DrainFrame, TakeFirst, recordVars
<1> HIDE DEF f
<1>5. CASE f.done
  <2>1. frames' \subseteq frames /\ Undone \subseteq frames'
    BY <1>4, <1>5 DEF Undone
  <2>2. NumWaiting' = NumWaiting /\ NumHidden' = NumHidden /\ queued' = queued /\ rdy' = rdy
    BY <1>4, <1>5, <2>1, CountEffects DEF recordVars
  <2>3. QED
    BY <1>2, <1>3, <2>2 DEF CreditInv
<1>6. CASE ~f.done
  <2>0. f \in Undone /\ Removes(f)
    BY <1>0, <1>4, <1>6 DEF Removes, Undone
  <2>1. CASE f.show
    <3>1. NumWaiting' = NumWaiting - 1 /\ NumHidden' = NumHidden /\ rdy' = rdy
      BY <1>4, <2>0, <2>1, CountEffects
    <3>2. queued' \in Int /\ queued' >= InFlight' + NumWaiting'
      BY <1>1, <1>3, <1>4, <3>1 DEF CreditInv
    <3>3. QED
      BY <1>2, <1>3, <3>1, <3>2 DEF CreditInv
  <2>2. CASE ~f.show
    <3>1. NumWaiting' = NumWaiting /\ NumHidden' = NumHidden - 1 /\ queued' = queued
      BY <1>4, <2>0, <2>2, CountEffects DEF recordVars
    <3>2. rdy["dst"] \in Seq(DstBuf) /\ rdy'["dst"] = Append(rdy["dst"], f.buf) /\ f.buf \in DstBuf
      BY <1>0, <1>4, <1>6, <2>2 DEF IsFrame, IInv, TypeInv, M2mTypeOK, Queue, BufOf
    <3>3. Len(rdy'["dst"]) = Len(rdy["dst"]) + 1
      BY <3>2, AppendProperties
    <3>4. Len(rdy'["dst"]) + NumHidden' = Len(rdy["dst"]) + NumHidden
      BY <1>1, <3>1, <3>3
    <3>5. QED
      BY <1>2, <1>3, <3>1, <3>4 DEF CreditInv
  <2>3. QED
    BY <1>0, <2>1, <2>2 DEF IsFrame
<1>7. QED
  BY <1>5, <1>6

LEMMA CallCredit ==
  ASSUME IInv, IInv', CreditInv, Call
  PROVE  CreditInv'
<1> USE DEF m2mVars, parserVars, feedVars, recordVars, sessionVars, adapterVars, codecVars, frameVars
<1>0. seen \in Nat
  BY DEF CreditInv
<1>1. CASE \E b \in Buf : UserQBuf(b) /\ UNCHANGED codecVars
  <2>1. PICK b \in Buf : UserQBuf(b)
    BY <1>1
  <2>2. \/ rdy' = rdy
        \/ rdy' = [rdy EXCEPT ![QueueOf(b)] = Append(@, b)]
    BY <2>1 DEF UserQBuf, QBuf
  <2>3. Len(rdy'["dst"]) >= Len(rdy["dst"])
    BY <2>2, LongerQueue, CreditTypes
  <2>4. UNCHANGED <<feedVars, recordVars, sessionVars, frames, hw, stream, lacking, header>>
    BY <1>1, <2>1 DEF UserQBuf, QBuf
  <2>5. Pending' = Pending
    BY <2>4 DEF Pending
  <2>6. QED
    BY <1>0, <2>3, <2>4, <2>5, CreditKept
<1>2. ASSUME NEW q \in Queue, NEW b \in BufOf(q), StreamOn(q, b)
      PROVE  CreditInv'
  <2>1. /\ QueueOf(b) = q /\ stream[q] = "idle" /\ rdy' = [rdy EXCEPT ![q] = <<b>>]
        /\ stream' = [stream EXCEPT ![q] = "on"] /\ work = "idle" /\ UNCHANGED codecVars
    BY <1>2 DEF StreamOn, StreamOnBuffer, NoIoctl, Unlocked
  <2>2. rdy[q] = << >> /\ b \in Buf
    BY <2>1 DEF IInv, LockInv, BufOf, Buf
  <2>3. rdy' = [rdy EXCEPT ![QueueOf(b)] = Append(@, b)]
    BY <2>1, <2>2
  <2>4. Len(rdy'["dst"]) >= Len(rdy["dst"])
    BY <2>2, <2>3, LongerQueue
  <2>5. CASE StreamOnOutcome(q) = "starts" /\ StartSession
    <3>1. /\ queued' = 0 /\ vififo' = << >> /\ hw' = "run" /\ UNCHANGED <<work, seen>>
          /\ frames' = {}
      BY <2>1, <2>5 DEF StartSession, StreamOnOutcome, IInv, SessionInv, SizedInv
    <3>2. NumWaiting' = 0
      BY <3>1, CountEffects
    <3>3. InFlight' = 0 /\ Due' = 0
      BY <2>1, <3>1, LenProperties, EmptySeq DEF InFlight, Due, One, Pending
    <3>4. QED
      BY <1>0, <3>1, <3>2, <3>3 DEF CreditInv
  <2>6. CASE KeepSession /\ UNCHANGED hw
    <3>1. stream["dst"] # "off" \/ stream'["dst"] = "off"
      BY <2>1 DEF IInv, TypeInv, M2mTypeOK, Queue
    <3>2. /\ UNCHANGED <<seen, queued, vififo, work, overdrawn, frames, header, lacking, hw>>
          /\ Pending' = Pending
      BY <2>1, <2>6 DEF KeepSession, Pending
    <3>3. QED
      BY <1>0, <2>4, <3>1, <3>2, CreditKept
  <2>7. QED
    BY <1>2, <2>5, <2>6 DEF StreamOn
<1>3. CASE AbortDrained \/ QueueDrained
  <2>1. UNCHANGED <<rdy, stream, feedVars, queued, hw, frames, header, lacking>> /\ Pending' = Pending
    BY <1>3 DEF AbortDrained, AbortDone, QueueDrained, DrainDone, Pending
  <2>2. Len(rdy'["dst"]) >= Len(rdy["dst"])
    BY <2>1, CreditTypes
  <2>3. QED
    BY <1>0, <2>1, <2>2, CreditKept
<1>4. CASE Vp9Stop
  <2>1. UNCHANGED <<seen, vififo, queued>> /\ hw' = "off" /\ frames' = {}
    BY <1>4 DEF Vp9Stop, PowerOff, FreshCodec
  <2>2. InFlight' = Len(vififo) /\ NumWaiting' = 0
    BY <2>1, CountEffects, CreditTypes DEF InFlight, One, Pending
  <2>3. Len(vififo) \in Nat /\ Len(vififo) <= InFlight /\ InFlight \in Nat /\ NumWaiting \in Nat
    BY CreditTypes DEF InFlight, One
  <2>4. queued' >= InFlight' + NumWaiting'
    <3>1. queued \in Int /\ queued >= InFlight + NumWaiting
      BY DEF CreditInv
    <3>2. queued >= Len(vififo) + 0
      BY <2>3, <3>1
    <3>3. QED
      BY <2>1, <2>2, <3>2
  <2>5. QED
    BY <2>1, <2>4 DEF CreditInv
<1>5. QED
  BY <1>1, <1>2, <1>3, <1>4, DrainCredit DEF Call

LEMMA IoctlCredit ==
  ASSUME IInv, IInv', CreditInv, Ioctl, UNCHANGED codecVars
  PROVE  CreditInv'
<1> USE DEF m2mVars, parserVars, feedVars, recordVars, sessionVars, adapterVars, codecVars, frameVars
<1>0. seen \in Nat /\ Len(rdy["dst"]) \in Nat
  BY CreditTypes DEF CreditInv
<1>1. /\ UNCHANGED <<work, seen, vififo, queued, hw, frames, header, lacking>>
      /\ overdrawn => overdrawn' /\ Pending' = Pending
  <2>1. CASE DecoderCmd
    BY <2>1 DEF DecoderCmd, Pending
  <2>2. CASE DeviceRun \/ Reconfigure
    BY <2>2 DEF DeviceRun, Reconfigure, Pending
  <2>3. ASSUME NEW q \in Queue, StreamOff(q) \/ StopStreaming(q) \/ Release(q)
        PROVE  /\ UNCHANGED <<work, seen, vififo, queued, hw, frames, header, lacking>>
               /\ overdrawn' = overdrawn /\ Pending' = Pending
    BY <2>3 DEF StreamOff, StopStreaming, Release, Pending
  <2>4. QED
    BY <2>1, <2>2, <2>3 DEF Ioctl
<1>2. ASSUME stream["dst"] = "off" => stream'["dst"] = "off" \/ hw' = "off",
             Len(rdy'["dst"]) >= Len(rdy["dst"]) \/ stream'["dst"] = "off" \/ overdrawn'
      PROVE  CreditInv'
  <2>1. /\ seen' \in Nat /\ queued' = queued /\ frames' = frames /\ vififo' = vififo
        /\ header' = header /\ work' = work /\ lacking' = lacking /\ hw' = hw
        /\ Pending' = Pending
    BY <1>0, <1>1 DEF Pending
  <2>2. /\ overdrawn => overdrawn'
        /\ work' = "write" => work = "write"
        /\ lacking # "no" => lacking' # "no"
        /\ hw = "off" => hw' = "off"
    BY <1>1, <2>1
  <2>3. QED
    BY <1>2, <2>1, <2>2, CreditKept
<1>9. rdy' = rdy => Len(rdy'["dst"]) >= Len(rdy["dst"])
  BY <1>0
<1>3. CASE DecoderCmd
  <2>1. overdrawn' = (overdrawn \/ rdy' # rdy) /\ stream' = stream
    BY <1>3 DEF DecoderCmd, CmdStop, CmdStart
  <2>2. CASE rdy' = rdy
    BY <1>2, <1>9, <2>1, <2>2
  <2>3. CASE rdy' # rdy
    BY <1>2, <2>1, <2>3
  <2>4. QED
    BY <2>2, <2>3
<1>4. ASSUME NEW q \in Queue, StreamOff(q)
      PROVE  CreditInv'
  BY <1>2, <1>9, <1>4 DEF StreamOff, IInv, TypeInv, M2mTypeOK
<1>5. CASE DeviceRun \/ \E q \in Queue : StopStreaming(q)
  BY <1>2, <1>9, <1>5 DEF DeviceRun, StopStreaming
<1>6. CASE Reconfigure
  <2>1. streamon = {} /\ hw = "off"
    BY <1>6 DEF Reconfigure, IInv, StreamsInv
  <2>2. QED
    BY <1>1, <1>2, <1>9, <1>6, <2>1 DEF Reconfigure
<1>7. ASSUME NEW q \in Queue, Release(q)
      PROVE  CreditInv'
  <2>1. stream' = [stream EXCEPT ![q] = "off"] /\ rdy' = [rdy EXCEPT ![q] = << >>]
    BY <1>7 DEF Release
  <2>2. /\ q = "dst" => stream'["dst"] = "off"
        /\ q = "src" => rdy'["dst"] = rdy["dst"] /\ stream'["dst"] = stream["dst"]
    BY <2>1 DEF IInv, TypeInv, M2mTypeOK, Queue
  <2>3. CASE q = "dst"
    BY <1>2, <2>2, <2>3
  <2>4. CASE q = "src"
    <3>1. Len(rdy'["dst"]) >= Len(rdy["dst"])
      BY <1>0, <2>2, <2>4
    <3>2. QED
      BY <1>2, <2>2, <2>4, <3>1
  <2>5. QED
    BY <2>3, <2>4 DEF Queue
<1>8. QED
  BY <1>3, <1>4, <1>5, <1>6, <1>7 DEF Ioctl

LEMMA InitCredit == Init => CreditInv
<1>1. ASSUME Init
      PROVE  CreditInv
  <2>1. Len(<< >>) = 0
    BY EmptySeq, LenProperties
  <2>2. Waiting = {} /\ vififo = << >> /\ hw = "off" /\ seen = 0 /\ queued = 0
    BY <1>1 DEF Init, ParserInit, AdapterInit, Waiting
  <2>3. NumWaiting = 0
    BY <2>2, FS_EmptySet DEF NumWaiting
  <2>4. QED
    BY <2>1, <2>2, <2>3 DEF CreditInv, InFlight, One, Pending
<1>2. QED
  BY <1>1

LEMMA SameCredit ==
  ASSUME CreditInv, UNCHANGED vars
  PROVE  CreditInv'
BY DEF vars, m2mVars, parserVars, feedVars, recordVars, sessionVars, adapterVars, codecVars, frameVars,
       CreditInv, InFlight, Due, NumWaiting, NumHidden, Waiting, Hidden, One, Pending

\* The sums hold in every reachable state: the parser's counter covers every packet
\* in the ring and every frame that waits, and the CAPTURE buffers cover what is due
\* (esparser_queue, codec_vp9_num_pending_bufs, codec_vp9_rm_noshow_frame).
THEOREM Accounted == Spec => []CreditInv
<1>1. IInv /\ IInv' /\ CreditInv /\ [Next]_vars => CreditInv'
  BY FeedCredit, IsrCredit, CallCredit, IoctlCredit, SameCredit DEF Next
<1>2. QED
  BY <1>1, InitCredit, Invariant, PTL DEF Spec

\* The interrupt thread finds the ready queue empty only after a packet was accepted
\* that esparser_queue could not refuse, or after DECODER_CMD took a buffer: for every
\* stream, ring and number of buffers, and every reserve of at least one
\* (esparser_queue, codec_vp9_num_pending_bufs, codec_vp9_get_new_frame).
THEOREM NeverStarved == Spec => Throttled
<1>1. ASSUME IInv, CreditInv, Next, lacking # "none", lacking' = "none"
      PROVE  overdrawn
  <2>1. NoFrame /\ ~Ready("dst")
    <3>1. lacking' # lacking /\ lacking' = "none"
      BY <1>1
    <3>2. ~Feed /\ ~(Ioctl /\ UNCHANGED codecVars)
      BY <3>1 DEF Feed, codecVars
    <3>3. Call => FALSE
      BY <3>1 DEF Call, StreamOn, DrainFrame, AbortDrained, Vp9Stop, FreshCodec, QueueDrained, codecVars
    <3>4. NoFrame
      BY <1>1, <3>1, <3>2, <3>3 DEF Next, Isr, PostHeader, HandleHeader, SourceChange, StartFrame,
                                    ShowFrame, ShowEnds
    <3>5. QED
      BY <3>1, <3>4 DEF NoFrame
  <2>2. Pending /\ hw # "off" /\ codec \in {"frame", "resume"} /\ lacking = "no"
    BY <1>1, <2>1 DEF NoFrame, Pending, IInv, SessionInv
  <2>3. stream["dst"] # "off"
    BY <1>1, <2>2 DEF IInv, StreamsInv
  <2>4. Len(rdy["dst"]) = 0
    BY <2>1, EmptySeq, LenProperties DEF Ready
  <2>5. /\ Len(vififo) \in Nat /\ InFlight \in Nat /\ One(work = "write") \in {0, 1}
        /\ NumHidden \in {0, 1}
    BY <1>1, CreditTypes
  <2>9. Due \in Nat /\ (~overdrawn /\ Due > 0 => NumHidden >= Due + 1)
    <3>1. Due \in Nat
      BY <2>5 DEF Due
    <3>2. ~overdrawn /\ Due > 0 => Len(rdy["dst"]) + NumHidden >= Due + 1
      BY <1>1, <2>2, <2>3 DEF CreditInv
    <3>3. QED
      BY <2>4, <2>5, <3>1, <3>2
  <2>6. CASE header.show
    <3>1. Due >= 1
      BY <2>2, <2>5, <2>6 DEF Due, InFlight, One
    <3>2. QED
      BY <2>5, <2>9, <3>1
  <2>7. CASE ~header.show
    <3>1. codec = "frame" /\ mid
      BY <1>1, <2>2, <2>7 DEF IInv, SessionInv, HeaderInv
    <3>2. Hidden = {}
      BY <1>1, <2>7, <3>1 DEF IInv, FrameInv
    <3>3. NumHidden = 0
      BY <3>2, FS_EmptySet DEF NumHidden
    <3>4. Len(vififo) >= 1
      <4>1. vififo # << >>
        BY <1>1, <2>2, <3>1 DEF IInv, OrderInv
      <4>2. QED
        BY <1>1, <2>5, <4>1, EmptySeq DEF IInv, TypeInv
    <3>5. Due >= 1
      BY <2>2, <2>5, <2>7, <3>4 DEF Due, InFlight, One
    <3>6. QED
      BY <2>5, <2>9, <3>3, <3>5
  <2>8. QED
    BY <1>1, <2>2, <2>6, <2>7 DEF IInv, HeaderInv
<1>2. IInv /\ CreditInv /\ [Next]_vars => [lacking # "none" /\ lacking' = "none" => overdrawn]_vars
  BY <1>1
<1>3. QED
  BY <1>2, Invariant, Accounted, PTL DEF Spec, Throttled

-----------------------------------------------------------------------------
(* The references.  While the hardware decodes, each slot of the map the next *)
(* frame will use names a frame of the list, and it is the one the stream     *)
(* means; the slots of the hidden frame that is to be removed are excepted    *)
(* once its successor has been posted.                                        *)

Decoding == curFrame # 0 /\ codec # "locked" /\ stop = "none"

Named(b, id) == \E f \in frames : f.id = id /\ f.buf = b

MapInv ==
  /\ refMap \in [RefSlot -> DstBuf \cup {NoBuf}] /\ nextMap \in [RefSlot -> DstBuf \cup {NoBuf}]
  /\ Pending => \A s \in RefSlot :
                  truth[s] = IF s \in header.refresh THEN header.id ELSE header.meant[s]

\* the current frame, which is not the hidden frame the posted header replaces
CurInv == Decoding =>
  \E f \in Undone : /\ f.id = curFrame
                    /\ hw = "run" => f.show = ~mid
                    /\ hw = "posted" /\ ~header.show => f.show \/ codec = "frame"

\* show_frame keeps what next_ref_frame_map names
NextInv == Decoding => \A s \in RefSlot : nextMap[s] \in Range(refMap) \/ Named(nextMap[s], curFrame)

SlotInv == Decoding =>
  /\ hw = "run" => \A s \in RefSlot : Named(nextMap[s], truth[s])
  /\ hw = "posted" /\ codec # "frame" =>
       /\ \A s \in RefSlot : Named(nextMap[s], header.meant[s])
       /\ ~header.show => \A f \in Hidden : \A s \in RefSlot :
            header.meant[s] = f.id => s \in header.refresh \ header.refs
  /\ codec = "frame" =>
       \A s \in header.refs \cup (RefSlot \ header.refresh) : Named(refMap[s], header.meant[s])

FoundInv == Decoding =>
  \A r \in frameRefs : r.found = r.meant /\ \E f \in frames : f.id = r.found /\ f.buf \in Range(refMap)

RefInv == MapInv /\ CurInv /\ NextInv /\ SlotInv /\ FoundInv

\* The steps after which the hardware decodes, or goes on decoding.
LEMMA DecodingEffects ==
  ASSUME IInv, Next, Decoding'
  PROVE  \/ Decoding /\ UNCHANGED <<codecVars, hw, codec>>
         \/ Decoding /\ (PostHeader \/ HandleHeader \/ ShowFrame \/ ShowEnds)
         \/ StartFrame
<1> USE DEF Decoding, codecVars, frameVars, adapterVars
<1>1. CASE Feed
  BY <1>1 DEF Feed
<1>2. CASE Isr
  <2>1. ~SourceChange /\ ~NoFrame
    BY DEF SourceChange, NoFrame
  <2>2. CASE PostHeader
    BY <2>2 DEF PostHeader
  <2>3. CASE HandleHeader
    BY <2>3 DEF HandleHeader
  <2>4. CASE ShowFrame
    BY <2>4 DEF ShowFrame
  <2>5. CASE ShowEnds
    BY <2>5 DEF ShowEnds
  <2>6. QED
    BY <1>2, <2>1, <2>2, <2>3, <2>4, <2>5 DEF Isr
<1>3. CASE Call
  <2>1. CASE \E b \in Buf : UserQBuf(b) /\ UNCHANGED codecVars
    BY <2>1 DEF UserQBuf
  <2>2. ASSUME NEW q \in Queue, NEW b \in BufOf(q), StreamOn(q, b)
        PROVE  Decoding /\ UNCHANGED <<codecVars, hw, codec>>
    <3>1. UNCHANGED codecVars /\ stop' = stop
      BY <2>2 DEF StreamOn, StreamOnBuffer
    <3>2. curFrame # 0
      BY <3>1
    <3>3. hw \notin {"off", "held"}
      BY <3>2 DEF IInv, SizedInv
    <3>4. status \notin {"stopped", "needs_resume"}
      BY <3>3 DEF IInv, SessionInv
    <3>5. QED
      BY <2>2, <3>1, <3>4 DEF StreamOn, StreamOnOutcome
  <2>3. CASE DrainFrame
    BY <2>3 DEF DrainFrame, Draining
  <2>4. CASE AbortDrained \/ QueueDrained
    BY <2>4 DEF AbortDrained, QueueDrained, AbortDone, DrainDone
  <2>5. CASE Vp9Stop
    BY <2>5 DEF Vp9Stop, FreshCodec
  <2>6. QED
    BY <1>3, <2>1, <2>2, <2>3, <2>4, <2>5 DEF Call
<1>4. CASE Ioctl /\ UNCHANGED codecVars
  <2>1. UNCHANGED <<hw, codec>>
    BY <1>4 DEF Ioctl, StreamOff, DecoderCmd, DeviceRun, Reconfigure, StopStreaming, Release
  <2>2. CASE \E q \in Queue : StreamOff(q) \/ StopStreaming(q)
    BY <2>2 DEF StreamOff, StopStreaming
  <2>3. CASE \E q \in Queue : Release(q)
    <3>1. stop = "release"
      BY <2>3 DEF Release
    <3>2. hw \in {"off", "held"}
      BY <3>1 DEF IInv, SessionInv
    <3>3. curFrame = 0
      BY <3>2 DEF IInv, SizedInv
    <3>4. QED
      BY <1>4, <3>3
  <2>4. CASE DecoderCmd \/ DeviceRun \/ Reconfigure
    <3>1. stop' = stop
      BY <2>4 DEF DecoderCmd, DeviceRun, Reconfigure
    <3>2. QED
      BY <1>4, <2>1, <3>1
  <2>5. QED
    BY <1>4, <2>2, <2>3, <2>4 DEF Ioctl
<1>5. QED
  BY <1>1, <1>2, <1>3, <1>4 DEF Next

LEMMA MapStep ==
  ASSUME IInv, Next, MapInv
  PROVE  MapInv'
<1> USE DEF frameVars, codecVars, adapterVars
<1>1. CASE UNCHANGED <<refMap, nextMap, header, truth>> /\ (Pending' => Pending)
  BY <1>1 DEF MapInv
<1>2. CASE Feed \/ (Ioctl /\ UNCHANGED codecVars)
  <2>1. UNCHANGED <<codecVars, hw>>
    BY <1>2 DEF Feed, Ioctl, StreamOff, DecoderCmd, DeviceRun, Reconfigure, StopStreaming, Release
  <2>2. QED
    BY <1>1, <2>1 DEF Pending
<1>3. CASE Isr
  <2>1. CASE PostHeader
    <3>1. UNCHANGED <<refMap, nextMap>>
      BY <2>1 DEF PostHeader
    <3>2. QED
      BY <2>1, <3>1, PostedFacts DEF MapInv
  <2>2. CASE HandleHeader \/ SourceChange
    <3>1. refMap' = UpdatedMap /\ UNCHANGED <<nextMap, header, truth>> /\ Pending
      BY <2>2 DEF HandleHeader, SourceChange, Pending
    <3>2. QED
      BY <3>1 DEF MapInv, UpdatedMap
  <2>3. CASE StartFrame
    <3>1. PICK b \in DstBuf : nextMap' = Refreshed(b)
      BY <2>3, UsableFacts DEF StartFrame, IInv
    <3>2. UNCHANGED <<refMap, header, truth>> /\ Pending
      BY <2>3 DEF StartFrame, IInv, SessionInv, Pending
    <3>3. Refreshed(b) \in [RefSlot -> DstBuf \cup {NoBuf}]
      BY DEF Refreshed, MapInv
    <3>4. QED
      BY <3>1, <3>2, <3>3 DEF MapInv
  <2>4. CASE NoFrame
    BY <2>4, <1>1 DEF NoFrame, Pending, IInv, SessionInv
  <2>5. CASE ShowFrame \/ ShowEnds
    BY <2>5, <1>1 DEF ShowFrame, ShowEnds, Pending
  <2>6. QED
    BY <1>3, <2>1, <2>2, <2>3, <2>4, <2>5 DEF Isr
<1>4. CASE Call
  <2>1. CASE \E b \in Buf : UserQBuf(b) /\ UNCHANGED codecVars
    BY <1>1, <2>1 DEF UserQBuf, Pending
  <2>2. ASSUME NEW q \in Queue, NEW b \in BufOf(q), StreamOn(q, b)
        PROVE  MapInv'
    <3>1. UNCHANGED codecVars /\ (Pending' => Pending)
      BY <2>2 DEF StreamOn, StartSession, Pending
    <3>2. QED
      BY <1>1, <3>1
  <2>3. CASE DrainFrame \/ AbortDrained \/ QueueDrained
    <3>1. UNCHANGED <<refMap, nextMap, header, truth, hw>>
      BY <2>3 DEF DrainFrame, AbortDrained, QueueDrained, AbortDone, DrainDone
    <3>2. QED
      BY <1>1, <3>1 DEF Pending
  <2>4. CASE Vp9Stop
    BY <2>4 DEF Vp9Stop, FreshCodec, PowerOff, Pending, MapInv
  <2>5. QED
    BY <1>4, <2>1, <2>2, <2>3, <2>4 DEF Call
<1>5. QED
  BY <1>2, <1>3, <1>4 DEF Next

\* Steps that leave the codec's state.
LEMMA RefStay ==
  ASSUME RefInv, Decoding, UNCHANGED <<codecVars, hw, codec>>
  PROVE  CurInv' /\ NextInv' /\ SlotInv' /\ FoundInv'
<1> USE DEF RefInv, codecVars, frameVars
<1>1. UNCHANGED <<frames, refMap, nextMap, frameRefs, curFrame, header, mid, truth, hw, codec>>
  OBVIOUS
<1>2. CurInv'
  BY <1>1 DEF CurInv, Undone
<1>3. NextInv'
  BY <1>1 DEF NextInv, Named
<1>4. SlotInv'
  BY <1>1 DEF SlotInv, Named, Hidden
<1>5. FoundInv'
  BY <1>1 DEF FoundInv
<1>6. QED
  BY <1>2, <1>3, <1>4, <1>5

\* The header names what the map of the last frame holds.
LEMMA RefPost ==
  ASSUME IInv, RefInv, Decoding, PostHeader
  PROVE  CurInv' /\ NextInv' /\ SlotInv' /\ FoundInv'
<1> USE DEF RefInv
<1>1. /\ UNCHANGED <<frames, refMap, nextMap, frameRefs, curFrame, codec>>
      /\ hw = "run" /\ hw' = "posted" /\ codec \notin {"frame"}
  BY DEF PostHeader, frameVars, IInv, SessionInv
<1>2. header'.meant = truth /\ Conforming(header')
  BY PostedFacts
<1>3. CurInv'
  <2>1. PICK f \in Undone : f.id = curFrame /\ f.show = ~mid
    BY <1>1 DEF CurInv
  <2>2. ~header'.show => ~mid
    BY <1>2 DEF Conforming
  <2>3. f \in Undone'
    BY <1>1 DEF Undone
  <2>4. QED
    BY <1>1, <2>1, <2>2, <2>3 DEF CurInv
<1>4. NextInv'
  BY <1>1 DEF NextInv, Named
<1>5. SlotInv'
  <2>1. \A s \in RefSlot : Named(nextMap[s], header.meant[s])'
    BY <1>1, <1>2 DEF SlotInv, Named
  <2>2. ASSUME ~header'.show, NEW f \in Hidden, NEW s \in RefSlot, header'.meant[s] = f.id
        PROVE  s \in header'.refresh \ header'.refs
    <3>1. s \in HiddenSlots
      BY <1>2, <2>2 DEF HiddenSlots
    <3>2. ~header'.key /\ HiddenSlots \subseteq header'.refresh
          /\ header'.refs = RefSlot \ HiddenSlots
      BY <1>2, <2>2 DEF Conforming
    <3>3. QED
      BY <3>1, <3>2
  <2>3. Hidden' = Hidden
    BY <1>1 DEF Hidden
  <2>4. QED
    BY <1>1, <2>1, <2>2, <2>3 DEF SlotInv
<1>6. FoundInv'
  BY <1>1 DEF FoundInv
<1>7. QED
  BY <1>3, <1>4, <1>5, <1>6

\* The map of the last frame becomes current; the hidden frame that goes is neither
\* the current frame nor one the header refers to or leaves in a slot.
LEMMA RefHandle ==
  ASSUME IInv, RefInv, Decoding, HandleHeader
  PROVE  CurInv' /\ NextInv' /\ SlotInv' /\ FoundInv'
<1> USE DEF RefInv
<1>1. /\ hw = "posted" /\ codec # "frame" /\ codec' = "frame" /\ refMap' = nextMap /\ frameRefs' = {}
      /\ UNCHANGED <<nextMap, curFrame, header, mid, hw>>
  BY DEF HandleHeader, UpdatedMap, Decoding
<1>2. FramesOK(frames) /\ nextMap \in [RefSlot -> DstBuf \cup {NoBuf}] /\ header.show \in BOOLEAN
      /\ header.refs \subseteq RefSlot
  BY <1>1 DEF IInv, FrameInv, MapInv, HeaderInv, Pending
<1>3. \/ frames' = frames
      \/ ~header.show /\ Hidden # {} /\ frames' = frames \ {FirstOf(Hidden)}
  BY DEF HandleHeader, RemoveHidden
<1>4. CurInv'
  <2>1. PICK f \in Undone : f.id = curFrame /\ (~header.show => f.show)
    BY <1>1 DEF CurInv
  <2>2. f \in Undone'
    <3>1. Hidden # {} => ~FirstOf(Hidden).show
      BY <1>2, RemoveHiddenFacts DEF Hidden
    <3>2. QED
      BY <1>3, <2>1, <3>1 DEF Undone
  <2>3. QED
    BY <1>1, <2>1, <2>2 DEF CurInv
<1>5. NextInv'
  <2>1. \A s \in RefSlot : nextMap[s] \in Range(nextMap)
    BY <1>2 DEF Range
  <2>2. QED
    BY <1>1, <2>1 DEF NextInv
<1>6. SlotInv'
  <2>1. ASSUME NEW s \in header.refs \cup (RefSlot \ header.refresh)
        PROVE  Named(nextMap[s], header.meant[s])'
    <3>1. s \in RefSlot
      BY <1>2
    <3>2. PICK f \in frames : f.id = header.meant[s] /\ f.buf = nextMap[s]
      BY <1>1, <3>1 DEF SlotInv, Named
    <3>3. CASE frames' = frames
      BY <1>1, <3>2, <3>3 DEF Named
    <3>4. CASE ~header.show /\ Hidden # {} /\ frames' = frames \ {FirstOf(Hidden)}
      <4>1. FirstOf(Hidden) \in Hidden
        BY <1>2, <3>4, RemoveHiddenFacts
      <4>2. f # FirstOf(Hidden)
        BY <1>1, <2>1, <3>1, <3>2, <3>4, <4>1 DEF SlotInv
      <4>3. QED
        BY <1>1, <3>2, <3>4, <4>2 DEF Named
    <3>5. QED
      BY <1>3, <3>3, <3>4
  <2>2. QED
    BY <1>1, <2>1 DEF SlotInv, Named
<1>7. FoundInv'
  BY <1>1 DEF FoundInv
<1>8. QED
  BY <1>4, <1>5, <1>6, <1>7

\* A frame that is shown keeps its place in the list.
LEMMA RefShow ==
  ASSUME IInv, RefInv, Decoding, ShowFrame
  PROVE  CurInv' /\ NextInv' /\ SlotInv' /\ FoundInv'
<1> USE DEF RefInv
<1> DEFINE f == FirstOf(ToShow)
           g == [f EXCEPT !.done = TRUE]
<1>1. /\ UNCHANGED <<refMap, nextMap, frameRefs, curFrame, header, mid, truth, hw, codec>>
      /\ codec = "show" /\ frames' = (frames \ {f}) \cup {g}
  BY DEF ShowFrame, adapterVars
<1>2. FramesOK(frames) /\ f \in frames /\ f.show /\ ~f.done /\ f.id # curFrame
  <2>1. FramesOK(frames) /\ ToShow # {} /\ ToShow \subseteq frames
    BY DEF IInv, FrameInv, ShowFrame, ToShow, Waiting
  <2>2. f \in ToShow
    BY <2>1, FirstFacts
  <2>3. QED
    BY <2>1, <2>2 DEF ToShow, Waiting
<1> HIDE DEF f
<1>3. g.id = f.id /\ g.buf = f.buf /\ g.show = f.show /\ g.done
  BY <1>2, DoneFacts
<1> HIDE DEF g
<1>4. \A h \in frames : \E k \in frames' : k.id = h.id /\ k.buf = h.buf
  BY <1>1, <1>3
<1>5. ASSUME NEW b, NEW id, Named(b, id)
      PROVE  Named(b, id)'
  BY <1>4, <1>5 DEF Named
<1>6. Hidden' = Hidden
  BY <1>1, <1>2, <1>3 DEF Hidden
<1>7. CurInv'
  <2>1. \A h \in Undone : h.id = curFrame => h \in Undone'
    BY <1>1, <1>2 DEF Undone
  <2>2. QED
    BY <1>1, <2>1 DEF CurInv
<1>8. NextInv'
  BY <1>1, <1>5 DEF NextInv
<1>9. SlotInv'
  <2>1. hw = "run" => \A s \in RefSlot : Named(nextMap[s], truth[s])'
    BY <1>1, <1>5 DEF SlotInv
  <2>2. hw = "posted" => \A s \in RefSlot : Named(nextMap[s], header.meant[s])'
    BY <1>1, <1>5 DEF SlotInv
  <2>3. QED
    BY <1>1, <1>6, <2>1, <2>2 DEF SlotInv, Named
<1>10. FoundInv'
  <2>1. ASSUME NEW r \in frameRefs
        PROVE  r.found = r.meant /\ \E k \in frames' : k.id = r.found /\ k.buf \in Range(refMap)
    BY <1>4 DEF FoundInv
  <2>2. QED
    BY <1>1, <2>1 DEF FoundInv
<1>11. QED
  BY <1>7, <1>8, <1>9, <1>10

\* The frames show_frame takes from the list are neither current nor named.
LEMMA RefShowEnds ==
  ASSUME IInv, RefInv, Decoding, ShowEnds
  PROVE  CurInv' /\ NextInv' /\ SlotInv' /\ FoundInv'
<1> USE DEF RefInv
<1>1. /\ UNCHANGED <<refMap, nextMap, frameRefs, curFrame, header, mid, truth, hw>>
      /\ codec = "show" /\ codec' = "idle" /\ frames' = {f \in frames : Kept(f)}
  BY DEF ShowEnds
<1>2. FramesOK(frames)
  BY DEF IInv, FrameInv
<1>3. \A h \in frames : h.id = curFrame \/ h.buf \in Range(refMap) \/ ~h.show => h \in frames'
  BY <1>1 DEF Kept
<1>4. ASSUME NEW s \in RefSlot, NEW id, Named(nextMap[s], id)
      PROVE  Named(nextMap[s], id)'
  <2>1. PICK h \in frames : h.id = id /\ h.buf = nextMap[s]
    BY <1>4 DEF Named
  <2>2. h.buf \in Range(refMap) \/ \E c \in frames : c.id = curFrame /\ c.buf = h.buf
    BY <2>1 DEF NextInv, Named
  <2>3. h.buf \in Range(refMap) \/ h.id = curFrame
    BY <1>2, <2>2 DEF FramesOK
  <2>4. h \in frames'
    BY <1>3, <2>3
  <2>5. QED
    BY <1>1, <2>1, <2>4 DEF Named
<1>5. Hidden' = Hidden
  BY <1>1, <1>3 DEF Hidden
<1>6. CurInv'
  <2>1. \A h \in Undone : h.id = curFrame => h \in Undone'
    BY <1>1, <1>3 DEF Undone
  <2>2. QED
    BY <1>1, <2>1 DEF CurInv
<1>7. NextInv'
  BY <1>1, <1>4 DEF NextInv
<1>8. SlotInv'
  <2>1. hw = "run" => \A s \in RefSlot : Named(nextMap[s], truth[s])'
    BY <1>1, <1>4 DEF SlotInv
  <2>2. hw = "posted" => \A s \in RefSlot : Named(nextMap[s], header.meant[s])'
    BY <1>1, <1>4 DEF SlotInv
  <2>3. QED
    BY <1>1, <1>5, <2>1, <2>2 DEF SlotInv, Named
<1>9. FoundInv'
  BY <1>1, <1>3 DEF FoundInv
<1>10. QED
  BY <1>6, <1>7, <1>8, <1>9

\* The frame that starts: each slot it refers to or leaves alone is found by its
\* buffer, which no other frame of the list has.
LEMMA RefStart ==
  ASSUME IInv, RefInv, StartFrame, Decoding'
  PROVE  CurInv' /\ NextInv' /\ SlotInv' /\ FoundInv'
<1> USE DEF RefInv
<1> DEFINE b == rdy["dst"][Min(Usable)]
           n == NewFrame(b)
<1>1. /\ UNCHANGED <<refMap, header, mid, truth, stop>> /\ frames' = frames \cup {n}
      /\ nextMap' = Refreshed(b) /\ frameRefs' = Found /\ curFrame' = header.id /\ hw' = "run"
      /\ codec' # "frame" /\ codec \in {"frame", "resume"}
  BY DEF StartFrame, After
<1>2. b \in DstBuf /\ WithBuf(b) = {}
  BY UsableFacts DEF StartFrame, IInv
<1>3. FramesOK(frames') /\ n.id = header.id /\ n.buf = b /\ n.show = header.show /\ ~n.done
  BY <1>1, <1>2, NewFacts
<1>4. FramesOK(frames)
  BY DEF IInv, FrameInv
<1> HIDE DEF n, b
<1>5. /\ Pending /\ header.show \in BOOLEAN /\ mid = ~header.show /\ header.refs \subseteq RefSlot
      /\ header.key => header.refresh = RefSlot /\ header.refs = {}
  BY <1>1 DEF IInv, HeaderInv, SessionInv, Pending
<1>6. \A s \in RefSlot : truth[s] = IF s \in header.refresh THEN header.id ELSE header.meant[s]
  BY <1>5 DEF MapInv
<1>7. /\ refMap \in [RefSlot -> DstBuf \cup {NoBuf}]
      /\ \A s \in RefSlot : nextMap'[s] = IF s \in header.refresh THEN b ELSE refMap[s]
      /\ \A s \in RefSlot : refMap[s] \in Range(refMap)
  BY <1>1 DEF MapInv, Refreshed, Range
<1>8. \A s \in header.refs \cup (RefSlot \ header.refresh) :
        \E f \in frames : f.id = header.meant[s] /\ f.buf = refMap[s]
  <2>1. CASE codec = "resume"
    <3>1. header.key
      BY <2>1 DEF IInv, SessionInv
    <3>2. QED
      BY <1>5, <3>1
  <2>2. CASE codec = "frame"
    <3>1. hw = "posted" /\ sized /\ stop = "none"
      BY <1>1, <2>2 DEF Decoding, IInv, SessionInv, SizedInv
    <3>2. Decoding
      BY <2>2, <3>1 DEF Decoding, IInv, SizedInv
    <3>3. QED
      BY <2>2, <3>2 DEF SlotInv, Named
  <2>3. QED
    BY <1>1, <2>1, <2>2
<1>9. CurInv'
  <2>1. n \in Undone'
    BY <1>1, <1>3 DEF Undone
  <2>2. QED
    BY <1>1, <1>3, <1>5, <2>1 DEF CurInv
<1>10. NextInv'
  <2>1. ASSUME NEW s \in RefSlot
        PROVE  nextMap'[s] \in Range(refMap') \/ \E f \in frames' : f.id = curFrame' /\ f.buf = nextMap'[s]
    <3>1. \E f \in frames' : f.id = curFrame' /\ f.buf = b
      BY <1>1, <1>3
    <3>2. nextMap'[s] = b \/ nextMap'[s] = refMap[s]
      BY <1>7
    <3>3. Range(refMap') = Range(refMap)
      BY <1>1
    <3>4. QED
      BY <1>7, <3>1, <3>2, <3>3
  <2>2. QED
    BY <2>1 DEF NextInv, Named
<1>11. SlotInv'
  <2>1. ASSUME NEW s \in RefSlot
        PROVE  \E f \in frames' : f.id = truth[s] /\ f.buf = nextMap'[s]
    <3>1. CASE s \in header.refresh
      BY <1>1, <1>3, <1>6, <1>7, <3>1
    <3>2. CASE s \notin header.refresh
      <4>1. PICK f \in frames : f.id = header.meant[s] /\ f.buf = refMap[s]
        BY <1>8, <3>2
      <4>2. QED
        BY <1>1, <1>6, <1>7, <3>2, <4>1
    <3>3. QED
      BY <3>1, <3>2
  <2>2. QED
    BY <1>1, <2>1 DEF SlotInv, Named
<1>12. FoundInv'
  <2>1. ASSUME NEW s \in header.refs
        PROVE  /\ IdAt(refMap[s]) = header.meant[s]
               /\ \E f \in frames' : f.id = IdAt(refMap[s]) /\ f.buf \in Range(refMap)
    <3>1. PICK f \in frames : f.id = header.meant[s] /\ f.buf = refMap[s]
      BY <1>8
    <3>2. WithBuf(refMap[s]) = {f}
      BY <1>4, <3>1 DEF WithBuf, FramesOK
    <3>3. FirstOf(WithBuf(refMap[s])) = f
      BY <1>4, <3>2, FirstFacts
    <3>4. IdAt(refMap[s]) = f.id
      BY <3>2, <3>3 DEF IdAt
    <3>5. QED
      BY <1>1, <1>5, <1>7, <3>1, <3>4
  <2>2. ASSUME NEW r \in Found
        PROVE  r.found = r.meant /\ \E f \in frames' : f.id = r.found /\ f.buf \in Range(refMap)
    <3>1. PICK s \in header.refs : r = [found |-> IdAt(refMap[s]), meant |-> header.meant[s]]
      BY <2>2 DEF Found
    <3>2. r.found = IdAt(refMap[s]) /\ r.meant = header.meant[s]
      BY <3>1
    <3>3. QED
      BY <2>1, <3>2
  <2>3. QED
    BY <1>1, <2>2 DEF FoundInv
<1>13. QED
  BY <1>9, <1>10, <1>11, <1>12

LEMMA RefStep ==
  ASSUME IInv, RefInv, Next
  PROVE  RefInv'
<1>1. MapInv'
  BY MapStep DEF RefInv
<1>2. CASE Decoding'
  BY <1>1, <1>2, DecodingEffects, RefStay, RefPost, RefHandle, RefShow, RefShowEnds, RefStart DEF RefInv
<1>3. CASE ~Decoding'
  BY <1>1, <1>3 DEF RefInv, CurInv, NextInv, SlotInv, FoundInv
<1>4. QED
  BY <1>2, <1>3

LEMMA InitRef == Init => RefInv
<1>1. Init => MapInv /\ ~Decoding
  BY DEF Init, AdapterInit, MapInv, Decoding, Pending
<1>2. QED
  BY <1>1 DEF RefInv, CurInv, NextInv, SlotInv, FoundInv

LEMMA SameRef ==
  ASSUME RefInv, UNCHANGED vars
  PROVE  RefInv'
<1>1. /\ UNCHANGED <<frames, refMap, nextMap, frameRefs, curFrame, header, mid, truth, hw, codec, stop>>
  BY DEF vars, codecVars, frameVars, adapterVars
<1>2. MapInv'
  BY <1>1 DEF RefInv, MapInv, Pending
<1>3. CurInv' /\ FoundInv'
  BY <1>1 DEF RefInv, CurInv, FoundInv, Undone, Decoding
<1>4. NextInv'
  BY <1>1 DEF RefInv, NextInv, Named, Decoding
<1>5. SlotInv'
  BY <1>1 DEF RefInv, SlotInv, Named, Hidden, Decoding
<1>6. QED
  BY <1>2, <1>3, <1>4, <1>5 DEF RefInv

\* The slots stay in step with the stream.
THEOREM MapsFollow == Spec => []RefInv
<1>1. IInv /\ RefInv /\ [Next]_vars => RefInv'
  BY RefStep, SameRef
<1>2. QED
  BY <1>1, InitRef, Invariant, PTL DEF Spec

\* The hardware decodes into a buffer that nobody else has, from the references the
\* stream means, which are still in the list, whatever userspace queues again: for
\* any number of slots and buffers and every conforming stream (update_ref, sync_ref,
\* update_next_ref, rm_noshow_frame, show_frame, get_new_frame).
THEOREM ReferencesIntact == Spec => []RefsIntact
<1>1. IInv /\ RefInv => RefsIntact
  <2>1. ASSUME IInv, RefInv
        PROVE  RefsIntact
    <3>1. Decoding => (\E f \in Undone : f.id = curFrame)
      BY <2>1 DEF RefInv, CurInv
    <3>2. Decoding => \A r \in frameRefs : r.found = r.meant /\ \E f \in frames : f.id = r.found
      BY <2>1 DEF RefInv, FoundInv
    <3>3. \A f, g \in frames : f.buf = g.buf => f = g
      BY <2>1 DEF IInv, FrameInv, FramesOK
    <3>4. QED
      BY <3>1, <3>2, <3>3 DEF RefsIntact, Decoding
  <2>2. QED
    BY <2>1
<1>2. QED
  BY <1>1, Invariant, MapsFollow, PTL

-----------------------------------------------------------------------------
(* The records.  There is one for each packet that is still written, in the   *)
(* ring or posted, and for each frame that waits, in the order of the packets. *)

WaitingPkts == {f.pkt : f \in Waiting}

\* packets whose frame is not in the list yet
Coming == (IF Pending THEN {header.pkt} ELSE {}) \cup PktsOf(vififo)
          \cup (IF work = "write" THEN {packets} ELSE {})

\* the current frame is the last one
LastInv == curFrame # 0 => \A f \in frames : f.id <= curFrame

\* a session that has been powered off has no records, and gets none before it starts
IdleInv ==
  /\ stop = "poweroff" => shouldStop
  /\ status = "stopped" =>
       /\ timestamps = << >> /\ work \notin {"admit", "write"}
       /\ "src" \in streamon => shouldStop /\ (stop = "none" => stream["dst"] = "off")

RecordInv ==
  /\ RecordsOK(timestamps)
  /\ status # "stopped" =>
       /\ PktsOf(timestamps) = WaitingPkts \cup Coming
       /\ \A f \in Waiting : \A c \in Coming : f.pkt < c
       /\ queued = Len(timestamps) - One(work = "write")

\* What the other invariants say of the packets of waiting frames and of the ring.
LEMMA WaitingFacts ==
  ASSUME IInv
  PROVE  /\ \A f \in Waiting : /\ f \in frames /\ f.show /\ ~f.done
                               /\ f.pkt \in Nat /\ f.id = 2 * f.pkt /\ f.pkt <= Sent
         /\ \A f, g \in Waiting : f.pkt = g.pkt => f = g
         /\ Sent \in Nat /\ packets \in Nat /\ Sent <= packets
         /\ work = "write" => Sent = packets - 1
         /\ work # "write" => Sent = packets
<1>1. packets \in Nat /\ Sent \in Nat
  BY DEF IInv, TypeInv, OrderInv
<1>2. ASSUME NEW f \in Waiting
      PROVE  /\ f \in frames /\ f.show /\ ~f.done
             /\ f.pkt \in Nat /\ f.id = 2 * f.pkt /\ f.pkt <= Sent
  <2>1. f \in frames /\ f.show /\ ~f.done
    BY DEF Waiting
  <2>2. IsFrame(f) /\ f.pkt <= Sent
    BY <2>1 DEF IInv, FrameInv, FramesOK, OrderInv
  <2>3. f.pkt \in Nat /\ f.id = 2 * f.pkt - 0
    BY <2>1, <2>2 DEF IsFrame, One
  <2>4. QED
    BY <2>1, <2>2, <2>3
<1>3. \A f, g \in Waiting : f.pkt = g.pkt => f = g
  BY <1>2 DEF IInv, FrameInv, FramesOK
<1>4. QED
  BY <1>1, <1>2, <1>3 DEF Sent, One

LEMMA RingFacts ==
  ASSUME IInv
  PROVE  /\ RecordsOK(vififo) /\ \A p \in PktsOf(vififo) : p \in 1 .. Sent
         /\ Pending => header.pkt \in 1 .. Sent
         /\ Pending /\ header.show => \A p \in PktsOf(vififo) : header.pkt < p
         /\ Pending /\ ~header.show => header.pkt \in PktsOf(vififo)
         /\ \A c \in Coming : c \in 1 .. packets
<1>1. Sent \in Nat /\ packets \in Nat /\ Sent <= packets
  BY WaitingFacts
<1>2. \A p \in PktsOf(vififo) : p \in 1 .. Sent
  BY DEF PktsOf, IInv, OrderInv
<1>3. RecordsOK(vififo)
  <2>1. \A i \in DOMAIN vififo : vififo[i].pkt \in Nat
    BY <1>1 DEF IInv, OrderInv
  <2>2. QED
    BY <2>1 DEF RecordsOK, IInv, TypeInv, OrderInv
<1>4. Pending => header.pkt \in 1 .. Sent /\ header.show \in BOOLEAN /\ mid = ~header.show
                 /\ header.id = 2 * header.pkt - One(~header.show)
  BY <1>1 DEF IInv, HeaderInv, OrderInv
<1>5. ASSUME Pending, header.show, NEW p \in PktsOf(vififo)
      PROVE  header.pkt < p
  <2>1. header.id < 2 * p - One(~mid)
    BY <1>5 DEF PktsOf, IInv, OrderInv
  <2>2. header.id = 2 * header.pkt /\ One(~mid) = 1 /\ header.pkt \in Nat /\ p \in Nat
    <3>1. header.pkt \in Nat /\ p \in Nat
      BY <1>1, <1>2, <1>4, <1>5
    <3>2. One(~header.show) = 0 /\ One(~mid) = 1
      BY <1>4, <1>5, Zenon DEF One
    <3>3. QED
      BY <1>4, <1>5, <3>1, <3>2
  <2>3. QED
    BY <2>1, <2>2
<1>6. ASSUME Pending, ~header.show
      PROVE  header.pkt \in PktsOf(vififo)
  <2>1. vififo # << >> /\ header.pkt = vififo[1].pkt
    BY <1>4, <1>6 DEF IInv, OrderInv
  <2>2. 1 \in DOMAIN vififo
    <3>1. Len(vififo) \in Nat /\ DOMAIN vififo = 1 .. Len(vififo) /\ Len(vififo) # 0
      BY <2>1, LenProperties, EmptySeq DEF IInv, TypeInv
    <3>2. QED
      BY <3>1
  <2>3. QED
    BY <2>1, <2>2 DEF PktsOf
<1>7. \A c \in Coming : c \in 1 .. packets
  <2>1. work = "write" => packets \in 1 .. packets
    BY <1>1, WaitingFacts
  <2>2. QED
    BY <1>1, <1>2, <1>4, <2>1 DEF Coming
<1>8. QED
  BY <1>2, <1>3, <1>4, <1>5, <1>6, <1>7

LEMMA LastStep ==
  ASSUME IInv, LastInv, Next
  PROVE  LastInv'
<1> USE DEF LastInv
<1>1. CASE frames' \subseteq frames /\ curFrame' \in {curFrame, 0}
  BY <1>1
<1>2. CASE StartFrame
  <2>1. curFrame' = header.id /\ frames' = frames \cup {NewFrame(rdy["dst"][Min(Usable)])} /\ Pending
    BY <1>2 DEF StartFrame, IInv, SessionInv, Pending
  <2>2. NewFrame(rdy["dst"][Min(Usable)]).id = header.id
    BY DEF NewFrame
  <2>3. \A f \in frames : f.id < header.id /\ f.id \in Nat
    BY <2>1 DEF IInv, OrderInv, FrameInv, FramesOK, IsFrame, One
  <2>4. header.id \in Int
    BY <2>1 DEF IInv, HeaderInv, One
  <2>5. QED
    BY <2>1, <2>2, <2>3, <2>4
<1>3. CASE ShowFrame
  <2> DEFINE f == FirstOf(ToShow)
  <2>1. f \in frames /\ f.show /\ ~f.done
    <3>1. f \in ToShow
      BY <1>3, FirstFacts DEF IInv, FrameInv, ShowFrame, ToShow, Waiting
    <3>2. QED
      BY <3>1 DEF ToShow, Waiting
  <2>2. curFrame' = curFrame /\ frames' = (frames \ {f}) \cup {[f EXCEPT !.done = TRUE]}
    BY <1>3 DEF ShowFrame
  <2> HIDE DEF f
  <2>3. [f EXCEPT !.done = TRUE].id = f.id
    BY <2>1, DoneFacts DEF IInv, FrameInv
  <2>4. QED
    BY <2>1, <2>2, <2>3
<1>4. CASE ~StartFrame /\ ~ShowFrame
  <2> USE DEF codecVars, frameVars
  <2>1. CASE Feed \/ (Ioctl /\ UNCHANGED codecVars)
    BY <1>1, <2>1 DEF Feed
  <2>2. CASE Isr
    BY <1>1, <1>4, <2>2 DEF Isr, PostHeader, HandleHeader, RemoveHidden, SourceChange, NoFrame, ShowEnds
  <2>3. CASE Call
    BY <1>1, <2>3 DEF Call, StreamOn, DrainFrame, AbortDrained, QueueDrained, Vp9Stop, FreshCodec
  <2>4. QED
    BY <2>1, <2>2, <2>3 DEF Next
<1>5. QED
  BY <1>2, <1>3, <1>4

LEMMA IdleStep ==
  ASSUME IInv, IdleInv, Next
  PROVE  IdleInv'
<1> USE DEF IdleInv, adapterVars, parserVars, recordVars, sessionVars, feedVars, codecVars
<1>0. /\ streamon = {q \in Queue : stream[q] \in {"on", "cancel"}}
      /\ stream \in [Queue -> {"idle", "on", "cancel", "off"}]
      /\ stop = "none" <=> LockFree
      /\ \A q \in Queue : stream[q] \in {"idle", "off"} => rdy[q] = << >>
      /\ work \notin {"idle", "oops"} => LockFree
      /\ hw = "off" <=> status = "stopped"
  BY DEF IInv, StreamsInv, LockInv, TypeInv, M2mTypeOK, SessionInv
<1>1. CASE UNCHANGED <<stop, shouldStop, timestamps, work, streamon, stream>>
           /\ (status' = "stopped" => status = "stopped")
  BY <1>1
<1>2. CASE Feed
  <2>1. UNCHANGED <<stop, shouldStop, streamon, stream, status>>
    BY <1>2 DEF Feed, ReadPending, WorkBegins, WorkStart, WorkEnds, Submit, RecordFailed,
              Written, WriteFailed, m2mVars
  <2>2. status = "stopped" => ~ReadPending(framesNum)
    <3>1. ASSUME status = "stopped", Ready("src")
          PROVE  shouldStop
      <4>1. "src" \in streamon
        BY <1>0, <3>1 DEF Ready, Queue
      <4>2. QED
        BY <3>1, <4>1
    <3>2. QED
      BY <3>1 DEF ReadPending
  <2>3. status = "stopped" => UNCHANGED timestamps /\ work' \notin {"admit", "write"}
    <3>1. WorkBegins \/ WorkEnds => UNCHANGED timestamps /\ work' \notin {"admit", "write"}
      BY DEF WorkBegins, WorkStart, WorkEnds
    <3>2. Submit(framesNum + Reserve - 1) \/ RecordFailed \/ Written \/ WriteFailed
            => work \in {"admit", "write"}
      BY DEF Submit, Written, RecordFailed, WriteFailed
    <3>3. QED
      BY <1>2, <2>2, <3>1, <3>2 DEF Feed
  <2>4. QED
    BY <2>1, <2>3
<1>3. CASE Isr
  <2>1. UNCHANGED <<stop, shouldStop, work, streamon, stream>>
    BY <1>3 DEF Isr, PostHeader, HandleHeader, SourceChange, StartFrame, NoFrame, ShowFrame, ShowEnds, m2mVars
  <2>2. status # "stopped" /\ status' # "stopped"
    <3>1. hw # "off" /\ hw' # "off"
      BY <1>3 DEF Isr, PostHeader, HandleHeader, SourceChange, StartFrame, NoFrame, ShowFrame, ShowEnds,
                  IInv, SessionInv
    <3>2. status' = status \/ status' \in {"running", "needs_resume"}
      BY <1>3 DEF Isr, PostHeader, HandleHeader, SourceChange, StartFrame, NoFrame, ShowFrame, ShowEnds, After
    <3>3. QED
      BY <1>0, <3>1, <3>2
  <2>3. QED
    BY <2>1, <2>2
<1>4. CASE Call
  <2>1. CASE \E b \in Buf : UserQBuf(b) /\ UNCHANGED codecVars
    BY <1>1, <2>1 DEF UserQBuf, QBuf
  <2>2. ASSUME NEW q \in Queue, NEW b \in BufOf(q), StreamOn(q, b)
        PROVE  IdleInv'
    <3>1. /\ stop' = stop /\ LockFree /\ work = "idle" /\ work' = "idle" /\ UNCHANGED timestamps
          /\ streamon' = streamon \cup {q} /\ stream[q] = "idle"
      BY <2>2 DEF StreamOn, StreamOnBuffer, NoIoctl, Unlocked, StartSession, KeepSession
    <3>2. CASE status = "stopped" /\ "src" \in streamon \cup {q}
      <4>1. StreamOnOutcome(q) = "starts"
        BY <3>2 DEF StreamOnOutcome
      <4>2. status' = "init"
        BY <2>2, <4>1 DEF StreamOn, StartSession
      <4>3. QED
        BY <1>0, <3>1, <4>2
    <3>3. CASE status = "stopped" /\ "src" \notin streamon \cup {q}
      BY <1>0, <3>1, <3>3
    <3>4. CASE status # "stopped"
      BY <1>0, <2>2, <3>1, <3>4 DEF StreamOn, StartSession, KeepSession
    <3>5. QED
      BY <3>2, <3>3, <3>4
  <2>3. CASE DrainFrame
    <3>1. hw # "off"
      BY <2>3 DEF DrainFrame, IInv, SizedInv
    <3>2. QED
      BY <1>0, <2>3, <3>1 DEF DrainFrame
  <2>4. CASE AbortDrained \/ QueueDrained
    BY <1>0, <2>4 DEF AbortDrained, AbortDone, QueueDrained, DrainDone, m2mVars, Drained, Draining
  <2>5. CASE Vp9Stop
    BY <1>0, <2>5 DEF Vp9Stop, PowerOff, m2mVars
  <2>6. QED
    BY <1>4, <2>1, <2>2, <2>3, <2>4, <2>5 DEF Call
<1>5. CASE Ioctl /\ UNCHANGED codecVars
  <2>1. ASSUME NEW q \in Queue, StreamOff(q)
        PROVE  IdleInv'
    <3>1. /\ UNCHANGED <<timestamps, work, streamon, status>> /\ stop' \in {"abort", "stop"}
          /\ shouldStop => shouldStop'
      BY <2>1 DEF StreamOff
    <3>2. QED
      BY <3>1
  <2>2. CASE DecoderCmd
    BY <1>1, <2>2 DEF DecoderCmd, CmdStop, CmdStart
  <2>3. CASE DeviceRun
    <3>1. /\ UNCHANGED <<stop, timestamps, work, streamon, status, stream>>
          /\ stream["src"] = "on" /\ stream["dst"] = "on"
      BY <2>3 DEF DeviceRun, JobReady
    <3>2. stop = "none" /\ "src" \in streamon
      BY <1>0, <3>1 DEF LockFree, Queue
    <3>3. QED
      BY <3>1, <3>2
  <2>4. CASE Reconfigure
    BY <1>0, <2>4 DEF Reconfigure
  <2>5. ASSUME NEW q \in Queue, StopStreaming(q)
        PROVE  IdleInv'
    BY <2>5 DEF StopStreaming, PowersOff, m2mVars
  <2>6. ASSUME NEW q \in Queue, Release(q)
        PROVE  IdleInv'
    <3>1. /\ UNCHANGED <<timestamps, work, shouldStop, status>> /\ stop' = "none" /\ stop = "release"
          /\ streamon' = streamon \ {q} /\ stream' = [stream EXCEPT ![q] = "off"]
      BY <2>6 DEF Release
    <3>2. "src" \in streamon' => stream'["dst"] = "off"
      BY <1>0, <3>1 DEF Queue
    <3>3. QED
      BY <3>1, <3>2
  <2>7. QED
    BY <1>5, <2>1, <2>2, <2>3, <2>4, <2>5, <2>6 DEF Ioctl
<1>6. QED
  BY <1>2, <1>3, <1>4, <1>5 DEF Next

-----------------------------------------------------------------------------
\* Steps that leave the records, and what they are of.
LEMMA RecordSame ==
  ASSUME RecordInv, UNCHANGED <<timestamps, queued>>, Waiting' = Waiting, Coming' = Coming,
         work' = "write" <=> work = "write", status' # "stopped" => status # "stopped"
  PROVE  RecordInv'
<1>1. WaitingPkts' = WaitingPkts
  BY DEF WaitingPkts
<1>2. One(work = "write")' = One(work = "write")
  BY DEF One
<1>3. QED
  BY <1>1, <1>2 DEF RecordInv

\* A packet's record goes when its frame does, before all that wait.
LEMMA RecordTake ==
  ASSUME IInv, RecordInv, status # "stopped", NEW f \in Waiting, \A g \in Waiting : f.id <= g.id,
         TakeFirst, Waiting' = Waiting \ {f}, Coming' = Coming, work' = work
  PROVE  RecordInv' /\ timestamps # << >>
<1>1. \A g \in Waiting : g.pkt \in Nat /\ g.id = 2 * g.pkt /\ (f.pkt = g.pkt => f = g)
  BY WaitingFacts
<1>2. \A c \in Coming : f.pkt < c /\ c \in Nat
  BY RingFacts DEF RecordInv, IInv, TypeInv
<1>3. f.pkt \in PktsOf(timestamps) /\ \A p \in PktsOf(timestamps) : f.pkt <= p
  <2>1. \A g \in Waiting : f.pkt <= g.pkt
    BY <1>1
  <2>2. PktsOf(timestamps) = WaitingPkts \cup Coming
    BY DEF RecordInv
  <2>3. \A c \in Coming : f.pkt <= c
    BY <1>1, <1>2
  <2>4. QED
    BY <2>1, <2>2, <2>3 DEF WaitingPkts
<1>4. /\ timestamps # << >> /\ RecordsOK(Tail(timestamps))
      /\ PktsOf(Tail(timestamps)) = PktsOf(timestamps) \ {f.pkt}
      /\ Len(Tail(timestamps)) = Len(timestamps) - 1 /\ Len(timestamps) \in Nat
  BY <1>3, FirstRecord, TailRecord DEF RecordInv
<1>5. timestamps' = Tail(timestamps) /\ queued' = queued - 1
  BY <1>4 DEF TakeFirst
<1>6. WaitingPkts' = WaitingPkts \ {f.pkt}
  BY <1>1 DEF WaitingPkts
<1>7. f.pkt \notin Coming
  BY <1>1, <1>2
<1>8. PktsOf(timestamps') = WaitingPkts' \cup Coming'
  BY <1>4, <1>5, <1>6, <1>7 DEF RecordInv
<1>9. One(work = "write")' = One(work = "write") /\ One(work = "write") \in {0, 1}
  BY DEF One
<1>10. queued' = Len(timestamps') - One(work = "write")'
  BY <1>4, <1>5, <1>9 DEF RecordInv
<1>11. \A g \in Waiting' : \A c \in Coming' : g.pkt < c
  BY DEF RecordInv
<1>12. QED
  BY <1>4, <1>5, <1>8, <1>10, <1>11 DEF RecordInv

LEMMA FeedRecord ==
  ASSUME IInv, IdleInv, RecordInv, Feed
  PROVE  RecordInv'
<1>1. UNCHANGED <<hw, header, frames, status, curFrame>>
  BY DEF Feed, ReadPending, WorkBegins, WorkStart, WorkEnds, Submit, RecordFailed,
              Written, WriteFailed,
         adapterVars, sessionVars, codecVars, frameVars
<1>2. Pending' = Pending /\ Waiting' = Waiting /\ WaitingPkts' = WaitingPkts
  BY <1>1 DEF Pending, Waiting, WaitingPkts
<1>3. /\ packets \in Nat /\ Sent \in Nat /\ Sent <= packets
      /\ work = "write" => Sent = packets - 1
      /\ \A g \in Waiting : g.pkt \in Nat /\ g.pkt <= Sent
  BY WaitingFacts
<1>4. /\ RecordsOK(vififo) /\ \A p \in PktsOf(vififo) : p \in 1 .. Sent
      /\ Pending => header.pkt \in 1 .. Sent
      /\ \A c \in Coming : c \in 1 .. packets
  BY RingFacts
<1> DEFINE Come == (IF Pending THEN {header.pkt} ELSE {}) \cup PktsOf(vififo)
<1>5. \A c \in Come : c \in 1 .. Sent
  BY <1>4
<1>6. Coming = Come \cup (IF work = "write" THEN {packets} ELSE {})
  BY DEF Coming
<1>7. vififo' = vififo => Coming' = Come \cup (IF work' = "write" THEN {packets'} ELSE {})
  BY <1>1, <1>2 DEF Coming
<1> HIDE DEF Come
<1>8. CASE ReadPending(framesNum) \/ WorkBegins \/ WorkEnds \/ RecordFailed
  <2>1. /\ UNCHANGED <<timestamps, queued, vififo, packets>>
        /\ work # "write" /\ work' # "write"
    BY <1>8 DEF ReadPending, WorkBegins, WorkStart, WorkEnds, RecordFailed, Unlocked, recordVars
  <2>2. QED
    BY <1>1, <1>2, <1>6, <1>7, <2>1, RecordSame
<1>9. CASE Submit(framesNum + Reserve - 1)
  <2> DEFINE r == [pkt |-> packets + 1, offset |-> Offset, used |-> 0]
  <2>1. /\ timestamps' = Append(timestamps, r) /\ UNCHANGED <<queued, vififo>>
        /\ packets' = packets + 1 /\ work = "admit" /\ work' = "write"
    BY <1>9 DEF Submit
  <2>2. status # "stopped"
    BY <2>1 DEF IdleInv
  <2>3. Coming = Come /\ Coming' = Come \cup {packets + 1}
    BY <1>6, <1>7, <2>1
  <2>4. PktsOf(timestamps) = WaitingPkts \cup Come
    BY <2>2, <2>3 DEF RecordInv
  <2>5. r.pkt = packets + 1
    OBVIOUS
  <2> HIDE DEF r
  <2>6. \A p \in PktsOf(timestamps) : p < r.pkt
    BY <1>3, <1>5, <2>4, <2>5 DEF WaitingPkts
  <2>7. /\ RecordsOK(timestamps') /\ PktsOf(timestamps') = PktsOf(timestamps) \cup {packets + 1}
        /\ Len(timestamps') = Len(timestamps) + 1 /\ Len(timestamps) \in Nat
    BY <1>3, <2>1, <2>5, <2>6, AppendRecord DEF RecordInv
  <2>8. PktsOf(timestamps') = WaitingPkts' \cup Coming'
    BY <1>2, <2>3, <2>4, <2>7
  <2>9. \A g \in Waiting' : \A c \in Coming' : g.pkt < c
    <3>1. \A g \in Waiting : g.pkt < packets + 1
      BY <1>3
    <3>2. \A g \in Waiting : \A c \in Come : g.pkt < c
      BY <2>2, <2>3 DEF RecordInv
    <3>3. QED
      BY <1>2, <2>3, <3>1, <3>2
  <2>10. queued' = Len(timestamps') - One(work = "write")'
    <3>1. One(work = "write") = 0 /\ One(work = "write")' = 1
      BY <2>1 DEF One
    <3>2. queued = Len(timestamps) - 0
      BY <2>2, <3>1 DEF RecordInv
    <3>3. QED
      BY <2>1, <2>7, <3>1, <3>2
  <2>11. QED
    BY <2>7, <2>8, <2>9, <2>10 DEF RecordInv
<1>10. CASE Written
  <2> DEFINE e == [pkt |-> packets, start |-> written]
  <2>1. /\ vififo' = Append(vififo, e) /\ UNCHANGED <<timestamps, packets>> /\ queued' = queued + 1
        /\ work = "write" /\ work' = "scan"
    BY <1>10 DEF Written
  <2>2. e.pkt = packets
    OBVIOUS
  <2> HIDE DEF e
  <2>3. \A p \in PktsOf(vififo) : p < e.pkt
    BY <1>3, <1>4, <2>1, <2>2
  <2>4. PktsOf(vififo') = PktsOf(vififo) \cup {packets}
    BY <1>3, <1>4, <2>1, <2>2, <2>3, AppendRecord
  <2>5. Coming' = Coming
    BY <1>1, <1>2, <1>6, <2>1, <2>4 DEF Coming, Come
  <2>6. status # "stopped"
    BY <2>1 DEF IdleInv
  <2>7. queued' = Len(timestamps') - One(work = "write")'
    <3>1. One(work = "write") = 1 /\ One(work = "write")' = 0
      BY <2>1 DEF One
    <3>2. Len(timestamps) \in Nat
      BY LenProperties DEF RecordInv, RecordsOK
    <3>3. QED
      BY <2>1, <2>6, <3>1, <3>2 DEF RecordInv
  <2>8. QED
    BY <1>1, <1>2, <2>1, <2>5, <2>6, <2>7 DEF RecordInv
<1>11. CASE WriteFailed
  <2>1. /\ RemoveTs /\ UNCHANGED <<queued, vififo, packets>> /\ work = "write" /\ work' = "scan"
    BY <1>11 DEF WriteFailed
  <2>2. status # "stopped"
    BY <2>1 DEF IdleInv
  <2>3. Coming = Come \cup {packets} /\ Coming' = Come
    BY <1>6, <1>7, <2>1
  <2>4. PktsOf(timestamps) = WaitingPkts \cup Coming
    BY <2>2 DEF RecordInv
  <2>5. packets \notin Come /\ packets \notin WaitingPkts
    BY <1>3, <1>5, <2>1 DEF WaitingPkts
  <2>6. /\ RecordsOK(timestamps') /\ PktsOf(timestamps') = PktsOf(timestamps) \ {packets}
        /\ Len(timestamps') = Len(timestamps) - 1 /\ Len(timestamps) \in Nat
    <3> DEFINE own == {i \in DOMAIN timestamps : timestamps[i].pkt = packets}
    <3>1. own # {} /\ own \subseteq Nat
      <4>1. packets \in PktsOf(timestamps) /\ DOMAIN timestamps \subseteq Nat
        BY <2>3, <2>4, LenProperties DEF RecordInv, RecordsOK
      <4>2. QED
        BY <4>1 DEF PktsOf
    <3>2. Min(own) \in own
      BY <3>1, LeastExists DEF Min
    <3>3. timestamps' = SubSeq(timestamps, 1, Min(own) - 1)
                          \o SubSeq(timestamps, Min(own) + 1, Len(timestamps))
      BY <2>1, <3>1 DEF RemoveTs, RemoveAt
    <3> DEFINE k == Min(own)
    <3>4. k \in DOMAIN timestamps /\ timestamps[k].pkt = packets
      BY <3>2
    <3> HIDE DEF k, own
    <3>5. timestamps' = SubSeq(timestamps, 1, k - 1) \o SubSeq(timestamps, k + 1, Len(timestamps))
      BY <3>3 DEF k
    <3>6. RecordsOK(timestamps)
      BY DEF RecordInv
    <3>7. QED
      BY <3>4, <3>5, <3>6, DropRecord
  <2>7. PktsOf(timestamps') = WaitingPkts' \cup Coming'
    BY <1>2, <2>3, <2>4, <2>5, <2>6
  <2>8. \A g \in Waiting' : \A c \in Coming' : g.pkt < c
    BY <1>2, <2>2, <2>3 DEF RecordInv
  <2>9. queued' = Len(timestamps') - One(work = "write")'
    <3>1. One(work = "write") = 1 /\ One(work = "write")' = 0
      BY <2>1 DEF One
    <3>2. QED
      BY <2>1, <2>2, <2>6, <3>1 DEF RecordInv
  <2>10. QED
    BY <2>6, <2>7, <2>8, <2>9 DEF RecordInv
<1>12. QED
  BY <1>8, <1>9, <1>10, <1>11 DEF Feed

LEMMA IsrRecord ==
  ASSUME IInv, LastInv, RecordInv, Isr
  PROVE  RecordInv'
<1>1. /\ \A g \in Waiting : g \in frames /\ g.pkt \in Nat /\ g.id = 2 * g.pkt /\ g.pkt <= Sent
      /\ packets \in Nat /\ Sent \in Nat /\ (work = "write" => Sent = packets - 1)
  BY WaitingFacts
<1>2. /\ RecordsOK(vififo) /\ \A p \in PktsOf(vififo) : p \in 1 .. Sent
      /\ Pending => header.pkt \in 1 .. Sent
      /\ Pending /\ header.show => \A p \in PktsOf(vififo) : header.pkt < p
      /\ Pending /\ ~header.show => header.pkt \in PktsOf(vififo)
  BY RingFacts
<1>3. status # "stopped" /\ UNCHANGED <<work, packets>>
  <2>1. hw # "off"
    BY DEF Isr, PostHeader, HandleHeader, SourceChange, StartFrame, NoFrame, ShowFrame, ShowEnds,
           IInv, SessionInv
  <2>2. QED
    BY <2>1 DEF Isr, PostHeader, HandleHeader, SourceChange, StartFrame, NoFrame, ShowFrame, ShowEnds,
                IInv, SessionInv, parserVars, feedVars
<1> DEFINE Ring == PktsOf(vififo) \cup (IF work = "write" THEN {packets} ELSE {})
<1>4. /\ Coming = (IF Pending THEN {header.pkt} ELSE {}) \cup Ring
      /\ UNCHANGED vififo => Coming' = (IF Pending' THEN {header'.pkt} ELSE {}) \cup Ring
  BY <1>3 DEF Coming
<1> HIDE DEF Ring
<1>5. CASE PostHeader
  <2>1. /\ ~Pending /\ Pending' /\ UNCHANGED <<timestamps, queued, frames>> /\ vififo # << >>
        /\ header'.pkt = vififo[1].pkt /\ vififo' \in {vififo, Tail(vififo)}
    <3>1. header'.pkt = vififo[1].pkt /\ vififo' \in {vififo, Tail(vififo)} /\ vififo # << >>
      BY <1>5, PostedFacts
    <3>2. QED
      BY <1>5, <3>1 DEF PostHeader, Pending, recordVars, frameVars
  <2>2. 1 \in DOMAIN vififo
    <3>1. Len(vififo) \in Nat /\ DOMAIN vififo = 1 .. Len(vififo) /\ Len(vififo) # 0
      BY <2>1, LenProperties, EmptySeq DEF IInv, TypeInv
    <3>2. QED
      BY <3>1
  <2> DEFINE p == vififo[1].pkt
  <2>3. p \in PktsOf(vififo) /\ \A q \in PktsOf(vififo) : p <= q
    <3>1. p \in PktsOf(vififo)
      BY <2>2 DEF PktsOf
    <3>2. \A i \in DOMAIN vififo : i \in Nat /\ i >= 1
      BY LenProperties DEF IInv, TypeInv
    <3>3. \A i \in DOMAIN vififo : vififo[1].pkt <= vififo[i].pkt
      <4>1. \A i \in DOMAIN vififo : i = 1 \/ 1 < i
        BY <3>2
      <4>2. QED
        BY <1>2, <2>2, <4>1 DEF RecordsOK
    <3>4. QED
      BY <2>2, <3>1, <3>3 DEF PktsOf
  <2> HIDE DEF p
  <2>4. PktsOf(vififo) = {p} \cup PktsOf(vififo')
    <3>1. PktsOf(Tail(vififo)) = PktsOf(vififo) \ {p}
      BY <1>2, <2>3, FirstRecord, TailRecord
    <3>2. QED
      BY <2>1, <2>3, <3>1
  <2>5. header'.pkt = p
    BY <2>1 DEF p
  <2>6. Coming' = {p} \cup PktsOf(vififo') \cup (IF work = "write" THEN {packets} ELSE {})
    BY <1>3, <2>1, <2>5 DEF Coming
  <2>7. Coming' = Coming
    BY <1>4, <2>1, <2>4, <2>6 DEF Ring
  <2>8. Waiting' = Waiting
    BY <2>1 DEF Waiting
  <2>9. QED
    BY <1>3, <2>1, <2>7, <2>8, RecordSame
<1>6. CASE HandleHeader \/ SourceChange \/ NoFrame
  <2>1. UNCHANGED <<timestamps, queued, vififo, header>> /\ Pending' = Pending
    BY <1>6 DEF HandleHeader, SourceChange, NoFrame, parserVars, feedVars, recordVars, Pending, IInv, SessionInv
  <2>2. Waiting' = Waiting
    <3>1. frames' = frames \/ \E f \in Hidden : frames' = frames \ {f}
      <4>1. Hidden # {} => FirstOf(Hidden) \in Hidden
        BY FirstFacts DEF IInv, FrameInv, Hidden
      <4>2. QED
        BY <1>6, <4>1 DEF HandleHeader, RemoveHidden, SourceChange, NoFrame
    <3>2. QED
      BY <3>1 DEF Waiting, Hidden
  <2>3. QED
    BY <1>3, <1>4, <2>1, <2>2, RecordSame
<1>7. CASE ShowEnds
  <2>1. /\ UNCHANGED <<timestamps, queued, vififo, header>> /\ Pending' = Pending
        /\ ToShow = {} /\ frames' = {f \in frames : Kept(f)}
    BY <1>7 DEF ShowEnds, parserVars, feedVars, recordVars, Pending
  <2>2. Waiting' = Waiting
    <3>1. \A f \in Waiting : f.id = curFrame
      BY <2>1 DEF ToShow
    <3>2. \A f \in Waiting : Kept(f)
      BY <3>1 DEF Kept
    <3>3. QED
      BY <2>1, <3>2 DEF Waiting
  <2>3. QED
    BY <1>3, <1>4, <2>1, <2>2, RecordSame
<1>8. CASE ShowFrame
  <2> DEFINE f == FirstOf(ToShow)
             d == [f EXCEPT !.done = TRUE]
  <2>1. f \in ToShow /\ \A g \in ToShow : f.id <= g.id
    BY <1>8, FirstFacts DEF IInv, FrameInv, ShowFrame, ToShow, Waiting
  <2>2. f \in Waiting /\ f.id # curFrame /\ f \in frames /\ f.show /\ ~f.done
    BY <2>1 DEF ToShow, Waiting
  <2>3. /\ frames' = (frames \ {f}) \cup {d} /\ TakeFirst
        /\ UNCHANGED <<vififo, header, hw>>
    BY <1>8 DEF ShowFrame, adapterVars, feedVars
  <2>4. d.done
    BY <2>2, DoneFacts DEF IInv, FrameInv
  <2> HIDE DEF d, f
  <2>5. \A g \in Waiting : f.id <= g.id
    <3>1. ASSUME NEW g \in Waiting, g.id = curFrame
          PROVE  f.id <= g.id
      <4>1. g.pkt \in 1 .. Sent
        <5>1. g.pkt # 0
          BY <1>1 DEF IInv, FrameInv, FramesOK, IsFrame
        <5>2. QED
          BY <1>1, <5>1
      <4>2. curFrame # 0
        BY <1>1, <3>1, <4>1
      <4>3. QED
        BY <2>2, <3>1, <4>2 DEF LastInv
    <3>2. QED
      BY <2>1, <3>1 DEF ToShow
  <2>6. Waiting' = Waiting \ {f}
    BY <2>2, <2>3, <2>4 DEF Waiting
  <2>7. Coming' = Coming
    BY <1>4, <2>3 DEF Pending
  <2>8. QED
    BY <1>3, <2>2, <2>3, <2>5, <2>6, <2>7, RecordTake
<1>9. CASE StartFrame
  <2> DEFINE b == rdy["dst"][Min(Usable)]
             n == NewFrame(b)
  <2>1. /\ codec \in {"frame", "resume"} /\ frames' = frames \cup {n} /\ hw' = "run"
        /\ UNCHANGED <<timestamps, queued, vififo, header>>
    BY <1>9 DEF StartFrame, feedVars, recordVars
  <2>2. b \in DstBuf /\ WithBuf(b) = {}
    BY <1>9, UsableFacts DEF IInv, StartFrame
  <2> HIDE DEF b
  <2>3. n.pkt = header.pkt /\ n.show = header.show /\ ~n.done
    BY <2>1, <2>2, NewFacts
  <2> HIDE DEF n
  <2>4. Pending /\ ~Pending'
    BY <2>1 DEF Pending, IInv, SessionInv
  <2>5. Coming = {header.pkt} \cup Ring /\ Coming' = Ring
    BY <1>4, <2>1, <2>4
  <2>6. header.show \in BOOLEAN
    BY <2>4 DEF IInv, HeaderInv
  <2>7. CASE header.show
    <3>1. Waiting' = Waiting \cup {n}
      BY <2>1, <2>3, <2>7 DEF Waiting
    <3>2. WaitingPkts' = WaitingPkts \cup {header.pkt}
      BY <2>3, <3>1 DEF WaitingPkts
    <3>3. PktsOf(timestamps') = WaitingPkts' \cup Coming'
      BY <1>3, <2>1, <2>5, <3>2 DEF RecordInv
    <3>4. \A c \in Ring : header.pkt < c
      <4>1. work = "write" => header.pkt < packets
        BY <1>1, <1>2, <2>4
      <4>2. QED
        BY <1>2, <2>4, <2>7, <4>1 DEF Ring
    <3>5. \A g \in Waiting' : \A c \in Coming' : g.pkt < c
      BY <1>3, <2>3, <2>5, <3>1, <3>4 DEF RecordInv
    <3>6. One(work = "write")' = One(work = "write")
      BY <1>3 DEF One
    <3>7. QED
      BY <1>3, <2>1, <3>3, <3>5, <3>6 DEF RecordInv
  <2>8. CASE ~header.show
    <3>1. Waiting' = Waiting
      BY <2>1, <2>3, <2>8 DEF Waiting
    <3>2. header.pkt \in Ring
      BY <1>2, <2>4, <2>8 DEF Ring
    <3>3. Coming' = Coming
      BY <2>5, <3>2
    <3>4. QED
      BY <1>3, <2>1, <3>1, <3>3, RecordSame
  <2>9. QED
    BY <2>6, <2>7, <2>8
<1>10. QED
  BY <1>5, <1>6, <1>7, <1>8, <1>9 DEF Isr

LEMMA CallRecord ==
  ASSUME IInv, IdleInv, RecordInv, Call
  PROVE  RecordInv'
<1>1. ASSUME UNCHANGED <<timestamps, queued, frames, header, hw, vififo, work, packets, status>>
      PROVE  RecordInv'
  <2>1. Waiting' = Waiting /\ Pending' = Pending
    BY <1>1 DEF Waiting, Pending
  <2>2. Coming' = Coming
    BY <1>1, <2>1 DEF Coming
  <2>3. QED
    BY <1>1, <2>1, <2>2, RecordSame
<1> USE DEF codecVars, frameVars, adapterVars, parserVars, feedVars, recordVars, sessionVars
<1>2. CASE \E b \in Buf : UserQBuf(b) /\ UNCHANGED codecVars
  BY <1>1, <1>2 DEF UserQBuf
<1>3. ASSUME NEW q \in Queue, NEW b \in BufOf(q), StreamOn(q, b)
      PROVE  RecordInv'
  <2>1. CASE StreamOnOutcome(q) = "starts" /\ StartSession /\ UNCHANGED codecVars
    <3>1. status = "stopped" /\ work = "idle" /\ work' = "idle" /\ hw' = "run" /\ vififo' = << >>
          /\ queued' = 0 /\ timestamps' = timestamps /\ frames' = frames
      BY <1>3, <2>1 DEF StreamOn, StreamOnBuffer, StreamOnOutcome, StartSession, NoIoctl, Unlocked
    <3>2. timestamps = << >> /\ frames = {}
      BY <3>1 DEF IdleInv, IInv, SessionInv, SizedInv
    <3>3. WaitingPkts' = {} /\ Waiting' = {} /\ ~Pending'
      BY <3>1, <3>2 DEF Waiting, WaitingPkts, Pending
    <3>4. PktsOf(<< >>) = {} /\ RecordsOK(<< >>) /\ Len(<< >>) = 0
      BY EmptyFacts DEF PktsOf, RecordsOK
    <3>5. Coming' = {} /\ One(work = "write")' = 0
      BY <3>1, <3>3, <3>4 DEF Coming, One
    <3>6. timestamps' = << >> /\ queued' = Len(timestamps') - One(work = "write")'
      BY <3>1, <3>2, <3>4, <3>5
    <3>7. QED
      BY <3>3, <3>4, <3>5, <3>6 DEF RecordInv
  <2>2. CASE KeepSession /\ UNCHANGED <<hw, codecVars>>
    <3>1. UNCHANGED <<timestamps, queued, work, vififo, packets, status>>
      BY <2>2 DEF KeepSession
    <3>2. UNCHANGED <<frames, header>>
      BY <2>2
    <3>3. QED
      BY <1>1, <2>2, <3>1, <3>2
  <2>3. QED
    BY <1>3, <2>1, <2>2 DEF StreamOn
<1>4. CASE DrainFrame
  <2> DEFINE f == FirstOf(frames)
  <2>1. f \in frames /\ \A g \in frames : f.id <= g.id
    BY <1>4, FirstFacts DEF DrainFrame, IInv, FrameInv
  <2>2. /\ frames' = frames \ {f} /\ UNCHANGED <<header, hw, vififo, work, packets, status>>
        /\ IF f.done \/ ~f.show THEN UNCHANGED <<timestamps, queued>> ELSE TakeFirst
    BY <1>4 DEF DrainFrame
  <2> HIDE DEF f
  <2>3. Coming' = Coming
    <3>1. Pending' = Pending
      BY <2>2 DEF Pending
    <3>2. QED
      BY <2>2, <3>1 DEF Coming
  <2>4. CASE f.done \/ ~f.show
    <3>1. Waiting' = Waiting
      BY <2>2, <2>4 DEF Waiting
    <3>2. QED
      BY <2>2, <2>3, <2>4, <3>1, RecordSame
  <2>5. CASE ~f.done /\ f.show
    <3>1. f \in Waiting /\ \A g \in Waiting : f.id <= g.id
      BY <2>1, <2>5 DEF Waiting
    <3>2. Waiting' = Waiting \ {f}
      BY <2>2 DEF Waiting
    <3>3. status # "stopped"
      BY <2>1 DEF IInv, SessionInv, SizedInv
    <3>4. QED
      BY <2>2, <2>3, <2>5, <3>1, <3>2, <3>3, RecordTake
  <2>6. QED
    BY <2>4, <2>5
<1>5. CASE AbortDrained \/ QueueDrained
  BY <1>1, <1>5 DEF AbortDrained, AbortDone, QueueDrained, DrainDone
<1>6. CASE Vp9Stop
  <2>1. status' = "stopped" /\ timestamps' = << >>
    BY <1>6 DEF Vp9Stop, PowerOff
  <2>2. RecordsOK(<< >>)
    BY EmptyFacts DEF RecordsOK
  <2>3. QED
    BY <2>1, <2>2 DEF RecordInv
<1>7. QED
  BY <1>2, <1>3, <1>4, <1>5, <1>6 DEF Call

LEMMA IoctlRecord ==
  ASSUME RecordInv, Ioctl, UNCHANGED codecVars
  PROVE  RecordInv'
<1>1. UNCHANGED <<timestamps, queued, frames, header, hw, vififo, work, packets, status>>
  BY DEF Ioctl, StreamOff, DecoderCmd, DeviceRun, Reconfigure, StopStreaming, Release,
         codecVars, frameVars, adapterVars, parserVars, feedVars, recordVars, sessionVars
<1>2. Waiting' = Waiting /\ Pending' = Pending
  BY <1>1 DEF Waiting, Pending
<1>3. Coming' = Coming
  BY <1>1, <1>2 DEF Coming
<1>4. QED
  BY <1>1, <1>2, <1>3, RecordSame

LEMMA InitRecord ==
  ASSUME Init
  PROVE  LastInv /\ IdleInv /\ RecordInv
<1> USE DEF Init, M2mInit, ParserInit, AdapterInit
<1>1. RecordsOK(<< >>)
  BY EmptyFacts DEF RecordsOK
<1>2. QED
  BY <1>1 DEF LastInv, IdleInv, RecordInv

LEMMA RecordStep ==
  IInv /\ LastInv /\ IdleInv /\ RecordInv /\ [Next]_vars => (LastInv /\ IdleInv /\ RecordInv)'
<1> SUFFICES ASSUME IInv, LastInv, IdleInv, RecordInv, [Next]_vars
             PROVE  (LastInv /\ IdleInv /\ RecordInv)'
  OBVIOUS
<1>1. CASE Next
  BY <1>1, LastStep, IdleStep, FeedRecord, IsrRecord, CallRecord, IoctlRecord DEF Next
<1>2. CASE UNCHANGED vars
  <2> USE <1>2 DEF vars, m2mVars, drainVars, parserVars, feedVars, recordVars, sessionVars, adapterVars,
                   codecVars, frameVars
  <2>1. LastInv' /\ IdleInv'
    BY DEF LastInv, IdleInv
  <2>2. Waiting' = Waiting /\ Pending' = Pending
    BY DEF Waiting, Pending
  <2>3. Coming' = Coming
    BY <2>2 DEF Coming
  <2>4. RecordInv'
    BY <2>2, <2>3, RecordSame
  <2>5. QED
    BY <2>1, <2>4
<1>3. QED
  BY <1>1, <1>2

\* There is one record for each packet whose frame is still to be shown, in the order
\* of the packets, and esparser_queued_bufs counts them (amvdec_add_ts, amvdec_remove_ts,
\* amvdec_dst_buf_done, codec_vp9_show_frame, codec_vp9_flush_output).
THEOREM RecordsKept == Spec => [](LastInv /\ IdleInv /\ RecordInv)
<1>1. Init => LastInv /\ IdleInv /\ RecordInv
  BY InitRecord
<1>2. QED
  BY <1>1, Invariant, RecordStep, PTL DEF Spec

\* A frame that waits has as many frames before it, itself among them, as its packet's
\* record has records.
LEMMA PlaceOfRecord ==
  ASSUME IInv, RecordInv, status # "stopped", NEW f \in Waiting
  PROVE  LET n == Cardinality({g \in Waiting : g.id <= f.id})
         IN  n \in 1 .. Len(timestamps) /\ timestamps[n].pkt = f.pkt
<1>1. \A g \in Waiting : /\ g.pkt \in Nat /\ g.id = 2 * g.pkt
                         /\ \A h \in Waiting : g.pkt = h.pkt => g = h
  BY WaitingFacts
<1>2. Len(timestamps) \in Nat /\ DOMAIN timestamps = 1 .. Len(timestamps)
  BY LenProperties DEF RecordInv, RecordsOK
<1>3. \A i, j \in 1 .. Len(timestamps) : /\ timestamps[i].pkt \in Nat
                                         /\ i < j => timestamps[i].pkt < timestamps[j].pkt
  BY <1>2 DEF RecordInv, RecordsOK
<1>4. PktsOf(timestamps) = WaitingPkts \cup Coming /\ \A c \in Coming : f.pkt < c
  BY DEF RecordInv
<1>5. \A g \in Waiting : \E i \in 1 .. Len(timestamps) : timestamps[i].pkt = g.pkt
  BY <1>2, <1>4 DEF PktsOf, WaitingPkts
<1>6. PICK i \in 1 .. Len(timestamps) : timestamps[i].pkt = f.pkt
  BY <1>5
<1> DEFINE B == {g \in Waiting : g.id <= f.id}
           h == [j \in 1 .. i |-> CHOOSE g \in Waiting : g.pkt = timestamps[j].pkt]
<1>7. \A j \in 1 .. i : j \in 1 .. Len(timestamps) /\ timestamps[j].pkt <= f.pkt
  <2>1. \A j \in 1 .. i : j \in 1 .. Len(timestamps) /\ (j < i \/ j = i)
    BY <1>2, <1>6
  <2>2. QED
    BY <1>1, <1>3, <1>6, <2>1
<1>8. ASSUME NEW j \in 1 .. i
      PROVE  h[j] \in B /\ h[j].pkt = timestamps[j].pkt
  <2>1. timestamps[j].pkt \in PktsOf(timestamps)
    BY <1>2, <1>7 DEF PktsOf
  <2>2. timestamps[j].pkt \notin Coming
    BY <1>1, <1>3, <1>4, <1>7
  <2>3. \E g \in Waiting : g.pkt = timestamps[j].pkt
    BY <1>4, <2>1, <2>2 DEF WaitingPkts
  <2>4. h[j] \in Waiting /\ h[j].pkt = timestamps[j].pkt
    BY <2>3
  <2> HIDE DEF h
  <2>5. h[j].id <= f.id
    BY <1>1, <1>7, <2>4
  <2>6. QED
    BY <2>4, <2>5
<1>9. h \in [1 .. i -> B]
  BY <1>8
<1> HIDE DEF h
<1>10. \A j, k \in 1 .. i : h[j] = h[k] => j = k
  <2>1. ASSUME NEW j \in 1 .. i, NEW k \in 1 .. i, h[j] = h[k]
        PROVE  j = k
    <3>1. timestamps[j].pkt = timestamps[k].pkt
      BY <1>8, <2>1
    <3>2. ~(j < k) /\ ~(k < j)
      BY <1>3, <1>7, <3>1
    <3>3. QED
      BY <1>6, <3>2
  <2>2. QED
    BY <2>1
<1>11. \A g \in B : \E j \in 1 .. i : h[j] = g
  <2>1. ASSUME NEW g \in B
        PROVE  \E j \in 1 .. i : h[j] = g
    <3>1. PICK j \in 1 .. Len(timestamps) : timestamps[j].pkt = g.pkt
      BY <1>5
    <3>2. g.pkt <= f.pkt
      BY <1>1, <2>1
    <3>3. ~(i < j)
      BY <1>1, <1>3, <1>6, <3>1, <3>2
    <3>4. j \in 1 .. i
      BY <1>2, <1>6, <3>3
    <3>5. h[j] \in Waiting /\ h[j].pkt = g.pkt
      BY <1>8, <3>1, <3>4
    <3>6. QED
      BY <1>1, <3>4, <3>5
  <2>2. QED
    BY <2>1
<1>12. h \in Bijection(1 .. i, B)
  BY <1>9, <1>10, <1>11 DEF Bijection, Injection, Surjection, IsInjective
<1>13. i \in Nat
  BY <1>2, <1>6
<1>14. Cardinality(B) = i
  BY <1>12, <1>13, FS_CountingElements DEF ExistsBijection
<1>15. QED
  BY <1>6, <1>14

\* Each frame is shown with the timestamp of its own packet, whatever else of the stream
\* has been dropped or is still to come (codec_vp9_show_frame, amvdec_dst_buf_done,
\* amvdec_add_ts, amvdec_remove_ts).
THEOREM OwnTimestamps == Spec => []OwnTimestamp
<1>1. ASSUME IInv, RecordInv
      PROVE  OwnTimestamp
  <2>1. ASSUME status # "stopped", NEW f \in Waiting
        PROVE  LET n == Cardinality({g \in Waiting : g.id <= f.id})
               IN  n <= Len(timestamps) /\ timestamps[n].pkt = f.pkt
    <3>1. Len(timestamps) \in Nat
      BY <1>1, LenProperties DEF RecordInv, RecordsOK
    <3> DEFINE n == Cardinality({g \in Waiting : g.id <= f.id})
    <3>2. n \in 1 .. Len(timestamps) /\ timestamps[n].pkt = f.pkt
      BY <1>1, <2>1, PlaceOfRecord
    <3> HIDE DEF n
    <3>3. n <= Len(timestamps) /\ timestamps[n].pkt = f.pkt
      BY <3>1, <3>2
    <3>4. QED
      BY <3>3 DEF n
  <2>2. status # "stopped" => queued = Len(timestamps) - (IF work = "write" THEN 1 ELSE 0)
    BY <1>1 DEF RecordInv, One
  <2>3. QED
    BY <2>1, <2>2 DEF OwnTimestamp
<1>2. QED
  BY <1>1, Invariant, RecordsKept, PTL

-----------------------------------------------------------------------------
(* The packet that is written (Superframe).                                  *)

\* The frames of a packet, as the index gives them.
LEMMA SizesFacts ==
  ASSUME NEW sizes \in Writer!FrameSizes
  PROVE  /\ Len(sizes) \in Nat \ {0} /\ DOMAIN sizes = 1 .. Len(sizes)
         /\ \A f \in 1 .. Len(sizes) : sizes[f] \in Nat \ {0}
<1>1. PICK n \in 1 .. MaxFrames : sizes \in [1 .. n -> 1 .. MaxSize]
  BY SuperframeAssumption DEF Writer!FrameSizes
<1>2. n \in Nat \ {0} /\ sizes \in Seq(1 .. MaxSize) /\ Len(sizes) = n
  BY <1>1, SuperframeAssumption DEF SuperframeAssumption
<1>3. QED
  BY <1>1, <1>2, SuperframeAssumption DEF SuperframeAssumption

\* A recursion over 0 .. n defines a function, here the sums.
LEMMA TotalsFacts ==
  ASSUME NEW sizes \in Writer!FrameSizes
  PROVE  LET total == Writer!Totals(sizes)
         IN  /\ total[0] = 0
             /\ \A f \in 1 .. Len(sizes) : total[f] = total[f - 1] + sizes[f]
             /\ \A f \in 0 .. Len(sizes) : total[f] \in Nat
<1> DEFINE n == Len(sizes)
           Sums(t, m) == t = [f \in 0 .. m |-> IF f = 0 THEN 0 ELSE t[f - 1] + sizes[f]]
           total == CHOOSE t : Sums(t, n)
<1>1. n \in Nat /\ \A f \in 1 .. n : sizes[f] \in Nat \ {0}
  BY SizesFacts
<1>2. Writer!Totals(sizes) = total
  BY DEF Writer!Totals
<1> HIDE DEF n
<1>3. ASSUME NEW m \in Nat
      PROVE  \E t : Sums(t, m)
  <2> DEFINE Bad == {k \in Nat : ~ \E t : Sums(t, k)}
  <2>1. SUFFICES ASSUME Bad # {}
                 PROVE  FALSE
    OBVIOUS
  <2>2. PICK k \in Bad : \A l \in Bad : k <= l
    BY <2>1, LeastExists
  <2>3. CASE k = 0
    <3>1. Sums([f \in 0 .. 0 |-> 0], 0)
      OBVIOUS
    <3>2. QED
      BY <2>2, <2>3, <3>1
  <2>4. CASE k # 0
    <3>1. k - 1 \in Nat /\ k - 1 \notin Bad
      <4>1. k \in Nat
        OBVIOUS
      <4> HIDE DEF Bad
      <4>2. QED
        BY <2>2, <2>4, <4>1
    <3>2. PICK t : Sums(t, k - 1)
      BY <3>1
    <3> DEFINE u == [f \in 0 .. k |-> IF f = k THEN t[k - 1] + sizes[k] ELSE t[f]]
    <3>3. \A f \in 0 .. k : u[f] = IF f = 0 THEN 0 ELSE u[f - 1] + sizes[f]
      <4>1. SUFFICES ASSUME NEW f \in 0 .. k
                     PROVE  u[f] = IF f = 0 THEN 0 ELSE u[f - 1] + sizes[f]
        OBVIOUS
      <4>2. CASE f = k
        BY <2>4, <3>1, <4>2
      <4>3. CASE f # k
        <5>1. f \in 0 .. (k - 1) /\ u[f] = t[f] /\ (f # 0 => u[f - 1] = t[f - 1])
          BY <3>1, <4>3
        <5>2. t[f] = IF f = 0 THEN 0 ELSE t[f - 1] + sizes[f]
          BY <3>2, <5>1
        <5>3. QED
          BY <5>1, <5>2
      <4>4. QED
        BY <4>2, <4>3
    <3>4. Sums(u, k)
      BY <3>3
    <3>5. QED
      BY <2>2, <3>4
  <2>5. QED
    BY <2>3, <2>4
<1>4. Sums(total, n)
  BY <1>1, <1>3
<1> HIDE DEF total
<1>5. total[0] = 0 /\ \A f \in 1 .. n : total[f] = total[f - 1] + sizes[f]
  <2>1. \A f \in 0 .. n : total[f] = IF f = 0 THEN 0 ELSE total[f - 1] + sizes[f]
    BY <1>4
  <2>2. QED
    BY <1>1, <2>1
<1>6. \A f \in 0 .. n : total[f] \in Nat
  <2> DEFINE Bad == {k \in Nat : k <= n /\ total[k] \notin Nat}
  <2>1. SUFFICES ASSUME Bad # {}
                 PROVE  FALSE
    BY <1>1
  <2>2. PICK k \in Bad : \A l \in Bad : k <= l
    BY <2>1, LeastExists
  <2>3. k # 0
    BY <1>5, <2>2
  <2>4. k - 1 \in Nat /\ k - 1 \notin Bad /\ k \in 1 .. n
    BY <1>1, <2>2, <2>3
  <2>5. QED
    BY <1>1, <1>5, <2>2, <2>4
<1>7. QED
  BY <1>2, <1>5, <1>6 DEF n

LEMMA TotalsRise ==
  ASSUME NEW sizes \in Writer!FrameSizes, NEW f \in 0 .. Len(sizes), NEW g \in f .. Len(sizes)
  PROVE  Writer!Totals(sizes)[f] <= Writer!Totals(sizes)[g]
<1> DEFINE n == Len(sizes)
           total == Writer!Totals(sizes)
           Bad == {k \in Nat : k \in f .. n /\ total[f] > total[k]}
<1>1. /\ n \in Nat /\ \A k \in 1 .. n : sizes[k] \in Nat
      /\ \A k \in 1 .. n : total[k] = total[k - 1] + sizes[k]
      /\ \A k \in 0 .. n : total[k] \in Nat
  BY SizesFacts, TotalsFacts
<1> HIDE DEF n, total
<1>2. SUFFICES ASSUME Bad # {}
               PROVE  FALSE
  BY <1>1 DEF n, total
<1>3. PICK k \in Bad : \A l \in Bad : k <= l
  BY <1>2, LeastExists
<1>4. k \in f .. n /\ k \in Nat /\ total[f] > total[k] /\ f \in 0 .. n
  BY DEF n
<1>5. k # f
  BY <1>1, <1>4
<1>6. k - 1 \notin Bad
  <2> HIDE DEF Bad
  <2>1. QED
    BY <1>3, <1>4, <1>5
<1>7. total[k] = total[k - 1] + sizes[k] /\ sizes[k] \in Nat /\ total[k - 1] \in Nat /\ total[f] \in Nat
  BY <1>1, <1>4, <1>5
<1>8. QED
  BY <1>1, <1>4, <1>5, <1>6, <1>7

\* Frames with their headers follow one another, each behind where it was.
LEMMA Places ==
  ASSUME NEW sizes \in Writer!FrameSizes, NEW f \in 1 .. Len(sizes)
  PROVE  LET old(g) == Writer!OldOffset(sizes, g)
             out(g) == Writer!HeaderOffset(sizes, g)
         IN  /\ old(f) \in Nat /\ out(f) \in Nat /\ old(f) <= out(f)
             /\ old(f) + sizes[f] <= Writer!SumOf(sizes)
             /\ out(f) + HeaderSize + sizes[f] <= Writer!NewSize(sizes)
             /\ Writer!NewSize(sizes) \in Nat /\ Writer!SumOf(sizes) \in Nat
             /\ \A g \in 1 .. f - 1 : old(g) + sizes[g] <= old(f)
             /\ \A g \in f + 1 .. Len(sizes) : out(f) + HeaderSize + sizes[f] <= out(g)
<1> DEFINE n == Len(sizes)
           total == Writer!Totals(sizes)
           H == HeaderSize
<1>1. /\ n \in Nat /\ f \in 1 .. n
      /\ \A k \in 1 .. n : sizes[k] \in Nat /\ total[k] = total[k - 1] + sizes[k]
      /\ \A k \in 0 .. n : total[k] \in Nat
  BY SizesFacts, TotalsFacts
<1>2. \A g \in 0 .. n : \A k \in g .. n : total[g] <= total[k]
  BY TotalsRise
<1>3. H \in Nat
  BY SuperframeAssumption DEF SuperframeAssumption
<1>4. \A g \in 1 .. n : /\ Writer!OldOffset(sizes, g) = total[g - 1]
                        /\ Writer!HeaderOffset(sizes, g) = total[g - 1] + (g - 1) * H
  BY DEF Writer!OldOffset, Writer!HeaderOffset
<1>5. Writer!SumOf(sizes) = total[n] /\ Writer!NewSize(sizes) = total[n] + n * H
  BY DEF Writer!SumOf, Writer!NewSize
<1> HIDE DEF n, total, H
<1>6. \A a, b \in Nat : a <= b => a * H <= b * H
  BY <1>3
<1>7. f * H = (f - 1) * H + H /\ f * H \in Nat /\ (f - 1) * H \in Nat /\ n * H \in Nat
  BY <1>1, <1>3
<1>8. total[f - 1] \in Nat /\ total[f] = total[f - 1] + sizes[f] /\ sizes[f] \in Nat /\ total[f] \in Nat
      /\ total[n] \in Nat /\ total[f] <= total[n]
  BY <1>1, <1>2
<1>9. ASSUME NEW g \in 1 .. f - 1
      PROVE  Writer!OldOffset(sizes, g) + sizes[g] <= Writer!OldOffset(sizes, f)
  <2>1. g \in 1 .. n /\ f - 1 \in g .. n /\ total[g] <= total[f - 1] /\ total[g] = total[g - 1] + sizes[g]
    BY <1>1, <1>2
  <2>2. QED
    BY <1>1, <1>4, <2>1
<1>10. ASSUME NEW g \in f + 1 .. n
       PROVE  Writer!HeaderOffset(sizes, f) + H + sizes[f] <= Writer!HeaderOffset(sizes, g)
  <2>1. g \in 1 .. n /\ g - 1 \in f .. n /\ total[f] <= total[g - 1] /\ total[g - 1] \in Nat
    BY <1>1, <1>2
  <2>2. f * H <= (g - 1) * H /\ (g - 1) * H \in Nat
    BY <1>1, <1>3, <1>6, <2>1
  <2> DEFINE a == f * H  b == (f - 1) * H  c == (g - 1) * H
  <2>3. a = b + H /\ a <= c /\ a \in Nat /\ b \in Nat /\ c \in Nat
    BY <1>7, <2>2
  <2>4. /\ Writer!HeaderOffset(sizes, f) = total[f - 1] + b
        /\ Writer!HeaderOffset(sizes, g) = total[g - 1] + c
    BY <1>1, <1>4, <2>1
  <2> HIDE DEF a, b, c
  <2>5. \A p, s, q, h, u, v \in Nat : p + s <= q /\ u + h <= v => p + u + h + s <= q + v
    OBVIOUS
  <2>6. total[f - 1] + b + H + sizes[f] <= total[g - 1] + c
    BY <1>3, <1>8, <2>1, <2>3, <2>5
  <2>7. QED
    BY <2>4, <2>6
<1> DEFINE a == f * H  b == (f - 1) * H  c == n * H
<1>11. /\ a = b + H /\ a <= c /\ a \in Nat /\ b \in Nat /\ c \in Nat
       /\ Writer!OldOffset(sizes, f) = total[f - 1] /\ Writer!HeaderOffset(sizes, f) = total[f - 1] + b
       /\ Writer!NewSize(sizes) = total[n] + c /\ Writer!SumOf(sizes) = total[n]
  BY <1>1, <1>4, <1>5, <1>6, <1>7
<1> HIDE DEF a, b, c
<1>12. /\ Writer!OldOffset(sizes, f) \in Nat /\ Writer!HeaderOffset(sizes, f) \in Nat
       /\ Writer!OldOffset(sizes, f) <= Writer!HeaderOffset(sizes, f)
       /\ Writer!OldOffset(sizes, f) + sizes[f] <= Writer!SumOf(sizes)
       /\ Writer!HeaderOffset(sizes, f) + H + sizes[f] <= Writer!NewSize(sizes)
       /\ Writer!NewSize(sizes) \in Nat /\ Writer!SumOf(sizes) \in Nat
  <2>1. \A p, s, q, h, u, v \in Nat : p + s <= q /\ u + h <= v => p + u + h + s <= q + v
    OBVIOUS
  <2>2. total[f - 1] + b + H + sizes[f] <= total[n] + c
    BY <1>3, <1>8, <1>11, <2>1
  <2>3. /\ total[f - 1] \in Nat /\ total[f - 1] + b \in Nat /\ total[f - 1] <= total[f - 1] + b
        /\ total[f - 1] + sizes[f] <= total[n] /\ total[n] + c \in Nat /\ total[n] \in Nat
    BY <1>8, <1>11
  <2>4. QED
    BY <1>11, <2>2, <2>3
<1>13. QED
  BY <1>9, <1>10, <1>12 DEF n, H

\* A frame of the given packet, before it is moved and after it.
Unmoved(cells, sizes, f) ==
  \A k \in 0 .. sizes[f] - 1 : cells[Writer!OldOffset(sizes, f) + k] = <<"data", f, k>>
InPlace(cells, sizes, f) ==
  /\ \A k \in 0 .. HeaderSize - 1 :
       cells[Writer!HeaderOffset(sizes, f) + k] = <<"header", f, sizes[f]>>
  /\ \A k \in 0 .. sizes[f] - 1 :
       cells[Writer!HeaderOffset(sizes, f) + HeaderSize + k] = <<"data", f, k>>

LEMMA FrameIsAt ==
  ASSUME NEW sizes \in Writer!FrameSizes, NEW f \in 1 .. Len(sizes),
         NEW p \in Writer!OldOffset(sizes, f) .. Writer!OldOffset(sizes, f) + sizes[f] - 1
  PROVE  Writer!FrameAt(sizes, p) = f
<1> DEFINE In(g) == p \in Writer!OldOffset(sizes, g) .. Writer!OldOffset(sizes, g) + sizes[g] - 1
           h == Writer!FrameAt(sizes, p)
<1>1. /\ Len(sizes) \in Nat /\ DOMAIN sizes = 1 .. Len(sizes)
      /\ \A g \in 1 .. Len(sizes) : sizes[g] \in Nat
  BY SizesFacts
<1>2. h = CHOOSE g \in DOMAIN sizes : In(g)
  BY DEF Writer!FrameAt
<1>3. h \in 1 .. Len(sizes) /\ In(h)
  BY <1>1, <1>2
<1> HIDE DEF h
<1>4. \A g \in 1 .. Len(sizes) :
        /\ Writer!OldOffset(sizes, g) \in Nat
        /\ \A k \in 1 .. g - 1 : Writer!OldOffset(sizes, k) + sizes[k] <= Writer!OldOffset(sizes, g)
  BY Places
<1>5. CASE h < f
  <2>1. h \in 1 .. f - 1
    BY <1>1, <1>3, <1>5
  <2>2. Writer!OldOffset(sizes, h) + sizes[h] <= Writer!OldOffset(sizes, f)
    BY <1>4, <2>1
  <2>3. QED
    BY <1>1, <1>3, <1>4, <2>2
<1>6. CASE f < h
  <2>1. f \in 1 .. h - 1
    BY <1>1, <1>3, <1>6
  <2>2. Writer!OldOffset(sizes, f) + sizes[f] <= Writer!OldOffset(sizes, h)
    BY <1>3, <1>4, <2>1
  <2>3. QED
    BY <1>1, <1>3, <1>4, <2>2
<1>7. QED
  BY <1>1, <1>3, <1>5, <1>6 DEF h

\* userspace has put the frames one behind the other
LEMMA GivenUnmoved ==
  ASSUME NEW sizes \in Writer!FrameSizes, NEW index, NEW plane \in Nat,
         Writer!SumOf(sizes) <= plane, NEW f \in 1 .. Len(sizes)
  PROVE  Unmoved(Writer!Given(sizes, index, plane), sizes, f)
<1> DEFINE old == Writer!OldOffset(sizes, f)
<1>1. /\ old \in Nat /\ sizes[f] \in Nat /\ old + sizes[f] <= Writer!SumOf(sizes)
      /\ Writer!SumOf(sizes) \in Nat
  BY Places, SizesFacts
<1>2. SUFFICES ASSUME NEW k \in 0 .. sizes[f] - 1
               PROVE  Writer!Given(sizes, index, plane)[old + k] = <<"data", f, k>>
  BY DEF Unmoved
<1>3. Writer!FrameAt(sizes, old + k) = f
  <2>1. old + k \in old .. old + sizes[f] - 1
    BY <1>1
  <2>2. QED
    BY <2>1, FrameIsAt
<1>4. Writer!OldOffset(sizes, Writer!FrameAt(sizes, old + k)) = old
  BY <1>3
<1> HIDE DEF old
<1>5. old \in Nat /\ old + k \in 0 .. plane - 1 /\ old + k < Writer!SumOf(sizes) /\ old + k - old = k
  BY <1>1
<1> DEFINE p == old + k
<1>6. Writer!Given(sizes, index, plane)[p] =
        <<"data", Writer!FrameAt(sizes, p), p - Writer!OldOffset(sizes, Writer!FrameAt(sizes, p))>>
  <2>1. p \in 0 .. plane - 1 /\ p < Writer!SumOf(sizes)
    BY <1>5
  <2> HIDE DEF p
  <2>2. QED
    BY <2>1 DEF Writer!Given
<1>7. Writer!FrameAt(sizes, p) = f /\ p - Writer!OldOffset(sizes, Writer!FrameAt(sizes, p)) = k
  BY <1>1, <1>3, <1>4, <1>5
<1>8. Writer!Given(sizes, index, plane)[p] = <<"data", f, k>>
  <2> HIDE DEF p
  <2>1. QED
    BY <1>6, <1>7
<1>9. QED
  BY <1>8

\* The frames are moved last to first, so that none is written over before it was read.
LEMMA MoveOne ==
  ASSUME NEW sizes \in Writer!FrameSizes, NEW plane \in Nat, Writer!NewSize(sizes) <= plane,
         NEW cells, DOMAIN cells = 0 .. plane - 1, NEW f \in 1 .. Len(sizes),
         \A g \in 1 .. f : Unmoved(cells, sizes, g),
         \A g \in f + 1 .. Len(sizes) : InPlace(cells, sizes, g)
  PROVE  LET moved == Writer!Move(cells, sizes, f)
         IN  /\ DOMAIN moved = 0 .. plane - 1
             /\ \A g \in 1 .. f - 1 : Unmoved(moved, sizes, g)
             /\ \A g \in f .. Len(sizes) : InPlace(moved, sizes, g)
<1> DEFINE n == Len(sizes)
           H == HeaderSize
           moved == Writer!Move(cells, sizes, f)
           old(g) == Writer!OldOffset(sizes, g)
           out(g) == Writer!HeaderOffset(sizes, g)
<1>1. /\ n \in Nat /\ H \in Nat /\ f \in 1 .. n
      /\ \A g \in 1 .. n : sizes[g] \in Nat
  BY SizesFacts, SuperframeAssumption DEF SuperframeAssumption
<1>2. \A g \in 1 .. n : /\ old(g) \in Nat /\ out(g) \in Nat /\ old(g) <= out(g)
                        /\ out(g) + H + sizes[g] <= plane /\ old(g) + H + sizes[g] <= plane
  <2>1. SUFFICES ASSUME NEW g \in 1 .. n
                 PROVE  /\ old(g) \in Nat /\ out(g) \in Nat /\ old(g) <= out(g)
                        /\ out(g) + H + sizes[g] <= plane /\ old(g) + H + sizes[g] <= plane
    OBVIOUS
  <2>2. /\ old(g) \in Nat /\ out(g) \in Nat /\ old(g) <= out(g)
        /\ out(g) + H + sizes[g] <= Writer!NewSize(sizes) /\ Writer!NewSize(sizes) \in Nat
    BY Places
  <2> HIDE DEF H, old, out
  <2>3. QED
    BY <1>1, <2>2
<1>3. /\ \A g \in 1 .. f - 1 : old(g) + sizes[g] <= old(f)
      /\ \A g \in f + 1 .. n : out(f) + H + sizes[f] <= out(g)
  BY Places
<1>4. DOMAIN moved = 0 .. plane - 1
  BY DEF Writer!Move
<1>5. \A p \in 0 .. plane - 1 :
        /\ p < out(f) \/ p >= out(f) + H + sizes[f] => moved[p] = cells[p]
        /\ p \in out(f) .. out(f) + H - 1 => moved[p] = <<"header", f, sizes[f]>>
        /\ p \in out(f) + H .. out(f) + H + sizes[f] - 1 => moved[p] = cells[p - out(f) - H + old(f)]
  <2>1. \A p \in 0 .. plane - 1 :
          moved[p] = IF p \in out(f) .. out(f) + H - 1 THEN <<"header", f, sizes[f]>>
                     ELSE IF p \in out(f) + H .. out(f) + H + sizes[f] - 1
                       THEN cells[p - out(f) - H + old(f)]
                     ELSE cells[p]
    BY DEF Writer!Move
  <2> HIDE DEF moved, old, out, H
  <2>2. out(f) \in Nat /\ sizes[f] \in Nat /\ H \in Nat
    BY <1>1, <1>2
  <2>3. SUFFICES ASSUME NEW p \in 0 .. plane - 1
                 PROVE  /\ p < out(f) \/ p >= out(f) + H + sizes[f] => moved[p] = cells[p]
                        /\ p \in out(f) .. out(f) + H - 1 => moved[p] = <<"header", f, sizes[f]>>
                        /\ p \in out(f) + H .. out(f) + H + sizes[f] - 1 =>
                             moved[p] = cells[p - out(f) - H + old(f)]
    OBVIOUS
  <2> DEFINE b == out(f)
             t == sizes[f]
             label == <<"header", f, sizes[f]>>
             data == cells[p - out(f) - H + old(f)]
             here == cells[p]
             now == moved[p]
  <2>4. now = IF p \in b .. b + H - 1 THEN label
              ELSE IF p \in b + H .. b + H + t - 1 THEN data ELSE here
    BY <2>1
  <2>5. b \in Nat /\ t \in Nat /\ p \in Int
    BY <2>2
  <2> HIDE DEF b, t, label, data, here, now
  <2>6. /\ p < b \/ p >= b + H + t => now = here
        /\ p \in b .. b + H - 1 => now = label
        /\ p \in b + H .. b + H + t - 1 => now = data
    BY <2>2, <2>4, <2>5
  <2>7. QED
    BY <2>6 DEF b, t, label, data, here, now
<1> HIDE DEF moved
<1>6. ASSUME NEW g \in 1 .. f - 1
      PROVE  Unmoved(moved, sizes, g)
  <2>1. SUFFICES ASSUME NEW k \in 0 .. sizes[g] - 1
                 PROVE  moved[old(g) + k] = <<"data", g, k>>
    BY DEF Unmoved
  <2>2. g \in 1 .. f /\ g \in 1 .. n
    BY <1>1
  <2>3. cells[old(g) + k] = <<"data", g, k>>
    BY <2>2 DEF Unmoved
  <2> HIDE DEF old, out, H
  <2>4. /\ old(g) \in Nat /\ old(f) \in Nat /\ out(f) \in Nat /\ old(f) <= out(f) /\ sizes[g] \in Nat
        /\ sizes[f] \in Nat /\ out(f) + H + sizes[f] <= plane /\ old(g) + sizes[g] <= old(f)
    BY <1>1, <1>2, <1>3, <2>2
  <2>5. old(g) + k \in 0 .. plane - 1 /\ old(g) + k < out(f)
    <3> DEFINE a == old(g)  b == out(f)  c == old(f)  s == sizes[g]  t == sizes[f]
    <3>1. /\ a \in Nat /\ b \in Nat /\ c \in Nat /\ s \in Nat /\ t \in Nat /\ H \in Nat
          /\ k \in 0 .. s - 1 /\ c <= b /\ b + H + t <= plane /\ a + s <= c
      BY <1>1, <2>4
    <3> HIDE DEF a, b, c, s, t
    <3>2. a + k \in 0 .. plane - 1 /\ a + k < b
      BY <3>1
    <3>3. QED
      BY <3>2 DEF a, b
  <2>6. QED
    BY <1>5, <2>3, <2>5
<1>7. ASSUME NEW g \in f + 1 .. n
      PROVE  InPlace(moved, sizes, g)
  <2>1. g \in 1 .. n /\ InPlace(cells, sizes, g)
    BY <1>1
  <2>2. /\ out(g) \in Nat /\ out(f) \in Nat /\ sizes[g] \in Nat /\ sizes[f] \in Nat
        /\ out(g) + H + sizes[g] <= plane /\ out(f) + H + sizes[f] <= out(g)
    BY <1>1, <1>2, <1>3, <2>1
  <2>3. ASSUME NEW k \in 0 .. H - 1
        PROVE  moved[out(g) + k] = <<"header", g, sizes[g]>>
    <3>1. cells[out(g) + k] = <<"header", g, sizes[g]>>
      BY <2>1 DEF InPlace
    <3> HIDE DEF old, out, H
    <3>2. out(g) + k \in 0 .. plane - 1 /\ out(g) + k >= out(f) + H + sizes[f]
      <4> DEFINE a == out(g)  b == out(f)  s == sizes[g]  t == sizes[f]
      <4>1. /\ a \in Nat /\ b \in Nat /\ s \in Nat /\ t \in Nat /\ H \in Nat
            /\ k \in 0 .. H - 1 /\ a + H + s <= plane /\ b + H + t <= a
        BY <1>1, <2>2
      <4> HIDE DEF a, b, s, t
      <4>2. a + k \in 0 .. plane - 1 /\ a + k >= b + H + t
        BY <4>1
      <4>3. QED
        BY <4>2 DEF a, b, t
    <3>3. QED
      BY <1>5, <3>1, <3>2
  <2>4. ASSUME NEW k \in 0 .. sizes[g] - 1
        PROVE  moved[out(g) + H + k] = <<"data", g, k>>
    <3>1. cells[out(g) + H + k] = <<"data", g, k>>
      BY <2>1 DEF InPlace
    <3> HIDE DEF old, out, H
    <3>2. out(g) + H + k \in 0 .. plane - 1 /\ out(g) + H + k >= out(f) + H + sizes[f]
      <4> DEFINE a == out(g)  b == out(f)  s == sizes[g]  t == sizes[f]
      <4>1. /\ a \in Nat /\ b \in Nat /\ s \in Nat /\ t \in Nat /\ H \in Nat
            /\ k \in 0 .. s - 1 /\ a + H + s <= plane /\ b + H + t <= a
        BY <1>1, <2>2
      <4> HIDE DEF a, b, s, t
      <4>2. a + H + k \in 0 .. plane - 1 /\ a + H + k >= b + H + t
        BY <4>1
      <4>3. QED
        BY <4>2 DEF a, b, t
    <3>3. QED
      BY <1>5, <3>1, <3>2
  <2>5. QED
    BY <2>3, <2>4 DEF InPlace
<1>8. InPlace(moved, sizes, f)
  <2>1. f \in 1 .. f /\ Unmoved(cells, sizes, f)
    BY <1>1
  <2>2. /\ out(f) \in Nat /\ old(f) \in Nat /\ sizes[f] \in Nat /\ out(f) + H + sizes[f] <= plane
    BY <1>1, <1>2
  <2>3. ASSUME NEW k \in 0 .. H - 1
        PROVE  moved[out(f) + k] = <<"header", f, sizes[f]>>
    <3> HIDE DEF old, out, H
    <3>1. out(f) + k \in 0 .. plane - 1 /\ out(f) + k \in out(f) .. out(f) + H - 1
      BY <1>1, <2>2
    <3>2. QED
      BY <1>5, <3>1
  <2>4. ASSUME NEW k \in 0 .. sizes[f] - 1
        PROVE  moved[out(f) + H + k] = <<"data", f, k>>
    <3>1. cells[old(f) + k] = <<"data", f, k>>
      BY <2>1 DEF Unmoved
    <3> HIDE DEF old, out, H
    <3>2. /\ out(f) + H + k \in 0 .. plane - 1
          /\ out(f) + H + k \in out(f) + H .. out(f) + H + sizes[f] - 1
          /\ out(f) + H + k - out(f) - H + old(f) = old(f) + k
      <4> DEFINE a == old(f)  b == out(f)  t == sizes[f]
      <4>1. /\ a \in Nat /\ b \in Nat /\ t \in Nat /\ H \in Nat
            /\ k \in 0 .. t - 1 /\ b + H + t <= plane
        BY <1>1, <2>2
      <4> HIDE DEF a, b, t
      <4>2. /\ b + H + k \in 0 .. plane - 1
            /\ b + H + k \in b + H .. b + H + t - 1
            /\ b + H + k - b - H + a = a + k
        BY <4>1
      <4>3. QED
        BY <4>2 DEF a, b, t
    <3>3. moved[out(f) + H + k] = cells[out(f) + H + k - out(f) - H + old(f)]
      BY <1>5, <3>2
    <3>4. QED
      BY <3>1, <3>2, <3>3
  <2>5. QED
    BY <2>3, <2>4 DEF InPlace
<1>9. QED
  <2>1. \A g \in f .. n : g = f \/ g \in f + 1 .. n
    BY <1>1
  <2>2. QED
    BY <1>4, <1>6, <1>7, <1>8, <2>1 DEF moved

\* vp9_update_header leaves all frames with their headers.
LEMMA AllMoved ==
  ASSUME NEW sizes \in Writer!FrameSizes, NEW plane \in Nat, Writer!NewSize(sizes) <= plane,
         NEW cells, DOMAIN cells = 0 .. plane - 1,
         \A g \in 1 .. Len(sizes) : Unmoved(cells, sizes, g)
  PROVE  LET all == Writer!MoveAll(cells, sizes)
         IN  DOMAIN all = 0 .. plane - 1 /\ \A g \in 1 .. Len(sizes) : InPlace(all, sizes, g)
<1> DEFINE n == Len(sizes)
           From(i) == n + 1 - i
           Steps(m, i) ==
             m = [f \in From(i) .. n + 1 |->
                    IF f > n THEN cells ELSE Writer!Move(m[f + 1], sizes, f)]
           Full(m) ==
             m = [f \in 1 .. n + 1 |-> IF f > n THEN cells ELSE Writer!Move(m[f + 1], sizes, f)]
           moved == CHOOSE m : Full(m)
           Good(c, f) == /\ DOMAIN c = 0 .. plane - 1
                         /\ \A g \in 1 .. f - 1 : Unmoved(c, sizes, g)
                         /\ \A g \in f .. n : InPlace(c, sizes, g)
<1>1. n \in Nat
  BY SizesFacts
<1>2. Writer!MoveAll(cells, sizes) = moved[1]
  BY DEF Writer!MoveAll
<1> HIDE DEF n
<1>3. ASSUME NEW i \in 0 .. n
      PROVE  \E m : Steps(m, i)
  <2> DEFINE Has(k) == \E m : Steps(m, k)
             Bad == {k \in Nat : k <= n /\ ~ Has(k)}
  <2>1. SUFFICES ASSUME Bad # {}
                 PROVE  FALSE
    <3>1. i \in Nat /\ i <= n
      BY <1>1
    <3> HIDE DEF Has
    <3>2. Bad = {} => Has(i)
      BY <3>1
    <3>3. QED
      BY <3>2 DEF Has
  <2>2. PICK k \in Bad : \A l \in Bad : k <= l
    BY <2>1, LeastExists
  <2>3. k \in Nat /\ k <= n /\ ~ \E m : Steps(m, k)
    OBVIOUS
  <2>4. CASE k = 0
    <3> DEFINE u == [f \in From(0) .. n + 1 |-> cells]
    <3>1. \A f \in From(0) .. n + 1 : f > n
      BY <1>1
    <3>2. Steps(u, 0)
      BY <3>1
    <3>3. QED
      BY <2>3, <2>4, <3>2
  <2>5. CASE k # 0
    <3>1. k - 1 \in Nat /\ k - 1 <= n /\ k - 1 \notin Bad
      <4> HIDE DEF Bad
      <4>1. QED
        BY <1>1, <2>2, <2>3, <2>5
    <3>2. PICK m : Steps(m, k - 1)
      BY <3>1
    <3> DEFINE u == [f \in From(k) .. n + 1 |->
                       IF f = From(k) THEN Writer!Move(m[f + 1], sizes, f) ELSE m[f]]
    <3>3. \A f \in From(k) .. n + 1 :
            u[f] = IF f > n THEN cells ELSE Writer!Move(u[f + 1], sizes, f)
      <4>1. SUFFICES ASSUME NEW f \in From(k) .. n + 1
                     PROVE  u[f] = IF f > n THEN cells ELSE Writer!Move(u[f + 1], sizes, f)
        OBVIOUS
      <4>2. CASE f = From(k)
        <5>1. f <= n /\ f + 1 \in From(k) .. n + 1 /\ f + 1 # From(k)
          BY <1>1, <2>3, <2>5, <4>2
        <5>2. u[f] = Writer!Move(m[f + 1], sizes, f) /\ u[f + 1] = m[f + 1]
          BY <4>2, <5>1
        <5>3. ~ (f > n)
          BY <1>1, <2>3, <4>2, <5>1
        <5>4. QED
          BY <5>2, <5>3
      <4>3. CASE f # From(k)
        <5>1. f \in From(k - 1) .. n + 1 /\ u[f] = m[f]
              /\ (f <= n => f + 1 \in From(k) .. n + 1 /\ f + 1 # From(k))
          BY <1>1, <2>3, <4>3
        <5>2. m[f] = IF f > n THEN cells ELSE Writer!Move(m[f + 1], sizes, f)
          BY <3>2, <5>1
        <5>3. CASE f > n
          BY <5>1, <5>2, <5>3
        <5>4. CASE ~ (f > n)
          <6>1. u[f + 1] = m[f + 1]
            BY <1>1, <2>3, <5>1, <5>4
          <6>2. QED
            BY <5>1, <5>2, <5>4, <6>1
        <5>5. QED
          BY <5>3, <5>4
      <4>4. QED
        BY <4>2, <4>3
    <3>4. Steps(u, k)
      BY <3>3
    <3>5. QED
      BY <2>3, <3>4
  <2>6. QED
    BY <2>4, <2>5
<1>4. Full(moved)
  <2>1. n \in 0 .. n /\ From(n) = 1
    BY <1>1
  <2>2. PICK m : Steps(m, n)
    BY <1>3, <2>1
  <2>3. Full(m)
    BY <2>1, <2>2
  <2>4. QED
    BY <2>3
<1> HIDE DEF moved
<1>5. \A f \in 1 .. n + 1 : moved[f] = IF f > n THEN cells ELSE Writer!Move(moved[f + 1], sizes, f)
  BY <1>4
<1>6. \A i \in 0 .. n : Good(moved[From(i)], From(i))
  <2> DEFINE Well(k) == Good(moved[From(k)], From(k))
             Bad == {k \in Nat : k <= n /\ ~ Well(k)}
  <2>1. SUFFICES ASSUME Bad # {}
                 PROVE  FALSE
    <3>1. \A i \in 0 .. n : i \in Nat /\ i <= n
      BY <1>1
    <3> HIDE DEF Well
    <3>2. Bad = {} => \A i \in 0 .. n : Well(i)
      BY <3>1
    <3>3. QED
      BY <3>2 DEF Well
  <2>2. PICK k \in Bad : \A l \in Bad : k <= l
    BY <2>1, LeastExists
  <2>3. k \in Nat /\ k <= n /\ ~ Good(moved[From(k)], From(k))
    OBVIOUS
  <2>4. CASE k = 0
    <3>1. From(k) = n + 1 /\ n + 1 \in 1 .. n + 1 /\ n + 1 > n /\ n + 1 - 1 = n
      BY <1>1, <2>4
    <3>2. moved[n + 1] = cells
      BY <1>5, <3>1
    <3>3. \A g \in 1 .. n : Unmoved(cells, sizes, g)
      BY DEF n
    <3>4. Good(cells, n + 1)
      BY <1>1, <3>1, <3>3
    <3>5. QED
      BY <2>3, <3>1, <3>2, <3>4
  <2>5. CASE k # 0
    <3> DEFINE f == From(k)
    <3>1. k - 1 \in Nat /\ k - 1 <= n /\ k - 1 \notin Bad
      <4> HIDE DEF Bad
      <4>1. QED
        BY <1>1, <2>2, <2>3, <2>5
    <3>2. f \in 1 .. n /\ From(k - 1) = f + 1 /\ f + 1 - 1 = f /\ f \in 1 .. n + 1 /\ ~ (f > n)
      BY <1>1, <2>3, <2>5
    <3>3. Good(moved[From(k - 1)], From(k - 1))
      <4> HIDE DEF Good
      <4>1. QED
        BY <3>1
    <3> HIDE DEF f
    <3>4. Good(moved[f + 1], f + 1)
      <4> HIDE DEF Good
      <4>1. QED
        BY <3>2, <3>3
    <3>5. moved[f] = Writer!Move(moved[f + 1], sizes, f)
      BY <1>5, <3>2
    <3> DEFINE c == moved[f + 1]
    <3>6. /\ DOMAIN c = 0 .. plane - 1
          /\ \A g \in 1 .. f : Unmoved(c, sizes, g)
          /\ \A g \in f + 1 .. Len(sizes) : InPlace(c, sizes, g)
      BY <3>2, <3>4 DEF n
    <3> HIDE DEF c
    <3>7. f \in 1 .. Len(sizes)
      BY <3>2 DEF n
    <3>8. Good(Writer!Move(c, sizes, f), f)
      BY <3>6, <3>7, MoveOne DEF n
    <3>9. Good(moved[f], f)
      <4> HIDE DEF Good
      <4>1. QED
        BY <3>5, <3>8 DEF c
    <3>10. QED
      <4> HIDE DEF Good
      <4>1. QED
        BY <2>3, <3>9 DEF f
  <2>6. QED
    BY <2>4, <2>5
<1>7. Good(moved[1], 1)
  <2> HIDE DEF Good
  <2>1. n \in 0 .. n /\ From(n) = 1
    BY <1>1
  <2>2. Good(moved[From(n)], From(n))
    BY <1>6, <2>1
  <2>3. QED
    BY <2>1, <2>2
<1>8. QED
  BY <1>2, <1>7 DEF n

\* Padding and start code come behind the last frame.
LEMMA PaddedFacts ==
  ASSUME NEW payload \in Nat, NEW plane \in Nat, payload < plane, MinPacket <= plane,
         NEW cells, DOMAIN cells = 0 .. plane - 1
  PROVE  LET packet == [payload |-> payload, cells |-> cells]
             padded == Writer!PadStartCode(packet)
         IN  /\ \A p \in 0 .. payload - 1 : padded.cells[p] = cells[p]
             /\ Writer!EndThere(padded)
<1> DEFINE packet == [payload |-> payload, cells |-> cells]
           padded == Writer!PadStartCode(packet)
           code == payload + Writer!PadSize(payload)
<1>1. MinPacket \in Nat /\ PatternLen \in Nat \ {0}
  BY SuperframeAssumption DEF SuperframeAssumption
<1> DEFINE room == code + PatternLen - 1 \in DOMAIN cells
<1>3. code \in payload .. plane
  BY <1>1 DEF Writer!PadSize
<1>4. packet.payload = payload /\ packet.cells = cells /\ DOMAIN packet.cells = 0 .. plane - 1
  OBVIOUS
<1> DEFINE Filled(p) == IF p \in payload .. code - 1 THEN <<"zero", 0, 0>>
                       ELSE IF room /\ p \in code .. code + PatternLen - 1
                         THEN <<"start", 0, p - code>>
                       ELSE cells[p]
<1>5. padded.payload = payload /\ padded.cells = [p \in 0 .. plane - 1 |-> Filled(p)]
  <2> DEFINE end == packet.payload + Writer!PadSize(packet.payload)
             new == [p \in DOMAIN packet.cells |->
                       IF p \in packet.payload .. end - 1 THEN <<"zero", 0, 0>>
                       ELSE IF /\ end + PatternLen - 1 \in DOMAIN packet.cells
                               /\ p \in end .. end + PatternLen - 1
                         THEN <<"start", 0, p - end>>
                       ELSE packet.cells[p]]
  <2>1. padded = [packet EXCEPT !.cells = new]
    <3> HIDE DEF packet
    <3>1. QED
      BY Zenon DEF Writer!PadStartCode
  <2>2. new = [p \in 0 .. plane - 1 |-> Filled(p)]
    <3>1. end = code
      OBVIOUS
    <3> HIDE DEF end, code
    <3>2. QED
      BY <3>1
  <2> HIDE DEF new, padded
  <2>3. QED
    BY <2>1, <2>2
<1> HIDE DEF packet, padded, code
<1>6. \A p \in 0 .. payload - 1 : padded.cells[p] = cells[p]
  BY <1>1, <1>3, <1>5
<1>7. \A p \in payload .. code - 1 : padded.cells[p] = <<"zero", 0, 0>>
  BY <1>1, <1>3, <1>5
<1>8. code + PatternLen - 1 \in 0 .. plane - 1 => padded.cells[code] = <<"start", 0, 0>>
  BY <1>1, <1>3, <1>5
<1>9. Writer!EndThere(padded)
  <2>1. DOMAIN padded.cells = 0 .. plane - 1
    BY <1>5
  <2>2. padded.payload + Writer!PadSize(padded.payload) = code /\ padded.payload = payload
    BY <1>5 DEF code
  <2> HIDE DEF Filled
  <2> DEFINE from == padded.payload
             end == padded.payload + Writer!PadSize(padded.payload)
             all == DOMAIN padded.cells
  <2>3. from = payload /\ end = code /\ all = 0 .. plane - 1
    BY <2>1, <2>2
  <2> HIDE DEF from, end, all
  <2>4. /\ \A p \in from .. end - 1 : padded.cells[p] = <<"zero", 0, 0>>
        /\ end + PatternLen - 1 \in all => padded.cells[end] = <<"start", 0, 0>>
    BY <1>7, <1>8, <2>3
  <2>5. QED
    BY <2>4, Zenon DEF Writer!EndThere, from, end, all
<1>10. QED
  BY <1>6, <1>9 DEF packet, padded

\* Every packet, whatever the number and the sizes of its frames.
LEMMA PacketsIntact == Writer!PacketIntact
<1>1. SUFFICES ASSUME NEW sizes \in Writer!FrameSizes, NEW index \in Writer!Index(sizes),
                      NEW plane \in MinPacket + PatternLen .. MaxPlane,
                      Writer!DataSize(sizes, index) <= plane,
                      Writer!UpdateHeader(sizes, index, plane).payload > 0
               PROVE  LET packet == Writer!UpdateHeader(sizes, index, plane)
                      IN  /\ Writer!FramesThere(sizes, Writer!PadStartCode(packet))
                          /\ Writer!EndThere(Writer!PadStartCode(packet))
  BY DEF Writer!PacketIntact
<1> DEFINE n == Len(sizes)
           given == Writer!Given(sizes, index, plane)
           all == Writer!MoveAll(given, sizes)
           payload == Writer!NewSize(sizes)
           packet == [payload |-> payload, cells |-> all]
           padded == Writer!PadStartCode(packet)
<1>2. /\ n \in Nat \ {0} /\ DOMAIN sizes = 1 .. n /\ HeaderSize \in Nat
      /\ plane \in Nat /\ MinPacket <= plane /\ \A g \in 1 .. n : sizes[g] \in Nat
  BY SizesFacts, SuperframeAssumption DEF SuperframeAssumption
<1>3. Writer!UpdateHeader(sizes, index, plane) = packet /\ payload < plane
  <2>1. \/ Writer!UpdateHeader(sizes, index, plane) = [payload |-> 0, cells |-> given]
        \/ ~ (payload >= plane) /\ Writer!UpdateHeader(sizes, index, plane) = packet
    BY DEF Writer!UpdateHeader
  <2>2. payload \in Nat
    BY <1>2, Places
  <2>3. QED
    BY <1>1, <1>2, <2>1, <2>2
<1>4. \A g \in 1 .. n : /\ Writer!HeaderOffset(sizes, g) \in Nat
                        /\ Writer!HeaderOffset(sizes, g) + HeaderSize + sizes[g] <= payload
                        /\ payload \in Nat /\ Writer!SumOf(sizes) \in Nat
  BY Places
<1>5. payload \in Nat /\ Writer!SumOf(sizes) <= plane
  <2>1. 1 \in 1 .. n /\ payload \in Nat /\ Writer!SumOf(sizes) \in Nat
    BY <1>2, <1>4
  <2>2. payload = Writer!SumOf(sizes) + n * HeaderSize /\ n * HeaderSize \in Nat
    BY <1>2 DEF Writer!NewSize
  <2>3. QED
    BY <1>2, <1>3, <2>1, <2>2
<1>6. \A g \in 1 .. n : Unmoved(given, sizes, g)
  BY <1>2, <1>5, GivenUnmoved
<1>7. DOMAIN given = 0 .. plane - 1
  BY DEF Writer!Given
<1> HIDE DEF given
<1>8. DOMAIN all = 0 .. plane - 1 /\ \A g \in 1 .. n : InPlace(all, sizes, g)
  BY <1>2, <1>3, <1>5, <1>6, <1>7, AllMoved
<1> HIDE DEF all, payload
<1>9. Writer!EndThere(padded) /\ \A p \in 0 .. payload - 1 : padded.cells[p] = all[p]
  BY <1>2, <1>3, <1>5, <1>8, PaddedFacts
<1>10. \A g \in 1 .. n : Writer!Before(sizes, g) = Writer!HeaderOffset(sizes, g)
  BY DEF Writer!Before, Writer!HeaderOffset
<1> HIDE DEF packet, padded, n
<1>11. ASSUME NEW g \in 1 .. n
       PROVE  /\ \A k \in 0 .. HeaderSize - 1 :
                   padded.cells[Writer!Before(sizes, g) + k] = <<"header", g, sizes[g]>>
              /\ \A k \in 0 .. sizes[g] - 1 :
                   padded.cells[Writer!Before(sizes, g) + HeaderSize + k] = <<"data", g, k>>
  <2> DEFINE a == Writer!HeaderOffset(sizes, g)  H == HeaderSize  s == sizes[g]
  <2>1. /\ a \in Nat /\ H \in Nat /\ s \in Nat /\ a + H + s <= payload /\ payload \in Nat
        /\ Writer!Before(sizes, g) = a
    BY <1>2, <1>4, <1>10
  <2>2. /\ \A k \in 0 .. H - 1 : all[a + k] = <<"header", g, s>>
        /\ \A k \in 0 .. s - 1 : all[a + H + k] = <<"data", g, k>>
    BY <1>8 DEF InPlace
  <2> HIDE DEF a, H, s
  <2>3. /\ \A k \in 0 .. H - 1 : a + k \in 0 .. payload - 1
        /\ \A k \in 0 .. s - 1 : a + H + k \in 0 .. payload - 1
    BY <2>1
  <2>4. /\ \A k \in 0 .. H - 1 : padded.cells[a + k] = <<"header", g, s>>
        /\ \A k \in 0 .. s - 1 : padded.cells[a + H + k] = <<"data", g, k>>
    BY <1>9, <2>2, <2>3
  <2>5. QED
    BY <2>1, <2>4 DEF H, s
<1>12. Writer!FramesThere(sizes, padded)
  BY <1>2, <1>11 DEF Writer!FramesThere
<1>13. QED
  BY <1>3, <1>9, <1>12 DEF packet, padded

\* No packet the parser writes has lost a byte of a frame to the headers: MaxFrames,
\* MaxSize and MaxPlane may be any.
THEOREM PacketStaysIntact == Spec => []PacketIntact
<1>1. PacketIntact
  BY PacketsIntact DEF PacketIntact
<1>2. QED
  BY <1>1, PTL

-----------------------------------------------------------------------------
(* The arithmetic of the probabilities a frame leaves to the next.          *)

Probs == INSTANCE Vp9Probs

\* Rounding a 256th to the nearest keeps the order, and the whole numbers.
LEMMA RoundPowerIs ==
  ASSUME NEW v \in Nat
  PROVE  /\ Probs!RoundPower(v) \in Nat
         /\ \A a \in Nat : /\ 256 * a <= v => a <= Probs!RoundPower(v)
                           /\ v <= 256 * a => Probs!RoundPower(v) <= a
         /\ \A u \in Nat : v <= u => Probs!RoundPower(v) <= Probs!RoundPower(u)
BY DEF Probs!RoundPower

\* The weighted mean of two probabilities lies between them, and does not turn the order
\* of two second ones round.
LEMMA WeightedIs ==
  ASSUME NEW pre \in 1 .. 255, NEW get \in 1 .. 255, NEW f \in 0 .. 256
  PROVE  /\ Probs!Weighted(pre, get, f) \in (IF get < pre THEN get .. pre ELSE pre .. get)
         /\ \A more \in get .. 255 : Probs!Weighted(pre, get, f) <= Probs!Weighted(pre, more, f)
<1> DEFINE At(g) == pre * (256 - f) + g * f
<1>1. ASSUME NEW g \in 1 .. 255
      PROVE  /\ At(g) \in Nat
             /\ g >= pre => 256 * pre <= At(g) /\ At(g) <= 256 * g
             /\ g <= pre => 256 * g <= At(g) /\ At(g) <= 256 * pre
  <2>1. At(g) \in Nat /\ At(g) = 256 * pre + f * (g - pre)
    OBVIOUS
  <2>2. g >= pre => f * (g - pre) >= 0 /\ f * (g - pre) <= 256 * (g - pre)
    OBVIOUS
  <2>3. g <= pre => f * (pre - g) >= 0 /\ f * (pre - g) <= 256 * (pre - g)
                      /\ f * (g - pre) = -(f * (pre - g))
    OBVIOUS
  <2> HIDE DEF At
  <2> DEFINE m == f * (g - pre)
             n == f * (pre - g)
  <2>4. m \in Int /\ n \in Int
    OBVIOUS
  <2> HIDE DEF m, n
  <2>5. QED
    BY <2>1, <2>2, <2>3, <2>4 DEF m, n
<1>2. \A more \in get .. 255 : At(get) <= At(more)
  <2>1. SUFFICES ASSUME NEW more \in get .. 255
                 PROVE  At(get) <= At(more)
    OBVIOUS
  <2>2. get * f <= more * f
    OBVIOUS
  <2>3. QED
    BY <2>2
<1>3. \A g : Probs!Weighted(pre, g, f) = Probs!RoundPower(At(g))
  BY DEF Probs!Weighted
<1> HIDE DEF At
<1>4. Probs!Weighted(pre, get, f) \in (IF get < pre THEN get .. pre ELSE pre .. get)
  <2> DEFINE new == Probs!RoundPower(At(get))
  <2>1. /\ new \in Nat
        /\ get >= pre => pre <= new /\ new <= get
        /\ get <= pre => get <= new /\ new <= pre
    <3>1. get \in Nat /\ pre \in Nat
      OBVIOUS
    <3> DEFINE v == At(get)
    <3>2. /\ v \in Nat
          /\ get >= pre => 256 * pre <= v /\ v <= 256 * get
          /\ get <= pre => 256 * get <= v /\ v <= 256 * pre
      BY <1>1
    <3> HIDE DEF v
    <3>3. /\ Probs!RoundPower(v) \in Nat
          /\ get >= pre => pre <= Probs!RoundPower(v) /\ Probs!RoundPower(v) <= get
          /\ get <= pre => get <= Probs!RoundPower(v) /\ Probs!RoundPower(v) <= pre
      BY <3>1, <3>2, RoundPowerIs
    <3>4. QED
      BY <3>3 DEF v
  <2> HIDE DEF new
  <2>2. QED
    BY <1>3, <2>1 DEF new
<1>5. ASSUME NEW more \in get .. 255
      PROVE  Probs!Weighted(pre, get, f) <= Probs!Weighted(pre, more, f)
  <2>1. At(get) \in Nat /\ At(more) \in Nat /\ At(get) <= At(more)
    <3>1. more \in 1 .. 255
      OBVIOUS
    <3>2. At(get) \in Nat /\ At(more) \in Nat
      BY <1>1, <3>1
    <3>3. QED
      BY <1>2, <3>2
  <2>2. Probs!RoundPower(At(get)) <= Probs!RoundPower(At(more))
    BY <2>1, RoundPowerIs
  <2>3. QED
    BY <1>3, <2>2
<1>6. QED
  BY <1>4, <1>5

\* The share of the events that went left is a probability, and grows with them.
LEMMA ObservedIs ==
  ASSUME NEW left \in Nat, NEW right \in Nat, left + right # 0
  PROVE  /\ Probs!Observed(left, right) \in 1 .. 255
         /\ right > 0 => Probs!Observed(left, right) <= Probs!Observed(left + 1, right - 1)
<1> DEFINE d == left + right
           u == left * 256 + d \div 2
           v == (left + 1) * 256 + d \div 2
<1>1. d \in Nat /\ d > 0 /\ u \in Nat /\ v \in Nat /\ u <= v
  OBVIOUS
<1>2. (left + 1) + (right - 1) = d
  OBVIOUS
<1>3. /\ Probs!Observed(left, right) = Probs!Clip(u \div d)
      /\ Probs!Observed(left + 1, right - 1) = Probs!Clip(v \div d)
  BY <1>2 DEF Probs!Observed
<1> HIDE DEF d, u, v
<1>4. u \div d \in Nat /\ v \div d \in Nat /\ u \div d <= v \div d
  BY <1>1
<1> DEFINE x == u \div d
           y == v \div d
<1> HIDE DEF x, y
<1>5. Probs!Clip(x) \in 1 .. 255 /\ Probs!Clip(x) <= Probs!Clip(y)
  BY <1>4 DEF Probs!Clip, x, y
<1>6. QED
  BY <1>3, <1>5 DEF x, y

\* A merge that weights the observed probability by f moves as it should.
LEMMA MergedIs ==
  ASSUME NEW pre \in 1 .. 255, NEW left \in Nat, NEW right \in Nat, left + right # 0,
         NEW f \in 0 .. 256
  PROVE  LET get == Probs!Observed(left, right)
             new == Probs!Weighted(pre, get, f)
         IN  /\ new \in (IF get < pre THEN get .. pre ELSE pre .. get)
             /\ new \in 1 .. 255
             /\ right > 0 =>
                  new <= Probs!Weighted(pre, Probs!Observed(left + 1, right - 1), f)
<1> DEFINE get == Probs!Observed(left, right)
           more == Probs!Observed(left + 1, right - 1)
<1>1. get \in 1 .. 255 /\ (right > 0 => get <= more)
  BY ObservedIs
<1>2. right > 0 => more \in 1 .. 255
  <2>1. SUFFICES ASSUME right > 0
                 PROVE  more \in 1 .. 255
    OBVIOUS
  <2>2. left + 1 \in Nat /\ right - 1 \in Nat /\ (left + 1) + (right - 1) # 0
    BY <2>1
  <2>3. QED
    BY <2>2, ObservedIs
<1> HIDE DEF get, more
<1>3. Probs!Weighted(pre, get, f) \in (IF get < pre THEN get .. pre ELSE pre .. get)
  BY <1>1, WeightedIs
<1>4. right > 0 => Probs!Weighted(pre, get, f) <= Probs!Weighted(pre, more, f)
  <2>1. right > 0 => more \in get .. 255
    BY <1>1, <1>2
  <2>2. QED
    BY <1>1, <2>1, WeightedIs
<1>5. QED
  BY <1>1, <1>3, <1>4 DEF get, more

\* The tree's factors: none without events, at most one half.
LEMMA FactorIs ==
  ASSUME NEW n \in Nat
  PROVE  Probs!Factor(n) \in 0 .. 128
<1> DEFINE k == (IF n > 20 THEN 20 ELSE n) + 1
           table == <<0, 6, 12, 19, 25, 32, 38, 44, 51, 57, 64, 70, 76, 83, 89, 96, 102, 108,
                      115, 121, 128>>
<1>1. k \in 1 .. 21
  OBVIOUS
<1> HIDE DEF k
<1>2. table[k] \in 0 .. 128
  BY <1>1
<1>3. Probs!Factor(n) = table[k]
  BY DEF Probs!Factor, k
<1>4. QED
  BY <1>2, <1>3

\* After every frame, for any probabilities and any counters the hardware may have left (in
\* exact arithmetic; the code keeps sums of two counters in an int), what vp9_tree_merge_probs and adapt_coef_probs_cxt write is a probability between the
\* old one and the observed one, and grows with the events that went its way.
THEOREM ProbabilitiesFollow == Probs!WeightsRight(1 .. 255, Nat)
<1>1. ASSUME NEW pre \in 1 .. 255
      PROVE  Probs!Moves(Probs!MergeTree, pre, Nat)
  <2>1. ASSUME NEW left \in Nat, NEW right \in Nat
        PROVE  LET new == Probs!MergeTree(pre, left, right)
                   get == IF left + right = 0 THEN pre ELSE Probs!Observed(left, right)
               IN  /\ new \in (IF get < pre THEN get .. pre ELSE pre .. get)
                   /\ new \in 1 .. 255
                   /\ right > 0 => new <= Probs!MergeTree(pre, left + 1, right - 1)
    <3>1. CASE left + right = 0
      BY <3>1 DEF Probs!MergeTree
    <3>2. CASE left + right # 0
      <4> DEFINE f == Probs!Factor(left + right)
      <4>1. f \in 0 .. 256
        BY FactorIs
      <4>2. Probs!MergeTree(pre, left, right) = Probs!Weighted(pre, Probs!Observed(left, right), f)
        BY <3>2 DEF Probs!MergeTree
      <4>3. right > 0 => Probs!MergeTree(pre, left + 1, right - 1) =
                           Probs!Weighted(pre, Probs!Observed(left + 1, right - 1), f)
        <5>1. (left + 1) + (right - 1) = left + right
          OBVIOUS
        <5>2. QED
          BY <3>2, <5>1 DEF Probs!MergeTree
      <4> HIDE DEF f
      <4> DEFINE get == Probs!Observed(left, right)
                 new == Probs!Weighted(pre, get, f)
      <4>4. /\ new \in (IF get < pre THEN get .. pre ELSE pre .. get)
            /\ new \in 1 .. 255
            /\ right > 0 => new <= Probs!Weighted(pre, Probs!Observed(left + 1, right - 1), f)
        BY <3>2, <4>1, MergedIs
      <4> HIDE DEF new
      <4>5. Probs!MergeTree(pre, left, right) = new
        BY <4>2 DEF new
      <4> HIDE DEF get
      <4>6. QED
        BY <3>2, <4>3, <4>4, <4>5 DEF get
    <3>3. QED
      BY <3>1, <3>2
  <2>2. QED
    BY <2>1 DEF Probs!Moves
<1>2. ASSUME NEW pre \in 1 .. 255, NEW thisKey \in BOOLEAN, NEW lastKey \in BOOLEAN
      PROVE  LET Coef(p, left, right) ==
                   Probs!MergeCoef(Probs!UpdateFactor(thisKey, lastKey), p, left, right)
             IN  Probs!Moves(Coef, pre, Nat)
  <2> DEFINE update == Probs!UpdateFactor(thisKey, lastKey)
             Merge(left, right) == Probs!MergeCoef(update, pre, left, right)
             Factor(n) == (update * (IF n > 24 THEN 24 ELSE n)) \div 24
  <2>1. update \in Nat /\ update <= 128
    BY DEF Probs!UpdateFactor
  <2> HIDE DEF update
  <2>2. ASSUME NEW n \in Nat
        PROVE  Factor(n) \in 0 .. 256 /\ Factor(0) = 0
    <3> DEFINE m == IF n > 24 THEN 24 ELSE n
               x == update * m
    <3>1. m \in Nat /\ m <= 24
      OBVIOUS
    <3> HIDE DEF m
    <3>2. x \in Nat /\ x <= 128 * 24
      BY <2>1, <3>1
    <3>3. Factor(n) = x \div 24
      BY DEF m
    <3> HIDE DEF x
    <3>4. Factor(n) \in 0 .. 256
      BY <3>2, <3>3
    <3>5. Factor(0) = 0
      BY <2>1
    <3>6. QED
      BY <3>4, <3>5
  <2>3. ASSUME NEW left \in Nat, NEW right \in Nat
        PROVE  LET new == Merge(left, right)
                   get == IF left + right = 0 THEN pre ELSE Probs!Observed(left, right)
               IN  /\ new \in (IF get < pre THEN get .. pre ELSE pre .. get)
                   /\ new \in 1 .. 255
                   /\ right > 0 => new <= Merge(left + 1, right - 1)
    <3>1. CASE left + right = 0
      <4>1. Merge(left, right) = Probs!Weighted(pre, 128, Factor(0))
        BY <3>1 DEF Probs!MergeCoef
      <4>2. Factor(0) = 0
        BY <2>2
      <4> HIDE DEF Factor
      <4>3. Probs!Weighted(pre, 128, Factor(0)) = pre
        BY <4>2 DEF Probs!Weighted, Probs!RoundPower
      <4> HIDE DEF Merge
      <4>4. QED
        BY <3>1, <4>1, <4>3
    <3>2. CASE left + right # 0
      <4> DEFINE f == Factor(left + right)
                 get == Probs!Observed(left, right)
                 new == Probs!Weighted(pre, get, f)
      <4>1. f \in 0 .. 256
        BY <2>2
      <4>2. Merge(left, right) = new
        BY <3>2 DEF Probs!MergeCoef
      <4>3. right > 0 => Merge(left + 1, right - 1) =
                           Probs!Weighted(pre, Probs!Observed(left + 1, right - 1), f)
        <5>1. (left + 1) + (right - 1) = left + right
          OBVIOUS
        <5>2. QED
          BY <3>2, <5>1 DEF Probs!MergeCoef
      <4> HIDE DEF f, Factor, Merge
      <4>4. /\ new \in (IF get < pre THEN get .. pre ELSE pre .. get)
            /\ new \in 1 .. 255
            /\ right > 0 => new <= Probs!Weighted(pre, Probs!Observed(left + 1, right - 1), f)
        BY <3>2, <4>1, MergedIs
      <4> HIDE DEF new, get
      <4>5. QED
        BY <3>2, <4>2, <4>3, <4>4 DEF get
    <3>3. QED
      BY <3>1, <3>2
  <2>4. QED
    BY <2>3 DEF Probs!Moves, update
<1>3. QED
  BY <1>1, <1>2 DEF Probs!WeightsRight
=============================================================================
