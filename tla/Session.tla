-------------------------------- MODULE Session --------------------------------
(***************************************************************************)
(* meson-vcodec.c: the sessions (open files) of the device, what S_FMT,    *)
(* REQBUFS, STREAMON and STREAMOFF do to the status of their two queues,   *)
(* and when the codec is initialised, prepared, unprepared and released.   *)
(* The vb2 queues and the m2m device are the kernel's; buffers are M2m's   *)
(* business.                                                               *)
(*                                                                         *)
(* The queue ioctls of a session exclude each other (session->lock); while *)
(* a STREAMOFF waits for the running job, S_FMT, which takes core->lock,   *)
(* and the other sessions go on.                                           *)
(***************************************************************************)
EXTENDS Integers, Sequences, FiniteSets

CONSTANTS Sessions,    \* open files, closed ones included
          NoSession,   \* the NULL session
          Codec,       \* the hardware cores behind the codecs
          NoCodec,     \* job.codec = NULL
          Table,       \* core->platform_specs->codecs: [src, dst, codec], in order
          MaxPrepared, \* bound: prepare calls of a session not yet undone
          MaxIrregular,\* bound: misuses, when one of them is a format that is
                       \* set while the session streams
          Codecs, AskedPix, AskedSizes, MaxCalls  \* see Formats

\* struct meson_codec_formats
Entry == [src : STRING, dst : STRING, codec : Codec]

ASSUME SessionAssumption ==
  /\ NoSession \notin Sessions /\ NoCodec \notin Codec
  /\ Table \in Seq(Entry)
  /\ MaxPrepared \in Nat \ {0} /\ MaxIrregular \in Nat

F == INSTANCE Formats

\* Every format of a table is in meson-formats.c; no codec is limited to less than the
\* least size, and those with the OUTPUT format of the first (DECODER of
\* meson-platforms.c gives them the same limits) to no less than the first.
ASSUME FormatsAssumption ==
  /\ Codecs \in Seq([pix : [src : DOMAIN F!Format, dst : DOMAIN F!Format], maxW : Nat, maxH : Nat])
  /\ Codecs # << >>
  /\ \A i \in DOMAIN Codecs :
       /\ F!MinW <= Codecs[i].maxW /\ F!MinH <= Codecs[i].maxH
       /\ Codecs[i].pix.src = Codecs[1].pix.src =>
            Codecs[1].maxW <= Codecs[i].maxW /\ Codecs[1].maxH <= Codecs[i].maxH
  /\ AskedPix \subseteq STRING /\ AskedSizes \subseteq Nat \X Nat /\ MaxCalls \in Nat \ {0}

Queue == {"src", "dst"}

\* enum meson_stream_status; RELEASE = NONE, STOP lasts as long as one callback
None    == 0
FmtSet  == 1
QSetup  == 2
Inited  == 3
Started == 4
Run     == 5
Aborted == 6

Unset == "unset"
Offered(q) == {Table[i][q] : i \in DOMAIN Table}

VARIABLES
  opened,     \* the open sessions
  active,     \* core->active_session
  format,     \* session->src_fmt, session->dst_fmt
  codec,      \* the codec of session->enc_job or session->dec_job
  status,     \* session->src_status, session->dst_status
  queue,      \* vb2: "idle", "on" (prepared), "started"
  off,        \* the queue whose STREAMOFF waits for the job, or "none"
  job,        \* the session whose job the m2m device runs
  prepared,   \* prepare calls of a session that no unprepare has undone
  powered,    \* the cores between init and release
  reformatted,\* history: sessions whose format was set while they streamed
  early,      \* history: sessions that stopped before both queues had been prepared
  stolen      \* history: a file was opened while a session streamed

kernel == <<queue, off, job>>
state  == <<active, format, codec, status, prepared, powered>>
vars   == <<opened, state, kernel, reformatted, early, stolen>>

TypeOK ==
  /\ opened \subseteq Sessions
  /\ active \in Sessions \cup {NoSession}
  /\ format \in [Sessions -> [Queue -> Offered("src") \cup Offered("dst") \cup {Unset}]]
  /\ codec \in [Sessions -> Codec \cup {NoCodec}]
  /\ status \in [Sessions -> [Queue -> None .. Aborted]]
  /\ queue \in [Sessions -> [Queue -> {"idle", "on", "started"}]]
  /\ off \in [Sessions -> Queue \cup {"none"}]
  /\ job \in Sessions \cup {NoSession}
  /\ prepared \in [Sessions -> 0 .. MaxPrepared]
  /\ powered \subseteq Codec
  /\ reformatted \subseteq Sessions /\ early \subseteq Sessions
  /\ stolen \in BOOLEAN

Both(v) == [q \in Queue |-> v]

Init ==
  /\ opened = {} /\ active = NoSession
  /\ format = [s \in Sessions |-> Both(Unset)]
  /\ codec = [s \in Sessions |-> NoCodec]
  /\ status = [s \in Sessions |-> Both(None)]
  /\ queue = [s \in Sessions |-> Both("idle")]
  /\ off = [s \in Sessions |-> "none"]
  /\ job = NoSession
  /\ prepared = [s \in Sessions |-> 0]
  /\ powered = {}
  /\ reformatted = {} /\ early = {} /\ stolen = FALSE

\* vb2_is_streaming
On(s) == {q \in Queue : queue[s][q] \in {"on", "started"}}
Streaming == {s \in Sessions : On(s) # {}}

-----------------------------------------------------------------------------
(* Open and set the formats.                                               *)

\* bound: sessions that were misused, and whether one was opened while another streamed
Bounded(irregular, opening) ==
  Cardinality(irregular) + (IF opening THEN 1 ELSE 0) <= MaxIrregular

\* meson_vcodec_session_open makes the new session the active one at once,
\* also when it fails later on
Activate(s) ==
  /\ s \notin opened
  /\ active' = s
  /\ stolen' = (stolen \/ Streaming # {})
  /\ stolen' /\ reformatted # {} => Bounded(reformatted \cup early, TRUE)

Open(s) ==
  /\ Activate(s)
  /\ opened' = opened \cup {s}
  /\ UNCHANGED <<format, codec, status, prepared, powered, kernel, reformatted, early>>

OpenFails(s) ==
  /\ Activate(s)
  /\ UNCHANGED <<opened, format, codec, status, prepared, powered, kernel, reformatted,
                 early>>

\* find_codec
Matching(f) == {i \in DOMAIN Table : Table[i].src = f["src"] /\ Table[i].dst = f["dst"]}

First(is) == CHOOSE i \in is : \A j \in is : i <= j

\* common_try_fmt_vid: the pixel format that comes out when x is wanted for
\* queue q and the other queue has f's
TryFmt(f, q, x) ==
  LET wanted     == [f EXCEPT ![q] = x]
      compatible == {i \in DOMAIN Table : \/ q = "src" /\ wanted["dst"] = Table[i].dst
                                          \/ wanted["src"] = Table[i].src}
  IN IF \/ \E p \in Queue : wanted[p] = Unset
        \/ Matching(wanted) # {} \/ compatible = {}
       THEN x ELSE Table[First(compatible)][q]

\* meson_vcodec_s_fmt_vid: everything is reset, then set up anew when both
\* formats are there and belong to a codec
SFmt(s, q, x) ==
  LET f == [format[s] EXCEPT ![q] = TryFmt(format[s], q, x)]
      found == Matching(f) # {}
  IN /\ s \in opened
     /\ format' = [format EXCEPT ![s] = f]
     /\ codec' = [codec EXCEPT ![s] = IF found THEN Table[First(Matching(f))].codec ELSE NoCodec]
     /\ status' = [status EXCEPT ![s] = IF found THEN Both(FmtSet) ELSE Both(None)]
     /\ reformatted' = IF s \in Streaming THEN reformatted \cup {s} ELSE reformatted
     /\ s \in Streaming => Bounded(reformatted \cup early \cup {s}, stolen)
     /\ UNCHANGED <<opened, active, prepared, powered, kernel, early, stolen>>

-----------------------------------------------------------------------------
(* The buffers.                                                            *)

\* session->lock is free: no STREAMOFF waits
Lock(s) == s \in opened /\ off[s] = "none"

SetQueue(s, q, v) == queue' = [queue EXCEPT ![s][q] = v]

\* REQBUFS: meson_vcodec_queue_setup accepts a queue once per format.  Another
\* REQBUFS, and CREATE_BUFS, which gives the sizes, leave the status alone.
ReqBufs(s, q) ==
  /\ Lock(s) /\ q \notin On(s)
  /\ status[s][q] = FmtSet
  /\ status' = [status EXCEPT ![s][q] = QSetup]
  /\ UNCHANGED <<opened, active, format, codec, prepared, powered, kernel, reformatted,
                 early, stolen>>

-----------------------------------------------------------------------------
(* Streaming.                                                              *)

\* mutant: for any session
MayPrepareAny(s, q) == Lock(s) /\ q \notin On(s) /\ status[s][q] = QSetup

\* meson_vcodec_prepare_streaming gets as far as the codec
MayPrepare(s, q) ==
  /\ Lock(s) /\ q \notin On(s)
  /\ active = s
  /\ status[s][q] = QSetup

\* mutant
PreparesEach(s) == TRUE

\* the codec is prepared with the first queue
Prepares(s) == \A q \in Queue : status[s][q] < Inited

\* mutant: the codec is not released when its prepare fails
PrepareFailsPowered(s, q) ==
  /\ MayPrepare(s, q) /\ Prepares(s)
  /\ powered' \in {powered, powered \cup {codec[s]}}
  /\ UNCHANGED <<opened, active, format, codec, status, prepared, kernel, reformatted,
                 early, stolen>>

\* its init fails, or its prepare does and it is released
PrepareFails(s, q) ==
  /\ MayPrepare(s, q) /\ Prepares(s)
  /\ powered' \in {powered, powered \ {codec[s]}}
  /\ UNCHANGED <<opened, active, format, codec, status, prepared, kernel, reformatted,
                 early, stolen>>

Prepared(s) ==
  /\ prepared' = [prepared EXCEPT ![s] = IF Prepares(s) THEN @ + 1 ELSE @]
  /\ powered' = IF Prepares(s) THEN powered \cup {codec[s]} ELSE powered

\* STREAMON, without buffers in the queue or with: then start_streaming follows
StreamOn(s, q) ==
  /\ MayPrepare(s, q)
  /\ Prepares(s) => prepared[s] < MaxPrepared
  /\ Prepared(s)
  /\ \/ SetQueue(s, q, "on") /\ status' = [status EXCEPT ![s][q] = Inited]
     \/ SetQueue(s, q, "started") /\ status' = [status EXCEPT ![s][q] = Started]
  /\ UNCHANGED <<opened, active, format, codec, off, job, reformatted, early, stolen>>

\* mutant: with the first queue
ReleasedFirst(s, st) == codec[s] # NoCodec /\ \E q \in Queue : st[q] = None

\* meson_vcodec_unprepare_streaming on st, the status of the queues of s
Released(s, st) == codec[s] # NoCodec /\ \A q \in Queue : st[q] = None

\* history: s has no queue left that streams, and keeps its codec
Early(s, q, st) ==
  early' = IF On(s) \subseteq {q} /\ ~ Released(s, st) THEN early \cup {s} ELSE early

\* mutant: and vb2 does not unprepare
StreamOnFailsPrepared(s, q) ==
  /\ MayPrepare(s, q)
  /\ Prepares(s) => prepared[s] < MaxPrepared
  /\ status' = [status EXCEPT ![s][q] = Inited]
  /\ Prepared(s)
  /\ UNCHANGED <<opened, active, format, codec, kernel, reformatted, early, stolen>>

\* STREAMON of a queue with buffers whose start_streaming fails
StreamOnFails(s, q) ==
  LET st == [status[s] EXCEPT ![q] = None]
  IN /\ MayPrepare(s, q)
     /\ Prepares(s) => prepared[s] < MaxPrepared
     /\ status' = [status EXCEPT ![s] = st]
     /\ IF Released(s, st)
          THEN powered' = powered \ {codec[s]} /\ UNCHANGED prepared
          ELSE Prepared(s)
     /\ Early(s, q, st)
     /\ UNCHANGED <<opened, active, format, codec, kernel, reformatted, stolen>>

\* the first QBUF of a queue that streams without buffers
StartLater(s, q) ==
  /\ Lock(s) /\ queue[s][q] = "on"
  /\ status[s][q] = Inited
  /\ SetQueue(s, q, "started") /\ status' = [status EXCEPT ![s][q] = Started]
  /\ UNCHANGED <<opened, active, format, codec, prepared, powered, off, job, reformatted,
                 early, stolen>>

\* meson_vcodec_m2m_job_ready, device_run
DeviceRun(s) ==
  /\ Lock(s) /\ job = NoSession
  /\ \A q \in Queue : queue[s][q] = "started"
  /\ codec[s] # NoCodec
  /\ job' = s
  /\ status' = [status EXCEPT ![s] = Both(Run)]
  /\ UNCHANGED <<opened, active, format, codec, prepared, powered, queue, off, reformatted,
                 early, stolen>>

JobFinish ==
  /\ job # NoSession
  /\ job' = NoSession
  /\ UNCHANGED <<opened, state, queue, off, reformatted, early, stolen>>

\* STREAMOFF while the job of the session runs: v4l2-m2m calls
\* meson_vcodec_m2m_job_abort and waits
StreamOffWaits(s, q) ==
  /\ Lock(s) /\ q \in On(s) /\ job = s
  /\ off' = [off EXCEPT ![s] = q]
  /\ status' = [status EXCEPT ![s] = Both(Aborted)]
  /\ UNCHANGED <<opened, active, format, codec, prepared, powered, queue, job, reformatted,
                 early, stolen>>

\* v4l2_m2m_cancel_job has returned
Waited(s) == job # s

\* without a job, or when it has finished: meson_vcodec_stop_streaming and
\* unprepare_streaming
StreamOff(s, q) ==
  LET st == [status[s] EXCEPT ![q] = None]
  IN /\ off[s] = q \/ (Lock(s) /\ q \in On(s))
     /\ Waited(s)
     /\ SetQueue(s, q, "idle") /\ off' = [off EXCEPT ![s] = "none"]
     /\ status' = [status EXCEPT ![s] = st]
     /\ IF Released(s, st)
          THEN /\ prepared' = [prepared EXCEPT ![s] = @ - 1]
               /\ powered' = powered \ {codec[s]}
          ELSE UNCHANGED <<prepared, powered>>
     /\ Early(s, q, st)
     /\ UNCHANGED <<opened, active, format, codec, job, reformatted, stolen>>

\* meson_vcodec_session_release waits for the job, streams both queues off and
\* forgets the active session, whoever that is
Close(s) ==
  LET st == [q \in Queue |-> IF q \in On(s) THEN None ELSE status[s][q]]
      releases == On(s) # {} /\ Released(s, st)
  IN /\ Lock(s) /\ Waited(s)
     /\ opened' = opened \ {s}
     /\ active' = NoSession
     /\ format' = [format EXCEPT ![s] = Both(Unset)]
     /\ codec' = [codec EXCEPT ![s] = NoCodec]
     /\ status' = [status EXCEPT ![s] = Both(None)]
     /\ queue' = [queue EXCEPT ![s] = Both("idle")]
     /\ prepared' = [prepared EXCEPT ![s] = IF releases THEN @ - 1 ELSE @]
     /\ powered' = IF releases THEN powered \ {codec[s]} ELSE powered
     /\ early' = IF On(s) # {} /\ ~releases THEN early \cup {s} ELSE early
     /\ UNCHANGED <<off, job, reformatted, stolen>>

Next ==
  \/ \E s \in Sessions :
       \/ Open(s) \/ OpenFails(s)
       \/ DeviceRun(s) \/ Close(s)
       \/ \E q \in Queue :
            \/ \E x \in Offered(q) : SFmt(s, q, x)
            \/ ReqBufs(s, q)
            \/ PrepareFails(s, q) \/ StreamOn(s, q) \/ StreamOnFails(s, q)
            \/ StartLater(s, q) \/ StreamOffWaits(s, q) \/ StreamOff(s, q)
  \/ JobFinish

Spec == Init /\ [][Next]_vars

-----------------------------------------------------------------------------
(* Properties.                                                             *)

\* What the driver's status says of a queue is what vb2 says of it, through
\* failures to start, aborts and restarts, as long as the format is not set
\* under a streaming queue: else buf_queue, prepare_streaming and
\* unprepare_streaming, which decide by the status, would decide wrongly.
StatusAgrees ==
  \A s \in Sessions \ reformatted : \A q \in Queue :
    /\ (status[s][q] >= Inited) = (q \in On(s))
    /\ (status[s][q] >= Started) = (queue[s][q] = "started")

\* The codec outlives the queues: it is prepared and, while nobody has opened
\* the device in between, powered for as long as one of the two streams
\* (meson_vcodec_unprepare_streaming: "after both src and dst queues have been
\* unprepared").
StreamingPrepared ==
  \A s \in Streaming \ reformatted :
    /\ prepared[s] > 0
    /\ ~stolen => codec[s] \in powered

\* A session that never stops before both its queues were prepared has its
\* codec prepared once while it streams, and not at all otherwise.
Balanced ==
  \A s \in Sessions \ (reformatted \cup early) :
    prepared[s] = IF s \in Streaming THEN 1 ELSE 0

\* ... and then no core stays powered when the last queue has stopped, whatever
\* init, prepare or start_streaming failed.
PoweredDown ==
  Streaming \cup reformatted \cup early = {} => powered = {}

\* The device runs the jobs of sessions whose two queues have been started: a
\* STREAMOFF waits for the job before the codec is unprepared under it.
JobStreams ==
  job # NoSession => \A q \in Queue : queue[job][q] = "started"

\* The hardware stays with those who use it, a streaming queue or a running job.
\* Code: meson_vcodec_unprepare_streaming, v4l2_m2m_job_ready, job_abort.
HardwareHeld == StreamingPrepared /\ JobStreams

\* One session at a time has the hardware ("Can't init streaming due to active
\* session"), as long as nobody opens the device while another one streams:
\* opening it makes the new session the active one.
Exclusive == ~stolen => \A s, t \in Streaming : s = t


\* With a file open, its formats agree whatever calls have set them: see Formats.
FormatsAgree == opened # {} => F!FormatsAgree
=============================================================================
