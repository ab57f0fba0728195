-------------------------- MODULE HevcDecoderProofs --------------------------
(***************************************************************************)
(* The HEVC decoder conserves buffers and shows its frames in order, for   *)
(* any number of buffers, any conforming stream and any reorder depth.     *)
(*                                                                         *)
(* That a frame shown comes before every frame that waits is not inductive *)
(* alone: it needs that whoever is shown has as many pictures after it in  *)
(* the stream so far as may overtake one (OrderInv), that order counts are *)
(* derived from those of the layer the stream means (HeaderInv), and that  *)
(* a drain leaves nothing of the sequence to come (Over).                  *)
(*                                                                         *)
(* All of it holds until a picture comes whose order count is negative,    *)
(* which is never shown (led): from then on the list is still a set of     *)
(* frames with a buffer each, and a drain loses what it frees (LostInv).   *)
(*                                                                         *)
(* That every frame carries the timestamp of its own packet is the last    *)
(* part: RecordsInv relates the ring, the records and the frames.          *)
(***************************************************************************)
EXTENDS HevcDecoder, M2mLemmas, FiniteSetTheorems

\* the header of a picture that has been posted and not yet been given a frame
Pending == hw = "posted" \/ status = "needs_resume"

\* who may run while a queue is streamed off
LockInv ==
  /\ stop = "none" <=> LockFree
  /\ \A q, r \in Queue : stream[q] = "cancel" /\ stream[r] = "cancel" => q = r
  /\ work \notin {"idle", "oops"} \/ codec = "resume" => LockFree
  /\ work # "write" => cur = NoBuf
  /\ \A q \in Queue : stream[q] \in {"idle", "off"} => rdy[q] = << >>

\* what the firmware, the interrupt thread and the ioctls know of each other
SessionInv ==
  /\ hw = "off" <=> status = "stopped"
  /\ codec = "show" => hw = "posted"
  /\ codec = "resume" => status = "needs_resume"
  /\ codec \in {"idle", "show", "resume"}
  /\ status \in {"stopped", "init", "running", "needs_resume"}
  /\ status = "needs_resume" => hw = "held" /\ header.idr
  /\ starved => hw \in {"off", "held"} /\ status # "needs_resume"
  /\ hw = "held" => starved \/ status = "needs_resume"
  /\ stop \in {"drain", "release"} => hw \in {"off", "held"} /\ codec = "idle"
  /\ stop = "drain" => status = "needs_resume"
  /\ stop = "release" => status \in {"stopped", "needs_resume"}
  /\ stop = "release" /\ stream["dst"] = "cancel" => frames = {}
  /\ hw = "off" => frames = {} /\ framesNum = 0 /\ sent = {} /\ anchor = 0

\* a set of frames that may be the list
IsFrame(f) ==
  /\ f = [pkt |-> f.pkt, at |-> f.at, poc |-> f.poc, truth |-> f.truth, buf |-> f.buf,
          referenced |-> f.referenced, show |-> f.show]
  /\ f.pkt \in Nat /\ f.poc = f.truth /\ f.truth \in Int /\ f.show \in BOOLEAN
  /\ IF f.show THEN f.buf \in DstBuf ELSE f.buf = NoBuf

FramesOK(F) == IsFiniteSet(F) /\ \A f \in F : IsFrame(f)

\* no two of them have the same order count, and none has a negative one
Distinct(F) == /\ \A f, g \in F : f.poc = g.poc => f = g
               /\ \A f \in F : f.truth \in Nat

WaitingIn(F) == {f \in F : f.show}

\* A picture with a negative order count is in nobody's way only before it comes.
FrameInv ==
  /\ FramesOK(frames)
  /\ framesNum \in Nat /\ framesNum >= Cardinality(Waiting)
  /\ ~led => /\ Distinct(frames)
             /\ \A f \in frames : f.truth \in sent
             /\ framesNum = Cardinality(Waiting)

Exceeding(t) == {s \in sent : s > t}

\* the order counts the driver keeps are those of the stream
HeaderInv ==
  /\ IsFiniteSet(sent) /\ sent \subseteq Int
  /\ anchor \in Int /\ prevTid0 \in Int
  /\ ~Pending => anchor = prevTid0
  /\ ~led => sent \subseteq Nat /\ (Pending => header.truth \in Nat)
  /\ Pending =>
       /\ header.pkt \in Nat /\ header.truth \in Int /\ header.idr \in BOOLEAN /\ header.tid \in {0, 1}
       /\ header.lsb = header.truth % MaxLsb
       /\ header.resize => header.idr
       /\ header.idr => header.truth = 0 /\ header.rps = {}
       /\ ~header.idr => /\ header.truth \notin sent /\ sent # {}
                         /\ Cardinality(Exceeding(header.truth)) <= Reorder
  /\ Pending /\ codec = "idle" =>
       /\ anchor = IF header.tid = 0 THEN header.truth ELSE prevTid0
       /\ ~header.idr => header.truth - prevTid0 \in 1 - MaxLsb \div 2 .. MaxLsb \div 2
  /\ codec # "idle" => /\ anchor = prevTid0 /\ currPoc = header.truth
                       /\ header.idr => \A f \in frames : ~f.referenced
  /\ sent # {} => 0 \in sent

\* no picture of this sequence will be decoded any more
Over ==
  \/ hw = "held"
  \/ codec # "idle" /\ header.idr
  \/ codec = "idle" /\ hw = "run" /\ vififo = << >> /\ stop \in {"abort", "stop", "poweroff"}

\* Whoever has been shown comes before those that wait; and as many pictures as may
\* be decoded before one and displayed after it have been decoded before it.
OrderInv ==
  ~led =>
  LET shown == sent \ {f.truth : f \in Waiting}
  IN  /\ \A s \in shown : \A f \in Waiting : s < f.truth
      /\ Over \/ \A s \in shown : Cardinality(Exceeding(s)) >= Reorder

Held == {f.buf : f \in Waiting}

BufferInv ==
  /\ Balanced(vb, rdy, {cur} \ {NoBuf}, Held, dropped \cup lost)
  /\ \A f, g \in Waiting : f.buf = g.buf => f = g

TypeInv ==
  /\ M2mTypeOK /\ cur \in SrcBuf \cup {NoBuf} /\ packets \in Nat
  /\ vififo \in Seq(Range(vififo)) /\ \A e \in Range(vififo) : e.pkt \in Nat

IInv == TypeInv /\ LockInv /\ SessionInv /\ FrameInv /\ HeaderInv /\ OrderInv /\ BufferInv

-----------------------------------------------------------------------------
(* The list of frames.                                                     *)

\* two frames that differ in nothing but whether they are referenced
Alike(f, g) == g.pkt = f.pkt /\ g.at = f.at /\ g.truth = f.truth /\ g.buf = f.buf /\ g.show = f.show

\* codec_hevc_update_referenced changes nothing else of the list.
LEMMA ReferencedFacts ==
  ASSUME FramesOK(frames), \A f, g \in Waiting : f.buf = g.buf => f = g, NEW poc, NEW rps
  PROVE  LET G == Referenced(poc, rps)
         IN  /\ FramesOK(G)
             /\ \A f, g \in WaitingIn(G) : f.buf = g.buf => f = g
             /\ \A f \in frames : \E g \in G : Alike(f, g)
             /\ \A g \in G : \E f \in frames : Alike(f, g)
             /\ Cardinality(WaitingIn(G)) = Cardinality(Waiting)
             /\ rps = {} => \A g \in G : ~g.referenced
             /\ Distinct(frames) => Distinct(G)
<1> DEFINE R(f) == [f EXCEPT !.referenced = @ /\ f.poc \in {poc + d : d \in rps}]
           G == {R(f) : f \in frames}
           r == [f \in frames |-> R(f)]
           w == [f \in Waiting |-> R(f)]
<1>1. ASSUME NEW f \in frames
      PROVE  IsFrame(R(f)) /\ Alike(f, R(f)) /\ R(f).poc = f.poc
  <2> DEFINE v == f.referenced /\ f.poc \in {poc + d : d \in rps}
  <2>1. f = [pkt |-> f.pkt, at |-> f.at, poc |-> f.poc, truth |-> f.truth, buf |-> f.buf,
             referenced |-> f.referenced, show |-> f.show]
    BY DEF FramesOK, IsFrame
  <2>2. R(f) = [pkt |-> f.pkt, at |-> f.at, poc |-> f.poc, truth |-> f.truth, buf |-> f.buf,
                referenced |-> v, show |-> f.show]
    BY <2>1
  <2>3. QED
    BY <2>2 DEF FramesOK, IsFrame, Alike
<1>2. IsFiniteSet(G)
  <2>1. r \in Surjection(frames, G)
    BY DEF Surjection
  <2>2. QED
    BY <2>1, FS_Surjection DEF FramesOK
<1>3. FramesOK(G)
  BY <1>1, <1>2 DEF FramesOK
<1>4. ASSUME NEW f \in Waiting, NEW g \in Waiting, R(f).buf = R(g).buf
      PROVE  f = g
  BY <1>1, <1>4 DEF Waiting, Alike
<1>5. \A g \in WaitingIn(G) : \E f \in Waiting : R(f) = g
  BY <1>1 DEF Waiting, WaitingIn, Alike
<1>6. ASSUME NEW g \in WaitingIn(G), NEW h \in WaitingIn(G), g.buf = h.buf
      PROVE  g = h
  <2>1. PICK e \in Waiting : R(e) = g
    BY <1>5, Zenon
  <2>2. PICK f \in Waiting : R(f) = h
    BY <1>5, Zenon
  <2>3. QED
    BY <1>4, <1>6, <2>1, <2>2, Zenon
<1>7. Cardinality(WaitingIn(G)) = Cardinality(Waiting)
  <2>1. w \in Bijection(Waiting, WaitingIn(G))
    <3>1. w \in [Waiting -> WaitingIn(G)]
      BY <1>1 DEF Waiting, WaitingIn, Alike
    <3>2. ASSUME NEW f \in Waiting, NEW g \in Waiting, R(f) = R(g)
          PROVE  f = g
      BY <1>4, <3>2, Zenon
    <3>3. \A g \in WaitingIn(G) : \E f \in Waiting : w[f] = g
      BY <1>5
    <3>4. QED
      BY <3>1, <3>2, <3>3 DEF Bijection, Injection, Surjection, IsInjective
  <2>2. IsFiniteSet(Waiting)
    BY FS_Subset DEF FramesOK, Waiting
  <2>3. QED
    BY <2>1, <2>2, FS_Bijection DEF ExistsBijection
<1>8. rps = {} => \A g \in G : ~g.referenced
  <2>1. ASSUME rps = {}, NEW f \in frames
        PROVE  ~R(f).referenced
    <3>1. R(f).referenced = (f.referenced /\ f.poc \in {poc + d : d \in rps})
      BY DEF FramesOK, IsFrame
    <3>2. QED
      BY <2>1, <3>1
  <2>2. QED
    BY <2>1
<1>9. ASSUME Distinct(frames)
      PROVE  Distinct(G)
  <2>1. ASSUME NEW g \in G, NEW h \in G, g.poc = h.poc
        PROVE  g = h
    <3>1. PICK e \in frames : g = R(e)
      OBVIOUS
    <3>2. PICK f \in frames : h = R(f)
      OBVIOUS
    <3>3. e.poc = f.poc
      BY <1>1, <2>1, <3>1, <3>2, Zenon
    <3>4. e = f
      BY <1>9, <3>3 DEF Distinct
    <3>5. QED
      BY <3>1, <3>2, <3>4
  <2>2. \A g \in G : g.truth \in Nat
    <3>1. \A f \in frames : R(f).truth = f.truth /\ f.truth \in Nat
      BY <1>1, <1>9 DEF Distinct, Alike
    <3>2. QED
      BY <3>1
  <2>3. QED
    BY <2>1, <2>2 DEF Distinct
<1>10. QED
  BY <1>1, <1>3, <1>6, <1>7, <1>8, <1>9 DEF Referenced

\* codec_hevc_get_next_ready_frame finds the first of the frames that wait, of those
\* with no negative order count.
LEMMA NextReadyFacts ==
  ASSUME FramesOK(frames), ReadyFrames # {}
  PROVE  /\ NextReady \in Waiting
         /\ Distinct(frames) => /\ \A g \in Waiting : NextReady.truth <= g.truth
                                /\ ReadyFrames = Waiting
<1> DEFINE Pocs == {f.poc : f \in ReadyFrames}
<1>1. \A f \in ReadyFrames : f.poc \in Nat /\ f.poc = f.truth /\ f.pkt \in Nat /\ f \in Waiting
  BY DEF FramesOK, IsFrame, Waiting, ReadyFrames
<1>2. PICK p \in Pocs : \A o \in Pocs : p <= o
  <2>1. Pocs \subseteq Nat /\ Pocs # {}
    BY <1>1
  <2>2. QED
    BY <2>1, LeastExists
<1> DEFINE Pkts == {f.pkt : f \in {g \in ReadyFrames : g.poc = p}}
<1>3. PICK k \in Pkts : \A o \in Pkts : k <= o
  <2>1. Pkts \subseteq Nat /\ Pkts # {}
    BY <1>1, <1>2
  <2>2. QED
    BY <2>1, LeastExists
<1>4. PICK f \in ReadyFrames : f.poc = p /\ f.pkt = k
  BY <1>3
<1>5. \A g \in ReadyFrames : f.poc < g.poc \/ (f.poc = g.poc /\ f.pkt <= g.pkt)
  <2>1. ASSUME NEW g \in ReadyFrames, g.poc = p
        PROVE  k <= g.pkt
    BY <1>3, <2>1
  <2>2. ASSUME NEW g \in ReadyFrames
        PROVE  p <= g.poc /\ g.poc \in Nat /\ p \in Nat
    BY <1>1, <1>2, <1>4
  <2>3. QED
    BY <1>4, <2>1, <2>2
<1>6. /\ NextReady \in ReadyFrames
      /\ \A g \in ReadyFrames : \/ NextReady.poc < g.poc
                                \/ NextReady.poc = g.poc /\ NextReady.pkt <= g.pkt
  BY <1>4, <1>5 DEF NextReady
<1>7. ASSUME Distinct(frames)
      PROVE  ReadyFrames = Waiting
  BY <1>7 DEF ReadyFrames, Distinct, FramesOK, IsFrame, Waiting
<1>8. \A g \in ReadyFrames : NextReady.truth <= g.truth
  BY <1>1, <1>6
<1>9. QED
  BY <1>1, <1>6, <1>7, <1>8

\* ... it finds one unless all that wait have negative order counts.
LEMMA NoneReady ==
  ASSUME FramesOK(frames), Distinct(frames), ReadyFrames = {}
  PROVE  Waiting = {}
BY DEF FramesOK, IsFrame, Distinct, ReadyFrames, Waiting

\* A frame that is shown stays in the list and waits no more.
LEMMA ShownFacts ==
  ASSUME FramesOK(frames), NEW f \in Waiting
  PROVE  /\ FramesOK(Shown(f))
         /\ WaitingIn(Shown(f)) = Waiting \ {f}
         /\ Cardinality(WaitingIn(Shown(f))) = Cardinality(Waiting) - 1
         /\ \A g \in Shown(f) : \E h \in frames : g.truth = h.truth
         /\ Distinct(frames) => Distinct(Shown(f))
<1> DEFINE g == [f EXCEPT !.show = FALSE, !.buf = NoBuf]
<1>1. IsFrame(f) /\ f \in frames
  BY DEF FramesOK, Waiting
<1>2. g = [pkt |-> f.pkt, at |-> f.at, poc |-> f.poc, truth |-> f.truth, buf |-> NoBuf,
           referenced |-> f.referenced, show |-> FALSE]
  <2>1. f = [pkt |-> f.pkt, at |-> f.at, poc |-> f.poc, truth |-> f.truth, buf |-> f.buf,
             referenced |-> f.referenced, show |-> f.show]
    BY <1>1 DEF IsFrame
  <2>2. \A v : [f EXCEPT !.show = v] =
                 [pkt |-> f.pkt, at |-> f.at, poc |-> f.poc, truth |-> f.truth, buf |-> f.buf,
                  referenced |-> f.referenced, show |-> v]
    BY <2>1
  <2>3. PICK v, h : v = FALSE /\ h = [f EXCEPT !.show = v]
    OBVIOUS
  <2>4. h = [pkt |-> f.pkt, at |-> f.at, poc |-> f.poc, truth |-> f.truth, buf |-> f.buf,
             referenced |-> f.referenced, show |-> v]
    BY <2>2, <2>3, Zenon
  <2>5. [h EXCEPT !.buf = NoBuf] =
          [pkt |-> f.pkt, at |-> f.at, poc |-> f.poc, truth |-> f.truth, buf |-> NoBuf,
           referenced |-> f.referenced, show |-> v]
    BY <2>4
  <2>6. QED
    BY <2>3, <2>5, Zenon
<1>3. IsFrame(g) /\ g.poc = f.poc /\ g.truth = f.truth /\ ~g.show
  BY <1>1, <1>2 DEF IsFrame
<1>4. FramesOK(Shown(f))
  <2>1. IsFiniteSet(Shown(f))
    <3>1. IsFiniteSet(frames \ {f})
      BY FS_RemoveElement DEF FramesOK
    <3>2. IsFiniteSet((frames \ {f}) \cup {g})
      BY <3>1, FS_AddElement
    <3>3. QED
      BY <3>2 DEF Shown
  <2>2. \A h \in Shown(f) : IsFrame(h)
    BY <1>3 DEF Shown, FramesOK
  <2>3. QED
    BY <2>1, <2>2 DEF FramesOK
<1>5. WaitingIn(Shown(f)) = Waiting \ {f}
  BY <1>3 DEF WaitingIn, Waiting, Shown
<1>6. IsFiniteSet(Waiting)
  BY FS_Subset DEF FramesOK, Waiting
<1>7. Cardinality(Waiting \ {f}) = Cardinality(Waiting) - 1
  BY <1>6, FS_RemoveElement
<1>8. ASSUME NEW h \in Shown(f)
      PROVE  \E k \in frames : h.truth = k.truth
  <2>1. h \in frames \/ h.truth = f.truth
    BY <1>3 DEF Shown
  <2>2. QED
    BY <1>1, <2>1
<1>9. ASSUME Distinct(frames)
      PROVE  Distinct(Shown(f))
  BY <1>1, <1>3, <1>9 DEF Shown, Distinct
<1>10. QED
  BY <1>4, <1>5, <1>7, <1>8, <1>9, Zenon

-----------------------------------------------------------------------------
(* Order counts.                                                           *)

LEMMA Division ==
  ASSUME NEW x \in Int, NEW m \in Nat \ {0}
  PROVE  /\ x % m \in 0 .. (m - 1)
         /\ x \div m \in Int
         /\ x = m * (x \div m) + (x % m)
  OBVIOUS

\* A multiple of m that is less than two away from zero is one of three.
LEMMA Multiples ==
  ASSUME NEW m \in Nat \ {0}, NEW k \in Int, 0 - 2 * m < m * k, m * k < 2 * m
  PROVE  m * k \in {0 - m, 0, m}
<1>1. ASSUME k >= 2 PROVE FALSE
  <2>1. m * (k - 2) >= 0
    BY <1>1
  <2>2. m * (k - 2) = m * k - 2 * m
    OBVIOUS
  <2>3. QED
    BY <2>1, <2>2
<1>2. ASSUME k <= 0 - 2 PROVE FALSE
  <2>1. m * (0 - 2 - k) >= 0
    BY <1>2
  <2>2. m * (0 - 2 - k) = 0 - 2 * m - m * k
    OBVIOUS
  <2>3. QED
    BY <2>1, <2>2
<1>3. k = 0 - 1 \/ k = 0 \/ k = 1
  BY <1>1, <1>2
<1>4. QED
  BY <1>3

\* codec_hevc_update_pocs finds the order count that the stream means: the one
\* with the header's low bits that is nearest to the last one of layer 0.
LEMMA PocRight ==
  ASSUME NEW h, h.truth \in Int, h.lsb = h.truth % MaxLsb, h.idr \in BOOLEAN,
         h.idr => h.truth = 0, prevTid0 \in Int,
         ~h.idr => h.truth - prevTid0 \in 1 - MaxLsb \div 2 .. MaxLsb \div 2
  PROVE  PocOf(h) = h.truth
<1> DEFINE m == MaxLsb
           c == m \div 2
           a == prevTid0 % m
           b == h.truth % m
           q == prevTid0 \div m
           r == h.truth \div m
<1>1. m \in Nat \ {0} /\ c \in Nat /\ m = 2 * c /\ h.truth \in Int /\ prevTid0 \in Int
  BY HevcAssumption DEF HevcAssumption
<1>2. a \in 0 .. (m - 1) /\ q \in Int /\ prevTid0 = m * q + a
  BY <1>1, Division
<1>3. b \in 0 .. (m - 1) /\ r \in Int /\ h.truth = m * r + b
  BY <1>1, Division
<1>4. PocOf(h) = IF h.idr THEN 0
                 ELSE IF b < a /\ a - b >= c THEN prevTid0 - a + m + b
                 ELSE IF b > a /\ b - a > c THEN prevTid0 - a - m + b
                 ELSE prevTid0 - a + b
  BY DEF PocOf
<1> HIDE DEF a, b, c, m, q, r
<1>5. ASSUME ~h.idr
      PROVE  m * (r - q) \in {0 - m, 0, m} /\ h.truth - prevTid0 = m * (r - q) + b - a
  <2>1. h.truth - prevTid0 >= 1 - c /\ h.truth - prevTid0 <= c
    BY <1>1, <1>5 DEF c, m
  <2>2. m * (r - q) = m * r - m * q /\ r - q \in Int
    BY <1>1, <1>2, <1>3
  <2>3. m * (r - q) = h.truth - prevTid0 + a - b
    <3> DEFINE x == m * r
               y == m * q
    <3>1. x \in Int /\ y \in Int
      BY <1>1, <1>2, <1>3
    <3>2. prevTid0 = y + a /\ h.truth = x + b /\ m * (r - q) = x - y
      BY <1>2, <1>3, <2>2
    <3> HIDE DEF x, y
    <3>3. QED
      BY <1>2, <1>3, <3>1, <3>2
  <2>4. 0 - 2 * m < m * (r - q) /\ m * (r - q) < 2 * m
    <3> DEFINE z == m * (r - q)
    <3>1. z = h.truth - prevTid0 + a - b
      BY <2>3
    <3> HIDE DEF z
    <3>2. 0 - 2 * m < z /\ z < 2 * m
      BY <1>1, <1>2, <1>3, <2>1, <3>1
    <3>3. QED
      BY <3>2 DEF z
  <2>5. m * (r - q) \in {0 - m, 0, m}
    BY <1>1, <2>2, <2>4, Multiples
  <2>6. QED
    BY <1>1, <1>2, <1>3, <2>3, <2>5
<1>6. CASE h.idr
  BY <1>4, <1>6
<1>7. CASE ~h.idr
  <2> DEFINE z == m * (r - q)
  <2>1. z \in {0 - m, 0, m} /\ h.truth - prevTid0 = z + b - a
    BY <1>5, <1>7
  <2>2. h.truth - prevTid0 >= 1 - c /\ h.truth - prevTid0 <= c
    BY <1>1, <1>7 DEF c, m
  <2> HIDE DEF z
  <2>3. QED
    BY <1>1, <1>2, <1>3, <1>4, <1>7, <2>1, <2>2
<1>8. QED
  BY <1>6, <1>7

-----------------------------------------------------------------------------
LEMMA LockStep ==
  ASSUME IInv, Next
  PROVE  LockInv'
<1> USE DEF IInv, LockInv, LockFree, Unlocked, NoIoctl, m2mVars, drainVars, adapterVars, Queue,
            SessionInv, TypeInv, M2mTypeOK
<1>1. CASE Feed
  BY <1>1 DEF Feed, ReadFramesNum, ReadPending, WorkBegins, WorkStart, WorkEnds, Submit,
              AfterRemove, Ready, Removed, Written, RecordFailed, WriteFailed
<1>2. CASE Isr
  BY <1>2
     DEF Isr, PostHeader, HandleHeader, SourceChange, ProcessHeader, ShowFrame,
         PrepareFrame, AfterRemove, Ready, parserVars, feedVars, sessionVars
<1>3. CASE Call
  <2>1. CASE \E b \in Buf : QueueBuf(b)
    BY <2>1, BufOfFacts, BufAssumption DEF QueueBuf, UserQBuf, QBuf, feedVars
  <2>2. ASSUME NEW q \in Queue, NEW b \in BufOf(q), StreamOn(q, b)
        PROVE  LockInv'
    <3>1. /\ LockFree /\ work = "idle" /\ codec # "resume" /\ stream[q] = "idle"
          /\ stream' = [stream EXCEPT ![q] = "on"] /\ rdy' = [rdy EXCEPT ![q] = <<b>>]
          /\ UNCHANGED <<stop, work, cur>>
      BY <2>2 DEF StreamOn, StreamOnBuffer, StartSession, KeepSession, feedVars
    <3>2. LockFree'
      BY <3>1
    <3>3. QED
      BY <3>1, <3>2
  <2>3. CASE DrainFrame \/ AbortDrained \/ HevcStop \/ QueueDrained
    BY <2>3 DEF DrainFrame, Drained, Draining, AbortDrained, AbortDone, HevcStop, PowerOff,
       QueueDrained, DrainDone, parserVars, feedVars, sessionVars
  <2>4. QED
    BY <1>3, <2>1, <2>2, <2>3 DEF Call
<1>4. CASE Ioctl /\ UNCHANGED codecVars
  <2>1. CASE \E q \in Queue : StreamOff(q)
    BY <2>1 DEF StreamOff, feedVars, MarkStopped
  <2>2. CASE DecoderCmd \/ DeviceRun \/ Reconfigure
    BY <2>2 DEF DecoderCmd, DeviceRun, Reconfigure, CmdStop, CmdStart, AfterRemove, Ready,
                parserVars, feedVars
  <2>3. ASSUME NEW q \in Queue, StopStreaming(q) \/ Release(q)
        PROVE  LockInv'
    BY <2>3 DEF StopStreaming, Release, feedVars
  <2>4. QED
    BY <1>4, <2>1, <2>2, <2>3 DEF Ioctl
<1>5. QED
  BY <1>1, <1>2, <1>3, <1>4 DEF Next, Rest

-----------------------------------------------------------------------------
LEMMA SessionStep ==
  ASSUME IInv, Next
  PROVE  SessionInv'
<1> USE DEF IInv, SessionInv, Pending
<1>1. CASE Feed
  BY <1>1 DEF Feed, ReadFramesNum, ReadPending, WorkBegins, WorkStart, WorkEnds, Submit,
              Written, RecordFailed, WriteFailed, adapterVars, codecVars, frameVars, streamVars,
              sessionVars,
              m2mVars
<1>2. CASE Isr
  <2> USE DEF m2mVars, parserVars, sessionVars, adapterVars, frameVars, streamVars, codecVars
  <2>1. CASE PostHeader
    BY <2>1 DEF PostHeader
  <2>2. CASE HandleHeader
    BY <2>2 DEF HandleHeader, ProcessHeader, Referenced
  <2>3. CASE SourceChange
    <3>1. hw = "posted" /\ codec = "idle" /\ header.idr /\ UNCHANGED <<stop, starved, stream>>
      BY <2>3 DEF SourceChange, HeaderInv
    <3>2. \/ codec' = "show" /\ UNCHANGED <<hw, status, header>>
          \/ status' = "needs_resume" /\ hw' = "held" /\ UNCHANGED <<codec, header>>
      BY <2>3 DEF SourceChange, ProcessHeader
    <3>3. QED
      BY <3>1, <3>2
  <2>4. CASE ShowFrame
    BY <2>4 DEF ShowFrame, ShowsMore, ReadyFrames, Waiting
  <2>5. CASE PrepareFrame
    BY <2>5 DEF PrepareFrame, Cleaned
  <2>6. QED
    BY <1>2, <2>1, <2>2, <2>3, <2>4, <2>5 DEF Isr
<1>3. CASE Call
  <2> USE DEF m2mVars, parserVars, sessionVars, adapterVars, frameVars, streamVars, codecVars
  <2>1. CASE \E b \in Buf : QueueBuf(b)
    BY <2>1 DEF QueueBuf, UserQBuf, QBuf
  <2>2. ASSUME NEW q \in Queue, NEW b \in BufOf(q), StreamOn(q, b)
        PROVE  SessionInv'
    <3>1. stop = "none" /\ stop' = "none"
      BY <2>2 DEF StreamOn, StreamOnBuffer, NoIoctl, Unlocked, LockInv
    <3>2. \/ /\ status = "stopped" /\ status' = "init" /\ hw' = "run" /\ starved' = FALSE
             /\ UNCHANGED <<codec, header>>
          \/ /\ status = "needs_resume" /\ codec' = "resume"
             /\ UNCHANGED <<status, hw, header, starved>>
          \/ UNCHANGED <<status, codec, hw, codecVars>>
      BY <2>2 DEF StreamOn, StreamOnOutcome, StartSession, KeepSession, ProcessHeader
    <3>3. QED
      BY <3>1, <3>2
  <2>3. CASE DrainFrame
    BY <2>3 DEF DrainFrame, ReadyFrames, Waiting
  <2>4. CASE AbortDrained \/ QueueDrained
    BY <2>4 DEF AbortDrained, AbortDone, QueueDrained, DrainDone, Drained, Draining, Inactive
  <2>5. CASE HevcStop
    BY <2>5 DEF HevcStop, PowerOff, Drained, Draining, Inactive
  <2>6. QED
    BY <1>3, <2>1, <2>2, <2>3, <2>4, <2>5 DEF Call
<1>4. CASE Ioctl /\ UNCHANGED codecVars
  <2> USE DEF m2mVars, parserVars, sessionVars, adapterVars, frameVars, streamVars, codecVars
  <2>1. CASE \E q \in Queue : StreamOff(q)
    BY <1>4, <2>1 DEF StreamOff
  <2>2. CASE DecoderCmd \/ DeviceRun \/ Reconfigure
    <3>1. UNCHANGED <<status, adapterVars>> /\ (stream' = stream \/ stream'["dst"] = "idle")
      BY <2>2 DEF DecoderCmd, DeviceRun, Reconfigure, CmdStop, CmdStart, Queue
    <3>2. QED
      BY <1>4, <3>1
  <2>3. ASSUME NEW q \in Queue, StopStreaming(q) \/ Release(q)
        PROVE  SessionInv'
    BY <1>4, <2>3 DEF StopStreaming, Release, PowersOff, LockInv, LockFree, Queue, TypeInv,
                      M2mTypeOK
  <2>4. QED
    BY <1>4, <2>1, <2>2, <2>3 DEF Ioctl
<1>5. QED
  BY <1>1, <1>2, <1>3, <1>4 DEF Next, Rest
-----------------------------------------------------------------------------
\* When process_segment comes to prepare a frame, nothing of the list is in its way:
\* before an IDR picture the list is empty, and no frame has the new order count.
LEMMA CleanedFacts ==
  ASSUME IInv, codec # "idle", ~ShowsMore
  PROVE  /\ Pending
         /\ FramesOK(Cleaned) /\ WaitingIn(Cleaned) = Waiting /\ Cleaned \subseteq frames
         /\ ~led => /\ \A f \in Cleaned : f.truth # header.truth
                    /\ header.idr => Cleaned = {} /\ Waiting = {}
<1>1. Pending /\ currPoc = header.truth
  BY DEF IInv, SessionInv, HeaderInv, Pending
<1>2. FramesOK(frames)
  BY DEF IInv, FrameInv
<1>3. FramesOK(Cleaned)
  <2>1. IsFiniteSet(Cleaned)
    BY <1>2, FS_Subset DEF FramesOK, Cleaned
  <2>2. QED
    BY <1>2, <2>1 DEF FramesOK, Cleaned
<1>4. WaitingIn(Cleaned) = Waiting
  BY DEF WaitingIn, Waiting, Cleaned
<1>5. ASSUME header.idr, ~led
      PROVE  Cleaned = {} /\ Waiting = {}
  <2>1. currPoc = 0 /\ \A f \in frames : ~f.referenced
    BY <1>1, <1>5 DEF IInv, HeaderInv
  <2>2. ReadyFrames = {}
    BY <2>1 DEF ShowsMore
  <2>3. Waiting = {}
    BY <1>2, <1>5, <2>2 DEF ReadyFrames, FramesOK, IsFrame, Waiting, Distinct, IInv, FrameInv
  <2>4. QED
    BY <2>1, <2>3 DEF Cleaned, Waiting
<1>6. ~led => \A f \in Cleaned : f.truth # header.truth
  BY <1>1, <1>5 DEF IInv, HeaderInv, FrameInv, Cleaned
<1>7. Cleaned \subseteq frames
  BY DEF Cleaned
<1>8. QED
  BY <1>1, <1>3, <1>4, <1>5, <1>6, <1>7

\* ... and the picture gets a frame like no other.
LEMMA PreparedFacts ==
  ASSUME IInv, codec # "idle", ~ShowsMore, Ready("dst")
  PROVE  LET F == Cleaned \cup {NewFrame}
         IN  /\ FramesOK(F)
             /\ WaitingIn(F) = Waiting \cup {NewFrame}
             /\ Cardinality(WaitingIn(F)) = Cardinality(Waiting) + 1
             /\ NewFrame.truth = header.truth /\ NewFrame.buf = Head(rdy["dst"])
             /\ NewFrame.show /\ NewFrame \notin Waiting
             /\ ~led => Distinct(F)
<1> DEFINE F == Cleaned \cup {NewFrame}
           d == Head(rdy["dst"])
<1>1. /\ Pending
      /\ FramesOK(Cleaned) /\ WaitingIn(Cleaned) = Waiting /\ Cleaned \subseteq frames
      /\ ~led => \A f \in Cleaned : f.truth # header.truth
  BY CleanedFacts
<1>2. d \in DstBuf /\ d \notin Held
  <2>1. "dst" \in Queue /\ rdy["dst"] # << >>
    BY DEF Queue, Ready
  <2>2. Balanced(vb, rdy, {cur} \ {NoBuf}, Held, dropped \cup lost)
    BY DEF IInv, BufferInv
  <2>3. d \in BufOf("dst") /\ d \notin ({cur} \ {NoBuf}) \cup Held
    BY <2>1, <2>2, TakeKeepsBalance, BufAssumption, Zenon
  <2>4. QED
    BY <2>3 DEF BufOf
<1>3. currPoc = header.truth /\ header.truth \in Int /\ header.pkt \in Nat
      /\ (~led => header.truth \in Nat)
  BY <1>1 DEF IInv, HeaderInv
<1>4. NewFrame = [pkt |-> header.pkt, at |-> header.at, poc |-> currPoc, truth |-> header.truth,
                  buf |-> d, referenced |-> TRUE, show |-> TRUE]
  BY DEF NewFrame, Removed
<1>5. /\ IsFrame(NewFrame) /\ NewFrame.poc = header.truth /\ NewFrame.truth = header.truth
      /\ NewFrame.show /\ NewFrame.buf = d
  BY <1>2, <1>3, <1>4 DEF IsFrame
<1>6. FramesOK(F)
  <2>1. IsFiniteSet(F)
    BY <1>1, FS_AddElement DEF FramesOK
  <2>2. QED
    BY <1>1, <1>5, <2>1 DEF FramesOK
<1>7. ASSUME ~led
      PROVE  Distinct(F)
  <2>1. Distinct(frames)
    BY <1>7 DEF IInv, FrameInv
  <2>2. \A f \in Cleaned : f \in frames /\ f.poc # NewFrame.poc
    BY <1>1, <1>5, <1>7 DEF FramesOK, IsFrame
  <2>3. QED
    BY <1>3, <1>5, <1>7, <2>1, <2>2 DEF Distinct
<1>8. WaitingIn(F) = Waiting \cup {NewFrame} /\ NewFrame \notin Waiting
  <2>1. NewFrame \notin Waiting
    BY <1>2, <1>5 DEF Held
  <2>2. QED
    BY <1>1, <1>5, <2>1 DEF WaitingIn
<1>9. IsFiniteSet(Waiting)
  BY FS_Subset DEF IInv, FrameInv, FramesOK, Waiting
<1>10. Cardinality(WaitingIn(F)) = Cardinality(Waiting) + 1
  BY <1>8, <1>9, FS_AddElement
<1>11. QED
  BY <1>5, <1>6, <1>7, <1>8, <1>10

\* What a step does to the list of frames.
LEMMA ListEffects ==
  ASSUME IInv, Next
  PROVE  \/ UNCHANGED <<frames, framesNum, sent>>
         \/ /\ \E poc, rps : frames' = Referenced(poc, rps)
            /\ UNCHANGED <<framesNum, sent>>
         \/ /\ ReadyFrames # {} /\ frames' = Shown(NextReady)
            /\ framesNum' = framesNum - 1 /\ sent' = sent
         \/ PrepareFrame
         \/ /\ ReadyFrames = {} /\ frames' = {} /\ framesNum' \in {framesNum, 0}
            /\ sent' \in {sent, {}}
<1> USE DEF frameVars, codecVars, streamVars, parserVars, sessionVars, adapterVars
<1>1. CASE Feed
  BY <1>1 DEF Feed
<1>2. CASE Isr
  <2>1. CASE PostHeader
    BY <2>1 DEF PostHeader
  <2>2. CASE HandleHeader
    BY <2>2 DEF HandleHeader, ProcessHeader
  <2>3. CASE SourceChange
    BY <2>3 DEF SourceChange, ProcessHeader
  <2>4. CASE ShowFrame
    BY <2>4 DEF ShowFrame, ShowsMore
  <2>5. QED
    BY <1>2, <2>1, <2>2, <2>3, <2>4 DEF Isr
<1>3. CASE Call
  <2>1. CASE \E b \in Buf : QueueBuf(b)
    BY <2>1 DEF QueueBuf
  <2>2. ASSUME NEW q \in Queue, NEW b \in BufOf(q), StreamOn(q, b)
        PROVE  \/ UNCHANGED <<frames, framesNum, sent>>
               \/ /\ \E poc, rps : frames' = Referenced(poc, rps)
                  /\ UNCHANGED <<framesNum, sent>>
    BY <2>2 DEF StreamOn, ProcessHeader
  <2>3. CASE DrainFrame
    BY <2>3 DEF DrainFrame
  <2>4. CASE AbortDrained \/ HevcStop \/ QueueDrained
    BY <2>4 DEF AbortDrained, HevcStop, QueueDrained, Drained
  <2>5. QED
    BY <1>3, <2>1, <2>2, <2>3, <2>4 DEF Call
<1>4. CASE Ioctl /\ UNCHANGED codecVars
  BY <1>4
<1>5. QED
  BY <1>1, <1>2, <1>3, <1>4 DEF Next, Rest

\* A session starts over with nothing that a negative order count has disturbed.
LEMMA LedFacts ==
  ASSUME IInv, Next, led, ~led'
  PROVE  /\ frames = {} /\ framesNum = 0 /\ sent = {} /\ hw = "off"
         /\ UNCHANGED <<frames, framesNum, sent, anchor, prevTid0, currPoc, header, codec>>
         /\ ~Pending /\ ~Pending'
         /\ \E q \in Queue : \E b \in BufOf(q) :
              StreamOn(q, b) /\ StreamOnOutcome(q) = "starts" /\ StartSession /\ starved' = FALSE
<1> USE DEF codecVars, frameVars, streamVars
<1>1. ASSUME led' = led
      PROVE  FALSE
  BY <1>1
<1>2. ~Feed /\ ~Isr /\ ~Rest
  BY <1>1 DEF Feed, Isr, PostHeader, HandleHeader, SourceChange, ShowFrame, PrepareFrame, Rest
<1>3. PICK q \in Queue : \E b \in BufOf(q) : StreamOn(q, b)
  BY <1>1, <1>2 DEF Next, Call, QueueBuf, DrainFrame, AbortDrained, HevcStop, QueueDrained
<1>4. PICK b \in BufOf(q) : StreamOn(q, b)
  BY <1>3
<1>5. /\ StreamOnOutcome(q) = "starts" /\ StartSession /\ starved' = FALSE
      /\ UNCHANGED <<frameVars, header, streamVars>>
  BY <1>1, <1>4 DEF StreamOn
<1>6. status = "stopped" /\ status' = "init" /\ hw' = "run" /\ codec' = codec
  BY <1>5 DEF StreamOnOutcome, StartSession
<1>7. QED
  BY <1>4, <1>5, <1>6 DEF IInv, SessionInv, Pending

LEMMA FrameStep ==
  ASSUME IInv, Next
  PROVE  FrameInv'
<1>1. /\ FramesOK(frames) /\ framesNum \in Nat /\ framesNum >= Cardinality(Waiting)
      /\ \A f, g \in Waiting : f.buf = g.buf => f = g
  BY DEF IInv, FrameInv, BufferInv
<1>2. /\ Waiting' = WaitingIn(frames')
      /\ FrameInv' <=> /\ FramesOK(frames')
                       /\ framesNum' \in Nat /\ framesNum' >= Cardinality(Waiting')
                       /\ ~led' => /\ Distinct(frames') /\ \A f \in frames' : f.truth \in sent'
                                   /\ framesNum' = Cardinality(Waiting')
  BY DEF Waiting, WaitingIn, FrameInv, FramesOK, IsFrame, Distinct
<1>3. IsFiniteSet(Waiting) /\ Cardinality(Waiting) \in Nat
  BY <1>1, FS_Subset, FS_CardinalityType DEF FramesOK, Waiting
<1>4. ~led => /\ Distinct(frames) /\ \A f \in frames : f.truth \in sent
              /\ framesNum = Cardinality(Waiting)
  BY DEF IInv, FrameInv
<1>5. CASE led /\ ~led'
  <2>1. frames' = {} /\ framesNum' = 0
    BY <1>5, LedFacts
  <2>2. FramesOK({}) /\ WaitingIn({}) = {} /\ Cardinality({}) = 0 /\ Distinct({})
    BY FS_EmptySet DEF FramesOK, WaitingIn, Distinct
  <2>3. QED
    BY <1>2, <2>1, <2>2
<1> SUFFICES ASSUME ~led' => ~led PROVE FrameInv'
  BY <1>5
<1>6. CASE UNCHANGED <<frames, framesNum, sent>>
  BY <1>1, <1>2, <1>4, <1>6 DEF Waiting
<1>7. CASE (\E poc, rps : frames' = Referenced(poc, rps)) /\ UNCHANGED <<framesNum, sent>>
  <2>1. PICK poc, rps : frames' = Referenced(poc, rps)
    BY <1>7
  <2>2. /\ FramesOK(frames') /\ Cardinality(Waiting') = Cardinality(Waiting)
        /\ \A g \in frames' : \E f \in frames : g.truth = f.truth
        /\ Distinct(frames) => Distinct(frames')
    BY <1>1, <1>2, <2>1, ReferencedFacts DEF Alike
  <2>3. QED
    BY <1>1, <1>2, <1>4, <1>7, <2>2
<1>8. CASE /\ ReadyFrames # {} /\ frames' = Shown(NextReady)
           /\ framesNum' = framesNum - 1 /\ sent' = sent
  <2>1. NextReady \in Waiting
    BY <1>1, <1>8, NextReadyFacts
  <2>2. /\ FramesOK(frames') /\ Waiting' = Waiting \ {NextReady}
        /\ Cardinality(Waiting') = Cardinality(Waiting) - 1
        /\ \A g \in frames' : \E f \in frames : g.truth = f.truth
        /\ Distinct(frames) => Distinct(frames')
    BY <1>1, <1>2, <1>8, <2>1, ShownFacts
  <2>3. Cardinality(Waiting') \in Nat
    BY <1>3, <2>2, FS_RemoveElement, FS_CardinalityType
  <2>4. QED
    BY <1>1, <1>2, <1>3, <1>4, <1>8, <2>2, <2>3
<1>9. CASE PrepareFrame
  <2>1. codec # "idle" /\ ~ShowsMore
    BY <1>9 DEF PrepareFrame
  <2>2. CASE Ready("dst")
    <3>1. /\ frames' = Cleaned \cup {NewFrame} /\ framesNum' = framesNum + 1
          /\ sent' = (IF header.idr THEN {} ELSE sent) \cup {header.truth}
      BY <1>9, <2>2 DEF PrepareFrame
    <3>2. /\ FramesOK(frames') /\ Cardinality(Waiting') = Cardinality(Waiting) + 1
          /\ ~led => Distinct(frames')
      BY <1>2, <2>1, <2>2, <3>1, PreparedFacts
    <3>3. ~led => \A f \in frames' : f.truth \in sent'
      <4>1. /\ Cleaned \subseteq frames /\ NewFrame.truth = header.truth
            /\ ~led => (header.idr => Cleaned = {})
        BY <2>1, <2>2, CleanedFacts, PreparedFacts
      <4>2. QED
        BY <1>4, <3>1, <4>1
    <3>4. QED
      BY <1>1, <1>2, <1>3, <1>4, <3>1, <3>2, <3>3
  <2>3. CASE ~Ready("dst")
    <3>1. frames' = Cleaned /\ UNCHANGED <<framesNum, sent>>
      BY <1>9, <2>3 DEF PrepareFrame
    <3>2. FramesOK(Cleaned) /\ WaitingIn(Cleaned) = Waiting /\ Cleaned \subseteq frames
      BY <2>1, CleanedFacts
    <3>3. Distinct(frames) => Distinct(Cleaned)
      BY <3>2 DEF Distinct
    <3>4. QED
      BY <1>1, <1>2, <1>4, <3>1, <3>2, <3>3
  <2>4. QED
    BY <2>2, <2>3
<1>10. CASE /\ ReadyFrames = {} /\ frames' = {} /\ framesNum' \in {framesNum, 0}
            /\ sent' \in {sent, {}}
  <2>1. ~led => Waiting = {}
    BY <1>1, <1>4, <1>10, NoneReady
  <2>2. FramesOK({}) /\ WaitingIn({}) = {} /\ Cardinality({}) = 0 /\ Distinct({})
    BY FS_EmptySet DEF FramesOK, WaitingIn, Distinct
  <2>3. QED
    BY <1>1, <1>2, <1>4, <1>10, <2>1, <2>2
<1>11. QED
  BY <1>6, <1>7, <1>8, <1>9, <1>10, ListEffects
-----------------------------------------------------------------------------
\* codec_hevc_process_segment_header keeps the order counts in step.
LEMMA ProcessStep ==
  ASSUME IInv, Pending, codec = "idle", NEW thread \in {"show", "resume"}, ProcessHeader(thread),
         Pending', sent' = sent, anchor' = anchor, led' = led
  PROVE  HeaderInv'
<1>1. /\ header.truth \in Int /\ header.idr \in BOOLEAN /\ header.tid \in {0, 1}
      /\ header.lsb = header.truth % MaxLsb
      /\ header.idr => header.truth = 0 /\ header.rps = {}
      /\ anchor = IF header.tid = 0 THEN header.truth ELSE prevTid0
      /\ ~header.idr => header.truth - prevTid0 \in 1 - MaxLsb \div 2 .. MaxLsb \div 2
      /\ prevTid0 \in Int
  BY DEF IInv, HeaderInv
<1>2. currPoc' = header.truth
  BY <1>1, PocRight DEF ProcessHeader
<1>3. prevTid0' = anchor
  BY <1>1, <1>2 DEF ProcessHeader
<1>4. header.idr => \A f \in frames' : ~f.referenced
  <2>1. frames' = Referenced(currPoc', header.rps)
    BY DEF ProcessHeader
  <2>2. QED
    BY <1>1, <2>1, ReferencedFacts DEF IInv, FrameInv, BufferInv
<1>5. codec' # "idle" /\ header' = header
  BY DEF ProcessHeader
<1>6. QED
  BY <1>2, <1>3, <1>4, <1>5 DEF IInv, HeaderInv, Exceeding

LEMMA HeaderStep ==
  ASSUME IInv, Next
  PROVE  HeaderInv'
<1> USE DEF frameVars, codecVars, streamVars, adapterVars
<1>1. ASSUME UNCHANGED <<sent, anchor, prevTid0, header, currPoc, frames, codec>>, Pending' = Pending,
             ~led' => ~led \/ (sent = {} /\ ~Pending)
      PROVE  HeaderInv'
  BY <1>1 DEF IInv, HeaderInv, Exceeding, Pending
<1>2. CASE Feed
  BY <1>1, <1>2 DEF Feed, ReadFramesNum, ReadPending, WorkBegins, WorkStart, WorkEnds, Submit,
                    Written, RecordFailed, WriteFailed, sessionVars, Pending
<1>3. CASE PostHeader
  <2>1. ~Pending /\ codec = "idle"
    BY <1>3 DEF IInv, SessionInv, Pending, PostHeader
  <2>2. anchor = prevTid0
    BY <2>1 DEF IInv, HeaderInv
  <2>3. Head(vififo).pkt \in Nat
    BY <1>3 DEF IInv, TypeInv, PostHeader, Range
  <2>4. PICK truth \in Poc, idr \in BOOLEAN, resize \in BOOLEAN, tid \in {0, 1},
             refs \in SUBSET kept :
       /\ Conforming(truth, idr)
       /\ (~sized => resize) /\ (resize => idr)
       /\ Cardinality(refs) <= MaxRefs /\ (idr => refs = {})
       /\ (tid = 1 => ~idr /\ truth < anchor)
       /\ header' = [pkt |-> Head(vififo).pkt, at |-> EndOf(Head(vififo)) - 1,
                     truth |-> truth, idr |-> idr, resize |-> resize,
                     lsb |-> truth % MaxLsb, tid |-> tid, rps |-> {r - truth : r \in refs}]
       /\ kept' = IF tid = 0 THEN refs \cup {truth} ELSE refs
       /\ anchor' = IF tid = 0 THEN truth ELSE anchor
       /\ led' = (led \/ truth < 0)
    BY <1>3, Zenon DEF PostHeader
  <2>5. /\ header'.pkt \in Nat /\ header'.truth = truth /\ header'.idr = idr
        /\ header'.resize = resize /\ header'.lsb = truth % MaxLsb /\ header'.tid = tid
        /\ idr => header'.rps = {}
    BY <2>3, <2>4
  <2>6. truth \in Int /\ (~led' => ~led /\ truth \in Nat)
    <3>1. ~led' => ~led /\ ~(truth < 0)
      BY <2>4, Zenon
    <3>2. truth \in Int
      BY HevcAssumption DEF HevcAssumption
    <3>3. QED
      BY <3>1, <3>2
  <2>7. UNCHANGED <<sent, prevTid0, codec>>
    BY <1>3 DEF PostHeader
  <2>8. /\ idr => truth = 0
        /\ ~idr => /\ truth \notin sent /\ sent # {}
                   /\ Cardinality(Exceeding(truth)) <= Reorder
                   /\ truth - prevTid0 \in 1 - MaxLsb \div 2 .. MaxLsb \div 2
    BY <2>2, <2>4 DEF Conforming, Exceeding
  <2>9. Exceeding(header.truth)' = Exceeding(truth)
    BY <2>5, <2>7 DEF Exceeding
  <2>10. anchor' \in Int /\ anchor' = IF tid = 0 THEN truth ELSE prevTid0'
    BY <2>2, <2>4, <2>6, <2>7 DEF IInv, HeaderInv
  <2>11. /\ header'.pkt \in Nat /\ header'.truth \in Int /\ header'.idr \in BOOLEAN
         /\ header'.tid \in {0, 1} /\ header'.lsb = header'.truth % MaxLsb
         /\ header'.resize => header'.idr
         /\ header'.idr => header'.truth = 0 /\ header'.rps = {}
    BY <2>4, <2>5, <2>6, <2>8
  <2>12. ~header'.idr => /\ header'.truth \notin sent' /\ sent' # {}
                         /\ Cardinality(Exceeding(header.truth)') <= Reorder
                         /\ header'.truth - prevTid0' \in 1 - MaxLsb \div 2 .. MaxLsb \div 2
    BY <2>5, <2>7, <2>8, <2>9
  <2>13. anchor' = IF header'.tid = 0 THEN header'.truth ELSE prevTid0'
    BY <2>5, <2>10
  <2>14. Pending' /\ codec' = "idle"
    BY <1>3, <2>1, <2>7 DEF PostHeader, Pending
  <2>15. IsFiniteSet(sent') /\ sent' \subseteq Int /\ prevTid0' \in Int /\ (sent' # {} => 0 \in sent')
    BY <2>7 DEF IInv, HeaderInv
  <2>16. ~led' => sent' \subseteq Nat /\ header'.truth \in Nat
    BY <2>5, <2>6, <2>7 DEF IInv, HeaderInv
  <2>17. QED
    BY <2>16, <2>10, <2>11, <2>12, <2>13, <2>14, <2>15 DEF HeaderInv
<1>4. CASE HandleHeader
  <2>1. Pending /\ codec = "idle" /\ ProcessHeader("show") /\ UNCHANGED <<sent, anchor, led>>
    BY <1>4 DEF HandleHeader, Pending
  <2>2. Pending'
    BY <1>4 DEF HandleHeader, ProcessHeader, Pending
  <2>3. QED
    BY <2>1, <2>2, ProcessStep
<1>5. CASE SourceChange
  <2>1. Pending /\ codec = "idle" /\ UNCHANGED <<sent, anchor, led>>
    BY <1>5 DEF SourceChange, Pending
  <2>2. CASE ProcessHeader("show")
    <3>1. Pending'
      BY <1>5, <2>2 DEF SourceChange, ProcessHeader, Pending
    <3>2. QED
      BY <2>1, <2>2, <3>1, ProcessStep
  <2>3. CASE /\ status' = "needs_resume"
             /\ UNCHANGED <<frames, framesNum, currPoc, prevTid0, codec, header>>
    BY <1>1, <2>1, <2>3 DEF Pending
  <2>4. QED
    BY <1>5, <2>2, <2>3 DEF SourceChange
<1>6. CASE ShowFrame \/ DrainFrame
  <2>1. /\ UNCHANGED <<sent, anchor, prevTid0, header, currPoc, codec, hw, status, led>>
        /\ ReadyFrames # {} /\ frames' = Shown(NextReady)
    BY <1>6 DEF ShowFrame, ShowsMore, DrainFrame, sessionVars
  <2>2. NextReady \in frames /\ IsFrame(NextReady)
    BY <2>1, NextReadyFacts DEF IInv, FrameInv, FramesOK, Waiting
  <2>3. (\A f \in frames : ~f.referenced) => \A f \in frames' : ~f.referenced
    <3>1. [NextReady EXCEPT !.show = FALSE, !.buf = NoBuf].referenced = NextReady.referenced
      BY <2>2 DEF IsFrame
    <3>2. QED
      BY <2>1, <2>2, <3>1 DEF Shown
  <2>4. Pending' = Pending
    BY <2>1 DEF Pending
  <2>5. QED
    BY <2>1, <2>3, <2>4 DEF IInv, HeaderInv, Exceeding
<1>7. CASE PrepareFrame
  <2>1. /\ codec # "idle" /\ codec' = "idle" /\ UNCHANGED <<anchor, prevTid0, led>>
        /\ hw' \in {"run", "held"} /\ status' \in {status, "running"}
        /\ status' = IF codec = "resume" THEN "running" ELSE status
        /\ sent' \in {sent, (IF header.idr THEN {} ELSE sent) \cup {header.truth}}
    BY <1>7 DEF PrepareFrame
  <2>2. anchor = prevTid0 /\ Pending
    BY <2>1 DEF IInv, HeaderInv, SessionInv, Pending
  <2>3. ~Pending'
    BY <2>1 DEF IInv, SessionInv, Pending
  <2>4. /\ IsFiniteSet(sent') /\ sent' \subseteq Int /\ (sent' # {} => 0 \in sent')
        /\ ~led => sent' \subseteq Nat
    <3>1. /\ header.truth \in Int /\ (~led => header.truth \in Nat)
          /\ header.idr => header.truth = 0
          /\ ~header.idr => sent # {}
      BY <2>2 DEF IInv, HeaderInv
    <3>2. IsFiniteSet(sent \cup {header.truth}) /\ IsFiniteSet({} \cup {header.truth})
      BY FS_AddElement, FS_EmptySet DEF IInv, HeaderInv
    <3>3. QED
      BY <2>1, <3>1, <3>2 DEF IInv, HeaderInv
  <2>5. QED
    BY <2>1, <2>2, <2>3, <2>4 DEF IInv, HeaderInv
<1>8. CASE Call
  <2>1. CASE \E b \in Buf : QueueBuf(b)
    BY <1>1, <2>1 DEF QueueBuf, UserQBuf, sessionVars, Pending
  <2>2. ASSUME NEW q \in Queue, NEW b \in BufOf(q), StreamOn(q, b)
        PROVE  HeaderInv'
    <3>1. CASE StreamOnOutcome(q) = "starts" /\ StartSession /\ UNCHANGED <<frameVars, header, streamVars>>
      <4>1. Pending' = Pending
        BY <3>1 DEF StreamOnOutcome, StartSession, IInv, SessionInv, Pending
      <4>2. QED
        BY <1>1, <3>1, <4>1 DEF StartSession, StreamOnOutcome, IInv, SessionInv, Pending
    <3>2. CASE StreamOnOutcome(q) = "resumes" /\ KeepSession /\ ProcessHeader("resume")
               /\ UNCHANGED <<streamVars, led>>
      <4>1. Pending /\ Pending' /\ codec = "idle"
        BY <2>2, <3>2
           DEF StreamOn, StreamOnBuffer, NoIoctl, StreamOnOutcome, KeepSession, Pending,
               IInv, SessionInv
      <4>2. QED
        BY <3>2, <4>1, ProcessStep
    <3>3. CASE KeepSession /\ UNCHANGED <<codec, hw, codecVars>>
      BY <1>1, <3>3 DEF KeepSession, Pending
    <3>4. QED
      BY <2>2, <3>1, <3>2, <3>3 DEF StreamOn
  <2>3. CASE AbortDrained \/ QueueDrained
    <3>1. /\ UNCHANGED <<sent, anchor, prevTid0, header, currPoc, codec, hw, status, led>>
          /\ frames' = {}
      BY <2>3
         DEF AbortDrained, QueueDrained, AbortDone, DrainDone, Drained, parserVars, sessionVars
    <3>2. QED
      BY <3>1 DEF IInv, HeaderInv, Exceeding, Pending
  <2>4. CASE HevcStop
    <3>1. /\ sent' = {} /\ anchor' = 0 /\ prevTid0' = 0 /\ hw' = "off" /\ status' = "stopped"
          /\ codec' = codec /\ codec = "idle"
      BY <2>4 DEF HevcStop, PowerOff, Drained, Draining, Inactive
    <3>2. ~Pending' /\ IsFiniteSet({})
      BY <3>1, FS_EmptySet DEF Pending
    <3>3. QED
      BY <3>1, <3>2 DEF HeaderInv
  <2>5. QED
    BY <1>6, <1>8, <2>1, <2>2, <2>3, <2>4 DEF Call
<1>9. CASE Ioctl /\ UNCHANGED codecVars
  <2>1. UNCHANGED <<codec, hw, status>>
    BY <1>9 DEF Ioctl, StreamOff, DecoderCmd, DeviceRun, StopStreaming, Release, Reconfigure,
                sessionVars, parserVars
  <2>2. QED
    BY <1>1, <1>9, <2>1 DEF Pending
<1>10. QED
  BY <1>2, <1>3, <1>4, <1>5, <1>6, <1>7, <1>8, <1>9 DEF Next, Isr, Rest
-----------------------------------------------------------------------------
\* Steps that neither show a frame nor add a picture.
LEMMA OrderKept ==
  ASSUME IInv, ~led, sent' = sent, {f.truth : f \in Waiting'} = {f.truth : f \in Waiting},
         Over => Over' \/ sent = {}
  PROVE  OrderInv'
<1> DEFINE shown == sent \ {f.truth : f \in Waiting}
<1>1. shown' = shown /\ \A s \in sent : Exceeding(s)' = Exceeding(s)
  BY DEF Exceeding
<1>2. \A s \in shown : \A t \in {f.truth : f \in Waiting} : s < t
  BY DEF IInv, OrderInv
<1>3. \A s \in shown' : \A f \in Waiting' : s < f.truth
  <2>1. \A f \in Waiting' : f.truth \in {g.truth : g \in Waiting}
    OBVIOUS
  <2>2. QED
    BY <1>1, <1>2, <2>1
<1>4. Over' \/ \A s \in shown' : Cardinality(Exceeding(s)') >= Reorder
  BY <1>1 DEF IInv, OrderInv
<1>5. QED
  BY <1>3, <1>4 DEF OrderInv

\* A new header unreferences frames, and no more.
LEMMA SameTruths ==
  ASSUME IInv, NEW poc, NEW rps, frames' = Referenced(poc, rps)
  PROVE  {f.truth : f \in Waiting'} = {f.truth : f \in Waiting}
<1>1. /\ \A f \in frames : \E g \in frames' : Alike(f, g)
      /\ \A g \in frames' : \E f \in frames : Alike(f, g)
  BY ReferencedFacts DEF IInv, FrameInv, BufferInv
<1>2. QED
  BY <1>1 DEF Alike, Waiting

\* Whoever is shown is the first of those that wait; outside a flush, as many wait
\* behind it as may be decoded before a picture that is displayed before them.
LEMMA ShowOrder ==
  ASSUME IInv, ~led, ReadyFrames # {}, frames' = Shown(NextReady), sent' = sent,
         Over \/ framesNum > Reorder, Over => Over'
  PROVE  OrderInv'
<1> DEFINE n == NextReady
           waiting == {f.truth : f \in Waiting}
           shown == sent \ waiting
<1>1. /\ FramesOK(frames) /\ Distinct(frames) /\ (\A f \in frames : f.truth \in sent)
      /\ framesNum = Cardinality(Waiting)
  BY DEF IInv, FrameInv
<1>2. n \in Waiting /\ \A g \in Waiting : n.truth <= g.truth
  BY <1>1, NextReadyFacts
<1>3. Waiting' = Waiting \ {n} /\ Cardinality(Waiting \ {n}) = Cardinality(Waiting) - 1
  <2>1. WaitingIn(Shown(n)) = Waiting \ {n}
        /\ Cardinality(WaitingIn(Shown(n))) = Cardinality(Waiting) - 1
    BY <1>1, <1>2, ShownFacts
  <2>2. Waiting' = WaitingIn(frames')
    BY DEF Waiting, WaitingIn
  <2>3. QED
    BY <2>1, <2>2
<1> HIDE DEF n
<1>4. \A f \in Waiting : f.truth \in Nat /\ f.truth \in sent
                         /\ \A g \in Waiting : f.truth = g.truth => f = g
  BY <1>1 DEF FramesOK, IsFrame, Waiting, Distinct
<1>5. \A f \in Waiting \ {n} : n.truth < f.truth
  BY <1>2, <1>4
<1>6. \A s \in sent \ {f.truth : f \in Waiting'} : s \in shown \/ s = n.truth
  BY <1>2, <1>3
<1>7. \A s \in shown : \A f \in Waiting : s < f.truth
  BY DEF IInv, OrderInv
<1>8. \A s \in sent' \ {f.truth : f \in Waiting'} : \A f \in Waiting' : s < f.truth
  BY <1>3, <1>5, <1>6, <1>7
<1>9. ASSUME ~Over
      PROVE  Cardinality(Exceeding(n.truth)) >= Reorder
  <2> DEFINE W == Waiting \ {n}
             T == {f.truth : f \in W}
  <2>1. IsFiniteSet(W) /\ Cardinality(W) >= Reorder
    <3>1. IsFiniteSet(Waiting)
      BY <1>1, FS_Subset DEF FramesOK, Waiting
    <3>2. Cardinality(Waiting) > Reorder /\ Cardinality(Waiting) \in Nat /\ Reorder \in Nat
      BY <1>1, <1>9, <3>1, FS_CardinalityType, HevcAssumption DEF HevcAssumption
    <3>3. QED
      BY <1>3, <3>1, <3>2, FS_RemoveElement
  <2>2. Cardinality(T) = Cardinality(W)
    <3>1. [f \in W |-> f.truth] \in Bijection(W, T)
      BY <1>4 DEF Bijection, Injection, Surjection, IsInjective
    <3>2. QED
      BY <2>1, <3>1, FS_Bijection DEF ExistsBijection
  <2>3. T \subseteq Exceeding(n.truth)
    BY <1>4, <1>5 DEF Exceeding
  <2>4. IsFiniteSet(Exceeding(n.truth))
    BY FS_Subset DEF Exceeding, IInv, HeaderInv
  <2>5. Cardinality(T) <= Cardinality(Exceeding(n.truth)) /\ IsFiniteSet(T)
    BY <2>3, <2>4, FS_Subset
  <2>6. QED
    BY <2>1, <2>2, <2>4, <2>5, FS_CardinalityType, HevcAssumption DEF HevcAssumption
<1>10. \A s : Exceeding(s)' = Exceeding(s)
  BY DEF Exceeding
<1>11. Over' \/ \A s \in sent' \ {f.truth : f \in Waiting'} : Cardinality(Exceeding(s)') >= Reorder
  BY <1>6, <1>9, <1>10 DEF IInv, OrderInv
<1>12. QED
  BY <1>8, <1>11 DEF OrderInv

\* A new picture of the sequence is displayed after all that have been shown: a
\* conforming stream has no picture that more than Reorder others overtake.
LEMMA PrepareOrder ==
  ASSUME IInv, ~led, PrepareFrame, Ready("dst")
  PROVE  OrderInv'
<1> DEFINE t == header.truth
           waiting == {f.truth : f \in Waiting}
           shown == sent \ waiting
<1>1. /\ codec # "idle" /\ ~ShowsMore
      /\ frames' = Cleaned \cup {NewFrame}
      /\ sent' = (IF header.idr THEN {} ELSE sent) \cup {t}
  BY DEF PrepareFrame
<1>2. Pending /\ (header.idr => Waiting = {})
  BY <1>1, CleanedFacts
<1>3. Waiting' = Waiting \cup {NewFrame} /\ NewFrame.truth = t
  BY <1>1, PreparedFacts DEF Waiting, WaitingIn
<1>4. /\ t \in Nat /\ header.idr \in BOOLEAN /\ IsFiniteSet(sent) /\ sent \subseteq Nat
      /\ ~header.idr => t \notin sent /\ Cardinality(Exceeding(t)) <= Reorder
  BY <1>2 DEF IInv, HeaderInv
<1>5. CASE header.idr
  <2>1. sent' = {t} /\ Waiting' = {NewFrame}
    BY <1>1, <1>2, <1>3, <1>5
  <2>2. sent' \ {f.truth : f \in Waiting'} = {}
    BY <1>3, <2>1
  <2>3. QED
    BY <2>2 DEF OrderInv
<1>6. CASE ~header.idr
  <2>1. sent' = sent \cup {t} /\ {f.truth : f \in Waiting'} = waiting \cup {t}
    BY <1>1, <1>3, <1>6
  <2>2. sent' \ {f.truth : f \in Waiting'} = shown
    BY <1>4, <1>6, <2>1
  <2>3. ~Over
    BY <1>1, <1>6 DEF Over, IInv, SessionInv
  <2>4. \A s \in shown : Cardinality(Exceeding(s)) >= Reorder
    BY <2>3 DEF IInv, OrderInv
  <2>5. ASSUME NEW s \in shown
        PROVE  s < t
    <3>1. s \in Nat /\ s \in sent /\ s # t
      BY <1>4, <1>6
    <3>2. SUFFICES ASSUME t < s PROVE FALSE
      BY <1>4, <3>1
    <3>3. Exceeding(s) \cup {s} \subseteq Exceeding(t)
      <4>1. \A x \in sent : x > s => x > t
        BY <1>4, <3>1, <3>2
      <4>2. Exceeding(s) \subseteq Exceeding(t) /\ s \in Exceeding(t)
        BY <3>1, <3>2, <4>1 DEF Exceeding
      <4>3. QED
        BY <4>2
    <3>4. IsFiniteSet(Exceeding(s)) /\ IsFiniteSet(Exceeding(t)) /\ s \notin Exceeding(s)
      BY <1>4, <3>1, FS_Subset DEF Exceeding
    <3>5. Cardinality(Exceeding(s) \cup {s}) = Cardinality(Exceeding(s)) + 1
      BY <3>4, FS_AddElement
    <3>6. Cardinality(Exceeding(s) \cup {s}) <= Cardinality(Exceeding(t))
      BY <3>3, <3>4, FS_Subset
    <3>7. Cardinality(Exceeding(s)) \in Nat /\ Cardinality(Exceeding(t)) \in Nat /\ Reorder \in Nat
      BY <3>4, FS_CardinalityType, HevcAssumption DEF HevcAssumption
    <3>8. Cardinality(Exceeding(s)) >= Reorder /\ Cardinality(Exceeding(t)) <= Reorder
      BY <1>4, <1>6, <2>4
    <3>9. QED
      BY <3>5, <3>6, <3>7, <3>8
  <2>6. \A s \in shown : \A f \in Waiting' : s < f.truth
    BY <1>3, <2>5 DEF IInv, OrderInv
  <2>7. ASSUME NEW s \in shown
        PROVE  Cardinality(Exceeding(s)') >= Reorder
    <3>1. IsFiniteSet(Exceeding(s)') /\ Exceeding(s) \subseteq Exceeding(s)'
      <4>1. IsFiniteSet(sent')
        BY <1>4, <2>1, FS_AddElement
      <4>2. QED
        BY <2>1, <4>1, FS_Subset DEF Exceeding
    <3>2. Cardinality(Exceeding(s)) <= Cardinality(Exceeding(s)') /\ IsFiniteSet(Exceeding(s))
      BY <3>1, FS_Subset
    <3>3. QED
      BY <2>4, <3>1, <3>2, FS_CardinalityType, HevcAssumption DEF HevcAssumption
  <2>8. QED
    BY <2>2, <2>6, <2>7 DEF OrderInv
<1>7. QED
  BY <1>4, <1>5, <1>6
LEMMA OrderStep ==
  ASSUME IInv, Next
  PROVE  OrderInv'
<1> USE DEF frameVars, codecVars, streamVars, adapterVars
<1>10. CASE led
  <2>1. ~led' => sent' = {}
    BY <1>10, LedFacts
  <2>2. QED
    BY <2>1 DEF OrderInv
<1> SUFFICES ASSUME ~led PROVE OrderInv'
  BY <1>10
<1>1. ASSUME UNCHANGED <<frames, sent>>, Over => Over' \/ sent = {}
      PROVE  OrderInv'
  <2>1. Waiting' = Waiting
    BY <1>1 DEF Waiting
  <2>2. QED
    BY <1>1, <2>1, OrderKept
<1>2. CASE Feed
  <2>1. UNCHANGED <<frames, sent, hw, codec, header, stop>> /\ (vififo' = vififo \/ work = "write")
    BY <1>2 DEF Feed, ReadFramesNum, ReadPending, WorkBegins, WorkStart, WorkEnds, Submit,
                Written, RecordFailed, WriteFailed
  <2>2. work = "write" => stop = "none"
    BY DEF IInv, LockInv
  <2>3. QED
    BY <1>1, <2>1, <2>2 DEF Over
<1>3. CASE PostHeader
  <2>1. ~Over
    BY <1>3 DEF PostHeader, Over, IInv, SessionInv
  <2>2. QED
    BY <1>1, <1>3, <2>1 DEF PostHeader
<1>4. CASE HandleHeader \/ SourceChange
  <2>1. ~Over /\ sent' = sent
    BY <1>4 DEF HandleHeader, SourceChange, Over
  <2>2. frames' = frames \/ \E poc, rps : frames' = Referenced(poc, rps)
    BY <1>4 DEF HandleHeader, SourceChange, ProcessHeader
  <2>3. QED
    BY <1>1, <2>1, <2>2, SameTruths, OrderKept
<1>5. CASE ShowFrame
  <2>1. /\ ReadyFrames # {} /\ frames' = Shown(NextReady) /\ codec # "idle"
        /\ UNCHANGED <<sent, hw, codec, header>> /\ (currPoc = 0 \/ framesNum > Reorder)
    BY <1>5 DEF ShowFrame, ShowsMore
  <2>2. currPoc = 0 => header.idr
    BY <2>1 DEF IInv, HeaderInv, SessionInv, Pending
  <2>3. Over \/ framesNum > Reorder
    BY <2>1, <2>2 DEF Over
  <2>4. Over => Over'
    BY <2>1 DEF Over
  <2>5. QED
    BY <2>1, <2>3, <2>4, ShowOrder
<1>6. CASE PrepareFrame
  <2>1. CASE ~Ready("dst")
    <3>1. codec # "idle" /\ ~ShowsMore /\ frames' = Cleaned /\ sent' = sent /\ hw' = "held"
      BY <1>6, <2>1 DEF PrepareFrame
    <3>2. Waiting' = Waiting
      BY <3>1, CleanedFacts DEF Waiting, WaitingIn
    <3>3. QED
      BY <3>1, <3>2, OrderKept DEF Over
  <2>2. QED
    BY <1>6, <2>1, PrepareOrder
<1>7. CASE Call
  <2>1. CASE \E b \in Buf : QueueBuf(b)
    BY <1>1, <2>1 DEF QueueBuf, UserQBuf, feedVars, Over
  <2>2. ASSUME NEW q \in Queue, NEW b \in BufOf(q), StreamOn(q, b)
        PROVE  OrderInv'
    <3>1. stop = "none" /\ stop' = "none" /\ codec # "resume"
      BY <2>2 DEF StreamOn, StreamOnBuffer, NoIoctl, Unlocked, IInv, LockInv
    <3>2. CASE StreamOnOutcome(q) = "starts" /\ UNCHANGED <<frameVars, header, streamVars>>
      BY <1>1, <3>2 DEF StreamOnOutcome, IInv, SessionInv
    <3>3. CASE StreamOnOutcome(q) = "resumes" /\ KeepSession /\ ProcessHeader("resume")
               /\ UNCHANGED streamVars
      <4>1. Over /\ Over' /\ sent' = sent /\ frames' = Referenced(currPoc', header.rps)
        BY <3>3 DEF StreamOnOutcome, ProcessHeader, IInv, SessionInv, Over
      <4>2. QED
        BY <4>1, SameTruths, OrderKept
    <3>4. CASE KeepSession /\ UNCHANGED <<codec, hw, codecVars>>
      BY <1>1, <3>1, <3>4 DEF KeepSession, feedVars, Over
    <3>5. QED
      BY <2>2, <3>2, <3>3, <3>4 DEF StreamOn
  <2>3. CASE DrainFrame
    <3>1. /\ ReadyFrames # {} /\ frames' = Shown(NextReady) /\ Draining
          /\ UNCHANGED <<sent, hw, codec, header, stop, vififo>>
      BY <2>3 DEF DrainFrame, feedVars
    <3>2. hw # "off"
      BY <3>1 DEF IInv, SessionInv, ReadyFrames, Waiting
    <3>3. Over /\ Over'
      BY <3>1, <3>2 DEF Draining, Inactive, Over, IInv, SessionInv
    <3>4. QED
      BY <3>1, <3>3, ShowOrder
  <2>4. CASE AbortDrained \/ QueueDrained
    <3>1. /\ ReadyFrames = {} /\ frames' = {} /\ Draining /\ UNCHANGED <<sent, hw, codec, header, vififo>>
          /\ \/ stop = "abort" /\ stop' = "stop"
             \/ stop = "drain" /\ stop' = "release"
      BY <2>4
         DEF AbortDrained, QueueDrained, AbortDone, DrainDone, Drained, parserVars, feedVars
    <3>2. Waiting = {} /\ Waiting' = {}
      BY <3>1, NoneReady DEF IInv, FrameInv, Waiting
    <3>3. Over => Over' \/ sent = {}
      BY <3>1 DEF Over, IInv, SessionInv
    <3>4. QED
      BY <3>1, <3>2, <3>3, OrderKept
  <2>5. CASE HevcStop
    BY <2>5 DEF HevcStop, OrderInv
  <2>6. QED
    BY <1>7, <2>1, <2>2, <2>3, <2>4, <2>5 DEF Call
<1>8. CASE Ioctl /\ UNCHANGED codecVars
  <2>1. CASE \E q \in Queue : StreamOff(q)
    BY <1>1, <1>8, <2>1 DEF StreamOff, NoIoctl, Unlocked, IInv, LockInv, feedVars, Over
  <2>2. CASE DecoderCmd \/ DeviceRun \/ Reconfigure
    BY <1>1, <1>8, <2>2 DEF DecoderCmd, DeviceRun, Reconfigure, feedVars, parserVars, Over
  <2>3. ASSUME NEW q \in Queue, StopStreaming(q)
        PROVE  OrderInv'
    <3>1. hw = "run" => PowersOff
      BY DEF PowersOff, IInv, SessionInv
    <3>2. QED
      BY <1>1, <1>8, <2>3, <3>1 DEF StopStreaming, feedVars, Over
  <2>4. ASSUME NEW q \in Queue, Release(q)
        PROVE  OrderInv'
    BY <1>1, <1>8, <2>4 DEF Release, feedVars, Over, IInv, SessionInv
  <2>5. QED
    BY <1>8, <2>1, <2>2, <2>3, <2>4 DEF Ioctl
<1>9. QED
  BY <1>2, <1>3, <1>4, <1>5, <1>6, <1>7, <1>8 DEF Next, Isr, Rest
-----------------------------------------------------------------------------
\* Steps after which the frames hold the buffers they held.
LEMMA HeldKept ==
  ASSUME IInv,
         \/ frames' = frames
         \/ \E poc, rps : frames' = Referenced(poc, rps)
         \/ codec # "idle" /\ ~ShowsMore /\ frames' = Cleaned
  PROVE  Held' = Held /\ \A f, g \in Waiting' : f.buf = g.buf => f = g
<1>1. CASE frames' = frames
  BY <1>1 DEF Held, Waiting, IInv, BufferInv
<1>2. CASE \E poc, rps : frames' = Referenced(poc, rps)
  <2>1. PICK poc, rps : frames' = Referenced(poc, rps)
    BY <1>2
  <2>2. /\ \A f \in frames : \E g \in frames' : Alike(f, g)
        /\ \A g \in frames' : \E f \in frames : Alike(f, g)
        /\ \A f, g \in WaitingIn(frames') : f.buf = g.buf => f = g
    BY <2>1, ReferencedFacts DEF IInv, FrameInv, BufferInv
  <2>3. Held' = Held
    BY <2>2 DEF Alike, Held, Waiting
  <2>4. QED
    BY <2>2, <2>3 DEF Waiting, WaitingIn
<1>3. CASE codec # "idle" /\ ~ShowsMore /\ frames' = Cleaned
  <2>1. Waiting' = Waiting
    BY <1>3, CleanedFacts DEF Waiting, WaitingIn
  <2>2. QED
    BY <2>1 DEF Held, IInv, BufferInv
<1>4. QED
  BY <1>1, <1>2, <1>3

\* Steps that move no buffer.
LEMMA BuffersKept ==
  ASSUME IInv, UNCHANGED <<vb, rdy, cur, dropped, lost>>,
         \/ frames' = frames
         \/ \E poc, rps : frames' = Referenced(poc, rps)
         \/ codec # "idle" /\ ~ShowsMore /\ frames' = Cleaned
  PROVE  BufferInv'
BY HeldKept DEF IInv, BufferInv

\* A drain loses the buffers of the frames that still wait.
LEMMA DrainLoses ==
  ASSUME IInv, UNCHANGED <<vb, rdy, cur, dropped>>, Drained
  PROVE  BufferInv'
<1>1. Waiting' = {} /\ Held' = {}
  BY DEF Drained, Waiting, Held
<1>2. lost' = lost \cup Held
  BY DEF Drained, Held
<1>3. Balanced(vb, rdy, {cur} \ {NoBuf}, Held, dropped \cup lost)
  BY DEF IInv, BufferInv
<1>4. Balanced(vb, rdy, {cur} \ {NoBuf}, {}, (dropped \cup lost) \cup Held)
  <2>1. Held \cap ({cur} \ {NoBuf}) = {}
    BY <1>3, BufAssumption DEF Balanced, BufAssumption
  <2>2. QED
    BY <1>3, <2>1 DEF Balanced
<1>5. (dropped \cup lost) \cup Held = dropped \cup lost'
  BY <1>2
<1>6. QED
  BY <1>1, <1>4, <1>5 DEF BufferInv

\* A frame that is shown gives its buffer back.
LEMMA ShowReturns ==
  ASSUME IInv, ReadyFrames # {}, frames' = Shown(NextReady), UNCHANGED <<rdy, cur, dropped, lost>>,
         NEW state \in VbState \ {"active"}, vb' = BufDone(vb, NextReady.buf, state)
  PROVE  BufferInv'
<1> DEFINE n == NextReady
           gone == dropped \cup lost
<1>1. FramesOK(frames) /\ n \in Waiting
  BY NextReadyFacts DEF IInv, FrameInv
<1>2. Waiting' = Waiting \ {n}
  <2>1. WaitingIn(Shown(n)) = Waiting \ {n}
    BY <1>1, ShownFacts
  <2>2. QED
    BY <2>1 DEF Waiting, WaitingIn
<1> HIDE DEF n
<1>3. n.buf \in DstBuf /\ n.buf \in Held /\ n.buf # NoBuf
  BY <1>1, BufAssumption DEF FramesOK, IsFrame, Waiting, Held, BufAssumption
<1>4. Held' = Held \ {n.buf} /\ \A f, g \in Waiting' : f.buf = g.buf => f = g
  BY <1>1, <1>2 DEF Held, IInv, BufferInv
<1>5. vb' = [vb EXCEPT ![n.buf] = state]
  BY <1>3 DEF BufDone, n
<1>6. n.buf \notin {cur} \ {NoBuf}
  BY <1>3, BufAssumption DEF BufAssumption, IInv, TypeInv
<1>7. Balanced(vb', rdy, ({cur} \ {NoBuf}) \ {n.buf}, Held \ {n.buf}, gone)
  <2>1. Balanced(vb, rdy, {cur} \ {NoBuf}, Held, gone) /\ n.buf \in ({cur} \ {NoBuf}) \cup Held
    BY <1>3 DEF IInv, BufferInv
  <2> HIDE DEF gone
  <2>2. Balanced([vb EXCEPT ![n.buf] = state], rdy, ({cur} \ {NoBuf}) \ {n.buf}, Held \ {n.buf}, gone)
    BY <2>1, DoneKeepsBalance, BufAssumption
  <2>3. QED
    BY <1>5, <2>2
<1>8. ({cur} \ {NoBuf}) \ {n.buf} = {cur} \ {NoBuf}
  BY <1>6
<1>9. QED
  BY <1>4, <1>7, <1>8 DEF BufferInv

LEMMA BufferStep ==
  ASSUME IInv, Next
  PROVE  BufferInv'
<1> USE BufAssumption
<1> DEFINE writing == {cur} \ {NoBuf}
           gone == dropped \cup lost
<1>1. Balanced(vb, rdy, writing, Held, gone)
  BY DEF IInv, BufferInv
<1>2. ASSUME UNCHANGED frames
      PROVE  /\ Held' = Held
             /\ BufferInv' <=> Balanced(vb', rdy', {cur'} \ {NoBuf}, Held, dropped' \cup lost')
  <2>1. Waiting' = Waiting
    BY <1>2 DEF Waiting
  <2>2. QED
    BY <2>1 DEF Held, IInv, BufferInv
<1>3. {"done", "error"} \subseteq VbState \ {"active"} /\ "src" \in Queue /\ "dst" \in Queue
  BY DEF VbState, Queue
<1>4. CASE Feed
  <2> USE DEF codecVars, frameVars
  <2>1. CASE ReadFramesNum \/ WorkBegins \/ WorkEnds
    BY <1>4, <2>1, BuffersKept
       DEF Feed, ReadFramesNum, ReadPending, WorkBegins, WorkStart, WorkEnds, m2mVars
  <2>2. CASE Submit(framesNum + Reserve)
    <3>1. work = "admit" => Ready("src") \/ cur' = NoBuf
      BY <2>2 DEF Submit, Removed
    <3>2. cur = NoBuf
      BY <2>2 DEF Submit, IInv, LockInv
    <3>3. CASE Ready("src")
      <4>1. /\ cur' = Head(rdy["src"]) /\ rdy' = [rdy EXCEPT !["src"] = Tail(@)]
            /\ UNCHANGED <<vb, dropped, lost>>
        BY <1>4, <2>2, <3>3 DEF Feed, Submit, Removed, AfterRemove
      <4>2. /\ Balanced(vb, rdy', writing \cup {cur'}, Held, gone)
            /\ cur' \in BufOf("src")
        BY <1>1, <1>3, <3>3, <4>1, TakeKeepsBalance DEF Ready
      <4>3. writing \cup {cur'} = {cur'} \ {NoBuf}
        BY <3>2, <4>2 DEF BufOf, BufAssumption
      <4>4. QED
        BY <1>2, <1>4, <4>1, <4>2, <4>3 DEF Feed
    <3>4. CASE ~Ready("src")
      <4>1. cur' = cur /\ UNCHANGED <<vb, rdy, dropped>>
        BY <2>2, <3>2, <3>4 DEF Submit, Removed, AfterRemove
      <4>2. QED
        BY <1>4, <4>1, BuffersKept DEF Feed
    <3>5. QED
      BY <3>3, <3>4
  <2>3. CASE Written \/ WriteFailed
    <3>1. /\ \E state \in {"done", "error"} : vb' = BufDone(vb, cur, state)
          /\ cur' = NoBuf /\ UNCHANGED <<rdy, dropped>>
      BY <2>3 DEF Written, WriteFailed
    <3>2. CASE cur = NoBuf
      BY <1>4, <3>1, <3>2, BuffersKept DEF Feed, BufDone
    <3>3. CASE cur # NoBuf
      <4>1. PICK state \in VbState \ {"active"} : vb' = [vb EXCEPT ![cur] = state]
        BY <1>3, <3>1, <3>3 DEF BufDone
      <4>2. Balanced(vb', rdy, writing \ {cur}, Held \ {cur}, gone)
        BY <1>1, <3>3, <4>1, DoneKeepsBalance
      <4>3. writing \ {cur} = {cur'} \ {NoBuf} /\ Held \ {cur} = Held
        BY <1>1, <3>1, <3>3 DEF Balanced, BufAssumption
      <4>4. QED
        BY <1>2, <1>4, <3>1, <4>2, <4>3 DEF Feed
    <3>4. QED
      BY <3>2, <3>3
  <2>4. CASE RecordFailed
    <3>1. UNCHANGED <<cur, dropped, lost>>
      BY <1>4, <2>4 DEF Feed, RecordFailed
    <3>2. CASE Ready("src")
      <4>1. /\ vb' = BufDone(vb, Head(rdy["src"]), "error")
            /\ rdy' = [rdy EXCEPT !["src"] = Tail(@)] /\ rdy["src"] # << >>
        BY <2>4, <3>2 DEF RecordFailed, Removed, AfterRemove, Ready
      <4>2. /\ Head(rdy["src"]) \in BufOf("src")
            /\ Balanced([vb EXCEPT ![Head(rdy["src"])] = "error"], rdy', writing, Held, gone)
        BY <1>1, <1>3, <4>1, TakeKeepsBalance
      <4>3. vb' = [vb EXCEPT ![Head(rdy["src"])] = "error"]
        BY <4>1, <4>2 DEF BufDone, BufOf, BufAssumption
      <4>4. QED
        BY <1>2, <1>4, <3>1, <4>2, <4>3 DEF Feed
    <3>3. CASE ~Ready("src")
      <4>1. UNCHANGED <<vb, rdy>>
        BY <2>4, <3>3 DEF RecordFailed, Removed, AfterRemove, BufDone
      <4>2. QED
        BY <1>4, <3>1, <4>1, BuffersKept DEF Feed
    <3>4. QED
      BY <3>2, <3>3
  <2>5. QED
    BY <1>4, <2>1, <2>2, <2>3, <2>4 DEF Feed
<1>5. CASE Isr
  <2>1. CASE PostHeader \/ HandleHeader \/ SourceChange
    <3>1. UNCHANGED <<vb, rdy, cur, dropped, lost>>
      BY <2>1
         DEF PostHeader, HandleHeader, SourceChange, m2mVars, parserVars, feedVars,
             ProcessHeader
    <3>2. frames' = frames \/ \E poc, rps : frames' = Referenced(poc, rps)
      BY <2>1 DEF PostHeader, HandleHeader, SourceChange, ProcessHeader, frameVars
    <3>3. QED
      BY <3>1, <3>2, BuffersKept
  <2>2. CASE ShowFrame
    BY <1>3, <2>2, ShowReturns DEF ShowFrame, ShowsMore, feedVars
  <2>3. CASE PrepareFrame
    <3>1. codec # "idle" /\ ~ShowsMore /\ UNCHANGED <<vb, cur, dropped, lost>>
      BY <2>3 DEF PrepareFrame, feedVars
    <3>2. CASE ~Ready("dst")
      BY <2>3, <3>1, <3>2, BuffersKept DEF PrepareFrame
    <3>3. CASE Ready("dst")
      <4>1. rdy' = [rdy EXCEPT !["dst"] = Tail(@)] /\ frames' = Cleaned \cup {NewFrame}
        BY <2>3, <3>3 DEF PrepareFrame, AfterRemove
      <4>2. /\ Waiting' = Waiting \cup {NewFrame} /\ NewFrame.buf = Head(rdy["dst"])
            /\ NewFrame \notin Waiting
        BY <3>1, <3>3, <4>1, PreparedFacts DEF Waiting, WaitingIn
      <4>3. /\ Balanced(vb, rdy', writing, Held \cup {Head(rdy["dst"])}, gone)
            /\ Head(rdy["dst"]) \notin Held
        BY <1>1, <1>3, <3>3, <4>1, TakeKeepsBalance DEF Ready
      <4>4. Held' = Held \cup {Head(rdy["dst"])}
        BY <4>2 DEF Held
      <4>5. \A f, g \in Waiting' : f.buf = g.buf => f = g
        BY <4>2, <4>3 DEF Held, IInv, BufferInv
      <4>6. QED
        BY <3>1, <4>3, <4>4, <4>5 DEF BufferInv
    <3>4. QED
      BY <3>2, <3>3
  <2>4. QED
    BY <1>5, <2>1, <2>2, <2>3 DEF Isr
<1>6. CASE Call
  <2>1. ASSUME NEW b \in Buf, QueueBuf(b)
        PROVE  BufferInv'
    <3>1. /\ vb[b] # "active" /\ vb' = [vb EXCEPT ![b] = "active"] /\ UNCHANGED <<cur, frames, lost>>
          /\ \/ dropped' = dropped \cup {b} /\ UNCHANGED rdy
             \/ rdy' = [rdy EXCEPT ![QueueOf(b)] = Append(@, b)] /\ UNCHANGED dropped
      BY <2>1 DEF QueueBuf, UserQBuf, QBuf, feedVars, codecVars, frameVars
    <3>2. Balanced(vb', rdy', writing, Held, dropped' \cup lost')
      <4>1. /\ Balanced([vb EXCEPT ![b] = "active"], [rdy EXCEPT ![QueueOf(b)] = Append(@, b)],
                        writing, Held, gone)
            /\ Balanced([vb EXCEPT ![b] = "active"], rdy, writing, Held, gone \cup {b})
        BY <1>1, <3>1, QueueKeepsBalance
      <4>2. gone \cup {b} = (dropped \cup {b}) \cup lost
        OBVIOUS
      <4>3. QED
        BY <3>1, <4>1, <4>2
    <3>3. QED
      BY <1>2, <3>1, <3>2
  <2>2. ASSUME NEW q \in Queue, NEW b \in BufOf(q), StreamOn(q, b)
        PROVE  BufferInv'
    <3>1. /\ QueueOf(b) = q /\ vb[b] # "active" /\ stream[q] = "idle"
          /\ vb' = [vb EXCEPT ![b] = "active"] /\ rdy' = [rdy EXCEPT ![q] = <<b>>]
          /\ UNCHANGED <<dropped, lost>>
      BY <2>2 DEF StreamOn, StreamOnBuffer
    <3>2. rdy[q] = << >> /\ b \in Buf
      BY <3>1 DEF IInv, LockInv, BufOf, Buf
    <3>3. [rdy EXCEPT ![q] = <<b>>] = [rdy EXCEPT ![QueueOf(b)] = Append(@, b)]
      BY <3>1, <3>2
    <3>4. Balanced(vb', rdy', writing, Held, gone)
      BY <1>1, <3>1, <3>2, <3>3, QueueKeepsBalance
    <3>5. cur' = cur /\ (frames' = frames \/ \E poc, rps : frames' = Referenced(poc, rps))
      BY <2>2
         DEF StreamOn, StartSession, KeepSession, ProcessHeader, feedVars, codecVars,
             frameVars
    <3>6. Held' = Held /\ \A f, g \in Waiting' : f.buf = g.buf => f = g
      BY <3>5, HeldKept
    <3>7. QED
      BY <3>1, <3>4, <3>5, <3>6 DEF BufferInv
  <2>3. CASE DrainFrame
    <3>1. (IF timestamps = << >> THEN "error" ELSE "done") \in VbState \ {"active"}
      BY <1>3
    <3>2. QED
      BY <2>3, <3>1, ShowReturns DEF DrainFrame, feedVars
  <2>4. CASE AbortDrained \/ QueueDrained \/ HevcStop
    BY <2>4, DrainLoses
       DEF AbortDrained, AbortDone, QueueDrained, DrainDone, HevcStop, PowerOff, parserVars,
           feedVars, m2mVars
  <2>5. QED
    BY <1>6, <2>1, <2>2, <2>3, <2>4 DEF Call
<1>7. CASE Rest
  <2>1. UNCHANGED frames /\ Ioctl /\ lost' = {b \in lost : vb'[b] = "active"}
    BY <1>7 DEF Rest, codecVars, frameVars
  <2>2. \A b \in lost : b \in Buf /\ vb[b] = "active"
    BY <1>1 DEF Balanced, ActiveIn
  <2>3. vb' = vb => lost' = lost
    BY <2>1, <2>2
  <2>4. CASE CmdStop /\ cur' = cur
    <3>1. /\ dropped' = dropped
          /\ \/ UNCHANGED <<vb, rdy>>
             \/ /\ rdy["dst"] # << >>
                /\ vb' = BufDone(vb, Head(rdy["dst"]), "done")
                /\ rdy' = [rdy EXCEPT !["dst"] = Tail(@)]
      BY <2>4 DEF CmdStop, Removed, AfterRemove, Ready, BufDone
    <3>2. CASE rdy["dst"] # << >> /\ vb' = BufDone(vb, Head(rdy["dst"]), "done")
               /\ rdy' = [rdy EXCEPT !["dst"] = Tail(@)]
      <4> DEFINE h == Head(rdy["dst"])
      <4>1. /\ h \in BufOf("dst")
            /\ Balanced([vb EXCEPT ![h] = "done"], rdy', writing, Held, gone)
        BY <1>1, <1>3, <3>2, TakeKeepsBalance
      <4>2. vb' = [vb EXCEPT ![h] = "done"]
        BY <3>2, <4>1 DEF BufDone, BufOf, BufAssumption
      <4>3. lost' = lost
        <5>1. h \notin lost
          <6>1. QueuesOK(rdy) /\ gone \cap Queued(rdy) = {}
            BY <1>1 DEF Balanced
          <6>2. h \in Queued(rdy)
            BY <1>3, <3>2, <6>1, TakeFacts, BufAssumption
          <6>3. QED
            BY <6>1, <6>2
        <5> HIDE DEF h
        <5>2. \A b \in lost : vb'[b] = vb[b]
          BY <1>1, <2>2, <4>2, <5>1 DEF Balanced
        <5>3. QED
          BY <2>1, <2>2, <5>2
      <4>4. QED
        BY <1>2, <2>1, <2>4, <3>1, <4>1, <4>2, <4>3
    <3>3. QED
      BY <2>1, <2>3, <2>4, <3>1, <3>2, BuffersKept
  <2>5. ASSUME NEW q \in Queue, Release(q)
        PROVE  BufferInv'
    <3>1. /\ stop = "release" /\ stream[q] = "cancel"
          /\ vb' = [b \in Buf |-> IF QueueOf(b) = q /\ vb[b] = "active" THEN "error" ELSE vb[b]]
          /\ rdy' = [rdy EXCEPT ![q] = << >>]
          /\ dropped' = {b \in dropped : QueueOf(b) # q}
          /\ cur' = cur
      BY <2>5 DEF Release, feedVars
    <3>2. cur = NoBuf
      BY <3>1 DEF IInv, LockInv, LockFree
    <3>3. q = "dst" => Held = {}
      BY <3>1 DEF IInv, SessionInv, Held, Waiting
    <3>4. dropped' \cup lost' = {b \in gone : QueueOf(b) # q}
      <4>1. \A b \in lost : vb'[b] = "active" <=> QueueOf(b) # q
        BY <2>2, <3>1
      <4>2. QED
        BY <2>1, <3>1, <4>1
    <3>5. /\ q = "src" => Balanced(vb', rdy', {}, Held, dropped' \cup lost')
          /\ q = "dst" => Balanced(vb', rdy', writing, {}, dropped' \cup lost')
      <4> DEFINE l == dropped' \cup lost'
      <4>1. l = {b \in gone : QueueOf(b) # q}
        BY <3>4
      <4> HIDE DEF l, gone, writing
      <4>2. /\ q = "src" => Balanced(vb', rdy', {}, Held, l)
            /\ q = "dst" => Balanced(vb', rdy', writing, {}, l)
        BY <1>1, <3>1, <4>1, ForceKeepsBalance
      <4>3. QED
        BY <4>2 DEF l
    <3>6. writing = {} /\ {cur'} \ {NoBuf} = {}
      BY <3>1, <3>2
    <3>7. QED
      BY <1>2, <2>1, <3>3, <3>5, <3>6 DEF Queue
  <2>6. CASE UNCHANGED <<vb, rdy, cur, dropped>>
    BY <2>1, <2>3, <2>6, BuffersKept
  <2>7. QED
    BY <2>1, <2>4, <2>5, <2>6
       DEF Ioctl, StreamOff, DecoderCmd, CmdStart, DeviceRun, StopStreaming, Reconfigure,
           m2mVars, parserVars, feedVars
<1>8. QED
  BY <1>4, <1>5, <1>6, <1>7 DEF Next
-----------------------------------------------------------------------------
LEMMA TypeStep ==
  ASSUME IInv, Next, BufferInv'
  PROVE  TypeInv'
<1>1. vb' \in [Buf -> VbState] /\ QueuesTyped(rdy')
  BY DEF BufferInv, Balanced, QueuesOK
<1>2. ASSUME job' \in {"none", "running"}, hasStopped' \in BOOLEAN, isDraining' \in BOOLEAN,
             aborted' \in BOOLEAN, dropped' \in SUBSET Buf,
             stream' \in [Queue -> {"idle", "on", "cancel", "off"}]
      PROVE  M2mTypeOK'
  BY <1>1, <1>2 DEF M2mTypeOK, QueuesTyped
<1>3. ASSUME UNCHANGED <<stream, job, drainVars, aborted, dropped>>
      PROVE  M2mTypeOK'
  BY <1>2, <1>3 DEF IInv, TypeInv, M2mTypeOK, drainVars
<1>4. ASSUME UNCHANGED feedVars
      PROVE  /\ cur' \in SrcBuf \cup {NoBuf} /\ packets' \in Nat
             /\ vififo' \in Seq(Range(vififo')) /\ \A e \in Range(vififo') : e.pkt \in Nat
  BY <1>4 DEF IInv, TypeInv, feedVars
<1> USE DEF parserVars, m2mVars, drainVars
<1>5. CASE Feed
  <2>1. UNCHANGED <<stream, job, drainVars, aborted, dropped>>
    BY <1>5 DEF Feed, ReadFramesNum, ReadPending, WorkBegins, WorkStart, WorkEnds, Submit,
                Written, RecordFailed, WriteFailed
  <2>2. \/ UNCHANGED <<cur, packets, vififo>>
        \/ Submit(framesNum + Reserve)
        \/ /\ cur' = NoBuf /\ packets' = packets
           /\ vififo' \in {vififo, Append(vififo, [pkt |-> packets, start |-> written])}
    BY <1>5 DEF Feed, ReadFramesNum, ReadPending, WorkBegins, WorkStart, WorkEnds, Written,
                RecordFailed, WriteFailed
  <2>3. CASE Submit(framesNum + Reserve)
    <3>1. packets' = packets + 1 /\ cur' = Removed("src") /\ vififo' = vififo
      BY <2>3 DEF Submit
    <3>2. cur' \in SrcBuf \cup {NoBuf}
      BY <3>1, TypedFacts
         DEF Removed, Ready, IInv, TypeInv, M2mTypeOK, QueuesTyped, Queue, BufOf
    <3>3. QED
      BY <1>3, <2>1, <3>1, <3>2 DEF IInv, TypeInv
  <2>4. CASE vififo' = Append(vififo, [pkt |-> packets, start |-> written]) /\ cur' = NoBuf
             /\ packets' = packets
    <3> DEFINE e == [pkt |-> packets, start |-> written]
               S == Range(vififo) \cup {e}
    <3>1. vififo \in Seq(S)
      BY SeqDef, LenProperties DEF IInv, TypeInv
    <3>2. vififo' \in Seq(S) /\ Range(vififo') = S
      BY <2>4, <3>1, AppendFacts
    <3>3. \A x \in S : x.pkt \in Nat
      BY DEF IInv, TypeInv
    <3>4. QED
      BY <1>3, <2>1, <2>4, <3>2, <3>3 DEF IInv, TypeInv
  <2>5. QED
    BY <1>3, <2>1, <2>2, <2>3, <2>4 DEF IInv, TypeInv
<1>6. CASE Isr
  <2>1. UNCHANGED <<stream, job, drainVars, aborted, dropped, cur, packets>>
    BY <1>6 DEF Isr, PostHeader, HandleHeader, SourceChange, ShowFrame, PrepareFrame, feedVars
  <2>2. vififo' = vififo \/ (vififo # << >> /\ vififo' = Tail(vififo))
    BY <1>6 DEF Isr, PostHeader, HandleHeader, SourceChange, ShowFrame, PrepareFrame, feedVars
  <2>3. vififo' \in Seq(Range(vififo')) /\ Range(vififo') \subseteq Range(vififo)
    <3>1. CASE vififo' = vififo
      BY <3>1 DEF IInv, TypeInv
    <3>2. CASE vififo # << >> /\ vififo' = Tail(vififo)
      <4>1. Tail(vififo) \in Seq(Range(vififo))
        BY <3>2, HeadTailProperties DEF IInv, TypeInv
      <4>2. QED
        BY <3>2, <4>1, RangeInSet, RangeSeq
    <3>3. QED
      BY <2>2, <3>1, <3>2
  <2>4. QED
    BY <1>3, <2>1, <2>3 DEF IInv, TypeInv
<1>7. CASE Call
  <2>1. ASSUME NEW b \in Buf, QueueBuf(b)
        PROVE  TypeInv'
    <3>1. /\ UNCHANGED <<stream, job, drainVars, aborted, feedVars>>
          /\ dropped' \in {dropped, dropped \cup {b}}
      BY <2>1 DEF QueueBuf, UserQBuf, QBuf
    <3>2. QED
      BY <1>2, <1>4, <3>1 DEF IInv, TypeInv, M2mTypeOK, drainVars
  <2>2. ASSUME NEW q \in Queue, NEW b \in BufOf(q), StreamOn(q, b)
        PROVE  TypeInv'
    <3>1. /\ UNCHANGED <<job, drainVars, aborted, dropped>>
          /\ stream' = [stream EXCEPT ![q] = "on"]
      BY <2>2 DEF StreamOn, StreamOnBuffer
    <3>2. M2mTypeOK'
      BY <1>2, <3>1 DEF IInv, TypeInv, M2mTypeOK, drainVars
    <3>3. UNCHANGED feedVars \/ (cur' = cur /\ packets' = 0 /\ vififo' = << >>)
      BY <2>2 DEF StreamOn, StartSession, KeepSession
    <3>4. << >> \in Seq(Range(<< >>)) /\ Range(<< >>) = {}
      BY EmptyFacts
    <3>5. CASE UNCHANGED feedVars
      BY <1>4, <3>2, <3>5 DEF TypeInv
    <3>6. CASE cur' = cur /\ packets' = 0 /\ vififo' = << >>
      <4>1. cur \in SrcBuf \cup {NoBuf}
        BY DEF IInv, TypeInv
      <4>2. QED
        BY <3>2, <3>4, <3>6, <4>1 DEF TypeInv
    <3>7. QED
      BY <3>3, <3>5, <3>6
  <2>3. CASE DrainFrame \/ AbortDrained \/ QueueDrained \/ HevcStop
    <3>1. UNCHANGED <<stream, drainVars, aborted, dropped, feedVars>> /\ job' \in {job, "none"}
      BY <2>3
         DEF DrainFrame, AbortDrained, AbortDone, QueueDrained, DrainDone, HevcStop,
             PowerOff, JobFinish
    <3>2. QED
      BY <1>2, <1>4, <3>1 DEF IInv, TypeInv, M2mTypeOK, drainVars
  <2>4. QED
    BY <1>7, <2>1, <2>2, <2>3 DEF Call
<1>8. CASE Ioctl /\ UNCHANGED codecVars
  <2>1. CASE DecoderCmd
    <3>1. UNCHANGED <<cur, packets, vififo>> /\ (CmdStop \/ CmdStart)
      BY <2>1 DEF DecoderCmd
    <3>2. M2mTypeOK'
      BY <1>2, <3>1 DEF CmdStop, CmdStart, Ready, IInv, TypeInv, M2mTypeOK, drainVars
    <3>3. QED
      BY <3>1, <3>2 DEF IInv, TypeInv
  <2>2. CASE DeviceRun
    BY <1>2, <1>4, <2>2 DEF DeviceRun, ClearState, IInv, TypeInv, M2mTypeOK, drainVars
  <2>3. CASE Reconfigure
    BY <1>2, <1>4, <2>3 DEF Reconfigure, IInv, TypeInv, M2mTypeOK, drainVars
  <2>4. ASSUME NEW q \in Queue, StreamOff(q)
        PROVE  TypeInv'
    BY <1>2, <1>4, <2>4 DEF StreamOff, MarkStopped, IInv, TypeInv, M2mTypeOK, drainVars
  <2>5. ASSUME NEW q \in Queue, StopStreaming(q)
        PROVE  TypeInv'
    BY <1>3, <1>4, <2>5 DEF StopStreaming, TypeInv
  <2>6. ASSUME NEW q \in Queue, Release(q)
        PROVE  TypeInv'
    <3>1. /\ UNCHANGED <<job, drainVars, aborted, feedVars>>
          /\ stream' = [stream EXCEPT ![q] = "off"]
          /\ dropped' = {b \in dropped : QueueOf(b) # q}
      BY <2>6 DEF Release
    <3>2. QED
      BY <1>2, <1>4, <3>1 DEF IInv, TypeInv, M2mTypeOK, drainVars
  <2>7. QED
    BY <1>8, <2>1, <2>2, <2>3, <2>4, <2>5, <2>6 DEF Ioctl
<1>9. QED
  BY <1>5, <1>6, <1>7, <1>8 DEF Next, Rest

-----------------------------------------------------------------------------
LEMMA InitInv ==
  ASSUME Init
  PROVE  IInv
<1> USE DEF Init, M2mInit, ParserInit, AdapterInit
<1>1. Waiting = {} /\ IsFiniteSet({}) /\ Cardinality({}) = 0
  BY FS_EmptySet DEF Waiting
<1>2. << >> \in Seq(Buf) /\ << >> \in Seq(SrcBuf) /\ << >> \in Seq(DstBuf)
      /\ << >> \in Seq(Range(<< >>)) /\ Range(<< >>) = {} /\ IsInjective(<< >>)
  BY EmptyFacts
<1>3. TypeInv
  BY <1>2 DEF TypeInv, M2mTypeOK, VbState, Queue, BufOf
<1>4. LockInv
  BY DEF LockInv, LockFree, Queue
<1>5. SessionInv
  BY DEF SessionInv, NoHeader
<1>6. FrameInv
  BY <1>1 DEF FrameInv, FramesOK, Distinct
<1>7. HeaderInv
  BY <1>1 DEF HeaderInv, Pending
<1>8. OrderInv
  BY DEF OrderInv
<1>9. BufferInv
  <2>1. QueuesOK(rdy) /\ Queued(rdy) = {} /\ ActiveIn(vb) = {}
    BY <1>2 DEF QueuesOK, QueuesTyped, Queued, ActiveIn, Queue, BufOf
  <2>2. QED
    BY <1>1, <2>1 DEF BufferInv, Balanced, Held, VbState
<1>10. QED
  BY <1>3, <1>4, <1>5, <1>6, <1>7, <1>8, <1>9 DEF IInv

LEMMA StepInv == IInv /\ [Next]_vars => IInv'
<1> SUFFICES ASSUME IInv, [Next]_vars
             PROVE  IInv'
  OBVIOUS
<1>1. CASE Next
  BY <1>1, LockStep, SessionStep, FrameStep, HeaderStep, OrderStep, BufferStep, TypeStep
     DEF IInv
<1>2. CASE UNCHANGED vars
  <2> USE <1>2 DEF IInv, vars, m2mVars, drainVars, parserVars, feedVars, sessionVars, adapterVars,
                   codecVars, frameVars, streamVars
  <2>1. TypeInv' /\ LockInv'
    BY DEF TypeInv, M2mTypeOK, LockInv, LockFree
  <2>2. SessionInv'
    BY DEF SessionInv
  <2>3. Waiting' = Waiting /\ Held' = Held
    BY DEF Waiting, Held
  <2>4. FrameInv' /\ BufferInv'
    BY <2>3 DEF FrameInv, FramesOK, IsFrame, BufferInv
  <2>5. HeaderInv' /\ OrderInv'
    BY <2>3 DEF HeaderInv, Exceeding, Pending, OrderInv, Over
  <2>6. QED
    BY <2>1, <2>2, <2>4, <2>5
<1>3. QED
  BY <1>1, <1>2

\* The inductive invariant holds in every reachable state, of any stream that
\* conforms to the reorder depth and the width of the order counts.
THEOREM Invariant == Spec => []IInv
<1>1. Init => IInv
  BY InitInv
<1>2. QED
  BY <1>1, StepInv, PTL DEF Spec

\* The order counts the driver derives are those of the stream; until a negative one
\* comes, no two frames have the same, and the frames are shown in their order
\* (codec_hevc_update_pocs, update_referenced, show_frames).
THEOREM ShownInOrder == Spec => []InOrder
<1>1. ASSUME IInv
      PROVE  InOrder
  <2> DEFINE waiting == {f.truth : f \in Waiting}
  <2>1. \A f \in Waiting : f.poc = f.truth
    BY <1>1 DEF IInv, FrameInv, FramesOK, IsFrame, Waiting
  <2>2. CASE led
    BY <2>1, <2>2 DEF InOrder
  <2>3. CASE ~led
    <3>1. \A s \in sent \ waiting, w \in waiting : s < w
      BY <1>1, <2>3 DEF IInv, OrderInv
    <3>2. \A f, g \in frames : f.poc = g.poc => f = g
      BY <1>1, <2>3 DEF IInv, FrameInv, Distinct
    <3>3. QED
      BY <2>1, <3>1, <3>2 DEF InOrder
  <2>4. QED
    BY <2>2, <2>3
<1>2. QED
  BY <1>1, Invariant, PTL
-----------------------------------------------------------------------------
(* The reserve of CAPTURE buffers.  What the parser has put into the ring    *)
(* and the firmware has not shown is counted, and as long as no packet was    *)
(* accepted without credit every packet in flight has a buffer waiting.       *)

One(b) == IF b THEN 1 ELSE 0

StreamsInv ==
  /\ streamon = {q \in Queue : stream[q] \in {"on", "cancel"}}
  /\ hw # "off" => streamon # {}
  /\ stop \in {"drain", "release"} /\ status = "needs_resume" => streamon = Queue

\* A picture is decoded only while CAPTURE streams: before the first size is known
\* the first header waits for it.
SizedInv ==
  /\ hw = "off" => ~sized
  /\ hw = "posted" /\ ~sized => header.resize
  /\ codec # "idle" \/ (sized /\ hw \in {"run", "posted"}) => "dst" \in streamon

InFlight == Len(vififo) + One(Pending)

CreditInv ==
  /\ seen \in Nat /\ queued \in Int
  /\ queued >= InFlight + framesNum
  /\ ~overdrawn /\ ~starved /\ hw # "off" /\ stream["dst"] # "off" =>
       Len(rdy["dst"]) >= InFlight + One(work = "write")

LEMMA StreamsStep ==
  ASSUME IInv, StreamsInv, Next
  PROVE  StreamsInv'
<1> USE DEF StreamsInv, adapterVars, sessionVars
<1>1. CASE Feed
  BY <1>1 DEF Feed, ReadFramesNum, ReadPending, WorkBegins, WorkStart, WorkEnds, Submit,
              Written, RecordFailed, WriteFailed, m2mVars
<1>2. CASE Isr
  <2>1. UNCHANGED <<streamon, stream, stop>> /\ hw # "off"
    BY <1>2 DEF Isr, PostHeader, HandleHeader, SourceChange, ShowFrame, PrepareFrame, m2mVars,
                parserVars, IInv, SessionInv
  <2>2. stop \in {"drain", "release"} => status' \in {status, "running"}
    BY <1>2
       DEF Isr, PostHeader, HandleHeader, SourceChange, ShowFrame, PrepareFrame, parserVars,
           IInv, SessionInv
  <2>3. QED
    BY <2>1, <2>2
<1>3. CASE Call
  <2>1. CASE \E b \in Buf : QueueBuf(b)
    BY <2>1 DEF QueueBuf, UserQBuf, QBuf
  <2>2. ASSUME NEW q \in Queue, NEW b \in BufOf(q), StreamOn(q, b)
        PROVE  StreamsInv'
    <3>1. /\ streamon' = streamon \cup {q} /\ stream' = [stream EXCEPT ![q] = "on"]
          /\ stop' = "none"
      BY <2>2 DEF StreamOn, StreamOnBuffer, NoIoctl, Unlocked, IInv, LockInv
    <3>2. QED
      BY <3>1 DEF IInv, TypeInv, M2mTypeOK
  <2>3. CASE DrainFrame
    BY <2>3 DEF DrainFrame
  <2>4. CASE AbortDrained \/ QueueDrained
    BY <2>4 DEF AbortDrained, AbortDone, QueueDrained, DrainDone, parserVars, m2mVars
  <2>5. CASE HevcStop
    BY <2>5 DEF HevcStop, PowerOff, m2mVars
  <2>6. QED
    BY <1>3, <2>1, <2>2, <2>3, <2>4, <2>5 DEF Call
<1>4. CASE Ioctl
  <2>1. ASSUME NEW q \in Queue, StreamOff(q)
        PROVE  StreamsInv'
    <3>1. /\ stream[q] = "on" /\ stream' = [stream EXCEPT ![q] = "cancel"] /\ stop' \in {"abort", "stop"}
          /\ UNCHANGED <<streamon, hw>>
      BY <2>1 DEF StreamOff
    <3>2. QED
      BY <3>1 DEF IInv, TypeInv, M2mTypeOK
  <2>2. CASE DecoderCmd \/ DeviceRun
    BY <2>2 DEF DecoderCmd, DeviceRun, CmdStop, CmdStart
  <2>3. CASE Reconfigure
    BY <2>3 DEF Reconfigure, parserVars
  <2>4. ASSUME NEW q \in Queue, StopStreaming(q)
        PROVE  StreamsInv'
    BY <2>4 DEF StopStreaming, PowersOff, m2mVars
  <2>5. ASSUME NEW q \in Queue, Release(q)
        PROVE  StreamsInv'
    <3>1. /\ stop = "release" /\ stream' = [stream EXCEPT ![q] = "off"] /\ stop' = "none"
          /\ streamon' = streamon \ {q} /\ UNCHANGED <<hw, status>>
      BY <2>5 DEF Release
    <3>2. hw # "off" => streamon = Queue
      BY <3>1 DEF IInv, SessionInv
    <3>3. QED
      BY <3>1, <3>2 DEF IInv, TypeInv, M2mTypeOK, Queue
  <2>6. QED
    BY <1>4, <2>1, <2>2, <2>3, <2>4, <2>5 DEF Ioctl
<1>5. QED
  BY <1>1, <1>2, <1>3, <1>4 DEF Next, Rest

LEMMA SizedStep ==
  ASSUME IInv, SizedInv, Next
  PROVE  SizedInv'
<1> USE DEF SizedInv, adapterVars, sessionVars, codecVars, frameVars
<1>1. CASE Feed
  BY <1>1 DEF Feed, ReadFramesNum, ReadPending, WorkBegins, WorkStart, WorkEnds, Submit,
              Written, RecordFailed, WriteFailed
<1>2. CASE Isr
  <2>1. CASE PostHeader
    BY <2>1 DEF PostHeader
  <2>2. CASE HandleHeader \/ SourceChange
    BY <2>2 DEF HandleHeader, SourceChange, ProcessHeader, parserVars
  <2>3. CASE ShowFrame \/ PrepareFrame
    BY <2>3 DEF ShowFrame, PrepareFrame
  <2>4. QED
    BY <1>2, <2>1, <2>2, <2>3 DEF Isr
<1>3. CASE Call
  <2>1. CASE \E b \in Buf : QueueBuf(b)
    BY <2>1 DEF QueueBuf, UserQBuf
  <2>2. ASSUME NEW q \in Queue, NEW b \in BufOf(q), StreamOn(q, b)
        PROVE  SizedInv'
    <3>1. streamon' = streamon \cup {q} /\ sized' = sized
      BY <2>2 DEF StreamOn, StreamOnBuffer
    <3>2. CASE StreamOnOutcome(q) = "starts" /\ StartSession /\ UNCHANGED header
      BY <3>1, <3>2 DEF StartSession, StreamOnOutcome, IInv, SessionInv
    <3>3. CASE StreamOnOutcome(q) = "resumes" /\ KeepSession /\ ProcessHeader("resume")
      BY <3>1, <3>3 DEF KeepSession, ProcessHeader, StreamOnOutcome
    <3>4. CASE UNCHANGED <<codec, hw, codecVars>>
      BY <3>1, <3>4
    <3>5. QED
      BY <2>2, <3>2, <3>3, <3>4 DEF StreamOn
  <2>3. CASE DrainFrame
    BY <2>3 DEF DrainFrame
  <2>4. CASE AbortDrained \/ QueueDrained
    BY <2>4 DEF AbortDrained, AbortDone, QueueDrained, DrainDone, parserVars
  <2>5. CASE HevcStop
    BY <2>5 DEF HevcStop, Drained, Draining, Inactive, PowerOff, IInv, SessionInv
  <2>6. QED
    BY <1>3, <2>1, <2>2, <2>3, <2>4, <2>5 DEF Call
<1>4. CASE Ioctl /\ UNCHANGED codecVars
  <2>1. UNCHANGED <<codec, hw>>
    BY <1>4 DEF Ioctl, StreamOff, DecoderCmd, DeviceRun, StopStreaming, Release, Reconfigure
  <2>2. streamon' = streamon \/ \E q \in Queue : Release(q)
    BY <1>4 DEF Ioctl, StreamOff, DecoderCmd, DeviceRun, StopStreaming, Reconfigure, parserVars
  <2>3. (\E q \in Queue : Release(q)) => hw \in {"off", "held"} /\ codec = "idle"
    BY DEF Release, IInv, SessionInv
  <2>4. QED
    BY <1>4, <2>1, <2>2, <2>3
<1>5. QED
  BY <1>1, <1>2, <1>3, <1>4 DEF Next, Rest

\* The numbers in the sums.
LEMMA CreditTypes ==
  ASSUME IInv
  PROVE  /\ Len(rdy["dst"]) \in Nat /\ Len(vififo) \in Nat /\ framesNum \in Nat
         /\ InFlight \in Nat /\ One(work = "write") \in Nat
<1>1. rdy["dst"] \in Seq(DstBuf)
  BY DEF IInv, TypeInv, M2mTypeOK, Queue, BufOf
<1>2. Len(rdy["dst"]) \in Nat /\ Len(vififo) \in Nat
  BY <1>1, LenProperties DEF IInv, TypeInv
<1>3. framesNum \in Nat
  BY DEF IInv, FrameInv
<1>4. QED
  BY <1>2, <1>3 DEF InFlight, One

\* Steps that take nothing from the sums.
LEMMA CreditKept ==
  ASSUME IInv, IInv', CreditInv,
         seen' \in Nat, queued' = queued, framesNum' = framesNum, vififo' = vififo,
         Pending' = Pending, work' = "write" => work = "write",
         overdrawn => overdrawn', starved => starved', hw = "off" => hw' = "off",
         stream["dst"] = "off" => stream'["dst"] = "off" \/ hw' = "off",
         Len(rdy'["dst"]) >= Len(rdy["dst"]) \/ stream'["dst"] = "off" \/ overdrawn'
  PROVE  CreditInv'
<1>1. InFlight' = InFlight
  BY DEF InFlight, One
<1>2. One(work = "write")' <= One(work = "write")
  BY DEF One
<1>3. /\ Len(rdy["dst"]) \in Nat /\ InFlight \in Nat /\ One(work = "write") \in Nat
      /\ framesNum \in Nat
  BY CreditTypes
<1>4. Len(rdy'["dst"]) \in Nat /\ One(work = "write")' \in Nat
  <2>1. (Len(rdy["dst"]) \in Nat /\ One(work = "write") \in Nat)'
    BY CreditTypes, PTL
  <2>2. QED
    BY <2>1
<1>5. QED
  BY <1>1, <1>2, <1>3, <1>4 DEF CreditInv

LEMMA FeedCredit ==
  ASSUME IInv, IInv', CreditInv, Feed
  PROVE  CreditInv'
<1> USE DEF adapterVars, codecVars, frameVars
<1>1. /\ Len(rdy["dst"]) \in Nat /\ Len(vififo) \in Nat /\ framesNum \in Nat
      /\ InFlight \in Nat /\ One(work = "write") \in Nat
  BY CreditTypes
<1>2. hw' = hw /\ status' = status /\ stream' = stream /\ starved' = starved /\ framesNum' = framesNum
  BY DEF Feed, ReadFramesNum, ReadPending, WorkBegins, WorkStart, WorkEnds, Submit, Written,
         RecordFailed, WriteFailed, m2mVars, sessionVars
<1>3. Pending' = Pending
  BY <1>2 DEF Pending
<1>4. CASE ReadFramesNum \/ WorkBegins \/ WorkEnds \/ RecordFailed \/ WriteFailed
  <2>1. /\ UNCHANGED <<queued, vififo, overdrawn>> /\ seen' \in {seen, framesNum}
        /\ work' # "write"
    BY <1>4
       DEF ReadFramesNum, ReadPending, WorkBegins, WorkStart, WorkEnds, RecordFailed, WriteFailed,
           recordVars
  <2>3. rdy'["dst"] = rdy["dst"]
    <3>1. rdy' = rdy \/ rdy' = [rdy EXCEPT !["src"] = Tail(@)]
      BY <1>4
         DEF ReadFramesNum, ReadPending, WorkBegins, WorkStart, WorkEnds, RecordFailed,
             WriteFailed, AfterRemove, m2mVars
    <3>2. QED
      BY <3>1 DEF IInv, TypeInv, M2mTypeOK, Queue
  <2>2. QED
    BY <1>1, <1>2, <1>3, <2>1, <2>3, CreditKept DEF CreditInv
<1>5. CASE Submit(framesNum + Reserve)
  <2>1. /\ ~Refused /\ overdrawn' = (Credit < 0 \/ seen > framesNum + Reserve)
        /\ rdy'["dst"] = rdy["dst"] /\ UNCHANGED <<queued, seen, vififo>> /\ work' = "write"
    BY <1>5 DEF Submit, AfterRemove, Ready
  <2>2. InFlight' = InFlight /\ One(work = "write")' = 1
    BY <1>3, <2>1 DEF InFlight, One
  <2>3. Credit = seen + Len(rdy["dst"]) - Reserve /\ Reserve \in Nat
    BY ParserAssumption DEF Credit, ParserAssumption
  <2>4. ~overdrawn' => Len(rdy["dst"]) >= InFlight + 1
    <3>1. Credit >= 0 => ~(queued >= Credit)
      BY <2>1 DEF Refused
    <3>2. queued \in Int /\ seen \in Nat /\ queued >= InFlight + framesNum
      BY DEF CreditInv
    <3>3. ~overdrawn' => Credit >= 0 /\ seen <= framesNum + Reserve
      <4>1. ~overdrawn' => ~(Credit < 0) /\ ~(seen > framesNum + Reserve)
        BY <2>1, Zenon
      <4>2. Credit \in Int
        BY <1>1, <2>3, <3>2
      <4>3. QED
        BY <1>1, <2>3, <3>2, <4>1, <4>2
    <3>4. Credit >= 0 => queued < Credit
      BY <1>1, <2>3, <3>1, <3>2
    <3>5. QED
      BY <1>1, <2>3, <3>2, <3>3, <3>4
  <2>5. QED
    BY <1>2, <2>1, <2>2, <2>4 DEF CreditInv
<1>6. CASE Written
  <2>1. /\ work = "write" /\ work' = "scan" /\ queued' = queued + 1 /\ UNCHANGED <<rdy, seen, overdrawn>>
        /\ vififo' = Append(vififo, [pkt |-> packets, start |-> written])
    BY <1>6 DEF Written
  <2>2. Len(vififo') = Len(vififo) + 1
    <3> DEFINE e == [pkt |-> packets, start |-> written]
    <3>1. vififo \in Seq(Range(vififo) \cup {e})
      BY SeqDef, LenProperties DEF IInv, TypeInv
    <3>2. QED
      BY <2>1, <3>1, AppendProperties
  <2>3. InFlight' = InFlight + 1 /\ One(work = "write") = 1 /\ One(work = "write")' = 0
    BY <1>1, <1>3, <2>1, <2>2 DEF InFlight, One
  <2>4. QED
    BY <1>1, <1>2, <2>1, <2>3 DEF CreditInv
<1>7. QED
  BY <1>4, <1>5, <1>6 DEF Feed

LEMMA IsrCredit ==
  ASSUME IInv, IInv', CreditInv, Isr
  PROVE  CreditInv'
<1> USE DEF m2mVars, parserVars, feedVars, recordVars, sessionVars, frameVars
<1>1. /\ Len(rdy["dst"]) \in Nat /\ Len(vififo) \in Nat /\ framesNum \in Nat
      /\ InFlight \in Nat /\ One(work = "write") \in Nat
  BY CreditTypes
<1>2. UNCHANGED <<seen, work, overdrawn, stream>> /\ hw # "off"
  BY DEF Isr, PostHeader, HandleHeader, SourceChange, ShowFrame, PrepareFrame, IInv, SessionInv
<1>3. CASE PostHeader
  <2>1. /\ vififo # << >> /\ vififo' = Tail(vififo) /\ hw = "run" /\ hw' = "posted"
        /\ UNCHANGED <<rdy, queued, framesNum, starved>>
    BY <1>3 DEF PostHeader
  <2>2. Len(vififo') = Len(vififo) - 1
    BY <2>1, HeadTailProperties DEF IInv, TypeInv
  <2>3. ~Pending /\ Pending'
    BY <2>1 DEF Pending, IInv, SessionInv
  <2>4. InFlight' = InFlight
    BY <1>1, <2>2, <2>3 DEF InFlight, One
  <2>5. QED
    BY <1>1, <1>2, <2>1, <2>4 DEF CreditInv
<1>4. CASE HandleHeader \/ SourceChange
  <2>1. UNCHANGED <<rdy, queued, framesNum, starved, vififo>>
    BY <1>4 DEF HandleHeader, SourceChange, ProcessHeader
  <2>2. Pending' = Pending
    BY <1>4 DEF HandleHeader, SourceChange, ProcessHeader, Pending
  <2>3. QED
    BY <1>1, <1>2, <2>1, <2>2, CreditKept DEF CreditInv
<1>5. CASE ShowFrame
  <2>1. /\ UNCHANGED <<rdy, starved, vififo, hw, status>> /\ framesNum' = framesNum - 1
        /\ queued' \in {queued, queued - 1}
    <3>1. UNCHANGED <<rdy, starved, vififo, hw, status>> /\ framesNum' = framesNum - 1
      BY <1>5 DEF ShowFrame, adapterVars
    <3>2. TakeByOffset(NextReady.at)
      BY <1>5 DEF ShowFrame
    <3>3. queued' \in {queued, queued - 1}
      BY <3>2 DEF TakeByOffset
    <3>4. QED
      BY <3>1, <3>3
  <2>2. InFlight' = InFlight
    BY <2>1 DEF InFlight, One, Pending
  <2>3. QED
    BY <1>1, <1>2, <2>1, <2>2 DEF CreditInv
<1>6. CASE PrepareFrame
  <2>1. Pending /\ ~Pending'
    BY <1>6 DEF PrepareFrame, Pending, IInv, SessionInv
  <2>2. UNCHANGED <<vififo, queued>>
    BY <1>6 DEF PrepareFrame
  <2>3. InFlight' = InFlight - 1
    BY <1>1, <2>1, <2>2 DEF InFlight, One
  <2>4. CASE Ready("dst")
    <3>1. /\ framesNum' = framesNum + 1 /\ starved' = starved /\ rdy["dst"] # << >>
          /\ rdy' = [rdy EXCEPT !["dst"] = Tail(@)]
      BY <1>6, <2>4 DEF PrepareFrame, AfterRemove, Ready
    <3>2. rdy["dst"] \in Seq(DstBuf) /\ rdy'["dst"] = Tail(rdy["dst"])
      BY <3>1 DEF IInv, TypeInv, M2mTypeOK, Queue, BufOf
    <3>3. Len(rdy'["dst"]) = Len(rdy["dst"]) - 1
      BY <3>1, <3>2, HeadTailProperties
    <3>4. QED
      BY <1>1, <1>2, <2>2, <2>3, <3>1, <3>3 DEF CreditInv
  <2>5. CASE ~Ready("dst")
    <3>1. framesNum' = framesNum /\ starved'
      BY <1>6, <2>5 DEF PrepareFrame
    <3>2. QED
      BY <1>1, <1>2, <2>2, <2>3, <3>1 DEF CreditInv
  <2>6. QED
    BY <2>4, <2>5
<1>7. QED
  BY <1>3, <1>4, <1>5, <1>6 DEF Isr

\* QBUF and STREAMON add to a ready queue.
LEMMA LongerQueue ==
  ASSUME IInv, NEW b \in Buf, rdy' = [rdy EXCEPT ![QueueOf(b)] = Append(@, b)]
  PROVE  Len(rdy'["dst"]) >= Len(rdy["dst"])
<1>1. rdy["dst"] \in Seq(Buf) /\ "dst" \in Queue
  BY DEF IInv, TypeInv, M2mTypeOK, Queue
<1>2. rdy'["dst"] = IF QueueOf(b) = "dst" THEN Append(rdy["dst"], b) ELSE rdy["dst"]
  BY <1>1 DEF IInv, TypeInv, M2mTypeOK
<1>3. Len(Append(rdy["dst"], b)) = Len(rdy["dst"]) + 1 /\ Len(rdy["dst"]) \in Nat
  BY <1>1, AppendProperties, LenProperties
<1>4. QED
  BY <1>2, <1>3

LEMMA CallCredit ==
  ASSUME IInv, IInv', StreamsInv, CreditInv, Call \/ (Ioctl /\ UNCHANGED codecVars)
  PROVE  CreditInv'
<1> USE DEF m2mVars, parserVars, feedVars, recordVars, sessionVars, adapterVars, codecVars,
            frameVars, Pending
<1>1. /\ Len(rdy["dst"]) \in Nat /\ Len(vififo) \in Nat /\ framesNum \in Nat
      /\ InFlight \in Nat /\ One(work = "write") \in Nat /\ seen \in Nat
  BY CreditTypes DEF CreditInv
<1>2. ASSUME NEW b \in Buf, QueueBuf(b)
      PROVE  CreditInv'
  <2>1. \/ rdy' = rdy
        \/ rdy' = [rdy EXCEPT ![QueueOf(b)] = Append(@, b)]
    BY <1>2 DEF QueueBuf, UserQBuf, QBuf
  <2>2. Len(rdy'["dst"]) >= Len(rdy["dst"])
    BY <1>1, <2>1, LongerQueue
  <2>3. UNCHANGED <<feedVars, recordVars, sessionVars, framesNum, hw, stream, starved>>
    BY <1>2 DEF QueueBuf, UserQBuf, QBuf
  <2>4. QED
    BY <1>1, <2>2, <2>3, CreditKept
<1>3. ASSUME NEW q \in Queue, NEW b \in BufOf(q), StreamOn(q, b)
      PROVE  CreditInv'
  <2>1. /\ QueueOf(b) = q /\ stream[q] = "idle" /\ rdy' = [rdy EXCEPT ![q] = <<b>>]
        /\ stream' = [stream EXCEPT ![q] = "on"] /\ work = "idle"
    BY <1>3 DEF StreamOn, StreamOnBuffer, NoIoctl, Unlocked
  <2>2. rdy[q] = << >> /\ b \in Buf
    BY <2>1 DEF IInv, LockInv, BufOf, Buf
  <2>3. rdy' = [rdy EXCEPT ![QueueOf(b)] = Append(@, b)]
    BY <2>1, <2>2
  <2>4. Len(rdy'["dst"]) >= Len(rdy["dst"])
    BY <2>2, <2>3, LongerQueue
  <2>5. CASE StreamOnOutcome(q) = "starts" /\ StartSession /\ UNCHANGED frameVars
    <3>1. /\ queued' = 0 /\ vififo' = << >> /\ hw' = "run" /\ status' = "init"
          /\ UNCHANGED <<work, seen, framesNum, frames>> /\ hw = "off"
      BY <2>5 DEF StartSession, StreamOnOutcome, IInv, SessionInv
    <3>2. framesNum = 0
      BY <3>1 DEF IInv, SessionInv
    <3>3. InFlight' = 0 /\ One(work = "write")' = 0
      BY <2>1, <3>1, LenProperties, EmptySeq DEF InFlight, One
    <3>4. seen' \in Nat /\ queued' \in Int /\ framesNum' = 0 /\ queued' >= InFlight' + framesNum'
      BY <1>1, <3>1, <3>2, <3>3
    <3>5. Len(rdy'["dst"]) \in Int /\ Len(rdy'["dst"]) >= InFlight' + One(work = "write")'
      <4>1. rdy'["dst"] \in Seq(DstBuf)
        BY DEF IInv, TypeInv, M2mTypeOK, Queue, BufOf
      <4>2. Len(rdy'["dst"]) \in Nat
        BY <4>1, LenProperties
      <4>3. QED
        BY <3>3, <4>2
    <3>6. QED
      BY <3>4, <3>5 DEF CreditInv
  <2>6. CASE KeepSession /\ UNCHANGED <<hw, framesNum, starved>>
    <3>1. stream["dst"] # "off" \/ stream'["dst"] = "off"
      BY <2>1 DEF IInv, TypeInv, M2mTypeOK, Queue
    <3>2. /\ UNCHANGED <<seen, queued, vififo, work, overdrawn, status>>
          /\ UNCHANGED <<hw, framesNum, starved>>
      BY <2>6 DEF KeepSession
    <3>3. Pending' = Pending
      BY <3>2
    <3>4. /\ work' = work /\ queued' = queued /\ vififo' = vififo /\ framesNum' = framesNum
          /\ hw' = hw /\ seen' \in Nat
          /\ overdrawn => overdrawn'
          /\ starved => starved'
      BY <1>1, <3>2
    <3> HIDE DEF Pending
    <3>5. QED
      BY <2>4, <3>1, <3>3, <3>4, CreditKept
  <2>7. QED
    BY <1>3, <2>5, <2>6 DEF StreamOn, ProcessHeader
<1>4. CASE DrainFrame
  <2>1. /\ UNCHANGED <<rdy, stream, feedVars, hw, status, starved>> /\ framesNum' = framesNum - 1
        /\ queued' \in {queued, queued - 1}
    BY <1>4 DEF DrainFrame, TakeFirst
  <2>2. InFlight' = InFlight
    BY <2>1 DEF InFlight, One
  <2>3. QED
    BY <1>1, <2>1, <2>2 DEF CreditInv
<1>5. CASE AbortDrained \/ QueueDrained
  <2>1. UNCHANGED <<rdy, stream, feedVars, queued, hw, status, starved, framesNum>>
    BY <1>5 DEF AbortDrained, AbortDone, QueueDrained, DrainDone
  <2>2. QED
    BY <1>1, <2>1, CreditKept
<1>6. CASE HevcStop
  <2>1. UNCHANGED <<seen, vififo, queued>> /\ framesNum' = 0 /\ hw' = "off" /\ status' = "stopped"
    BY <1>6 DEF HevcStop, PowerOff
  <2>2. InFlight' <= InFlight /\ InFlight' \in Nat
    BY <1>1, <2>1 DEF InFlight, One
  <2>3. queued' >= InFlight' + framesNum'
    <3>1. queued \in Int /\ queued >= InFlight + framesNum
      BY DEF CreditInv
    <3>2. queued' = queued /\ framesNum' = 0
      BY <2>1
    <3> DEFINE i == InFlight
               j == InFlight'
    <3>3. j <= i /\ j \in Int /\ i \in Int /\ queued \in Int /\ framesNum \in Nat
          /\ queued >= i + framesNum
      BY <1>1, <2>2, <3>1
    <3> HIDE DEF i, j
    <3>5. queued >= j + 0
      BY <3>3
    <3> USE DEF i, j
    <3>4. QED
      BY <3>2, <3>5
  <2>4. QED
    BY <2>1, <2>3 DEF CreditInv
<1>7. CASE Ioctl /\ UNCHANGED codecVars
  <2>1. /\ UNCHANGED <<work, seen, vififo, queued, hw, status, framesNum, starved>>
        /\ overdrawn => overdrawn'
    <3>1. CASE DecoderCmd
      BY <1>7, <3>1 DEF DecoderCmd
    <3>2. CASE DeviceRun \/ Reconfigure
      BY <1>7, <3>2 DEF DeviceRun, Reconfigure
    <3>3. ASSUME NEW q \in Queue, StreamOff(q) \/ StopStreaming(q) \/ Release(q)
          PROVE  /\ UNCHANGED <<work, seen, vififo, queued, hw, status, framesNum, starved>>
                 /\ overdrawn' = overdrawn
      BY <1>7, <3>3 DEF StreamOff, StopStreaming, Release
    <3>4. QED
      BY <1>7, <3>1, <3>2, <3>3 DEF Ioctl
  <2>2. ASSUME rdy' = rdy, stream["dst"] = "off" => stream'["dst"] = "off" \/ hw' = "off"
        PROVE  CreditInv'
    BY <1>1, <2>1, <2>2, CreditKept
  <2>3. CASE DecoderCmd
    <3>1. overdrawn' = (overdrawn \/ rdy' # rdy) /\ stream' = stream
      BY <2>3 DEF DecoderCmd, CmdStop, CmdStart
    <3>2. CASE rdy' = rdy
      BY <2>2, <3>1, <3>2
    <3>3. CASE rdy' # rdy
      BY <1>1, <2>1, <3>1, <3>3, CreditKept
    <3>4. QED
      BY <3>2, <3>3
  <2>4. ASSUME NEW q \in Queue, StreamOff(q)
        PROVE  CreditInv'
    BY <2>2, <2>4 DEF StreamOff, IInv, TypeInv, M2mTypeOK
  <2>5. CASE DeviceRun \/ \E q \in Queue : StopStreaming(q)
    BY <2>2, <2>5 DEF DeviceRun, StopStreaming
  <2>6. CASE Reconfigure
    <3>1. streamon = {}
      BY <2>6 DEF Reconfigure, StreamsInv
    <3>2. QED
      BY <2>1, <2>2, <2>6, <3>1 DEF Reconfigure, StreamsInv
  <2>7. ASSUME NEW q \in Queue, Release(q)
        PROVE  CreditInv'
    <3>1. stream' = [stream EXCEPT ![q] = "off"] /\ rdy' = [rdy EXCEPT ![q] = << >>]
      BY <2>7 DEF Release
    <3>2. /\ q = "dst" => stream'["dst"] = "off"
          /\ q = "src" => rdy'["dst"] = rdy["dst"] /\ stream'["dst"] = stream["dst"]
      BY <3>1 DEF IInv, TypeInv, M2mTypeOK, Queue
    <3>3. QED
      BY <1>1, <2>1, <3>2, CreditKept DEF Queue
  <2>8. QED
    BY <1>7, <2>3, <2>4, <2>5, <2>6, <2>7 DEF Ioctl
<1>8. QED
  BY <1>2, <1>3, <1>4, <1>5, <1>6, <1>7 DEF Call

\* What a drain has lost waits for the end of its CAPTURE queue's stream, which comes
\* before the next session.
LostInv ==
  /\ lost \subseteq DstBuf
  /\ ~led => lost = {}
  /\ frames # {} \/ lost # {} => stream["dst"] \in {"on", "cancel"}
  /\ hw # "off" \/ lost # {} => stream["src"] # "idle"

LEMMA LostStep ==
  ASSUME IInv, StreamsInv, SizedInv, LostInv, Next
  PROVE  LostInv'
<1> USE DEF LostInv
<1>1. stream \in [Queue -> {"idle", "on", "cancel", "off"}] /\ "src" \in Queue /\ "dst" \in Queue
  BY DEF IInv, TypeInv, M2mTypeOK, Queue
<1>2. CASE led /\ ~led'
  <2>1. PICK q \in Queue : \E b \in BufOf(q) :
          StreamOn(q, b) /\ StreamOnOutcome(q) = "starts" /\ StartSession /\ starved' = FALSE
    BY <1>2, LedFacts
  <2>2. PICK b \in BufOf(q) : StreamOn(q, b)
    BY <2>1
  <2>3. frames' = {} /\ lost' = lost
    BY <1>2, <2>2, LedFacts DEF StreamOn
  <2>4. stream[q] = "idle" /\ stream' = [stream EXCEPT ![q] = "on"]
    BY <2>2 DEF StreamOn, StreamOnBuffer
  <2>5. lost = {}
    BY <2>4 DEF Queue
  <2>6. stream'["src"] # "idle"
    BY <1>1, <2>1, <2>4 DEF StreamOnOutcome, StreamsInv
  <2>7. QED
    BY <2>3, <2>5, <2>6
<1> SUFFICES ASSUME ~led' => ~led PROVE LostInv'
  BY <1>2
<1>3. ASSUME UNCHANGED <<lost, stream>>, hw = "off" => hw' = "off",
             frames = {} => frames' = {} \/ codec # "idle"
      PROVE  LostInv'
  <2>1. codec # "idle" => stream["dst"] \in {"on", "cancel"}
    BY DEF SizedInv, StreamsInv
  <2>2. QED
    BY <1>3, <2>1
<1>4. CASE Feed
  BY <1>3, <1>4
     DEF Feed, ReadFramesNum, ReadPending, WorkBegins, WorkStart, WorkEnds, Submit, RecordFailed,
         Written, WriteFailed, m2mVars, adapterVars, codecVars, frameVars
<1>5. CASE Isr
  <2>1. UNCHANGED <<lost, stream>> /\ hw # "off"
    BY <1>5 DEF Isr, PostHeader, HandleHeader, SourceChange, ShowFrame, PrepareFrame, m2mVars,
                IInv, SessionInv
  <2>2. frames = {} => frames' = {} \/ codec # "idle"
    BY <1>5 DEF Isr, PostHeader, HandleHeader, SourceChange, ShowFrame, PrepareFrame, frameVars,
                ProcessHeader, Referenced
  <2>3. QED
    BY <1>3, <2>1, <2>2
<1>6. CASE Call
  <2>1. CASE \E b \in Buf : QueueBuf(b)
    BY <1>3, <2>1 DEF QueueBuf, UserQBuf, QBuf, codecVars, frameVars, adapterVars
  <2>2. ASSUME NEW q \in Queue, NEW b \in BufOf(q), StreamOn(q, b)
        PROVE  LostInv'
    <3>1. /\ stream[q] = "idle" /\ stream' = [stream EXCEPT ![q] = "on"] /\ lost' = lost
      BY <2>2 DEF StreamOn, StreamOnBuffer
    <3>2. frames = {} => frames' = {}
      BY <2>2 DEF StreamOn, ProcessHeader, Referenced, codecVars, frameVars
    <3>3. hw' # "off" => hw # "off" \/ stream'["src"] # "idle"
      <4>1. CASE StreamOnOutcome(q) = "starts"
        BY <1>1, <3>1, <4>1 DEF StreamOnOutcome, StreamsInv
      <4>2. CASE hw' = hw
        BY <4>2
      <4>3. QED
        BY <2>2, <4>1, <4>2 DEF StreamOn, ProcessHeader
    <3>4. QED
      BY <1>1, <3>1, <3>2, <3>3
  <2>3. CASE DrainFrame
    BY <1>3, <2>3, NextReadyFacts
       DEF DrainFrame, adapterVars, IInv, FrameInv, Waiting, ReadyFrames
  <2>4. CASE AbortDrained \/ QueueDrained \/ HevcStop
    <3>1. Drained /\ stream' = stream /\ (hw = "off" => hw' = "off")
      BY <2>4
         DEF AbortDrained, AbortDone, QueueDrained, DrainDone, HevcStop, PowerOff, m2mVars
    <3>2. frames' = {} /\ lost' = lost \cup Held /\ ReadyFrames = {}
      BY <3>1 DEF Drained, Held
    <3>3. Held \subseteq DstBuf
      BY DEF IInv, BufferInv, Balanced
    <3>4. ~led => Held = {}
      BY <3>2, NoneReady DEF IInv, FrameInv, Held
    <3>5. Held # {} => frames # {} /\ hw # "off"
      BY DEF Held, Waiting, IInv, SessionInv
    <3>6. QED
      BY <3>1, <3>2, <3>3, <3>4, <3>5
  <2>5. QED
    BY <1>6, <2>1, <2>2, <2>3, <2>4 DEF Call
<1>7. CASE Rest
  <2>1. /\ UNCHANGED <<frames, led>> /\ Ioctl
        /\ lost' = {b \in lost : vb'[b] = "active"} /\ lost' \subseteq lost
    BY <1>7 DEF Rest, codecVars, frameVars
  <2>2. hw' = hw
    BY <2>1 DEF Ioctl, StreamOff, DecoderCmd, DeviceRun, StopStreaming, Release, Reconfigure,
                adapterVars
  <2>3. ASSUME NEW q \in Queue, StreamOff(q)
        PROVE  LostInv'
    <3>1. stream[q] = "on" /\ stream' = [stream EXCEPT ![q] = "cancel"]
      BY <2>3 DEF StreamOff
    <3>2. QED
      BY <1>1, <2>1, <2>2, <3>1
  <2>4. ASSUME NEW q \in Queue, Release(q)
        PROVE  LostInv'
    <3>1. /\ stop = "release" /\ stream[q] = "cancel" /\ stream' = [stream EXCEPT ![q] = "off"]
          /\ vb' = [b \in Buf |-> IF QueueOf(b) = q /\ vb[b] = "active" THEN "error" ELSE vb[b]]
      BY <2>4 DEF Release
    <3>2. CASE q = "src"
      BY <1>1, <2>1, <2>2, <3>1, <3>2
    <3>3. CASE q = "dst"
      <4>1. frames = {}
        BY <3>1, <3>3 DEF IInv, SessionInv
      <4>2. \A b \in lost : b \in Buf /\ QueueOf(b) = "dst"
        BY BufAssumption DEF BufAssumption, QueueOf, Buf
      <4>3. \A b \in lost : vb'[b] # "active"
        BY <3>1, <3>3, <4>2
      <4>4. lost' = {}
        BY <2>1, <4>3
      <4>5. QED
        BY <1>1, <2>1, <2>2, <3>1, <3>3, <4>1, <4>4
    <3>4. QED
      BY <3>2, <3>3 DEF Queue
  <2>5. CASE Reconfigure
    <3>1. \A q \in Queue : stream[q] \in {"idle", "off"}
      BY <2>5 DEF Reconfigure
    <3>2. frames = {} /\ lost = {} /\ hw = "off"
      BY <1>1, <3>1 DEF StreamsInv
    <3>3. QED
      BY <2>1, <2>2, <3>2
  <2>6. CASE DecoderCmd \/ DeviceRun \/ \E q \in Queue : StopStreaming(q)
    <3>1. stream' = stream
      BY <2>6 DEF DecoderCmd, CmdStop, CmdStart, DeviceRun, StopStreaming, m2mVars
    <3>2. QED
      BY <2>1, <2>2, <3>1
  <2>7. QED
    BY <2>1, <2>3, <2>4, <2>5, <2>6 DEF Ioctl
<1>8. QED
  BY <1>4, <1>5, <1>6, <1>7 DEF Next

LEMMA InitCredit ==
  ASSUME Init
  PROVE  StreamsInv /\ SizedInv /\ CreditInv /\ LostInv
<1>1. Len(<< >>) = 0
  BY EmptySeq, LenProperties
<1>2. QED
  BY <1>1
     DEF Init, M2mInit, ParserInit, AdapterInit, StreamsInv, SizedInv, CreditInv, InFlight,
         One, Pending, Queue, LostInv

LEMMA SameCredit ==
  ASSUME StreamsInv, SizedInv, CreditInv, LostInv, UNCHANGED vars
  PROVE  StreamsInv' /\ SizedInv' /\ CreditInv' /\ LostInv'
BY DEF LostInv, SizedInv, vars, m2mVars, parserVars, feedVars, recordVars, sessionVars, adapterVars,
   codecVars, frameVars, StreamsInv, CreditInv, InFlight, One, Pending

\* The sums hold in every reachable state.
THEOREM Accounted == Spec => [](StreamsInv /\ SizedInv /\ CreditInv /\ LostInv)
<1> DEFINE AllInv == StreamsInv /\ SizedInv /\ CreditInv /\ LostInv
<1>1. IInv /\ IInv' /\ AllInv /\ [Next]_vars => AllInv'
  BY StreamsStep, SizedStep, FeedCredit, IsrCredit, CallCredit, LostStep, SameCredit DEF Next, Rest
<1>2. Init => AllInv
  BY InitCredit
<1>3. QED
  BY <1>1, <1>2, Invariant, PTL DEF Spec

\* No buffer is given back twice or in two places, and none is lost but by a drain that
\* finds pictures with negative order counts, whatever the four threads and STREAMOFF
\* do (esparser_queue, codec_hevc_prepare_new_frame, show_frames, flush_output).
THEOREM BuffersConserved == Spec => []BufferConservation
<1>1. ASSUME IInv, LostInv
      PROVE  BufferConservation
  <2> DEFINE h == [f \in Waiting |-> f.buf]
  <2>1. h \in Bijection(Waiting, Held)
    BY <1>1 DEF Bijection, Injection, Surjection, IsInjective, Held, IInv, BufferInv
  <2>2. IsFiniteSet(Waiting)
    BY <1>1, FS_Subset DEF IInv, FrameInv, FramesOK, Waiting
  <2>3. Cardinality(Held) = Cardinality(Waiting)
    BY <2>1, <2>2, FS_Bijection DEF ExistsBijection
  <2>4. /\ Active = InReady \cup ({cur} \ {NoBuf}) \cup Held \cup (dropped \cup lost)
        /\ ({cur} \ {NoBuf}) \cap InReady = {} /\ Held \cap InReady = {}
        /\ (dropped \cup lost) \cap (InReady \cup ({cur} \ {NoBuf}) \cup Held) = {}
        /\ NoBuf \notin Held
    BY <1>1, BufAssumption
       DEF IInv, BufferInv, Balanced, Active, ActiveIn, InReady, Queued, BufAssumption
  <2>5. led \/ (framesNum = Cardinality(Waiting) /\ lost = {})
    BY <1>1 DEF IInv, FrameInv, LostInv
  <2>6. QED
    BY <2>3, <2>4, <2>5 DEF BufferConservation, Held
<1>2. QED
  BY <1>1, Invariant, Accounted, PTL

\* The decoder runs out of CAPTURE buffers only after a packet was accepted that
\* esparser_queue could not refuse, or after DECODER_CMD took a buffer, or after more
\* than Reserve frames more were shown than begun while esparser_queue held the codec's
\* count: for every size of the ring and the reserve (esparser_queue,
\* codec_hevc_num_pending_bufs, codec_hevc_prepare_new_frame).
THEOREM NeverStarved == Spec => Throttled
<1>1. ASSUME IInv, StreamsInv, SizedInv, CreditInv, Next, ~starved, starved'
      PROVE  overdrawn
  <2>1. PrepareFrame /\ ~Ready("dst")
    BY <1>1
       DEF Next, Feed, Isr, PostHeader, HandleHeader, SourceChange, ShowFrame, PrepareFrame,
           Call, QueueBuf, StreamOn, DrainFrame, AbortDrained, HevcStop, QueueDrained, Rest,
           codecVars
  <2>2. Pending /\ hw # "off"
    BY <1>1, <2>1 DEF PrepareFrame, Pending, IInv, SessionInv
  <2>3. stream["dst"] # "off"
    BY <1>1, <2>1 DEF PrepareFrame, StreamsInv, SizedInv
  <2>4. Len(rdy["dst"]) = 0
    BY <2>1, EmptySeq DEF Ready
  <2>5. InFlight >= 1
    BY <1>1, <2>2, CreditTypes DEF InFlight, One
  <2>6. InFlight \in Nat /\ One(work = "write") \in Nat
    BY <1>1, CreditTypes
  <2>7. QED
    BY <1>1, <2>2, <2>3, <2>4, <2>5, <2>6 DEF CreditInv
<1>2. IInv /\ StreamsInv /\ SizedInv /\ CreditInv /\ [Next]_vars
        => [~starved /\ starved' => overdrawn]_vars
  BY <1>1
<1>3. QED
  BY <1>2, Invariant, Accounted, PTL DEF Spec, Throttled
-----------------------------------------------------------------------------
(* The records.  A frame is given the timestamp of the record its offset      *)
(* matches: that it is its own packet's needs the ring (PointerInv,           *)
(* OffsetInv), the order of packets (PktInv), which packets have a record     *)
(* (RecordInv), and that no record is dropped for its age while its frame is  *)
(* overtaken (OvertakeInv, AgeInv).                                           *)

\* packets that esparser_write_data is done with
Wrote == packets - One(work = "write")

\* The stream's packets are enough for what is queued; packets are fed while OUTPUT streams.
BoundInv ==
  /\ packets + Len(rdy["src"]) <= Len(PacketSize)
  /\ work = "admit" => Ready("src")
  /\ codec = "resume" => stream["src"] = "on"
  /\ status # "stopped" =>
       \/ stream["src"] \in {"on", "cancel"}
       \/ /\ stream["src"] = "off" /\ status = "needs_resume"
          /\ stream["dst"] \in {"on", "cancel"}

\* where the last packet begins, in bytes since the start
Begun == wrapCount * VififoSize + lastOffset

\* The parser has written less than the ring holds since it last looked at the pointer.
PointerInv ==
  /\ written \in Nat /\ wrapCount \in Nat /\ lastOffset \in 0 .. VififoSize - 1
  /\ written >= Begun /\ written - Begun < VififoSize
  /\ work = "write" => written = Begun /\ packets >= 1

\* a session that has been powered off has no records, and gets none before it starts
IdleInv ==
  /\ stop = "poweroff" => shouldStop
  /\ status = "stopped" =>
       /\ timestamps = << >> /\ work \notin {"admit", "write"}
       /\ "src" \in streamon => shouldStop /\ (stop = "none" => stream["dst"] = "off")

\* the packets in the ring, of the header and of the frames, in the order of the stream
PktInv ==
  /\ RecordsOK(vififo) /\ \A p \in PktsOf(vififo) : p \in 1 .. Wrote
  /\ Pending => header.pkt \in 1 .. Wrote /\ \A p \in PktsOf(vififo) : header.pkt < p
  /\ \A f \in Waiting : /\ f.pkt \in 1 .. Wrote
                        /\ Pending => f.pkt < header.pkt
                        /\ \A p \in PktsOf(vififo) : f.pkt < p
  /\ \A f, g \in Waiting : f.pkt = g.pkt => f = g

\* of the records s, those of the packets up to p, and no others, begin at or before "at"
Placed(p, at, s, end) ==
  /\ at \in Nat /\ at < end
  /\ \A i \in DOMAIN s : s[i].pkt <= p <=> s[i].offset <= at

PlacedNow(p, at) == Placed(p, at, timestamps, written)

OffsetInv ==
  /\ \A i \in DOMAIN timestamps :
       timestamps[i] \in [pkt : Nat, offset : 0 .. written, used : Nat]
  /\ \A f \in Waiting : PlacedNow(f.pkt, f.at)
  /\ Pending => PlacedNow(header.pkt, header.at)
  /\ \A i \in DOMAIN vififo : PlacedNow(vififo[i].pkt, EndOf(vififo[i]) - 1)

WaitingPkts == {f.pkt : f \in Waiting}

\* packets whose frame is not in the list yet
Coming == (IF Pending THEN {header.pkt} ELSE {}) \cup PktsOf(vififo)
          \cup (IF work = "write" THEN {packets} ELSE {})

\* the session decodes, or has found no buffer but is not yet being stopped for it
Live == status # "stopped" /\ (starved => stop = "none")

\* One record for each packet to come and for each frame that waits; while the list is
\* drained, which takes the oldest record for the first frame, as many as there are frames.
RecordInv ==
  /\ RecordsOK(timestamps) /\ PktsOf(timestamps) \subseteq 1 .. packets
  /\ Live =>
       /\ Coming \subseteq PktsOf(timestamps)
       /\ queued = Len(timestamps) - One(work = "write")
       /\ starved => WaitingPkts \subseteq PktsOf(timestamps)
       /\ ~starved =>
            /\ framesNum <= Len(timestamps)
            /\ \A i \in DOMAIN timestamps : timestamps[i].pkt \in Coming <=> i > framesNum
            /\ ~Draining => PktsOf(timestamps) = WaitingPkts \cup Coming

\* packets of the frames of W that were decoded before f and are displayed after it
Overtaken(f, W) == {g.pkt : g \in {h \in W : h.pkt < f.pkt /\ f.truth < h.truth}}

OvertakeInv == \A f \in Waiting : Cardinality(Overtaken(f, Waiting)) <= Reorder

\* A record that has been passed over is passed over again only as those before it go.
AgeInv ==
  \A i \in DOMAIN timestamps :
    timestamps[i].used = 0 \/ timestamps[i].used + i <= Reorder + 2

-----------------------------------------------------------------------------
LEMMA BoundStep ==
  ASSUME IInv, StreamsInv, BoundInv, Next
  PROVE  BoundInv'
<1> USE DEF BoundInv, adapterVars, sessionVars, drainVars
<1>1. /\ QueuesTyped(rdy) /\ stream \in [Queue -> {"idle", "on", "cancel", "off"}]
      /\ packets \in Nat /\ rdy["src"] \in Seq(SrcBuf)
  BY DEF IInv, TypeInv, M2mTypeOK, QueuesTyped, Queue, BufOf
<1>2. Len(rdy["src"]) \in Nat /\ Len(PacketSize) \in Nat /\ Len(PacketSize) >= 1
  <2>1. PacketSize \in Seq(1 .. VififoSize - 1) /\ PacketSize # << >>
    BY ParserAssumption DEF ParserAssumption
  <2>2. QED
    BY <1>1, <2>1, LenProperties, EmptySeq
<1>3. CASE UNCHANGED <<packets, stream, status, codec, work>> /\ rdy'["src"] = rdy["src"]
  BY <1>3 DEF Ready
<1>4. CASE Feed
  <2>1. CASE ReadFramesNum \/ WorkBegins \/ WorkEnds \/ Written \/ WriteFailed
    BY <1>4, <2>1
       DEF Feed, ReadFramesNum, ReadPending, WorkBegins, WorkStart, WorkEnds, Written,
           WriteFailed, m2mVars, Ready
  <2>2. CASE Submit(framesNum + Reserve)
    <3>1. /\ rdy' = [rdy EXCEPT !["src"] = Tail(@)] /\ rdy["src"] # << >>
          /\ packets' = packets + 1 /\ work' = "write" /\ UNCHANGED <<stream, status, codec>>
      BY <1>4, <2>2 DEF Feed, Submit, AfterRemove, Ready
    <3>2. rdy'["src"] = Tail(rdy["src"])
      BY <1>1, <3>1 DEF QueuesTyped, Queue
    <3>3. Len(Tail(rdy["src"])) = Len(rdy["src"]) - 1
      <4> DEFINE s == rdy["src"]
      <4>1. s \in Seq(SrcBuf) /\ s # << >>
        BY <1>1, <3>1
      <4> HIDE DEF s
      <4>2. Len(Tail(s)) = Len(s) - 1
        BY <4>1, HeadTailProperties
      <4>3. QED
        BY <4>2 DEF s
    <3>4. packets' + Len(rdy'["src"]) = packets + Len(rdy["src"])
      <4>1. packets' = packets + 1
        BY <3>1
      <4>2. Len(rdy'["src"]) = Len(rdy["src"]) - 1
        BY <3>2, <3>3, Zenon
      <4> DEFINE n == Len(rdy["src"])
                 m == Len(rdy'["src"])
      <4>3. n \in Nat /\ packets \in Nat /\ m = n - 1
        BY <1>1, <1>2, <4>2, Zenon
      <4> HIDE DEF n, m
      <4>4. packets' + m = packets + n
        BY <4>1, <4>3
      <4>5. QED
        BY <4>4 DEF n, m
    <3>5. QED
      BY <3>1, <3>4
  <2>3. CASE RecordFailed
    <3>1. /\ rdy' = [rdy EXCEPT !["src"] = Tail(@)] /\ rdy["src"] # << >>
          /\ packets' = packets /\ work' = "idle" /\ UNCHANGED <<stream, status, codec>>
      BY <1>4, <2>3 DEF Feed, RecordFailed, AfterRemove, Ready
    <3>2. rdy'["src"] = Tail(rdy["src"])
      BY <1>1, <3>1 DEF QueuesTyped, Queue
    <3>3. Len(Tail(rdy["src"])) = Len(rdy["src"]) - 1
      <4> DEFINE s == rdy["src"]
      <4>1. s \in Seq(SrcBuf) /\ s # << >>
        BY <1>1, <3>1
      <4> HIDE DEF s
      <4>2. Len(Tail(s)) = Len(s) - 1
        BY <4>1, HeadTailProperties
      <4>3. QED
        BY <4>2 DEF s
    <3>4. packets' + Len(rdy'["src"]) <= Len(PacketSize)
      <4>1. packets' = packets
        BY <3>1
      <4>2. Len(rdy'["src"]) = Len(rdy["src"]) - 1
        BY <3>2, <3>3, Zenon
      <4> DEFINE n == Len(rdy["src"])
                 m == Len(rdy'["src"])
                 z == Len(PacketSize)
      <4>3. n \in Nat /\ packets \in Nat /\ m = n - 1 /\ z \in Nat /\ packets + n <= z
        BY <1>1, <1>2, <4>2, Zenon
      <4> HIDE DEF n, m, z
      <4>4. packets' + m <= z
        BY <4>1, <4>3
      <4>5. QED
        BY <4>4 DEF n, m, z
    <3>5. QED
      BY <3>1, <3>4
  <2>4. QED
    BY <1>4, <2>1, <2>2, <2>3 DEF Feed
<1>5. CASE Isr
  <2>1. UNCHANGED <<packets, stream, work>> /\ rdy'["src"] = rdy["src"]
    <3>1. rdy' \in {rdy, AfterRemove("dst")}
      BY <1>5 DEF Isr, PostHeader, HandleHeader, SourceChange, ShowFrame, PrepareFrame, m2mVars
    <3>2. AfterRemove("dst")["src"] = rdy["src"]
      BY <1>1 DEF AfterRemove, QueuesTyped, Queue
    <3>3. UNCHANGED <<packets, stream, work>>
      BY <1>5 DEF Isr, PostHeader, HandleHeader, SourceChange, ShowFrame, PrepareFrame, m2mVars,
                  parserVars, feedVars
    <3>4. QED
      BY <3>1, <3>2, <3>3
  <2>2. status # "stopped"
    BY <1>5
       DEF Isr, PostHeader, HandleHeader, SourceChange, ShowFrame, PrepareFrame, IInv,
           SessionInv
  <2>3. /\ codec' = "resume" => codec = "resume"
        /\ status' = status \/ status' = "needs_resume" \/ codec = "resume"
    BY <1>5
       DEF Isr, PostHeader, HandleHeader, SourceChange, ProcessHeader, ShowFrame,
           PrepareFrame, m2mVars, parserVars
  <2>4. QED
    BY <2>1, <2>2, <2>3 DEF Ready
<1>6. CASE Call
  <2>1. ASSUME NEW b \in Buf, QueueBuf(b)
        PROVE  BoundInv'
    <3>1. /\ UNCHANGED <<packets, stream, status, codec, work>> /\ work = "idle"
          /\ b \in SrcBuf => packets + Len(rdy["src"]) < Len(PacketSize)
          /\ rdy' = rdy \/ rdy' = [rdy EXCEPT ![QueueOf(b)] = Append(@, b)]
      BY <2>1 DEF QueueBuf, UserQBuf, QBuf, NoIoctl, Unlocked, feedVars, codecVars
    <3>2. Len(rdy'["src"]) = Len(rdy["src"]) \/ (b \in SrcBuf /\ Len(rdy'["src"]) = Len(rdy["src"]) + 1)
      <4>1. CASE b \in SrcBuf
        <5>1. Len(Append(rdy["src"], b)) = Len(rdy["src"]) + 1
          BY <1>1, <4>1, AppendProperties
        <5>2. QED
          BY <1>1, <3>1, <4>1, <5>1 DEF QueueOf, QueuesTyped, Queue
      <4>2. CASE b \notin SrcBuf
        BY <1>1, <3>1, <4>2 DEF QueueOf, QueuesTyped, Queue
      <4>3. QED
        BY <4>1, <4>2
    <3>3. QED
      BY <1>1, <1>2, <3>1, <3>2
  <2>2. ASSUME NEW q \in Queue, NEW b \in BufOf(q), StreamOn(q, b)
        PROVE  BoundInv'
    <3>1. /\ LockFree /\ work = "idle" /\ work' = "idle" /\ stream[q] = "idle"
          /\ stream' = [stream EXCEPT ![q] = "on"] /\ rdy' = [rdy EXCEPT ![q] = <<b>>]
          /\ streamon' = streamon \cup {q} /\ codec # "resume"
      BY <2>2
         DEF StreamOn, StreamOnBuffer, NoIoctl, Unlocked, StartSession, KeepSession,
             feedVars
    <3>2. Len(<<b>>) = 1
      OBVIOUS
    <3>3. "src" \in streamon => stream["src"] \in {"on", "cancel"}
      BY DEF StreamsInv
    <3>4. CASE StreamOnOutcome(q) = "starts"
      <4>1. packets' = 0 /\ codec' = codec /\ "src" \in streamon \cup {q}
        <5>1. StartSession
          BY <2>2, <3>4 DEF StreamOn
        <5>2. "src" \in streamon \cup {q}
          BY <3>4 DEF StreamOnOutcome
        <5>3. QED
          BY <5>1, <5>2 DEF StartSession
      <4>2. stream'["src"] \in {"on", "cancel"}
        BY <1>1, <3>1, <3>3, <4>1 DEF Queue
      <4>3. Len(rdy'["src"]) \in {1, Len(rdy["src"])}
        BY <1>1, <3>1, <3>2 DEF QueuesTyped, Queue
      <4>4. QED
        BY <1>1, <1>2, <3>1, <4>1, <4>2, <4>3
    <3>5. CASE StreamOnOutcome(q) # "starts"
      <4>1. UNCHANGED <<packets, status>> /\ (codec' = "resume" => q = "dst" /\ "src" \in streamon)
        <5>1. KeepSession /\ (codec' = codec \/ StreamOnOutcome(q) = "resumes")
          BY <2>2, <3>5 DEF StreamOn
        <5>2. StreamOnOutcome(q) = "resumes" => q = "dst" /\ "src" \in streamon \cup {q}
          BY DEF StreamOnOutcome
        <5>3. QED
          BY <3>1, <5>1, <5>2 DEF KeepSession, feedVars
      <4>2. CASE q = "src"
        <5>1. status = "stopped"
          BY <3>1, <4>2
        <5>2. StreamOnOutcome(q) = "starts"
          BY <4>2, <5>1 DEF StreamOnOutcome
        <5>3. QED
          BY <3>5, <5>2
      <4>3. CASE q = "dst"
        <5>1. rdy'["src"] = rdy["src"] /\ stream'["src"] = stream["src"] /\ stream'["dst"] = "on"
          BY <1>1, <3>1, <4>3 DEF QueuesTyped, Queue
        <5>2. codec' = "resume" => stream["src"] = "on"
          BY <3>1, <3>3, <4>1 DEF LockFree, Queue
        <5>3. QED
          BY <3>1, <4>1, <5>1, <5>2
      <4>4. QED
        BY <4>2, <4>3 DEF Queue
    <3>6. QED
      BY <3>4, <3>5
  <2>3. CASE DrainFrame \/ AbortDrained \/ QueueDrained
    BY <2>3
       DEF DrainFrame, AbortDrained, AbortDone, QueueDrained, DrainDone, m2mVars,
           parserVars, feedVars, Ready
  <2>4. CASE HevcStop
    BY <2>4 DEF HevcStop, PowerOff, m2mVars, feedVars, Ready
  <2>5. QED
    BY <1>6, <2>1, <2>2, <2>3, <2>4 DEF Call
<1>7. CASE Ioctl /\ UNCHANGED codecVars
  <2>1. ASSUME NEW q \in Queue, StreamOff(q)
        PROVE  BoundInv'
    <3>1. /\ UNCHANGED <<packets, rdy, status, codec, work>> /\ codec # "resume" /\ stream[q] = "on"
          /\ stream' = [stream EXCEPT ![q] = "cancel"]
      BY <2>1 DEF StreamOff, NoIoctl, feedVars
    <3>2. QED
      BY <1>1, <3>1 DEF Queue, Ready
  <2>2. CASE DecoderCmd
    <3>1. UNCHANGED <<packets, stream, status, codec, work>> /\ rdy' \in {rdy, AfterRemove("dst")}
      BY <2>2 DEF DecoderCmd, CmdStop, CmdStart
    <3>2. AfterRemove("dst")["src"] = rdy["src"]
      BY <1>1 DEF AfterRemove, QueuesTyped, Queue
    <3>3. QED
      BY <1>3, <3>1, <3>2
  <2>3. CASE DeviceRun
    BY <1>3, <2>3 DEF DeviceRun, feedVars
  <2>4. CASE Reconfigure
    <3>1. /\ UNCHANGED <<packets, status, codec, work, rdy>>
          /\ stream["src"] \in {"idle", "off"} /\ stream["dst"] \in {"idle", "off"}
      BY <2>4 DEF Reconfigure, Queue, parserVars, feedVars
    <3>2. QED
      BY <3>1 DEF Ready
  <2>5. ASSUME NEW q \in Queue, StopStreaming(q)
        PROVE  BoundInv'
    BY <1>3, <2>5 DEF StopStreaming, m2mVars, feedVars
  <2>6. ASSUME NEW q \in Queue, Release(q)
        PROVE  BoundInv'
    <3>1. /\ UNCHANGED <<packets, status, codec, work>> /\ stop = "release" /\ stream[q] = "cancel"
          /\ stream' = [stream EXCEPT ![q] = "off"] /\ rdy' = [rdy EXCEPT ![q] = << >>]
      BY <2>6 DEF Release, feedVars
    <3>2. work # "admit" /\ codec # "resume" /\ status \in {"stopped", "needs_resume"}
      BY <3>1 DEF IInv, LockInv, LockFree, SessionInv
    <3>3. status # "stopped" => streamon = Queue
      BY <3>1, <3>2 DEF StreamsInv
    <3>4. status # "stopped" => stream["src"] \in {"on", "cancel"} /\ stream["dst"] \in {"on", "cancel"}
      BY <3>3 DEF StreamsInv, Queue
    <3>5. Len(rdy'["src"]) \in {0, Len(rdy["src"])}
      <4>1. Len(<< >>) = 0
        OBVIOUS
      <4>2. QED
        BY <1>1, <3>1, <4>1 DEF QueuesTyped, Queue
    <3>6. packets + Len(rdy'["src"]) <= Len(PacketSize)
      BY <1>1, <1>2, <3>5
    <3>7. status # "stopped" => stream'["src"] \in {"on", "cancel"} \/
             (stream'["src"] = "off" /\ status = "needs_resume" /\ stream'["dst"] \in {"on", "cancel"})
      BY <1>1, <3>1, <3>2, <3>4 DEF Queue
    <3>8. QED
      BY <3>1, <3>2, <3>6, <3>7
  <2>7. QED
    BY <1>7, <2>1, <2>2, <2>3, <2>4, <2>5, <2>6 DEF Ioctl
<1>8. QED
  BY <1>4, <1>5, <1>6, <1>7 DEF Next, Rest

\* esparser_get_offset counts a wrap when the pointer is behind where it was, and so
\* finds the number of bytes written.
LEMMA OffsetFacts ==
  ASSUME PointerInv
  PROVE  /\ Offset = written /\ WritePointer \in 0 .. VififoSize - 1 /\ Wraps \in Nat
         /\ Wraps * VififoSize + WritePointer = written
<1> DEFINE v == VififoSize
           q == written \div v
           p == written % v
           d == written - Begun
<1>1. v \in Nat \ {0} /\ written \in Nat /\ wrapCount \in Nat /\ lastOffset \in 0 .. v - 1
  BY ParserAssumption DEF ParserAssumption, PointerInv
<1>2. p \in 0 .. v - 1 /\ q \in Int /\ written = v * q + p
  BY <1>1, Division
<1>3. WritePointer = p /\ Wraps = IF p < lastOffset THEN wrapCount + 1 ELSE wrapCount
  BY DEF WritePointer, Wraps
<1>4. Offset = p + Wraps * v
  BY <1>3 DEF Offset
<1>5. d >= 0 /\ d < v /\ Begun = wrapCount * v + lastOffset
  <2>1. Begun = wrapCount * v + lastOffset
    BY DEF Begun
  <2>2. Begun \in Int
    BY <1>1, <2>1
  <2>3. written >= Begun /\ written - Begun < v
    BY DEF PointerInv
  <2>4. QED
    BY <1>1, <2>1, <2>2, <2>3
<1> HIDE DEF p, q, v, d
<1> DEFINE x == v * q
           y == v * wrapCount
           z == v * (q - wrapCount)
<1>6. x \in Int /\ y \in Int /\ z = x - y /\ wrapCount * v = y
  BY <1>1, <1>2
<1>7. written = x + p /\ Begun = y + lastOffset /\ d = x + p - (y + lastOffset)
  BY <1>2, <1>5, <1>6 DEF d
<1>8. z \in {0 - v, 0, v}
  <2>1. 0 - 2 * v < z /\ z < 2 * v
    <3> HIDE DEF x, y, z
    <3>1. QED
      BY <1>1, <1>2, <1>5, <1>6, <1>7
  <2>2. q - wrapCount \in Int
    BY <1>1, <1>2
  <2>3. QED
    BY <1>1, <2>1, <2>2, Multiples
<1>9. (wrapCount + 1) * v = y + v
  BY <1>1
<1> HIDE DEF x, y, z
<1>10. Wraps * v = x
  <2>1. CASE p < lastOffset
    <3>1. z = v
      BY <1>1, <1>2, <1>5, <1>6, <1>7, <1>8, <2>1
    <3>2. QED
      BY <1>1, <1>3, <1>6, <1>9, <2>1, <3>1
  <2>2. CASE ~(p < lastOffset)
    <3>1. z = 0
      BY <1>1, <1>2, <1>5, <1>6, <1>7, <1>8, <2>2
    <3>2. QED
      BY <1>1, <1>3, <1>6, <2>2, <3>1
  <2>3. QED
    BY <2>1, <2>2
<1>11. Wraps \in Nat
  BY <1>1, <1>3
<1>12. Offset = written /\ Wraps * v + p = written
  BY <1>1, <1>2, <1>4, <1>6, <1>7, <1>10
<1>13. QED
  BY <1>2, <1>3, <1>11, <1>12 DEF v

\* the packet that is being written is one of the stream's
LEMMA SizeFacts ==
  ASSUME BoundInv, IInv, packets >= 1
  PROVE  packets \in 1 .. Len(PacketSize) /\ PacketSize[packets] \in 1 .. VififoSize - 1
<1>1. PacketSize \in Seq(1 .. VififoSize - 1)
  BY ParserAssumption DEF ParserAssumption
<1>2. rdy["src"] \in Seq(SrcBuf) /\ packets \in Nat
  BY DEF IInv, TypeInv, M2mTypeOK, Queue, BufOf
<1> DEFINE n == Len(rdy["src"])
           m == Len(PacketSize)
<1>3. n \in Nat /\ m \in Nat
  BY <1>1, <1>2, LenProperties
<1>4. packets + n <= m
  BY DEF BoundInv
<1> HIDE DEF n, m
<1>5. packets \in 1 .. m
  BY <1>2, <1>3, <1>4
<1>6. QED
  BY <1>1, <1>5, ElementOfSeq DEF m

LEMMA PointerStep ==
  ASSUME IInv, BoundInv, PointerInv, Next
  PROVE  PointerInv'
<1> DEFINE ring == <<written, lastOffset, wrapCount>>
<1>1. VififoSize \in Nat \ {0}
  BY ParserAssumption DEF ParserAssumption
<1>2. ASSUME UNCHANGED <<written, lastOffset, wrapCount>>,
             work' = "write" => work = "write" /\ packets' = packets
      PROVE  PointerInv'
  BY <1>2 DEF PointerInv, Begun
<1> USE DEF adapterVars, sessionVars, feedVars, parserVars
<1>3. CASE ReadFramesNum \/ WorkBegins \/ WorkEnds \/ WriteFailed
  BY <1>2, <1>3 DEF ReadFramesNum, ReadPending, WorkBegins, WorkStart, WorkEnds, WriteFailed
<1>4. CASE Submit(framesNum + Reserve)
  <2>1. /\ lastOffset' = WritePointer /\ wrapCount' = Wraps /\ written' = written
        /\ packets' = packets + 1
    BY <1>4 DEF Submit
  <2>2. Begun' = written /\ written \in Nat
    BY <2>1, OffsetFacts DEF Begun, PointerInv
  <2>3. written' >= Begun' /\ written' - Begun' < VififoSize
    BY <1>1, <2>1, <2>2
  <2>4. packets' >= 1
    BY <2>1 DEF IInv, TypeInv
  <2>5. QED
    BY <2>1, <2>2, <2>3, <2>4, OffsetFacts DEF PointerInv
<1>10. CASE RecordFailed
  <2>1. /\ lastOffset' = WritePointer /\ wrapCount' = Wraps /\ written' = written
        /\ work' = "idle"
    BY <1>10 DEF RecordFailed
  <2>2. Begun' = written /\ written \in Nat
    BY <2>1, OffsetFacts DEF Begun, PointerInv
  <2>3. written' >= Begun' /\ written' - Begun' < VififoSize
    BY <1>1, <2>1, <2>2
  <2>4. QED
    BY <2>1, <2>2, <2>3, OffsetFacts DEF PointerInv
<1>5. CASE Written
  <2>1. /\ written' = written + PacketSize[packets] /\ UNCHANGED <<lastOffset, wrapCount>>
        /\ work = "write" /\ work' = "scan"
    BY <1>5 DEF Written
  <2>2. written = Begun /\ written \in Nat /\ PacketSize[packets] \in 1 .. VififoSize - 1
    BY <2>1, SizeFacts DEF PointerInv
  <2>3. Begun' = Begun
    BY <2>1 DEF Begun
  <2>4. written' \in Nat /\ written' >= Begun' /\ written' - Begun' < VififoSize
    BY <1>1, <2>1, <2>2, <2>3
  <2>5. QED
    BY <2>1, <2>4 DEF PointerInv
<1>6. CASE Isr
  BY <1>2, <1>6 DEF Isr, PostHeader, HandleHeader, SourceChange, ShowFrame, PrepareFrame
<1>7. CASE Call
  <2>1. CASE \E b \in Buf : QueueBuf(b)
    BY <1>2, <2>1 DEF QueueBuf, UserQBuf
  <2>2. ASSUME NEW q \in Queue, NEW b \in BufOf(q), StreamOn(q, b)
        PROVE  PointerInv'
    <3>1. work = "idle" /\ (KeepSession \/ StartSession)
      BY <2>2 DEF StreamOn, StreamOnBuffer, NoIoctl, Unlocked
    <3>2. CASE KeepSession
      BY <1>2, <3>1, <3>2 DEF KeepSession
    <3>3. CASE StartSession
      <4>1. written' = 0 /\ lastOffset' = 0 /\ wrapCount' = 0 /\ work' = "idle"
        BY <3>1, <3>3 DEF StartSession
      <4>2. Begun' = 0
        BY <1>1, <4>1 DEF Begun
      <4>3. QED
        BY <1>1, <4>1, <4>2 DEF PointerInv
    <3>4. QED
      BY <3>1, <3>2, <3>3
  <2>3. CASE DrainFrame \/ AbortDrained \/ HevcStop \/ QueueDrained
    BY <1>2, <2>3
       DEF DrainFrame, AbortDrained, AbortDone, HevcStop, PowerOff, QueueDrained, DrainDone
  <2>4. QED
    BY <1>7, <2>1, <2>2, <2>3 DEF Call
<1>8. CASE Ioctl
  BY <1>2, <1>8 DEF Ioctl, StreamOff, DecoderCmd, DeviceRun, Reconfigure, StopStreaming, Release
<1>9. QED
  BY <1>3, <1>4, <1>5, <1>6, <1>7, <1>8, <1>10 DEF Next, Feed, Rest

LEMMA IdleStep ==
  ASSUME IInv, StreamsInv, SizedInv, IdleInv, Next
  PROVE  IdleInv'
<1> USE DEF IdleInv, adapterVars, parserVars, recordVars, sessionVars, feedVars, codecVars
<1>0. /\ streamon = {q \in Queue : stream[q] \in {"on", "cancel"}}
      /\ stream \in [Queue -> {"idle", "on", "cancel", "off"}]
      /\ stop = "none" <=> LockFree
      /\ \A q \in Queue : stream[q] \in {"idle", "off"} => rdy[q] = << >>
      /\ work \notin {"idle", "oops"} => LockFree
      /\ hw = "off" <=> status = "stopped"
  BY DEF IInv, StreamsInv, LockInv, TypeInv, M2mTypeOK, SessionInv
<1>1. CASE UNCHANGED <<stop, shouldStop, timestamps, work, streamon, stream>>
           /\ (status' = "stopped" => status = "stopped")
  BY <1>1
<1>2. CASE Feed
  <2>1. UNCHANGED <<stop, shouldStop, streamon, stream, status>>
    BY <1>2
       DEF Feed, ReadFramesNum, ReadPending, WorkBegins, WorkStart, WorkEnds, Submit,
           Written, RecordFailed, WriteFailed, m2mVars
  <2>2. status = "stopped" => ~ReadPending(framesNum)
    <3>1. ASSUME status = "stopped", Ready("src")
          PROVE  shouldStop
      <4>1. "src" \in streamon
        BY <1>0, <3>1 DEF Ready, Queue
      <4>2. QED
        BY <3>1, <4>1
    <3>2. QED
      BY <3>1 DEF ReadPending
  <2>3. status = "stopped" => UNCHANGED timestamps /\ work' \notin {"admit", "write"}
    <3>1. WorkBegins \/ WorkEnds => UNCHANGED timestamps /\ work' \notin {"admit", "write"}
      BY DEF WorkBegins, WorkStart, WorkEnds
    <3>2. Submit(framesNum + Reserve) \/ RecordFailed \/ Written \/ WriteFailed
            => work \in {"admit", "write"}
      BY DEF Submit, Written, RecordFailed, WriteFailed
    <3>3. QED
      BY <1>2, <2>2, <3>1, <3>2 DEF Feed, ReadFramesNum
  <2>4. QED
    BY <2>1, <2>3
<1>3. CASE Isr
  <2>1. UNCHANGED <<stop, shouldStop, work, streamon, stream>>
    BY <1>3 DEF Isr, PostHeader, HandleHeader, SourceChange, ShowFrame, PrepareFrame, m2mVars
  <2>2. status # "stopped" /\ status' # "stopped"
    BY <1>0, <1>3 DEF Isr, PostHeader, HandleHeader, SourceChange, ShowFrame, PrepareFrame,
                IInv, SessionInv
  <2>3. QED
    BY <2>1, <2>2
<1>4. CASE Call
  <2>1. CASE \E b \in Buf : UserQBuf(b) /\ UNCHANGED codecVars
    BY <1>1, <2>1 DEF UserQBuf, QBuf
  <2>2. ASSUME NEW q \in Queue, NEW b \in BufOf(q), StreamOn(q, b)
        PROVE  IdleInv'
    <3>1. /\ stop' = stop /\ LockFree /\ work = "idle" /\ work' = "idle" /\ UNCHANGED timestamps
          /\ streamon' = streamon \cup {q} /\ stream[q] = "idle"
      BY <2>2 DEF StreamOn, StreamOnBuffer, NoIoctl, Unlocked, StartSession, KeepSession
    <3>2. CASE status = "stopped" /\ "src" \in streamon \cup {q}
      <4>1. StreamOnOutcome(q) = "starts"
        BY <3>2 DEF StreamOnOutcome
      <4>2. status' = "init"
        BY <2>2, <4>1 DEF StreamOn, StartSession
      <4>3. QED
        BY <1>0, <3>1, <4>2
    <3>3. CASE status = "stopped" /\ "src" \notin streamon \cup {q}
      BY <1>0, <3>1, <3>3
    <3>4. CASE status # "stopped"
      BY <1>0, <2>2, <3>1, <3>4 DEF StreamOn, StartSession, KeepSession
    <3>5. QED
      BY <3>2, <3>3, <3>4
  <2>3. CASE DrainFrame
    <3>1. hw # "off"
      <4>1. Waiting # {}
        BY <2>3 DEF DrainFrame, ReadyFrames
      <4>2. QED
        BY <4>1 DEF IInv, SessionInv, Waiting
    <3>2. QED
      BY <1>0, <2>3, <3>1 DEF DrainFrame
  <2>4. CASE AbortDrained \/ QueueDrained
    BY <1>0, <2>4
       DEF AbortDrained, AbortDone, QueueDrained, DrainDone, m2mVars, Drained, Draining
  <2>5. CASE HevcStop
    BY <1>0, <2>5 DEF HevcStop, PowerOff, m2mVars
  <2>6. QED
    BY <1>4, <2>1, <2>2, <2>3, <2>4, <2>5 DEF Call, QueueBuf
<1>5. CASE Ioctl /\ UNCHANGED codecVars
  <2>1. ASSUME NEW q \in Queue, StreamOff(q)
        PROVE  IdleInv'
    <3>1. /\ UNCHANGED <<timestamps, work, streamon, status>> /\ stop' \in {"abort", "stop"}
          /\ shouldStop => shouldStop'
      BY <2>1 DEF StreamOff
    <3>2. QED
      BY <3>1
  <2>2. CASE DecoderCmd
    BY <1>1, <2>2 DEF DecoderCmd, CmdStop, CmdStart
  <2>3. CASE DeviceRun
    <3>1. /\ UNCHANGED <<stop, timestamps, work, streamon, status, stream>>
          /\ stream["src"] = "on" /\ stream["dst"] = "on"
      BY <2>3 DEF DeviceRun, JobReady
    <3>2. stop = "none" /\ "src" \in streamon
      BY <1>0, <3>1 DEF LockFree, Queue
    <3>3. QED
      BY <3>1, <3>2
  <2>4. CASE Reconfigure
    BY <1>0, <2>4 DEF Reconfigure
  <2>5. ASSUME NEW q \in Queue, StopStreaming(q)
        PROVE  IdleInv'
    BY <2>5 DEF StopStreaming, PowersOff, m2mVars
  <2>6. ASSUME NEW q \in Queue, Release(q)
        PROVE  IdleInv'
    <3>1. /\ UNCHANGED <<timestamps, work, shouldStop, status>> /\ stop' = "none" /\ stop = "release"
          /\ streamon' = streamon \ {q} /\ stream' = [stream EXCEPT ![q] = "off"]
      BY <2>6 DEF Release
    <3>2. "src" \in streamon' => stream'["dst"] = "off"
      BY <1>0, <3>1 DEF Queue
    <3>3. QED
      BY <3>1, <3>2
  <2>7. QED
    BY <1>5, <2>1, <2>2, <2>3, <2>4, <2>5, <2>6 DEF Ioctl
<1>6. QED
  BY <1>2, <1>3, <1>4, <1>5
     DEF Next, Rest
-----------------------------------------------------------------------------
(* What a step does to the frames that wait and to the records.            *)

\* the same frames, but for whether they are referenced
Twins(A, B) ==
  /\ \A f \in A : \E g \in B : Alike(f, g)
  /\ \A g \in B : \E f \in A : Alike(f, g)

\* Steps after which the same frames wait.
LEMMA SameWaiting ==
  ASSUME IInv, ~led,
         \/ frames' = frames
         \/ \E poc, rps : frames' = Referenced(poc, rps)
         \/ ReadyFrames = {} /\ frames' = {}
         \/ codec # "idle" /\ ~ShowsMore /\ frames' = Cleaned
  PROVE  Twins(Waiting, Waiting')
<1>1. CASE frames' = frames
  <2>1. Waiting' = Waiting
    BY <1>1 DEF Waiting
  <2>2. QED
    BY <2>1 DEF Twins, Alike
<1>2. CASE \E poc, rps : frames' = Referenced(poc, rps)
  <2>1. PICK poc, rps : frames' = Referenced(poc, rps)
    BY <1>2
  <2>2. /\ \A f \in frames : \E g \in frames' : Alike(f, g)
        /\ \A g \in frames' : \E f \in frames : Alike(f, g)
    BY <2>1, ReferencedFacts DEF IInv, FrameInv, BufferInv
  <2>3. QED
    BY <2>2 DEF Alike, Twins, Waiting
<1>3. CASE ReadyFrames = {} /\ frames' = {}
  <2>1. Waiting = {} /\ Waiting' = {}
    BY <1>3, NoneReady DEF IInv, FrameInv, Waiting
  <2>2. QED
    BY <2>1 DEF Twins
<1>4. CASE codec # "idle" /\ ~ShowsMore /\ frames' = Cleaned
  <2>1. Waiting' = Waiting
    BY <1>4, CleanedFacts DEF Waiting, WaitingIn
  <2>2. QED
    BY <2>1 DEF Twins, Alike
<1>5. QED
  BY <1>1, <1>2, <1>3, <1>4

\* A frame that is shown is the first of those that wait.
LEMMA LessWaiting ==
  ASSUME IInv, ~led, ReadyFrames # {}, frames' = Shown(NextReady)
  PROVE  /\ NextReady \in Waiting /\ Waiting' = Waiting \ {NextReady}
         /\ \A g \in Waiting \ {NextReady} : NextReady.truth < g.truth
         /\ framesNum \in Nat /\ framesNum >= 1
<1> DEFINE n == NextReady
<1>1. /\ FramesOK(frames) /\ Distinct(frames)
      /\ n \in Waiting /\ \A g \in Waiting : n.truth <= g.truth
  BY NextReadyFacts DEF IInv, FrameInv
<1>2. Waiting' = Waiting \ {n}
  <2>1. WaitingIn(Shown(n)) = Waiting \ {n}
    BY <1>1, ShownFacts
  <2>2. QED
    BY <2>1 DEF Waiting, WaitingIn
<1> HIDE DEF n
<1>3. ASSUME NEW g \in Waiting, g # n
      PROVE  n.truth < g.truth
  <2>1. n.truth \in Nat /\ g.truth \in Nat /\ n.truth # g.truth
    BY <1>1, <1>3 DEF FramesOK, IsFrame, Distinct, Waiting
  <2>2. QED
    BY <1>1, <2>1
<1>4. framesNum \in Nat /\ framesNum >= 1
  <2>1. IsFiniteSet(Waiting) /\ framesNum = Cardinality(Waiting)
    BY FS_Subset DEF IInv, FrameInv, FramesOK, Waiting
  <2>2. Cardinality(Waiting) \in Nat /\ Cardinality(Waiting) # 0
    BY <1>1, <2>1, FS_CardinalityType, FS_EmptySet
  <2>3. QED
    BY <2>1, <2>2
<1>5. QED
  BY <1>1, <1>2, <1>3, <1>4 DEF n

\* A picture's frame joins those that wait.
LEMMA MoreWaiting ==
  ASSUME IInv, ~led, PrepareFrame, Ready("dst")
  PROVE  /\ Waiting' = Waiting \cup {NewFrame}
         /\ NewFrame.pkt = header.pkt /\ NewFrame.at = header.at /\ NewFrame.truth = header.truth
         /\ header.idr => Waiting = {}
<1>1. codec # "idle" /\ ~ShowsMore /\ frames' = Cleaned \cup {NewFrame}
  BY DEF PrepareFrame
<1>2. WaitingIn(Cleaned \cup {NewFrame}) = Waiting \cup {NewFrame} /\ (header.idr => Waiting = {})
  BY <1>1, PreparedFacts, CleanedFacts
<1>3. Waiting' = WaitingIn(frames')
  BY DEF Waiting, WaitingIn
<1>4. QED
  BY <1>1, <1>2, <1>3 DEF NewFrame
\* Steps that touch neither the frames that wait nor the records, nor move a packet on.
Quiet ==
  /\ Twins(Waiting, Waiting') /\ framesNum' = framesNum
  /\ UNCHANGED <<timestamps, queued, vififo, written, packets, starved>>
  /\ work' = "write" <=> work = "write"
  /\ Pending' <=> Pending
  /\ Pending => header' = header
  /\ status' = "stopped" <=> status = "stopped"
  /\ starved /\ status # "stopped" /\ stop' = "none" => stop = "none"
  /\ Draining => Draining' \/ Waiting = {}

\* STREAMON that starts a session
Starts ==
  /\ StartSession /\ starved' = FALSE /\ status = "stopped" /\ work' = "idle"
  /\ Waiting = {} /\ Waiting' = {} /\ framesNum' = framesNum /\ ~Pending'

\* Every other step is one of these.
LEMMA StepKinds ==
  ASSUME IInv, SizedInv, Next, ~led
  PROVE  \/ Quiet
         \/ (Submit(framesNum + Reserve) \/ Written \/ WriteFailed) /\ UNCHANGED <<adapterVars, codecVars>>
         \/ PostHeader \/ ShowFrame \/ PrepareFrame \/ DrainFrame \/ Starts \/ HevcStop
<1> USE DEF adapterVars, parserVars, recordVars, sessionVars, feedVars, codecVars, frameVars
<1>1. /\ hw = "off" <=> status = "stopped"
      /\ status = "needs_resume" => hw = "held"
      /\ stop = "none" <=> LockFree
      /\ work \notin {"idle", "oops"} \/ codec = "resume" => LockFree
      /\ starved => hw \in {"off", "held"} /\ status # "needs_resume"
      /\ stop = "drain" => status = "needs_resume"
      /\ stop = "release" => status \in {"stopped", "needs_resume"}
  BY DEF IInv, SessionInv, LockInv
<1>2. frames' = frames => Twins(Waiting, Waiting')
  BY SameWaiting
<1>3. ASSUME UNCHANGED <<frames, framesNum, timestamps, queued, vififo, written, packets, starved,
                         codec, hw, status, header, stop>>, work' = "write" <=> work = "write"
      PROVE  Quiet
  BY <1>2, <1>3 DEF Quiet, Pending, Draining, Inactive
<1>4. CASE Feed
  <2>1. CASE ReadFramesNum \/ WorkBegins \/ WorkEnds
    <3>1. work' # "write" /\ work # "write"
      BY <2>1 DEF ReadFramesNum, ReadPending, WorkBegins, WorkStart, WorkEnds, Unlocked
    <3>2. QED
      BY <1>3, <1>4, <2>1, <3>1
         DEF Feed, ReadFramesNum, ReadPending, WorkBegins, WorkStart, WorkEnds
  <2>2. CASE RecordFailed
    <3>1. work' # "write" /\ work # "write"
      BY <2>2 DEF RecordFailed
    <3>2. QED
      BY <1>3, <1>4, <2>2, <3>1 DEF Feed, RecordFailed
  <2>3. QED
    BY <1>4, <2>1, <2>2 DEF Feed
<1>5. CASE HandleHeader
  <2>1. /\ UNCHANGED <<framesNum, timestamps, queued, vififo, written, packets, starved, hw, status,
                       header, stop, work>>
        /\ frames' = Referenced(currPoc', header.rps) /\ hw = "posted"
    BY <1>5 DEF HandleHeader, ProcessHeader
  <2>2. Twins(Waiting, Waiting')
    BY <2>1, SameWaiting
  <2>3. ~Draining
    BY <1>1, <2>1 DEF Draining, Inactive
  <2>4. QED
    BY <2>1, <2>2, <2>3 DEF Quiet, Pending
<1>6. CASE SourceChange
  <2>1. /\ UNCHANGED <<framesNum, timestamps, queued, vififo, written, packets, starved, header,
                       stop, work>>
        /\ frames' = frames \/ frames' = Referenced(currPoc', header.rps)
        /\ hw = "posted"
        /\ UNCHANGED <<hw, status>> \/ status' = "needs_resume"
    BY <1>6 DEF SourceChange, ProcessHeader
  <2>2. Twins(Waiting, Waiting')
    BY <2>1, SameWaiting
  <2>3. ~Draining
    BY <1>1, <2>1 DEF Draining, Inactive
  <2>4. status # "stopped" /\ status' # "stopped"
    BY <1>1, <2>1
  <2>5. Pending /\ Pending'
    BY <2>1 DEF Pending
  <2>6. QED
    BY <2>1, <2>2, <2>3, <2>4, <2>5 DEF Quiet
<1>7. CASE Call
  <2>1. CASE \E b \in Buf : UserQBuf(b) /\ UNCHANGED codecVars
    BY <1>3, <2>1 DEF UserQBuf
  <2>2. ASSUME NEW q \in Queue, NEW b \in BufOf(q), StreamOn(q, b)
        PROVE  Quiet \/ Starts
    <3>1. work = "idle" /\ stop' = stop /\ stop = "none"
      BY <1>1, <2>2 DEF StreamOn, StreamOnBuffer, NoIoctl, Unlocked
    <3>2. CASE StreamOnOutcome(q) = "starts" /\ StartSession
      <4>1. status = "stopped" /\ UNCHANGED <<frames, framesNum>> /\ starved' = FALSE
        BY <2>2, <3>2 DEF StreamOnOutcome, StreamOn
      <4>2. Waiting = {} /\ Waiting' = {}
        BY <1>1, <4>1 DEF Waiting, IInv, SessionInv
      <4>3. ~Pending' /\ work' = "idle"
        BY <3>1, <3>2 DEF StartSession, Pending
      <4>4. QED
        BY <3>2, <4>1, <4>2, <4>3 DEF Starts
    <3>3. CASE KeepSession /\ ProcessHeader("resume") /\ UNCHANGED <<sized, starved, streamVars>>
      <4>1. /\ UNCHANGED <<framesNum, timestamps, queued, vififo, written, packets, starved, header,
                           hw, status, work>>
            /\ frames' = Referenced(currPoc', header.rps)
        BY <3>3 DEF KeepSession, ProcessHeader
      <4>2. Twins(Waiting, Waiting')
        BY <4>1, SameWaiting
      <4>3. ~Draining
        BY <3>1 DEF Draining
      <4>4. QED
        BY <3>1, <4>1, <4>2, <4>3 DEF Quiet, Pending
    <3>4. CASE KeepSession /\ UNCHANGED <<codec, hw, codecVars>>
      BY <1>3, <3>1, <3>4 DEF KeepSession
    <3>5. QED
      BY <2>2, <3>2, <3>3, <3>4 DEF StreamOn
  <2>3. CASE AbortDrained \/ QueueDrained
    <3>1. /\ UNCHANGED <<framesNum, timestamps, queued, vififo, written, packets, starved, header,
                         hw, status, work>>
          /\ frames' = {} /\ ReadyFrames = {} /\ stop' # "none"
      BY <2>3 DEF AbortDrained, AbortDone, QueueDrained, DrainDone, Drained
    <3>2. Twins(Waiting, Waiting')
      BY <3>1, SameWaiting
    <3>3. Waiting = {}
      BY <3>1, NoneReady DEF IInv, FrameInv
    <3>4. QED
      BY <3>1, <3>2, <3>3 DEF Quiet, Pending
  <2>4. QED
    BY <1>7, <2>1, <2>2, <2>3 DEF Call, QueueBuf
<1>8. CASE Ioctl /\ UNCHANGED codecVars
  <2>1. ASSUME NEW q \in Queue, StreamOff(q) \/ StopStreaming(q) \/ Release(q)
        PROVE  Quiet
    <3>1. /\ UNCHANGED <<frames, framesNum, timestamps, queued, vififo, written, packets, starved,
                         header, hw, status, work>>
          /\ stop \in {"none", "stop", "release"}
          /\ stop' = "none" => stop = "release"
      BY <1>1, <1>8, <2>1 DEF StreamOff, NoIoctl, Unlocked, StopStreaming, Release
    <3>2. ~Draining
      BY <3>1 DEF Draining
    <3>3. QED
      BY <1>1, <1>2, <3>1, <3>2 DEF Quiet, Pending
  <2>2. CASE DecoderCmd \/ DeviceRun \/ Reconfigure
    BY <1>3, <1>8, <2>2 DEF DecoderCmd, DeviceRun, Reconfigure
  <2>3. QED
    BY <1>8, <2>1, <2>2 DEF Ioctl
<1>9. QED
  BY <1>4, <1>5, <1>6, <1>7, <1>8 DEF Next, Isr, Call, Rest
LEMMA WroteFacts ==
  ASSUME IInv, PointerInv
  PROVE  /\ packets \in Nat /\ Wrote \in Nat /\ Wrote <= packets
         /\ work = "write" => Wrote = packets - 1
         /\ work # "write" => Wrote = packets
BY DEF Wrote, One, PointerInv, IInv, TypeInv

\* Packets go through the ring in their order, and each becomes one frame.
LEMMA PktStep ==
  ASSUME IInv, IInv', PointerInv, PointerInv', SizedInv, PktInv, Next,
         ~led, ~led'
  PROVE  PktInv'
<1>1. /\ packets \in Nat /\ Wrote \in Nat
      /\ work = "write" => Wrote = packets - 1
      /\ work # "write" => Wrote = packets
  BY WroteFacts
<1>2. /\ Wrote' \in Nat
      /\ work' = "write" => Wrote' = packets' - 1
      /\ work' # "write" => Wrote' = packets'
  <2>1. packets' \in Nat
    BY DEF IInv, TypeInv
  <2>2. work' = "write" => packets' >= 1
    BY DEF PointerInv
  <2>3. /\ work' = "write" => One(work = "write")' = 1
        /\ work' # "write" => One(work = "write")' = 0
    BY DEF One
  <2>4. Wrote' = packets' - One(work = "write")'
    BY DEF Wrote
  <2>5. QED
    BY <2>1, <2>2, <2>3, <2>4
<1>3. ASSUME Wrote <= Wrote', vififo' = vififo, Pending' => Pending /\ header' = header,
             Waiting' \subseteq Waiting
      PROVE  PktInv'
  <2>1. \A p : p \in 1 .. Wrote => p \in 1 .. Wrote'
    BY <1>1, <1>2, <1>3
  <2>2. QED
    BY <1>3, <2>1 DEF PktInv
<1>4. CASE Quiet
  <2>1. Wrote' = Wrote
    BY <1>1, <1>2, <1>4 DEF Quiet
  <2>2. \A g \in Waiting' : \E f \in Waiting : Alike(f, g)
    BY <1>4 DEF Quiet, Twins
  <2>3. \A g \in Waiting' : /\ g.pkt \in 1 .. Wrote'
                            /\ Pending' => g.pkt < header'.pkt
                            /\ \A p \in PktsOf(vififo') : g.pkt < p
    BY <1>4, <2>1, <2>2 DEF Quiet, Alike, PktInv
  <2>4. ASSUME NEW f \in Waiting', NEW g \in Waiting', f.pkt = g.pkt
        PROVE  f = g
    <3>1. PICK d \in Waiting, e \in Waiting : Alike(d, f) /\ Alike(e, g)
      BY <2>2
    <3>2. d = e
      BY <2>4, <3>1 DEF Alike, PktInv
    <3>3. f.truth = g.truth /\ f \in frames' /\ g \in frames'
      BY <3>1, <3>2 DEF Alike, Waiting
    <3>4. FramesOK(frames') /\ Distinct(frames')
      BY DEF IInv, FrameInv
    <3>5. QED
      BY <3>3, <3>4 DEF FramesOK, IsFrame, Distinct
  <2>5. QED
    BY <1>4, <2>1, <2>3, <2>4 DEF Quiet, PktInv
<1>5. CASE (Submit(framesNum + Reserve) \/ Written \/ WriteFailed) /\ UNCHANGED <<adapterVars, codecVars>>
  <2>1. Pending' = Pending /\ header' = header /\ Waiting' = Waiting
    BY <1>5 DEF Submit, Written, WriteFailed, adapterVars, codecVars, frameVars, sessionVars,
                Pending, Waiting
  <2>2. CASE Submit(framesNum + Reserve) \/ WriteFailed
    <3>1. vififo' = vififo /\ Wrote' >= Wrote
      BY <1>1, <1>2, <2>2 DEF Submit, WriteFailed
    <3>2. QED
      BY <1>1, <1>2, <1>3, <2>1, <3>1
  <2>3. CASE Written
    <3> DEFINE e == [pkt |-> packets, start |-> written]
    <3>1. vififo' = Append(vififo, e) /\ packets' = packets /\ work = "write" /\ work' = "scan"
      BY <2>3 DEF Written
    <3>2. Wrote' = packets /\ Wrote = packets - 1 /\ e.pkt = packets
      BY <1>1, <1>2, <3>1
    <3> HIDE DEF e
    <3>3. RecordsOK(vififo) /\ \A p \in PktsOf(vififo) : p \in 1 .. Wrote /\ p < e.pkt
      BY <1>1, <3>2 DEF PktInv
    <3>4. RecordsOK(vififo') /\ PktsOf(vififo') = PktsOf(vififo) \cup {packets}
      BY <1>1, <3>1, <3>2, <3>3, AppendRecord
    <3>5. \A p : p \in 1 .. Wrote => p \in 1 .. packets /\ p < packets
      BY <1>1, <3>2
    <3>6. packets \in 1 .. packets
      BY <1>1, <1>2, <3>2
    <3>7. QED
      BY <2>1, <3>2, <3>3, <3>4, <3>5, <3>6 DEF PktInv
  <2>4. QED
    BY <1>5, <2>2, <2>3
<1>6. CASE PostHeader
  <2>1. /\ vififo # << >> /\ vififo' = Tail(vififo) /\ header'.pkt = Head(vififo).pkt
        /\ UNCHANGED <<work, packets, frames>>
    BY <1>6 DEF PostHeader, frameVars
  <2>2. Wrote' = Wrote /\ Waiting' = Waiting
    BY <1>1, <1>2, <2>1 DEF Waiting
  <2> DEFINE n == Len(vififo)
  <2>3. /\ RecordsOK(vififo) /\ 1 \in DOMAIN vififo /\ n \in Nat /\ DOMAIN vififo = 1 .. n
        /\ RecordsOK(Tail(vififo)) /\ PktsOf(Tail(vififo)) = PktsOf(vififo) \ {vififo[1].pkt}
    BY <2>1, TailRecord, LenProperties DEF PktInv, RecordsOK
  <2>4. header'.pkt = vififo[1].pkt /\ vififo[1].pkt \in PktsOf(vififo)
    BY <2>1, <2>3 DEF PktsOf
  <2>5. \A p \in PktsOf(vififo) : p # vififo[1].pkt => vififo[1].pkt < p
    <3>1. ASSUME NEW i \in DOMAIN vififo, i # 1
          PROVE  vififo[1].pkt < vififo[i].pkt
      <4>1. 1 < i
        BY <2>3, <3>1
      <4>2. QED
        BY <2>3, <4>1 DEF RecordsOK
    <3>2. QED
      BY <3>1 DEF PktsOf
  <2>6. QED
    BY <2>1, <2>2, <2>3, <2>4, <2>5 DEF PktInv
<1>7. CASE ShowFrame \/ DrainFrame
  <2>1. Waiting' \subseteq Waiting
    BY <1>7, LessWaiting DEF ShowFrame, DrainFrame, ShowsMore
  <2>2. UNCHANGED <<vififo, header, hw, status, work, packets>>
    BY <1>7 DEF ShowFrame, DrainFrame, feedVars, sessionVars, adapterVars
  <2>3. Wrote' = Wrote /\ Pending' = Pending
    BY <1>1, <1>2, <2>2 DEF Pending
  <2>4. QED
    BY <1>1, <1>3, <2>1, <2>2, <2>3
<1>8. CASE PrepareFrame
  <2>1. Wrote' = Wrote /\ vififo' = vififo
    BY <1>1, <1>2, <1>8 DEF PrepareFrame, feedVars
  <2>2. ~Pending' /\ Pending
    <3>1. hw' \in {"run", "held"} /\ status' # "needs_resume" /\ codec # "idle"
      BY <1>8 DEF PrepareFrame, IInv, SessionInv
    <3>2. QED
      BY <3>1 DEF Pending, IInv, SessionInv
  <2>3. CASE Ready("dst")
    <3>1. Waiting' = Waiting \cup {NewFrame} /\ NewFrame.pkt = header.pkt
      BY <1>8, <2>3, MoreWaiting
    <3>2. ASSUME NEW f \in Waiting
          PROVE  f.pkt # NewFrame.pkt
      <4>1. f.pkt < header.pkt /\ f.pkt \in 1 .. Wrote /\ header.pkt \in 1 .. Wrote
        BY <2>2 DEF PktInv
      <4>2. QED
        BY <1>1, <3>1, <4>1
    <3>3. \A f, g \in Waiting' : f.pkt = g.pkt => f = g
      BY <3>1, <3>2 DEF PktInv
    <3>4. \A f \in Waiting' : f.pkt \in 1 .. Wrote' /\ \A p \in PktsOf(vififo') : f.pkt < p
      BY <2>1, <2>2, <3>1 DEF PktInv
    <3>5. QED
      BY <2>1, <2>2, <3>3, <3>4 DEF PktInv
  <2>4. CASE ~Ready("dst")
    <3>1. frames' = Cleaned /\ codec # "idle" /\ ~ShowsMore
      BY <1>8, <2>4 DEF PrepareFrame
    <3>2. Waiting' = Waiting
      BY <3>1, CleanedFacts DEF Waiting, WaitingIn
    <3>3. QED
      BY <1>1, <1>3, <2>1, <2>2, <3>2
  <2>5. QED
    BY <2>3, <2>4
<1>9. CASE Starts
  <2>1. vififo' = << >> /\ ~Pending' /\ Waiting' = {}
    BY <1>9 DEF Starts, StartSession
  <2>2. RecordsOK(<< >>) /\ PktsOf(<< >>) = {}
    BY EmptySeq DEF RecordsOK, PktsOf, Range
  <2>3. QED
    BY <2>1, <2>2 DEF PktInv
<1>10. CASE HevcStop
  <2>1. UNCHANGED <<vififo, work, packets>> /\ hw' = "off" /\ status' = "stopped" /\ frames' = {}
    BY <1>10 DEF HevcStop, Drained, PowerOff, feedVars
  <2>2. Wrote' = Wrote /\ ~Pending' /\ Waiting' = {}
    BY <1>1, <1>2, <2>1 DEF Pending, Waiting
  <2>3. QED
    BY <1>1, <1>3, <2>1, <2>2
<1>11. QED
  BY <1>4, <1>5, <1>6, <1>7, <1>8, <1>9, <1>10,
     StepKinds

-----------------------------------------------------------------------------
(* Records that are taken away.                                            *)

Rec == [pkt : Nat, offset : Nat, used : Nat]

\* t is s without the k-th record; the next one may have aged
Gone(s, k, t, aged) ==
  /\ k \in DOMAIN s /\ t \in Seq(Range(t)) /\ Len(s) \in Nat /\ Len(t) = Len(s) - 1
  /\ \A j \in 1 .. Len(s) - 1 :
       /\ t[j] \in Rec /\ Shift(j, k) \in 1 .. Len(s)
       /\ t[j].pkt = s[Shift(j, k)].pkt /\ t[j].offset = s[Shift(j, k)].offset
       /\ \/ t[j].used = s[Shift(j, k)].used
          \/ aged /\ j = k /\ t[j].used = s[Shift(j, k)].used + 1

LEMMA GoneRecords ==
  ASSUME NEW s, RecordsOK(s), NEW k, NEW t, NEW aged, Gone(s, k, t, aged)
  PROVE  RecordsOK(t) /\ PktsOf(t) = PktsOf(s) \ {s[k].pkt}
<1>1. Shortened(s, k, t)
  BY DEF Gone, Shortened
<1>2. QED
  BY <1>1, ShorterRecords

\* What list_del leaves when no other record changes.
LEMMA DroppedRecord ==
  ASSUME NEW s, \A i \in DOMAIN s : s[i] \in Rec, RecordsOK(s), NEW k \in DOMAIN s,
         NEW t, \/ t = SubSeq(s, 1, k - 1) \o SubSeq(s, k + 1, Len(s))
                \/ k = 1 /\ t = Tail(s)
  PROVE  Gone(s, k, t, FALSE)
<1>1. Len(s) \in Nat /\ DOMAIN s = 1 .. Len(s) /\ s # << >>
  BY LenProperties, EmptySeq DEF RecordsOK
<1>2. t \in Seq(Range(t)) /\ Len(t) = Len(s) - 1 /\ \A j \in 1 .. Len(s) - 1 : t[j] = s[Shift(j, k)]
  <2> DEFINE u == SubSeq(s, 1, k - 1) \o SubSeq(s, k + 1, Len(s))
  <2>1. CASE t = u
    <3>1. u \in Seq(Range(u)) /\ Len(u) = Len(s) - 1 /\ \A j \in 1 .. Len(s) - 1 : u[j] = s[Shift(j, k)]
      BY DropRecord
    <3> HIDE DEF u
    <3>2. QED
      BY <2>1, <3>1
  <2>2. CASE k = 1 /\ t = Tail(s)
    BY <1>1, <2>2, TailRecord
  <2>3. QED
    BY <2>1, <2>2
<1> DEFINE n == Len(s)
<1>3. n \in Nat /\ DOMAIN s = 1 .. n /\ k \in 1 .. n
  BY <1>1
<1>4. ASSUME NEW j \in 1 .. n - 1
      PROVE  /\ t[j] \in Rec /\ Shift(j, k) \in 1 .. n
             /\ t[j].pkt = s[Shift(j, k)].pkt /\ t[j].offset = s[Shift(j, k)].offset
             /\ t[j].used = s[Shift(j, k)].used
  <2>1. t[j] = s[Shift(j, k)]
    BY <1>2
  <2> HIDE DEF n
  <2>2. Shift(j, k) \in 1 .. n
    BY <1>3 DEF Shift
  <2>3. t[j] \in Rec
    BY <1>3, <2>1, <2>2
  <2>4. QED
    BY <2>1, <2>2, <2>3
<1>5. QED
  BY <1>2, <1>3, <1>4 DEF Gone

\* amvdec_dst_buf_done_offset ages the next record, which is not too old.
LEMMA AgedFacts ==
  ASSUME RecordsOK(timestamps), \A j \in DOMAIN timestamps : timestamps[j] \in Rec,
         NEW i \in DOMAIN timestamps,
         i + 1 \in DOMAIN timestamps => timestamps[i + 1].used < MaxUsed
  PROVE  Gone(timestamps, i, RemoveAt(Aged(i + 1), i), TRUE)
<1> DEFINE s == timestamps
           n == Len(s)
           a == Aged(i + 1)
           t == RemoveAt(a, i)
<1>1. n \in Nat /\ DOMAIN s = 1 .. n /\ s \in Seq(Rec)
  <2>1. n \in Nat /\ DOMAIN s = 1 .. n /\ s \in [1 .. n -> Range(s)]
    BY LenProperties DEF RecordsOK
  <2>2. s \in [1 .. n -> Rec]
    BY <2>1
  <2>3. QED
    BY <2>1, <2>2, SeqDef
<1>2. /\ a \in Seq(Rec) /\ Len(a) = n
      /\ \A j \in 1 .. n : /\ a[j].pkt = s[j].pkt /\ a[j].offset = s[j].offset
                           /\ \/ a[j].used = s[j].used
                              \/ j = i + 1 /\ a[j].used = s[j].used + 1
  <2>1. \A j \in 1 .. n : s[j].used \in Nat
    BY <1>1 DEF Rec
  <2>2. CASE i + 1 > n
    <3>1. a = s
      BY <2>2 DEF Aged
    <3>2. \A j \in 1 .. n : j # i + 1
      BY <1>1, <2>2
    <3>3. QED
      BY <1>1, <2>1, <3>1, <3>2
  <2>3. CASE ~(i + 1 > n)
    <3> DEFINE r == [s[i + 1] EXCEPT !.used = @ + 1]
    <3>1. i + 1 \in 1 .. n
      BY <1>1, <2>3
    <3>2. ~(s[i + 1].used >= MaxUsed)
      BY <1>1, <2>1, <3>1, ParserAssumption DEF ParserAssumption
    <3>3. a = [s EXCEPT ![i + 1] = r]
      BY <2>3, <3>2 DEF Aged
    <3>4. s[i + 1] \in Rec
      BY <1>1, <3>1
    <3>5. r \in Rec /\ r.pkt = s[i + 1].pkt /\ r.offset = s[i + 1].offset /\ r.used = s[i + 1].used + 1
      BY <3>4 DEF Rec
    <3> HIDE DEF r, a
    <3>6. s \in [1 .. n -> Rec]
      BY <1>1
    <3>7. a \in [1 .. n -> Rec] /\ a[i + 1] = r /\ \A j \in 1 .. n : j # i + 1 => a[j] = s[j]
      BY <3>1, <3>3, <3>5, <3>6
    <3>8. a \in Seq(Rec) /\ Len(a) = n
      BY <1>1, <3>7, SeqDef, LenProperties
    <3>9. QED
      BY <2>1, <3>5, <3>7, <3>8
  <2>4. QED
    BY <2>2, <2>3
<1> HIDE DEF a
<1>3. t = SubSeq(a, 1, i - 1) \o SubSeq(a, i + 1, Len(a)) /\ i \in DOMAIN a
  BY <1>1, <1>2, LenProperties DEF RemoveAt
<1> HIDE DEF t, n
<1>4. /\ t \in Seq(Rec) /\ Len(t) = n - 1 /\ i \in 1 .. n
      /\ \A j \in 1 .. n - 1 : t[j] = a[Shift(j, i)]
  BY <1>2, <1>3, WithoutFacts
<1>5. t \in Seq(Range(t)) /\ \A j \in 1 .. n - 1 : t[j] \in Rec
  BY <1>1, <1>4, RangeSeq, ElementOfSeq
<1>6. ASSUME NEW j \in 1 .. n - 1
      PROVE  /\ t[j] \in Rec /\ Shift(j, i) \in 1 .. n
             /\ t[j].pkt = s[Shift(j, i)].pkt /\ t[j].offset = s[Shift(j, i)].offset
             /\ \/ t[j].used = s[Shift(j, i)].used
                \/ j = i /\ t[j].used = s[Shift(j, i)].used + 1
  <2>1. Shift(j, i) \in 1 .. n /\ (Shift(j, i) = i + 1 <=> j = i)
    BY <1>1, <1>4 DEF Shift
  <2>2. QED
    BY <1>2, <1>4, <1>5, <2>1
<1>7. Gone(s, i, t, TRUE)
  BY <1>1, <1>4, <1>5, <1>6 DEF Gone, n
<1>8. QED
  BY <1>7 DEF t, a
\* The record that amvdec_dst_buf_done_offset comes to last is the packet's.
LEMMA MatchedFacts ==
  ASSUME RecordsOK(timestamps), \A i \in DOMAIN timestamps : timestamps[i] \in Rec,
         NEW p \in PktsOf(timestamps), NEW at, PlacedNow(p, at)
  PROVE  Matched(at) \in DOMAIN timestamps /\ timestamps[Matched(at)].pkt = p
<1> DEFINE n == Len(timestamps)
<1>1. n \in Nat /\ DOMAIN timestamps = 1 .. n
  BY LenProperties DEF RecordsOK
<1>2. PICK i \in 1 .. n : timestamps[i].pkt = p
  BY <1>1 DEF PktsOf
<1>3. ASSUME NEW j \in 1 .. n
      PROVE  timestamps[j].offset > at <=> j > i
  <2>1. timestamps[j].offset \in Nat /\ at \in Nat
    BY <1>1, <1>3 DEF Rec, PlacedNow, Placed
  <2>2. timestamps[j].pkt <= p <=> timestamps[j].offset <= at
    BY <1>1, <1>3 DEF PlacedNow, Placed
  <2>3. timestamps[j].pkt \in Nat /\ p \in Nat
    BY <1>1, <1>2, <1>3 DEF RecordsOK
  <2>4. /\ i < j => p < timestamps[j].pkt
        /\ j < i => timestamps[j].pkt < p
        /\ j = i => timestamps[j].pkt = p
    BY <1>1, <1>2, <1>3 DEF RecordsOK
  <2> DEFINE a == timestamps[j].pkt
             o == timestamps[j].offset
  <2> HIDE DEF a, o
  <2>5. o > at <=> j > i
    <3>1. o \in Nat /\ at \in Nat /\ a \in Nat /\ p \in Nat /\ (a <= p <=> o <= at)
      BY <2>1, <2>2, <2>3 DEF a, o
    <3>2. (i < j => p < a) /\ (j < i => a < p) /\ (j = i => a = p)
      BY <2>4 DEF a
    <3>3. QED
      BY <1>3, <3>1, <3>2
  <2>6. QED
    BY <2>5 DEF o
<1>4. Beyond(at) = {j \in 1 .. n : j > i}
  BY <1>1, <1>3 DEF Beyond
<1> HIDE DEF n
<1>5. CASE i = n
  <2>1. Beyond(at) = {}
    BY <1>1, <1>4, <1>5
  <2>2. Matched(at) = i
    BY <1>5, <2>1 DEF Matched, n
  <2>3. QED
    BY <1>1, <1>2, <2>2
<1>6. CASE i # n
  <2>1. i + 1 \in Beyond(at) /\ \A j \in Beyond(at) : j \in Int /\ i + 1 <= j
    BY <1>1, <1>2, <1>4, <1>6
  <2>2. Min(Beyond(at)) = i + 1
    <3> DEFINE m == Min(Beyond(at))
    <3>1. m \in Beyond(at) /\ m <= i + 1
      BY <2>1 DEF Min
    <3>2. QED
      BY <1>1, <1>2, <2>1, <3>1
  <2>3. Matched(at) = i
    BY <1>1, <1>2, <2>1, <2>2 DEF Matched
  <2>4. QED
    BY <1>1, <1>2, <2>3
<1>7. QED
  BY <1>5, <1>6

\* The interrupt thread runs while the session decodes.
LEMMA ThreadFacts ==
  ASSUME IInv, codec # "idle"
  PROVE  Live /\ ~starved /\ ~Draining
<1>1. codec = "show" \/ codec = "resume"
  BY DEF IInv, SessionInv
<1>2. hw # "off" /\ ~starved /\ status # "stopped"
  BY <1>1 DEF IInv, SessionInv
<1>3. QED
  BY <1>2 DEF Live, Draining, Inactive

LEMMA TypedRecords ==
  ASSUME IInv, OffsetInv, PointerInv
  PROVE  \A i \in DOMAIN timestamps : timestamps[i] \in Rec
<1>1. \A o : o \in 0 .. written => o \in Nat
  BY DEF PointerInv
<1>2. QED
  BY <1>1 DEF OffsetInv, Rec

\* A frame that is shown takes its packet's record.
LEMMA ShownRecord ==
  ASSUME IInv, ~led, PktInv, PointerInv, RecordInv, OffsetInv, AgeInv, ShowFrame
  PROVE  /\ Live /\ ~starved /\ ~Draining /\ queued' = queued - 1
         /\ \E k \in DOMAIN timestamps : /\ timestamps[k].pkt = NextReady.pkt
                                         /\ Gone(timestamps, k, timestamps', TRUE)
<1> DEFINE k == Matched(NextReady.at)
<1>1. Live /\ ~starved /\ ~Draining /\ TakeByOffset(NextReady.at) /\ NextReady \in Waiting
  BY ThreadFacts, LessWaiting DEF ShowFrame, ShowsMore
<1>2. NextReady.pkt \in PktsOf(timestamps)
  BY <1>1 DEF RecordInv, WaitingPkts
<1>3. RecordsOK(timestamps) /\ \A i \in DOMAIN timestamps : timestamps[i] \in Rec
  BY TypedRecords DEF RecordInv
<1>4. k \in DOMAIN timestamps /\ timestamps[k].pkt = NextReady.pkt
  BY <1>1, <1>2, <1>3, MatchedFacts DEF OffsetInv
<1>5. k # 0
  BY <1>3, <1>4, LenProperties DEF RecordsOK
<1>6. timestamps' = RemoveAt(Aged(k + 1), k) /\ queued' = queued - 1
  BY <1>1, <1>5 DEF TakeByOffset
<1> HIDE DEF k
<1>7. k + 1 \in DOMAIN timestamps => timestamps[k + 1].used < MaxUsed
  <2>1. ASSUME k + 1 \in DOMAIN timestamps
        PROVE  timestamps[k + 1].used < MaxUsed
    <3> DEFINE u == timestamps[k + 1].used
    <3>1. u \in Nat /\ (u = 0 \/ u + (k + 1) <= Reorder + 2)
      BY <1>3, <2>1 DEF AgeInv, Rec
    <3>2. k \in Nat /\ k >= 1
      BY <1>3, <1>4, LenProperties DEF RecordsOK
    <3> HIDE DEF u
    <3>3. Reorder \in Nat /\ MaxUsed \in Nat /\ Reorder < MaxUsed
      BY HevcAssumption, ParserAssumption DEF HevcAssumption, ParserAssumption
    <3>4. u < MaxUsed
      BY <3>1, <3>2, <3>3
    <3>5. QED
      BY <3>4 DEF u
  <2>2. QED
    BY <2>1
<1>8. Gone(timestamps, k, timestamps', TRUE)
  BY <1>3, <1>4, <1>6, <1>7, AgedFacts
<1>9. QED
  BY <1>1, <1>4, <1>6, <1>8

\* A frame that is drained takes the first record.
LEMMA DrainedRecord ==
  ASSUME IInv, PointerInv, RecordInv, OffsetInv, DrainFrame
  PROVE  \/ timestamps = << >> /\ UNCHANGED <<timestamps, queued>>
         \/ Gone(timestamps, 1, timestamps', FALSE) /\ queued' = queued - 1
<1>1. RecordsOK(timestamps) /\ \A i \in DOMAIN timestamps : timestamps[i] \in Rec
  BY TypedRecords DEF RecordInv
<1>2. CASE timestamps = << >>
  BY <1>2 DEF DrainFrame, TakeFirst, recordVars
<1>3. CASE timestamps # << >>
  <2>1. timestamps' = Tail(timestamps) /\ queued' = queued - 1
    BY <1>3 DEF DrainFrame, TakeFirst
  <2>2. 1 \in DOMAIN timestamps
    BY <1>1, <1>3, TailRecord
  <2>3. QED
    BY <1>1, <2>1, <2>2, DroppedRecord
<1>4. QED
  BY <1>2, <1>3

\* The packet that was not written loses its record, if it has one.
LEMMA FailedRecord ==
  ASSUME IInv, PointerInv, RecordInv, OffsetInv, WriteFailed
  PROVE  \/ packets \notin PktsOf(timestamps) /\ UNCHANGED timestamps
         \/ \E k \in DOMAIN timestamps : /\ timestamps[k].pkt = packets
                                         /\ Gone(timestamps, k, timestamps', FALSE)
<1> DEFINE own == {i \in DOMAIN timestamps : timestamps[i].pkt = packets}
<1>1. RecordsOK(timestamps) /\ \A i \in DOMAIN timestamps : timestamps[i] \in Rec
  BY TypedRecords DEF RecordInv
<1>2. RemoveTs
  BY DEF WriteFailed
<1>3. CASE own = {}
  BY <1>2, <1>3 DEF RemoveTs, PktsOf
<1>4. CASE own # {}
  <2> DEFINE k == Min(own)
  <2>1. own \subseteq Nat
    BY <1>1, LenProperties DEF RecordsOK
  <2>2. Min(own) \in own
    BY <1>4, <2>1, LeastExists DEF Min
  <2>3. timestamps' = SubSeq(timestamps, 1, k - 1) \o SubSeq(timestamps, k + 1, Len(timestamps))
    BY <1>2, <1>4 DEF RemoveTs, RemoveAt
  <2>4. k \in DOMAIN timestamps /\ timestamps[k].pkt = packets
    BY <2>2
  <2> HIDE DEF k, own
  <2> DEFINE s == timestamps
             t == timestamps'
  <2>5. \A i \in DOMAIN s : s[i] \in Rec
    BY <1>1
  <2>6. RecordsOK(s) /\ k \in DOMAIN s /\ t = SubSeq(s, 1, k - 1) \o SubSeq(s, k + 1, Len(s))
    BY <1>1, <2>3, <2>4
  <2> HIDE DEF s, t
  <2>7. Gone(s, k, t, FALSE)
    BY <2>5, <2>6, DroppedRecord
  <2>8. QED
    BY <2>4, <2>7 DEF s, t
<1>5. QED
  BY <1>3, <1>4

-----------------------------------------------------------------------------
\* the records of t are among those of s
Among(t, s) ==
  \A j \in DOMAIN t : /\ t[j] \in Rec
                      /\ \E i \in DOMAIN s : t[j].pkt = s[i].pkt /\ t[j].offset = s[i].offset

LEMMA PlacedLater ==
  ASSUME NEW s, NEW t, Among(t, s), NEW end \in Nat, NEW later \in Nat, end <= later,
         NEW p, NEW at, Placed(p, at, s, end)
  PROVE  Placed(p, at, t, later)
<1>1. at \in Nat /\ at < later
  BY DEF Placed
<1>2. ASSUME NEW j \in DOMAIN t
      PROVE  t[j].pkt <= p <=> t[j].offset <= at
  <2>1. PICK i \in DOMAIN s : t[j].pkt = s[i].pkt /\ t[j].offset = s[i].offset
    BY <1>2 DEF Among
  <2>2. QED
    BY <2>1 DEF Placed
<1>3. QED
  BY <1>1, <1>2 DEF Placed

LEMMA GoneAmong ==
  ASSUME NEW s, NEW k, NEW t, NEW aged, Gone(s, k, t, aged), s \in Seq(Range(s))
  PROVE  Among(t, s)
<1>1. /\ Len(s) \in Nat /\ DOMAIN s = 1 .. Len(s) /\ DOMAIN t = 1 .. Len(s) - 1
      /\ \A j \in 1 .. Len(s) - 1 :
           /\ t[j] \in Rec /\ Shift(j, k) \in 1 .. Len(s)
           /\ t[j].pkt = s[Shift(j, k)].pkt /\ t[j].offset = s[Shift(j, k)].offset
  BY LenProperties DEF Gone
<1>2. QED
  BY <1>1 DEF Among

\* Where the packets begin is the order in which they were fed.
LEMMA OffsetStep ==
  ASSUME IInv, IInv', SizedInv, BoundInv, PointerInv, PointerInv', IdleInv, PktInv, RecordInv, AgeInv,
         OffsetInv, Next, ~led, ~led'
  PROVE  OffsetInv'
<1>1. /\ RecordsOK(timestamps) /\ \A i \in DOMAIN timestamps : timestamps[i] \in Rec
      /\ Among(timestamps, timestamps)
  BY TypedRecords DEF RecordInv, Among
<1>2. written \in Nat /\ written' \in Nat
  BY DEF PointerInv
<1>3. ASSUME Among(timestamps', timestamps), written <= written'
      PROVE  /\ \A i \in DOMAIN timestamps' :
                  timestamps'[i] \in [pkt : Nat, offset : 0 .. written', used : Nat]
             /\ \A p, at : PlacedNow(p, at) => Placed(p, at, timestamps', written')
  <2>1. ASSUME NEW j \in DOMAIN timestamps'
        PROVE  timestamps'[j] \in [pkt : Nat, offset : 0 .. written', used : Nat]
    <3>1. PICK i \in DOMAIN timestamps : timestamps'[j].offset = timestamps[i].offset
      BY <1>3, <2>1 DEF Among
    <3>2. timestamps[i].offset \in 0 .. written
      BY DEF OffsetInv
    <3>3. timestamps'[j].offset \in 0 .. written'
      BY <1>2, <1>3, <3>1, <3>2
    <3>4. timestamps'[j] \in Rec
      BY <1>3 DEF Among
    <3>5. QED
      BY <3>3, <3>4 DEF Rec
  <2>2. QED
    BY <1>2, <1>3, <2>1, PlacedLater DEF PlacedNow
<1>4. ASSUME Among(timestamps', timestamps), written <= written', vififo' = vififo,
             Pending' => Pending /\ header' = header,
             \A g \in Waiting' : (\E f \in Waiting : g.pkt = f.pkt /\ g.at = f.at) \/
                                 (Pending /\ g.pkt = header.pkt /\ g.at = header.at)
      PROVE  OffsetInv'
  <2>1. \A g \in Waiting' : PlacedNow(g.pkt, g.at)
    BY <1>4 DEF OffsetInv
  <2>2. QED
    BY <1>3, <1>4, <2>1 DEF OffsetInv, PlacedNow, EndOf
<1>5. CASE Quiet
  BY <1>1, <1>2, <1>4, <1>5 DEF Quiet, Twins, Alike
<1>6. ASSUME Waiting' \subseteq Waiting, UNCHANGED <<written, vififo>>, Pending' => Pending /\ header' = header,
             Among(timestamps', timestamps)
      PROVE  OffsetInv'
  BY <1>2, <1>4, <1>6
<1>7. CASE (Submit(framesNum + Reserve) \/ Written \/ WriteFailed) /\ UNCHANGED <<adapterVars, codecVars>>
  <2>1. Pending' = Pending /\ header' = header /\ Waiting' = Waiting
    BY <1>7 DEF Submit, Written, WriteFailed, adapterVars, codecVars, frameVars, sessionVars,
                Pending, Waiting
  <2>2. CASE Submit(framesNum + Reserve)
    <3> DEFINE r == [pkt |-> packets + 1, offset |-> Offset, used |-> 0]
               n == Len(timestamps)
    <3>1. timestamps' = Append(timestamps, r) /\ UNCHANGED <<written, vififo>> /\ work = "admit"
      BY <2>2 DEF Submit
    <3>2. packets \in Nat /\ Wrote = packets
      BY <3>1, WroteFacts
    <3>3. Offset = written
      BY OffsetFacts
    <3>4. r.pkt = packets + 1 /\ r.offset = written /\ r \in Rec /\ r.used = 0
      BY <1>2, <3>2, <3>3 DEF Rec
    <3> HIDE DEF r
    <3>5. /\ n \in Nat /\ DOMAIN timestamps = 1 .. n /\ DOMAIN timestamps' = 1 .. n + 1
          /\ timestamps'[n + 1] = r /\ \A i \in 1 .. n : timestamps'[i] = timestamps[i]
      <4>1. RecordsOK(timestamps) /\ timestamps \in Seq(Range(timestamps) \cup {r})
        <5>1. timestamps \in [1 .. n -> Range(timestamps)] /\ n \in Nat
          BY <1>1, LenProperties DEF RecordsOK
        <5>2. QED
          BY <1>1, <5>1, SeqDef
      <4>2. QED
        BY <3>1, <4>1, AppendProperties, LenProperties
    <3> HIDE DEF n
    <3>6. ASSUME NEW p, NEW at, p \in 1 .. packets, PlacedNow(p, at)
          PROVE  Placed(p, at, timestamps', written')
      <4>1. at \in Nat /\ at < written'
        BY <3>1, <3>6 DEF PlacedNow, Placed
      <4>2. ASSUME NEW i \in DOMAIN timestamps'
            PROVE  timestamps'[i].pkt <= p <=> timestamps'[i].offset <= at
        <5>1. CASE i = n + 1
          <6>1. ~(packets + 1 <= p) /\ ~(written <= at)
            BY <1>2, <3>1, <3>2, <3>6, <4>1
          <6>2. QED
            BY <3>4, <3>5, <5>1, <6>1
        <5>2. CASE i # n + 1
          <6>1. i \in 1 .. n
            BY <3>5, <5>2
          <6>2. QED
            BY <3>5, <3>6, <6>1 DEF PlacedNow, Placed
        <5>3. QED
          BY <5>1, <5>2
      <4>3. QED
        BY <4>1, <4>2 DEF Placed
    <3>7. ASSUME NEW i \in DOMAIN timestamps'
          PROVE  timestamps'[i] \in [pkt : Nat, offset : 0 .. written', used : Nat]
      <4>1. CASE i = n + 1
        BY <1>2, <3>1, <3>4, <3>5, <4>1 DEF Rec
      <4>2. CASE i # n + 1
        <5>1. i \in 1 .. n
          BY <3>5, <4>2
        <5>2. QED
          BY <3>1, <3>5, <5>1 DEF OffsetInv
      <4>3. QED
        BY <4>1, <4>2
    <3>8. /\ \A f \in Waiting : f.pkt \in 1 .. packets /\ PlacedNow(f.pkt, f.at)
          /\ Pending => header.pkt \in 1 .. packets /\ PlacedNow(header.pkt, header.at)
          /\ \A i \in DOMAIN vififo : /\ vififo[i].pkt \in 1 .. packets
                                      /\ PlacedNow(vififo[i].pkt, EndOf(vififo[i]) - 1)
      BY <3>2 DEF PktInv, OffsetInv, PktsOf
    <3>9. QED
      BY <2>1, <3>1, <3>6, <3>7, <3>8 DEF OffsetInv, PlacedNow, EndOf
  <2>3. CASE Written
    <3> DEFINE e == [pkt |-> packets, start |-> written]
               n == Len(vififo)
               size == PacketSize[packets]
    <3>1. /\ vififo' = Append(vififo, e) /\ work = "write" /\ timestamps' = timestamps
          /\ written' = written + size
      BY <2>3 DEF Written
    <3>2. packets \in Nat /\ packets >= 1
      BY <3>1, WroteFacts DEF PointerInv
    <3>3. size \in Nat /\ size >= 1
      <4>1. VififoSize \in Nat
        BY ParserAssumption DEF ParserAssumption
      <4>2. QED
        BY <3>2, <4>1, SizeFacts
    <3>4. e.pkt = packets /\ EndOf(e) = written + size
      BY DEF EndOf
    <3> HIDE DEF e, size
    <3>5. /\ n \in Nat /\ DOMAIN vififo = 1 .. n /\ DOMAIN vififo' = 1 .. n + 1
          /\ vififo'[n + 1] = e /\ \A i \in 1 .. n : vififo'[i] = vififo[i]
      <4>1. vififo \in Seq(Range(vififo) \cup {e})
        <5>1. vififo \in [1 .. n -> Range(vififo)] /\ n \in Nat
          BY LenProperties DEF RecordsOK, PktInv
        <5>2. QED
          BY <5>1, SeqDef
      <4>2. QED
        BY <3>1, <4>1, AppendProperties, LenProperties
    <3>6. written <= written' /\ Among(timestamps', timestamps)
      BY <1>1, <1>2, <3>1, <3>3
    <3>7. Placed(packets, EndOf(e) - 1, timestamps', written')
      <4>1. EndOf(e) - 1 \in Nat /\ EndOf(e) - 1 < written' /\ written <= EndOf(e) - 1
        BY <1>2, <3>1, <3>3, <3>4
      <4>2. ASSUME NEW i \in DOMAIN timestamps
            PROVE  timestamps[i].pkt <= packets /\ timestamps[i].offset <= EndOf(e) - 1
        <5>1. timestamps[i].pkt \in 1 .. packets
          BY DEF RecordInv, PktsOf
        <5>2. timestamps[i].offset \in 0 .. written
          BY DEF OffsetInv
        <5>3. QED
          BY <1>2, <3>2, <4>1, <5>1, <5>2
      <4>3. QED
        BY <3>1, <4>1, <4>2 DEF Placed
    <3>8. ASSUME NEW i \in DOMAIN vififo'
          PROVE  Placed(vififo'[i].pkt, EndOf(vififo'[i]) - 1, timestamps', written')
      <4>1. CASE i = n + 1
        BY <3>4, <3>5, <3>7, <4>1
      <4>2. CASE i # n + 1
        <5>1. i \in 1 .. n
          BY <3>5, <4>2
        <5>2. PlacedNow(vififo[i].pkt, EndOf(vififo[i]) - 1)
          BY <3>5, <5>1 DEF OffsetInv
        <5>3. QED
          BY <1>3, <3>5, <3>6, <5>1, <5>2
      <4>3. QED
        BY <4>1, <4>2
    <3>9. QED
      BY <1>3, <2>1, <3>6, <3>8 DEF OffsetInv, PlacedNow, EndOf
  <2>4. CASE WriteFailed
    <3>1. Among(timestamps', timestamps)
      BY <1>1, <2>4, FailedRecord, GoneAmong DEF RecordsOK
    <3>2. UNCHANGED <<written, vififo>>
      BY <2>4 DEF WriteFailed
    <3>3. QED
      BY <1>6, <2>1, <3>1, <3>2
  <2>5. QED
    BY <1>7, <2>2, <2>3, <2>4
<1>8. CASE PostHeader
  <2>1. /\ vififo # << >> /\ vififo' = Tail(vififo) /\ header'.pkt = Head(vififo).pkt
        /\ header'.at = EndOf(Head(vififo)) - 1
        /\ UNCHANGED <<timestamps, written, frames>>
    BY <1>8 DEF PostHeader, frameVars, recordVars
  <2>2. Waiting' = Waiting
    BY <2>1 DEF Waiting
  <2> DEFINE n == Len(vififo)
  <2>3. /\ n \in Nat /\ DOMAIN vififo = 1 .. n /\ 1 \in DOMAIN vififo /\ Head(vififo) = vififo[1]
        /\ DOMAIN vififo' = 1 .. n - 1 /\ \A j \in 1 .. n - 1 : vififo'[j] = vififo[j + 1]
    <3>1. vififo \in Seq(Range(vififo)) /\ RecordsOK(vififo)
      BY DEF PktInv, RecordsOK
    <3>2. QED
      BY <2>1, <3>1, TailRecord, HeadTailProperties, LenProperties
  <2> HIDE DEF n
  <2>4. \A j \in 1 .. n - 1 : j + 1 \in 1 .. n
    BY <2>3
  <2>5. \A j \in DOMAIN vififo' : PlacedNow(vififo'[j].pkt, EndOf(vififo'[j]) - 1)
    BY <2>3, <2>4 DEF OffsetInv
  <2>6. PlacedNow(header'.pkt, header'.at)
    BY <2>1, <2>3 DEF OffsetInv
  <2>7. QED
    BY <2>1, <2>2, <2>5, <2>6 DEF OffsetInv, PlacedNow, EndOf
<1>9. CASE ShowFrame \/ DrainFrame
  <2>1. Waiting' \subseteq Waiting
    BY <1>9, LessWaiting DEF ShowFrame, DrainFrame, ShowsMore
  <2>2. UNCHANGED <<vififo, header, hw, status, written>>
    BY <1>9 DEF ShowFrame, DrainFrame, feedVars, sessionVars, adapterVars
  <2>3. Among(timestamps', timestamps)
    BY <1>1, <1>9, ShownRecord, DrainedRecord, GoneAmong DEF RecordsOK
  <2>4. Pending' = Pending
    BY <2>2 DEF Pending
  <2>5. QED
    BY <1>6, <2>1, <2>2, <2>3, <2>4
<1>10. CASE PrepareFrame
  <2>1. UNCHANGED <<timestamps, written, vififo>>
    BY <1>10 DEF PrepareFrame, feedVars, recordVars
  <2>2. ~Pending' /\ Pending
    <3>1. hw' \in {"run", "held"} /\ status' # "needs_resume" /\ codec # "idle"
      BY <1>10 DEF PrepareFrame, IInv, SessionInv
    <3>2. QED
      BY <3>1 DEF Pending, IInv, SessionInv
  <2>3. CASE Ready("dst")
    <3>1. Waiting' = Waiting \cup {NewFrame} /\ NewFrame.pkt = header.pkt /\ NewFrame.at = header.at
      BY <1>10, <2>3, MoreWaiting
    <3>2. QED
      BY <1>1, <1>2, <1>4, <2>1, <2>2, <3>1
  <2>4. CASE ~Ready("dst")
    <3>1. frames' = Cleaned /\ codec # "idle" /\ ~ShowsMore
      BY <1>10, <2>4 DEF PrepareFrame
    <3>2. Waiting' = Waiting
      BY <3>1, CleanedFacts DEF Waiting, WaitingIn
    <3>3. QED
      BY <1>1, <1>6, <2>1, <2>2, <3>2
  <2>5. QED
    BY <2>3, <2>4
<1>11. CASE Starts
  <2>1. timestamps' = << >> /\ vififo' = << >> /\ ~Pending' /\ Waiting' = {}
    BY <1>11 DEF Starts, StartSession, IdleInv
  <2>2. QED
    BY <2>1 DEF OffsetInv
<1>12. CASE HevcStop
  <2>1. /\ UNCHANGED <<vififo, written>> /\ hw' = "off" /\ status' = "stopped" /\ frames' = {}
        /\ timestamps' = << >>
    BY <1>12 DEF HevcStop, Drained, PowerOff, feedVars
  <2>2. ~Pending' /\ Waiting' = {}
    BY <2>1 DEF Pending, Waiting
  <2>3. Among(timestamps', timestamps)
    BY <2>1 DEF Among
  <2>4. QED
    BY <1>6, <2>1, <2>2, <2>3
<1>13. QED
  BY <1>5, <1>7, <1>8, <1>9, <1>10, <1>11, <1>12,
     StepKinds

-----------------------------------------------------------------------------
(* How often a frame is overtaken.                                         *)

LEMMA OvertakenFinite ==
  ASSUME NEW W, IsFiniteSet(W), NEW f, NEW V, V \subseteq W
  PROVE  /\ IsFiniteSet(Overtaken(f, W)) /\ IsFiniteSet(Overtaken(f, V))
         /\ Cardinality(Overtaken(f, V)) <= Cardinality(Overtaken(f, W))
         /\ Cardinality(Overtaken(f, W)) <= Cardinality({h \in W : h.pkt < f.pkt /\ f.truth < h.truth})
         /\ Cardinality(Overtaken(f, W)) \in Nat /\ Cardinality(Overtaken(f, V)) \in Nat
<1> DEFINE H == {h \in W : h.pkt < f.pkt /\ f.truth < h.truth}
           T == Overtaken(f, W)
           m == [h \in H |-> h.pkt]
<1>1. IsFiniteSet(H)
  BY FS_Subset
<1>2. m \in Surjection(H, T)
  BY DEF Overtaken, Surjection
<1>3. IsFiniteSet(T) /\ Cardinality(T) <= Cardinality(H)
  BY <1>1, <1>2, FS_Surjection
<1>4. Overtaken(f, V) \subseteq T
  BY DEF Overtaken
<1>5. IsFiniteSet(Overtaken(f, V)) /\ Cardinality(Overtaken(f, V)) <= Cardinality(T)
  BY <1>3, <1>4, FS_Subset
<1>6. Cardinality(T) \in Nat /\ Cardinality(Overtaken(f, V)) \in Nat
  BY <1>3, <1>5, FS_CardinalityType
<1>7. QED
  BY <1>3, <1>5, <1>6

\* A conforming stream displays no more than Reorder frames after a frame that
\* were decoded before it.
LEMMA OvertakeStep ==
  ASSUME IInv, IInv', SizedInv, PktInv, OvertakeInv, Next,
         ~led, ~led'
  PROVE  OvertakeInv'
<1>1. IsFiniteSet(Waiting) /\ Reorder \in Nat
  BY FS_Subset, HevcAssumption DEF IInv, FrameInv, FramesOK, Waiting, HevcAssumption
<1>2. CASE Waiting' \subseteq Waiting
  <2>1. ASSUME NEW f \in Waiting'
        PROVE  Cardinality(Overtaken(f, Waiting')) <= Reorder
    <3>1. /\ Cardinality(Overtaken(f, Waiting')) <= Cardinality(Overtaken(f, Waiting))
          /\ Cardinality(Overtaken(f, Waiting')) \in Nat /\ Cardinality(Overtaken(f, Waiting)) \in Nat
      BY <1>1, <1>2, OvertakenFinite
    <3>2. Cardinality(Overtaken(f, Waiting)) <= Reorder
      BY <1>2, <2>1 DEF OvertakeInv
    <3>3. QED
      BY <1>1, <3>1, <3>2
  <2>2. QED
    BY <2>1 DEF OvertakeInv
<1>3. CASE Twins(Waiting, Waiting')
  <2>1. ASSUME NEW g \in Waiting'
        PROVE  Cardinality(Overtaken(g, Waiting')) <= Reorder
    <3>1. PICK f \in Waiting : Alike(f, g)
      BY <1>3 DEF Twins
    <3>2. Overtaken(g, Waiting') = Overtaken(f, Waiting)
      BY <1>3, <3>1 DEF Twins, Alike, Overtaken
    <3>3. QED
      BY <3>2 DEF OvertakeInv
  <2>2. QED
    BY <2>1 DEF OvertakeInv
<1>4. CASE (Submit(framesNum + Reserve) \/ Written \/ WriteFailed) /\ UNCHANGED <<adapterVars, codecVars>>
  BY <1>2, <1>4 DEF codecVars, frameVars, Waiting
<1>5. CASE PostHeader
  BY <1>2, <1>5 DEF PostHeader, frameVars, Waiting
<1>6. CASE ShowFrame \/ DrainFrame
  BY <1>2, <1>6, LessWaiting DEF ShowFrame, DrainFrame, ShowsMore
<1>7. CASE PrepareFrame
  <2>1. CASE ~Ready("dst")
    <3>1. frames' = Cleaned /\ codec # "idle" /\ ~ShowsMore
      BY <1>7, <2>1 DEF PrepareFrame
    <3>2. Waiting' = Waiting
      BY <3>1, CleanedFacts DEF Waiting, WaitingIn
    <3>3. QED
      BY <1>2, <3>2
  <2>2. CASE Ready("dst")
    <3> DEFINE n == NewFrame
               H == {h \in Waiting' : h.pkt < n.pkt /\ n.truth < h.truth}
               E == Exceeding(header.truth)
    <3>1. /\ Waiting' = Waiting \cup {n}
          /\ n.pkt = header.pkt /\ n.truth = header.truth /\ (header.idr => Waiting = {})
      BY <1>7, <2>2, MoreWaiting
    <3>2. Pending /\ packets \in Nat
      BY <1>7 DEF PrepareFrame, Pending, IInv, SessionInv, TypeInv
    <3> HIDE DEF n
    <3>3. /\ header.pkt \in Nat /\ header.truth \in Nat /\ IsFiniteSet(Waiting')
      <4>1. IsFiniteSet(Waiting')
        BY <1>1, <3>1, FS_AddElement
      <4>2. QED
        BY <3>2, <4>1 DEF IInv, HeaderInv
    <3>4. ASSUME NEW f \in Waiting
          PROVE  Overtaken(f, Waiting') = Overtaken(f, Waiting)
      <4>1. f.pkt < header.pkt /\ f.pkt \in Nat
        BY <3>2 DEF PktInv, IInv, FrameInv, FramesOK, IsFrame, Waiting
      <4>2. ~(n.pkt < f.pkt)
        BY <3>1, <3>3, <4>1
      <4>3. QED
        BY <3>1, <4>2 DEF Overtaken
    <3>5. Cardinality(H) <= Reorder /\ Cardinality(H) \in Nat
      <4>1. H \subseteq Waiting /\ \A h \in H : h.truth \in E
        <5>1. ~(n.truth < n.truth)
          BY <3>1, <3>3
        <5>2. \A f \in Waiting : f \in frames /\ f.truth \in sent /\ f.truth \in Nat
          BY DEF IInv, FrameInv, FramesOK, IsFrame, Distinct, Waiting
        <5>3. QED
          BY <3>1, <3>3, <5>1, <5>2 DEF Exceeding
      <4>2. CASE header.idr
        <5>1. H = {}
          BY <3>1, <4>1, <4>2
        <5> HIDE DEF H
        <5>2. QED
          BY <1>1, <5>1, FS_EmptySet
      <4>3. CASE ~header.idr
        <5> DEFINE m == [h \in H |-> h.truth]
        <5>1. Cardinality(E) <= Reorder /\ IsFiniteSet(E)
          <6>1. E \subseteq sent /\ IsFiniteSet(sent)
            BY DEF Exceeding, IInv, HeaderInv
          <6>2. QED
            BY <3>2, <4>3, <6>1, FS_Subset DEF IInv, HeaderInv
        <5>2. m \in Injection(H, E)
          <6>1. \A f, g \in H : f.truth = g.truth => f = g
            BY <4>1 DEF IInv, FrameInv, FramesOK, IsFrame, Distinct, Waiting
          <6>2. QED
            BY <4>1, <6>1 DEF Injection, IsInjective
        <5>3. Cardinality(H) <= Cardinality(E) /\ IsFiniteSet(H)
          BY <5>1, <5>2, FS_Injection
        <5>4. Cardinality(H) \in Nat /\ Cardinality(E) \in Nat
          BY <5>1, <5>3, FS_CardinalityType
        <5>5. QED
          BY <1>1, <5>1, <5>3, <5>4
      <4>4. QED
        BY <4>2, <4>3
    <3>6. Cardinality(Overtaken(n, Waiting')) <= Reorder
      <4>1. /\ Cardinality(Overtaken(n, Waiting')) <= Cardinality(H)
            /\ Cardinality(Overtaken(n, Waiting')) \in Nat
        BY <3>3, OvertakenFinite
      <4>2. QED
        BY <1>1, <3>5, <4>1
    <3>7. QED
      BY <3>1, <3>4, <3>6 DEF OvertakeInv
  <2>3. QED
    BY <2>1, <2>2
<1>8. CASE Starts \/ HevcStop
  BY <1>2, <1>8 DEF Starts, HevcStop, Drained, Waiting
<1>9. QED
  BY <1>3, <1>4, <1>5, <1>6, <1>7, <1>8, StepKinds DEF Quiet
\* A record that is taken away makes the others no older than before, but the next.
LEMMA YoungRecords ==
  ASSUME NEW s, NEW k, NEW t, NEW aged, Gone(s, k, t, aged), s \in Seq(Range(s)),
         \A i \in DOMAIN s : s[i].used \in Nat /\ (s[i].used = 0 \/ s[i].used + i <= Reorder + 2),
         aged => k - 1 <= Reorder
  PROVE  \A j \in DOMAIN t : t[j].used = 0 \/ t[j].used + j <= Reorder + 2
<1> DEFINE n == Len(s)
<1>1. /\ n \in Nat /\ DOMAIN s = 1 .. n /\ k \in 1 .. n /\ DOMAIN t = 1 .. n - 1
      /\ \A j \in 1 .. n - 1 : /\ Shift(j, k) \in 1 .. n
                               /\ \/ t[j].used = s[Shift(j, k)].used
                                  \/ aged /\ j = k /\ t[j].used = s[Shift(j, k)].used + 1
  BY LenProperties DEF Gone
<1>2. Reorder \in Nat
  BY HevcAssumption DEF HevcAssumption
<1> HIDE DEF n
<1>3. ASSUME NEW j \in 1 .. n - 1
      PROVE  t[j].used = 0 \/ t[j].used + j <= Reorder + 2
  <2> DEFINE i == Shift(j, k)
             u == s[i].used
             v == t[j].used
  <2>1. i \in 1 .. n /\ (v = u \/ (aged /\ j = k /\ v = u + 1))
    BY <1>1
  <2>2. u \in Nat /\ (u = 0 \/ u + i <= Reorder + 2)
    BY <1>1, <2>1
  <2>3. i >= j /\ (j = k => i = j + 1)
    BY <1>1 DEF Shift
  <2> HIDE DEF i, u, v
  <2>4. v = 0 \/ v + j <= Reorder + 2
    <3>1. CASE v = u
      BY <1>1, <1>2, <2>1, <2>2, <2>3, <3>1
    <3>2. CASE aged /\ j = k /\ v = u + 1
      BY <1>1, <1>2, <2>1, <2>2, <2>3, <3>2
    <3>3. QED
      BY <2>1, <3>1, <3>2
  <2>5. QED
    BY <2>4 DEF v
<1>4. QED
  BY <1>1, <1>3

\* The records before that of the first frame to be displayed are of frames it has
\* overtaken.
LEMMA RecordsBefore ==
  ASSUME IInv, ~led, PktInv, RecordInv, OvertakeInv, Live, ~starved, ~Draining,
         NEW f \in Waiting, \A g \in Waiting \ {f} : f.truth < g.truth,
         NEW k \in DOMAIN timestamps, timestamps[k].pkt = f.pkt
  PROVE  k - 1 <= Reorder
<1> DEFINE T == Overtaken(f, Waiting)
           m == [i \in 1 .. k - 1 |-> timestamps[i].pkt]
<1>1. /\ RecordsOK(timestamps) /\ Len(timestamps) \in Nat /\ DOMAIN timestamps = 1 .. Len(timestamps)
      /\ k \in Nat /\ k >= 1
  BY LenProperties DEF RecordInv, RecordsOK
<1>2. ASSUME NEW i \in 1 .. k - 1
      PROVE  timestamps[i].pkt \in T
  <2>1. i \in DOMAIN timestamps /\ i < k
    BY <1>1
  <2>2. timestamps[i].pkt < f.pkt /\ timestamps[i].pkt \in Nat
    BY <1>1, <2>1 DEF RecordsOK
  <2>3. timestamps[i].pkt \in WaitingPkts \cup Coming
    BY <2>1 DEF RecordInv, PktsOf
  <2>4. timestamps[i].pkt \notin Coming
    <3>1. \A c \in Coming : f.pkt < c /\ c \in Nat /\ f.pkt \in Nat
      <4>1. f.pkt \in 1 .. Wrote /\ packets \in Nat
        BY DEF PktInv, IInv, TypeInv
      <4>2. work = "write" => Wrote = packets - 1
        BY DEF Wrote, One
      <4>3. work = "write" => f.pkt < packets
        BY <4>1, <4>2
      <4>4. /\ Pending => f.pkt < header.pkt /\ header.pkt \in Nat
            /\ \A p \in PktsOf(vififo) : f.pkt < p /\ p \in Nat
        BY DEF PktInv, IInv, HeaderInv, RecordsOK, PktsOf
      <4>5. QED
        BY <4>1, <4>3, <4>4 DEF Coming
    <3>2. QED
      BY <2>2, <3>1
  <2>5. PICK g \in Waiting : g.pkt = timestamps[i].pkt
    BY <2>3, <2>4 DEF WaitingPkts
  <2>6. g # f /\ g.pkt < f.pkt
    <3>1. f.pkt \in Nat
      BY DEF IInv, FrameInv, FramesOK, IsFrame, Waiting
    <3>2. g.pkt # f.pkt
      BY <2>2, <2>5, <3>1
    <3>3. QED
      BY <2>2, <2>5, <3>2
  <2>7. QED
    BY <2>5, <2>6 DEF Overtaken
<1>3. m \in Injection(1 .. k - 1, T)
  <2>1. ASSUME NEW i \in 1 .. k - 1, NEW j \in 1 .. k - 1, timestamps[i].pkt = timestamps[j].pkt
        PROVE  i = j
    <3>1. /\ i \in DOMAIN timestamps /\ j \in DOMAIN timestamps
          /\ i < j \/ j < i \/ i = j
      BY <1>1
    <3>2. timestamps[i].pkt \in Nat /\ timestamps[j].pkt \in Nat
      BY <1>1, <3>1 DEF RecordsOK
    <3>3. QED
      BY <1>1, <2>1, <3>1, <3>2 DEF RecordsOK
  <2>2. QED
    BY <1>2, <2>1 DEF Injection, IsInjective
<1>4. IsFiniteSet(T) /\ Cardinality(T) \in Nat /\ Cardinality(T) <= Reorder
  <2>1. IsFiniteSet(Waiting)
    BY FS_Subset DEF IInv, FrameInv, FramesOK, Waiting
  <2>2. QED
    BY <2>1, OvertakenFinite DEF OvertakeInv
<1>5. Cardinality(1 .. k - 1) <= Cardinality(T)
  BY <1>3, <1>4, FS_Injection
<1>6. Cardinality(1 .. k - 1) = k - 1
  <2> DEFINE b == k - 1
  <2>1. b \in Int /\ b >= 0
    BY <1>1
  <2> HIDE DEF b
  <2>2. Cardinality(1 .. b) = IF 1 > b THEN 0 ELSE b - 1 + 1
    BY <2>1, FS_Interval
  <2>3. Cardinality(1 .. b) = b
    BY <2>1, <2>2
  <2>4. QED
    BY <2>3 DEF b
<1>7. Reorder \in Nat
  BY HevcAssumption DEF HevcAssumption
<1> HIDE DEF T
<1>8. QED
  BY <1>1, <1>4, <1>5, <1>6, <1>7

LEMMA AgeStep ==
  ASSUME IInv, SizedInv, PointerInv, IdleInv, PktInv, RecordInv, OffsetInv, OvertakeInv, AgeInv, Next,
         ~led, ~led'
  PROVE  AgeInv'
<1>1. /\ RecordsOK(timestamps) /\ timestamps \in Seq(Range(timestamps))
      /\ \A i \in DOMAIN timestamps :
           timestamps[i].used \in Nat /\ (timestamps[i].used = 0 \/ timestamps[i].used + i <= Reorder + 2)
  BY TypedRecords DEF RecordInv, RecordsOK, AgeInv, Rec
<1>2. CASE timestamps' = timestamps
  BY <1>2 DEF AgeInv
<1>3. CASE timestamps' = << >>
  BY <1>3 DEF AgeInv
<1>4. CASE Submit(framesNum + Reserve)
  <2> DEFINE r == [pkt |-> packets + 1, offset |-> Offset, used |-> 0]
             n == Len(timestamps)
  <2>1. timestamps' = Append(timestamps, r)
    BY <1>4 DEF Submit
  <2>2. r.used = 0
    OBVIOUS
  <2> HIDE DEF r
  <2>3. /\ n \in Nat /\ DOMAIN timestamps = 1 .. n /\ DOMAIN timestamps' = 1 .. n + 1
        /\ timestamps'[n + 1] = r /\ \A i \in 1 .. n : timestamps'[i] = timestamps[i]
    <3>1. timestamps \in Seq(Range(timestamps) \cup {r})
      <4>1. timestamps \in [1 .. n -> Range(timestamps)] /\ n \in Nat
        BY <1>1, LenProperties
      <4>2. QED
        BY <4>1, SeqDef
    <3>2. QED
      BY <2>1, <3>1, AppendProperties, LenProperties
  <2> HIDE DEF n
  <2>4. ASSUME NEW i \in DOMAIN timestamps', i # n + 1
        PROVE  i \in 1 .. n
    BY <2>3, <2>4
  <2>5. QED
    BY <1>1, <2>2, <2>3, <2>4 DEF AgeInv
<1>5. CASE ShowFrame
  <2>1. PICK k \in DOMAIN timestamps : /\ timestamps[k].pkt = NextReady.pkt
                                       /\ Gone(timestamps, k, timestamps', TRUE)
    BY <1>5, ShownRecord
  <2>2. Live /\ ~starved /\ ~Draining
    BY <1>5, ShownRecord
  <2>3. NextReady \in Waiting /\ \A g \in Waiting \ {NextReady} : NextReady.truth < g.truth
    BY <1>5, LessWaiting DEF ShowFrame, ShowsMore
  <2>4. k - 1 <= Reorder
    BY <2>1, <2>2, <2>3, RecordsBefore
  <2>5. \A j \in DOMAIN timestamps' : timestamps'[j].used = 0 \/ timestamps'[j].used + j <= Reorder + 2
    BY <1>1, <2>1, <2>4, YoungRecords
  <2>6. QED
    BY <2>5 DEF AgeInv
<1>6. CASE DrainFrame \/ WriteFailed
  <2>1. timestamps' = timestamps \/ \E k \in DOMAIN timestamps : Gone(timestamps, k, timestamps', FALSE)
    BY <1>6, DrainedRecord, FailedRecord DEF Gone
  <2>2. ASSUME NEW k \in DOMAIN timestamps, Gone(timestamps, k, timestamps', FALSE)
        PROVE  AgeInv'
    <3>1. \A j \in DOMAIN timestamps' : timestamps'[j].used = 0 \/ timestamps'[j].used + j <= Reorder + 2
      BY <1>1, <2>2, YoungRecords
    <3>2. QED
      BY <3>1 DEF AgeInv
  <2>3. QED
    BY <1>2, <2>1, <2>2
<1>7. CASE Written \/ PostHeader \/ PrepareFrame
  BY <1>2, <1>7 DEF Written, PostHeader, PrepareFrame, recordVars
<1>8. CASE Starts
  BY <1>3, <1>8 DEF Starts, StartSession, IdleInv
<1>9. CASE HevcStop
  BY <1>3, <1>9 DEF HevcStop, PowerOff
<1>10. QED
  BY <1>2, <1>4, <1>5, <1>6, <1>7, <1>8, <1>9, StepKinds
     DEF Quiet

-----------------------------------------------------------------------------
(* Which packets have a record.                                            *)

\* packets to come lie behind those of the frames
LEMMA ComingFacts ==
  ASSUME IInv, PktInv, PointerInv
  PROVE  /\ \A c \in Coming : c \in 1 .. packets
         /\ \A p \in WaitingPkts : p \in Nat /\ p < packets + 1 /\ \A c \in Coming : p < c
         /\ work = "write" => packets \notin PktsOf(vififo) /\ (Pending => header.pkt # packets)
         /\ Pending => \A c \in Coming : c # header.pkt => header.pkt < c
<1>1. /\ packets \in Nat /\ Wrote \in Nat /\ Wrote <= packets
      /\ work = "write" => Wrote = packets - 1
  BY WroteFacts
<1>2. \A p : p \in 1 .. Wrote => /\ p \in 1 .. packets /\ p < packets + 1 /\ p \in Nat
                                 /\ work = "write" => p < packets /\ p # packets
  BY <1>1
<1>3. work = "write" => packets \in 1 .. packets
  BY <1>1
<1>4. /\ \A p \in PktsOf(vififo) : p \in 1 .. Wrote
      /\ Pending => header.pkt \in 1 .. Wrote /\ \A p \in PktsOf(vififo) : header.pkt < p
      /\ \A p \in WaitingPkts : /\ p \in 1 .. Wrote
                                /\ Pending => p < header.pkt
                                /\ \A q \in PktsOf(vififo) : p < q
  BY DEF PktInv, WaitingPkts
<1>5. QED
  BY <1>2, <1>3, <1>4 DEF Coming

LEMMA QuietRecord ==
  ASSUME IInv, ~led, RecordInv, Quiet
  PROVE  RecordInv'
<1>1. WaitingPkts' = WaitingPkts
  BY DEF Quiet, Twins, Alike, WaitingPkts
<1>2. Coming' = Coming
  BY DEF Quiet, Coming
<1>3. One(work = "write")' = One(work = "write")
  BY DEF Quiet, One
<1>4. UNCHANGED <<timestamps, queued, packets, starved, framesNum>> /\ (Live' => Live)
  BY DEF Quiet, Live
<1>5. ASSUME Live, ~starved, ~Draining'
      PROVE  PktsOf(timestamps) = WaitingPkts \cup Coming
  <2>1. CASE ~Draining
    BY <1>5, <2>1 DEF RecordInv
  <2>2. CASE Waiting = {}
    <3>1. framesNum = 0 /\ WaitingPkts = {}
      BY <2>2, FS_EmptySet DEF WaitingPkts, IInv, FrameInv
    <3>2. \A i \in DOMAIN timestamps : i \in Nat /\ i > 0
      BY LenProperties DEF RecordInv, RecordsOK
    <3>3. \A i \in DOMAIN timestamps : timestamps[i].pkt \in Coming
      BY <1>5, <3>1, <3>2 DEF RecordInv
    <3>4. Coming \subseteq PktsOf(timestamps)
      BY <1>5 DEF RecordInv
    <3>5. QED
      BY <3>1, <3>3, <3>4 DEF PktsOf
  <2>3. QED
    BY <1>5, <2>1, <2>2 DEF Quiet
<1>6. QED
  BY <1>1, <1>2, <1>3, <1>4, <1>5 DEF RecordInv

LEMMA FeedRecord ==
  ASSUME IInv, PointerInv, IdleInv, PktInv, OffsetInv, RecordInv,
         Submit(framesNum + Reserve) \/ Written \/ WriteFailed, UNCHANGED <<adapterVars, codecVars>>
  PROVE  RecordInv'
<1>1. UNCHANGED <<hw, stop, header, frames, framesNum, status, starved>> /\ work \in {"admit", "write"}
  BY DEF Submit, Written, WriteFailed, adapterVars, sessionVars, codecVars, frameVars
<1>2. Pending' = Pending /\ WaitingPkts' = WaitingPkts /\ Live' = Live
  BY <1>1 DEF Pending, Waiting, WaitingPkts, Live
<1>3. stop = "none" /\ ~Draining /\ status # "stopped" /\ Live
  <2>1. stop = "none"
    BY <1>1 DEF IInv, LockInv
  <2>2. QED
    BY <1>1, <2>1 DEF Draining, Live, IdleInv
<1>4. /\ packets \in Nat /\ \A c \in Coming : c \in 1 .. packets
      /\ \A p \in WaitingPkts : p \in Nat /\ p < packets + 1 /\ \A c \in Coming : p < c
      /\ work = "write" => packets \notin PktsOf(vififo) /\ (Pending => header.pkt # packets)
  BY ComingFacts, WroteFacts
<1> DEFINE Come == (IF Pending THEN {header.pkt} ELSE {}) \cup PktsOf(vififo)
           n == Len(timestamps)
<1>5. Coming = Come \cup (IF work = "write" THEN {packets} ELSE {})
  BY DEF Coming
<1>6. vififo' = vififo => Coming' = Come \cup (IF work' = "write" THEN {packets'} ELSE {})
  BY <1>1, <1>2 DEF Coming
<1>7. work = "write" => packets \notin Come
  BY <1>4
<1> HIDE DEF Come
<1>8. /\ RecordsOK(timestamps) /\ PktsOf(timestamps) \subseteq 1 .. packets
      /\ n \in Nat /\ DOMAIN timestamps = 1 .. n
      /\ Coming \subseteq PktsOf(timestamps) /\ queued = n - One(work = "write")
      /\ starved => WaitingPkts \subseteq PktsOf(timestamps)
      /\ ~starved => /\ framesNum <= n
                     /\ \A i \in DOMAIN timestamps : timestamps[i].pkt \in Coming <=> i > framesNum
                     /\ PktsOf(timestamps) = WaitingPkts \cup Coming
  BY <1>3, LenProperties DEF RecordInv, RecordsOK
<1>9. framesNum \in Nat
  BY FS_Subset, FS_CardinalityType DEF IInv, FrameInv, FramesOK, Waiting
<1>10. CASE Submit(framesNum + Reserve)
  <2> DEFINE r == [pkt |-> packets + 1, offset |-> Offset, used |-> 0]
  <2>1. /\ timestamps' = Append(timestamps, r) /\ UNCHANGED <<queued, vififo>>
        /\ packets' = packets + 1 /\ work = "admit" /\ work' = "write"
    BY <1>10 DEF Submit
  <2>2. Coming = Come /\ Coming' = Come \cup {packets + 1}
    BY <1>5, <1>6, <2>1
  <2>3. r.pkt = packets + 1
    OBVIOUS
  <2> HIDE DEF r
  <2>4. \A p \in PktsOf(timestamps) : p < r.pkt
    BY <1>4, <1>8, <2>3
  <2>5. /\ RecordsOK(timestamps') /\ PktsOf(timestamps') = PktsOf(timestamps) \cup {packets + 1}
        /\ Len(timestamps') = n + 1
    BY <1>4, <1>8, <2>1, <2>3, <2>4, AppendRecord
  <2>6. DOMAIN timestamps' = 1 .. n + 1 /\ timestamps'[n + 1] = r /\ \A i \in 1 .. n : timestamps'[i] = timestamps[i]
    <3>1. timestamps \in Seq(Range(timestamps) \cup {r})
      <4>1. timestamps \in [1 .. n -> Range(timestamps)] /\ n \in Nat
        BY <1>8, LenProperties DEF RecordsOK
      <4>2. QED
        BY <4>1, SeqDef
    <3>2. QED
      BY <2>1, <3>1, AppendProperties, LenProperties
  <2>7. PktsOf(timestamps') \subseteq 1 .. packets'
    <3>1. \A p : p \in 1 .. packets \/ p = packets + 1 => p \in 1 .. packets'
      BY <1>4, <2>1
    <3>2. QED
      BY <1>8, <2>5, <3>1
  <2>8. queued' = Len(timestamps') - One(work = "write")'
    <3>1. One(work = "write") = 0 /\ One(work = "write")' = 1
      BY <2>1 DEF One
    <3>2. QED
      BY <1>8, <2>1, <2>5, <3>1
  <2>9. ASSUME ~starved
        PROVE  \A i \in DOMAIN timestamps' : timestamps'[i].pkt \in Coming' <=> i > framesNum
    <3> HIDE DEF n
    <3>1. ASSUME NEW i \in DOMAIN timestamps'
          PROVE  timestamps'[i].pkt \in Coming' <=> i > framesNum
      <4>1. CASE i = n + 1
        BY <1>8, <1>9, <2>2, <2>3, <2>6, <2>9, <4>1
      <4>2. CASE i # n + 1
        <5>1. i \in 1 .. n
          BY <1>8, <2>6, <4>2
        <5>2. timestamps'[i].pkt = timestamps[i].pkt /\ timestamps[i].pkt # packets + 1
          <6>1. timestamps[i].pkt \in 1 .. packets
            BY <1>8, <5>1 DEF PktsOf
          <6>2. QED
            BY <1>4, <2>6, <5>1, <6>1
        <5>3. QED
          BY <1>8, <2>2, <2>9, <5>1, <5>2
      <4>3. QED
        BY <4>1, <4>2
    <3>2. QED
      BY <3>1
  <2>10. ~starved => framesNum <= Len(timestamps')
    BY <1>8, <1>9, <2>5
  <2>11. QED
    BY <1>1, <1>2, <1>8, <2>2, <2>5, <2>7, <2>8, <2>9, <2>10 DEF RecordInv
<1>11. CASE Written
  <2> DEFINE e == [pkt |-> packets, start |-> written]
  <2>1. /\ vififo' = Append(vififo, e) /\ UNCHANGED <<timestamps, packets>> /\ queued' = queued + 1
        /\ work = "write" /\ work' = "scan"
    BY <1>11 DEF Written
  <2>2. e.pkt = packets
    OBVIOUS
  <2> HIDE DEF e
  <2>3. PktsOf(vififo') = PktsOf(vififo) \cup {packets}
    <3>1. RecordsOK(vififo) /\ \A p \in PktsOf(vififo) : p < packets
      <4>1. Wrote = packets - 1 /\ \A p \in PktsOf(vififo) : p \in 1 .. Wrote
        BY <2>1, WroteFacts DEF PktInv
      <4>2. \A p : p \in 1 .. Wrote => p < packets
        BY <1>4, <4>1
      <4>3. QED
        BY <4>1, <4>2 DEF PktInv
    <3>2. QED
      BY <1>4, <2>1, <2>2, <3>1, AppendRecord
  <2>4. Coming' = Coming
    BY <1>1, <1>2, <2>1, <2>3 DEF Coming
  <2>5. queued' = Len(timestamps') - One(work = "write")'
    <3>1. One(work = "write") = 1 /\ One(work = "write")' = 0
      BY <2>1 DEF One
    <3>2. QED
      BY <1>8, <2>1, <3>1
  <2>6. QED
    BY <1>1, <1>2, <1>8, <2>1, <2>4, <2>5 DEF RecordInv
<1>12. CASE WriteFailed
  <2>1. /\ UNCHANGED <<queued, vififo, packets>> /\ work = "write" /\ work' = "scan"
    BY <1>12 DEF WriteFailed
  <2>2. Coming = Come \cup {packets} /\ Coming' = Come /\ packets \notin Come
    BY <1>5, <1>6, <1>7, <2>1
  <2>3. PICK k \in DOMAIN timestamps : /\ timestamps[k].pkt = packets
                                       /\ Gone(timestamps, k, timestamps', FALSE)
    BY <1>8, <1>12, <2>2, FailedRecord
  <2>4. RecordsOK(timestamps') /\ PktsOf(timestamps') = PktsOf(timestamps) \ {packets}
    BY <1>8, <2>3, GoneRecords
  <2>5. Len(timestamps') = n - 1 /\ DOMAIN timestamps' = 1 .. n - 1
    BY <2>3, LenProperties DEF Gone
  <2>6. queued' = Len(timestamps') - One(work = "write")'
    <3>1. One(work = "write") = 1 /\ One(work = "write")' = 0
      BY <2>1 DEF One
    <3>2. QED
      BY <1>8, <2>1, <2>5, <3>1
  <2>7. ~starved => k > framesNum /\ k \in 1 .. n
    BY <1>8, <2>2, <2>3
  <2>8. ~starved => framesNum <= Len(timestamps')
    BY <1>8, <1>9, <2>5, <2>7
  <2>9. ASSUME ~starved, NEW j \in DOMAIN timestamps'
        PROVE  timestamps'[j].pkt \in Coming' <=> j > framesNum
    <3>1. /\ j \in 1 .. n - 1 /\ Shift(j, k) \in 1 .. n
          /\ timestamps'[j].pkt = timestamps[Shift(j, k)].pkt
      BY <2>3, <2>5, <2>9 DEF Gone
    <3>2. timestamps[Shift(j, k)].pkt \in Coming <=> Shift(j, k) > framesNum
      BY <1>8, <2>9, <3>1
    <3>3. timestamps'[j].pkt # packets
      BY <2>4, <2>9 DEF PktsOf
    <3> HIDE DEF n
    <3>4. Shift(j, k) > framesNum <=> j > framesNum
      BY <1>8, <1>9, <2>7, <2>9, <3>1 DEF Shift
    <3>5. QED
      BY <2>2, <3>1, <3>2, <3>3, <3>4
  <2>10. packets \notin WaitingPkts
    <3>1. \A p \in WaitingPkts : p \in Nat /\ p < packets
      BY <1>4, <2>2
    <3>2. QED
      BY <1>4, <3>1
  <2>11. /\ Coming' \subseteq PktsOf(timestamps')
         /\ starved => WaitingPkts' \subseteq PktsOf(timestamps')
         /\ ~starved => PktsOf(timestamps') = WaitingPkts' \cup Coming'
    BY <1>2, <1>8, <2>2, <2>4, <2>10
  <2>12. QED
    BY <1>1, <1>8, <2>1, <2>4, <2>6, <2>8, <2>9, <2>11 DEF RecordInv
<1>13. QED
  BY <1>10, <1>11, <1>12
\* the header of the next packet is posted
LEMMA HeaderRecord ==
  ASSUME IInv, PktInv, RecordInv, PostHeader
  PROVE  RecordInv'
<1>1. /\ vififo # << >> /\ vififo' = Tail(vififo) /\ header'.pkt = Head(vififo).pkt
      /\ UNCHANGED <<timestamps, queued, work, packets, status, stop, starved, frames, framesNum>>
      /\ hw = "run" /\ hw' = "posted"
  BY DEF PostHeader, frameVars, recordVars, sessionVars
<1>2. ~Pending /\ Pending' /\ ~Draining
  BY <1>1 DEF Pending, IInv, SessionInv, Draining, Inactive
<1>3. PktsOf(vififo') = PktsOf(vififo) \ {header'.pkt} /\ header'.pkt \in PktsOf(vififo)
  <2>1. RecordsOK(vififo) /\ vififo \in Seq(Range(vififo))
    BY DEF PktInv, RecordsOK
  <2>2. 1 \in DOMAIN vififo /\ Head(vififo) = vififo[1]
    BY <1>1, <2>1, TailRecord
  <2>3. PktsOf(Tail(vififo)) = PktsOf(vififo) \ {vififo[1].pkt}
    BY <1>1, <2>1, TailRecord
  <2>4. vififo[1].pkt \in PktsOf(vififo)
    BY <2>2 DEF PktsOf
  <2>5. QED
    BY <1>1, <2>2, <2>3, <2>4
<1>4. Coming' = Coming
  BY <1>1, <1>2, <1>3 DEF Coming
<1>5. WaitingPkts' = WaitingPkts /\ Live' = Live /\ One(work = "write")' = One(work = "write")
  BY <1>1 DEF WaitingPkts, Waiting, Live, One
<1>6. QED
  BY <1>1, <1>2, <1>4, <1>5 DEF RecordInv

\* Of a list whose first framesNum records are of frames, one of those goes.
LEMMA FewerFrames ==
  ASSUME NEW s, RecordsOK(s), NEW C, NEW n \in Nat, n >= 1,
         \A i \in DOMAIN s : s[i].pkt \in C <=> i > n,
         NEW k \in DOMAIN s, k <= n, NEW t, NEW aged, Gone(s, k, t, aged)
  PROVE  \A j \in DOMAIN t : t[j].pkt \in C <=> j > n - 1
<1> DEFINE m == Len(s)
<1>1. /\ m \in Nat /\ DOMAIN s = 1 .. m /\ DOMAIN t = 1 .. m - 1 /\ k \in 1 .. m
      /\ \A j \in 1 .. m - 1 : Shift(j, k) \in 1 .. m /\ t[j].pkt = s[Shift(j, k)].pkt
  BY LenProperties DEF Gone, RecordsOK
<1> HIDE DEF m
<1>2. ASSUME NEW j \in 1 .. m - 1
      PROVE  Shift(j, k) > n <=> j > n - 1
  BY <1>1 DEF Shift
<1>3. QED
  BY <1>1, <1>2

\* a frame is shown or drained
LEMMA ShowRecord ==
  ASSUME IInv, ~led, PointerInv, PktInv, RecordInv, OffsetInv, AgeInv, ShowFrame \/ DrainFrame
  PROVE  RecordInv'
<1> DEFINE f == NextReady
           n == Len(timestamps)
<1>1. /\ f \in Waiting /\ Waiting' = Waiting \ {f} /\ framesNum \in Nat /\ framesNum >= 1
      /\ framesNum' = framesNum - 1
  BY LessWaiting DEF ShowFrame, DrainFrame, ShowsMore
<1>2. UNCHANGED <<hw, stop, codec, header, vififo, packets, work, status, starved>>
  BY DEF ShowFrame, DrainFrame, feedVars, sessionVars, adapterVars
<1>3. /\ Coming' = Coming /\ Live' = Live /\ One(work = "write")' = One(work = "write")
      /\ Draining' = Draining
  BY <1>2 DEF Coming, Pending, Live, One, Draining, Inactive
<1>4. WaitingPkts' = WaitingPkts \ {f.pkt}
  BY <1>1 DEF WaitingPkts, PktInv
<1>5. /\ RecordsOK(timestamps) /\ PktsOf(timestamps) \subseteq 1 .. packets
      /\ n \in Nat /\ DOMAIN timestamps = 1 .. n
  BY LenProperties DEF RecordInv, RecordsOK
<1>6. f.pkt \notin Coming /\ f.pkt \in Nat
  <2>1. f.pkt \in WaitingPkts
    BY <1>1 DEF WaitingPkts
  <2>2. f.pkt \in Nat /\ \A c \in Coming : f.pkt < c
    BY <2>1, ComingFacts
  <2>3. QED
    BY <2>2
<1> HIDE DEF f
<1>7. ASSUME NEW k \in DOMAIN timestamps, NEW aged, Gone(timestamps, k, timestamps', aged),
             queued' = queued - 1,
             Live => /\ ~starved /\ k <= framesNum /\ timestamps[k].pkt \notin Coming
                     /\ ~Draining => timestamps[k].pkt = f.pkt
      PROVE  RecordInv'
  <2>1. RecordsOK(timestamps') /\ PktsOf(timestamps') = PktsOf(timestamps) \ {timestamps[k].pkt}
    BY <1>5, <1>7, GoneRecords
  <2>2. PktsOf(timestamps') \subseteq 1 .. packets'
    BY <1>2, <1>5, <2>1
  <2>3. ASSUME Live
        PROVE  /\ Coming' \subseteq PktsOf(timestamps')
               /\ queued' = Len(timestamps') - One(work = "write")'
               /\ framesNum' <= Len(timestamps')
               /\ \A i \in DOMAIN timestamps' : timestamps'[i].pkt \in Coming' <=> i > framesNum'
               /\ ~Draining' => PktsOf(timestamps') = WaitingPkts' \cup Coming'
    <3>1. /\ ~starved /\ k <= framesNum /\ timestamps[k].pkt \notin Coming
          /\ ~Draining => timestamps[k].pkt = f.pkt
      BY <1>7, <2>3
    <3>2. /\ Coming \subseteq PktsOf(timestamps) /\ queued = n - One(work = "write")
          /\ framesNum <= n
          /\ \A i \in DOMAIN timestamps : timestamps[i].pkt \in Coming <=> i > framesNum
          /\ ~Draining => PktsOf(timestamps) = WaitingPkts \cup Coming
      BY <2>3, <3>1 DEF RecordInv
    <3>3. Coming' \subseteq PktsOf(timestamps')
      BY <1>3, <2>1, <3>1, <3>2
    <3>4. Len(timestamps') = n - 1
      BY <1>7 DEF Gone
    <3>5. One(work = "write") \in {0, 1}
      BY DEF One
    <3>6. queued' = Len(timestamps') - One(work = "write")'
      <4> DEFINE o == One(work = "write")
      <4>1. o \in {0, 1} /\ queued' = queued - 1 /\ queued = n - o
        BY <1>7, <3>2, <3>5
      <4> HIDE DEF o, n
      <4>2. queued' = (n - 1) - o
        BY <1>5, <4>1
      <4>3. QED
        BY <1>3, <3>4, <4>2 DEF o
    <3>7. framesNum' <= Len(timestamps')
      BY <1>1, <1>5, <3>2, <3>4
    <3>8. \A j \in DOMAIN timestamps' : timestamps'[j].pkt \in Coming <=> j > framesNum - 1
      BY <1>1, <1>5, <1>7, <3>1, <3>2, FewerFrames
    <3>9. ~Draining' => PktsOf(timestamps') = WaitingPkts' \cup Coming'
      BY <1>3, <1>4, <1>6, <2>1, <3>1, <3>2
    <3>10. QED
      BY <1>1, <1>3, <3>3, <3>6, <3>7, <3>8, <3>9
  <2>4. Live => ~starved'
    BY <1>2, <1>7
  <2>5. QED
    BY <1>3, <2>1, <2>2, <2>3, <2>4 DEF RecordInv
<1>8. CASE ShowFrame
  <2>1. /\ Live /\ ~starved /\ ~Draining /\ queued' = queued - 1
        /\ \E k \in DOMAIN timestamps : timestamps[k].pkt = f.pkt /\ Gone(timestamps, k, timestamps', TRUE)
    BY <1>8, ShownRecord DEF f
  <2>2. PICK k \in DOMAIN timestamps : timestamps[k].pkt = f.pkt /\ Gone(timestamps, k, timestamps', TRUE)
    BY <2>1
  <2>3. k <= framesNum
    <3>1. ~(k > framesNum)
      BY <1>6, <2>1, <2>2 DEF RecordInv
    <3>2. QED
      BY <1>1, <1>5, <3>1
  <2>4. QED
    BY <1>6, <1>7, <2>1, <2>2, <2>3
<1>9. CASE DrainFrame
  <2>1. stop # "none"
    BY <1>9 DEF DrainFrame, Draining
  <2>2. Draining
    BY <1>9 DEF DrainFrame
  <2>3. CASE timestamps = << >> /\ UNCHANGED <<timestamps, queued>>
    <3>1. ~Live
      <4>1. ASSUME Live
            PROVE  FALSE
        <5>1. framesNum <= n
          BY <2>1, <4>1 DEF RecordInv, Live
        <5>2. n = 0
          BY <2>3, EmptySeq
        <5> HIDE DEF n
        <5>3. QED
          BY <1>1, <5>1, <5>2
      <4>2. QED
        BY <4>1
    <3>2. QED
      BY <1>2, <1>3, <1>5, <2>3, <3>1 DEF RecordInv
  <2>4. CASE Gone(timestamps, 1, timestamps', FALSE) /\ queued' = queued - 1
    <3>1. 1 \in DOMAIN timestamps
      BY <2>4 DEF Gone
    <3>2. ASSUME Live
          PROVE  ~starved /\ 1 <= framesNum /\ timestamps[1].pkt \notin Coming
      <4>1. ~starved /\ 1 <= framesNum
        BY <1>1, <2>1, <3>2 DEF Live
      <4>2. ~(1 > framesNum)
        BY <1>1, <4>1
      <4>3. QED
        BY <3>1, <3>2, <4>1, <4>2 DEF RecordInv
    <3>3. QED
      BY <1>7, <2>2, <2>4, <3>1, <3>2
  <2>5. QED
    BY <1>9, <2>3, <2>4, DrainedRecord
<1>10. QED
  BY <1>8, <1>9
\* The next packet's record is that of the first packet to come.
LEMMA NextRecord ==
  ASSUME NEW s, RecordsOK(s), NEW C, C \subseteq PktsOf(s), NEW n \in Nat,
         \A i \in DOMAIN s : s[i].pkt \in C <=> i > n,
         NEW p \in C, \A c \in C : c # p => p < c, \A c \in C : c \in Nat
  PROVE  n + 1 \in DOMAIN s /\ \A i \in DOMAIN s : s[i].pkt \in C \ {p} <=> i > n + 1
<1> DEFINE m == Len(s)
<1>1. m \in Nat /\ DOMAIN s = 1 .. m
  BY LenProperties DEF RecordsOK
<1>2. PICK k \in DOMAIN s : s[k].pkt = p
  BY DEF PktsOf
<1>3. k > n
  BY <1>2
<1> HIDE DEF m
<1>4. n + 1 \in DOMAIN s
  BY <1>1, <1>2, <1>3
<1>5. s[n + 1].pkt \in C
  BY <1>1, <1>4
<1>6. k = n + 1
  <2>1. ASSUME k # n + 1
        PROVE  FALSE
    <3>1. n + 1 < k
      BY <1>1, <1>2, <1>3, <2>1
    <3>2. s[n + 1].pkt < p
      BY <1>2, <1>4, <3>1 DEF RecordsOK
    <3>3. s[n + 1].pkt # p /\ s[n + 1].pkt \in Nat /\ p \in Nat
      BY <1>5, <3>2
    <3>4. QED
      BY <1>5, <3>2, <3>3
  <2>2. QED
    BY <2>1
<1>7. ASSUME NEW i \in DOMAIN s
      PROVE  s[i].pkt \in C \ {p} <=> i > n + 1
  <2>1. CASE i = n + 1
    BY <1>1, <1>2, <1>6, <2>1
  <2>2. CASE i # n + 1
    <3>1. i > n <=> i > n + 1
      BY <1>1, <2>2
    <3>2. s[i].pkt # p
      <4>1. i < k \/ k < i
        BY <1>1, <1>6, <2>2
      <4>2. s[i].pkt \in Nat /\ s[k].pkt \in Nat /\ (s[i].pkt < s[k].pkt \/ s[k].pkt < s[i].pkt)
        BY <1>2, <4>1 DEF RecordsOK
      <4>3. QED
        BY <1>2, <4>2
    <3>3. QED
      BY <3>1, <3>2
  <2>3. QED
    BY <2>1, <2>2
<1>8. QED
  BY <1>4, <1>7

\* a frame is prepared, or none can be
LEMMA PrepareRecord ==
  ASSUME IInv, IInv', ~led, PointerInv, PktInv, RecordInv, PrepareFrame
  PROVE  RecordInv'
<1>1. codec # "idle" /\ UNCHANGED <<timestamps, queued, vififo, work, packets, stop>>
  BY DEF PrepareFrame, feedVars, recordVars
<1>2. Live /\ ~starved /\ ~Draining
  BY <1>1, ThreadFacts
<1>3. ~Pending' /\ Pending
  <2>1. hw' \in {"run", "held"} /\ status' # "needs_resume" /\ codec # "idle"
    BY DEF PrepareFrame, IInv, SessionInv
  <2>2. QED
    BY <2>1 DEF Pending, IInv, SessionInv
<1>4. /\ \A c \in Coming : c \in 1 .. packets
      /\ \A c \in Coming : c # header.pkt => header.pkt < c
      /\ work = "write" => packets \notin PktsOf(vififo) /\ header.pkt # packets
      /\ header.pkt \in Coming
  BY <1>3, ComingFacts DEF Coming
<1>5. header.pkt \notin PktsOf(vififo)
  <2>1. \A p \in PktsOf(vififo) : header.pkt < p
    BY <1>3 DEF PktInv
  <2>2. header.pkt \in Nat
    BY <1>4
  <2>3. QED
    BY <2>1, <2>2
<1>6. Coming' = Coming \ {header.pkt}
  BY <1>1, <1>3, <1>4, <1>5 DEF Coming
<1> DEFINE n == Len(timestamps)
<1>7. /\ RecordsOK(timestamps) /\ PktsOf(timestamps) \subseteq 1 .. packets
      /\ Coming \subseteq PktsOf(timestamps) /\ queued = n - One(work = "write")
      /\ framesNum <= n
      /\ \A i \in DOMAIN timestamps : timestamps[i].pkt \in Coming <=> i > framesNum
      /\ PktsOf(timestamps) = WaitingPkts \cup Coming
      /\ n \in Nat /\ DOMAIN timestamps = 1 .. n
  BY <1>2, LenProperties DEF RecordInv, RecordsOK
<1>8. One(work = "write")' = One(work = "write")
  BY <1>1 DEF One
<1> HIDE DEF n
<1>9. CASE Ready("dst")
  <2>1. Waiting' = Waiting \cup {NewFrame} /\ NewFrame.pkt = header.pkt
    BY <1>9, MoreWaiting
  <2>2. WaitingPkts' = WaitingPkts \cup {header.pkt}
    BY <2>1 DEF WaitingPkts
  <2>3. starved' = starved /\ framesNum' = framesNum + 1
    BY <1>9 DEF PrepareFrame
  <2>4. framesNum \in Nat
    BY FS_Subset, FS_CardinalityType DEF IInv, FrameInv, FramesOK, Waiting
  <2>5. \A c \in Coming : c \in Nat
    BY <1>4
  <2>6. /\ framesNum + 1 \in DOMAIN timestamps
        /\ \A i \in DOMAIN timestamps : timestamps[i].pkt \in Coming \ {header.pkt} <=> i > framesNum + 1
    <3> DEFINE s == timestamps
               C == Coming
               p == header.pkt
    <3>1. RecordsOK(s) /\ C \subseteq PktsOf(s)
      BY <1>7
    <3>2. \A i \in DOMAIN s : s[i].pkt \in C <=> i > framesNum
      BY <1>7
    <3>3. p \in C /\ \A c \in C : c # p => p < c
      BY <1>4
    <3>4. \A c \in C : c \in Nat
      BY <2>5
    <3> HIDE DEF s, C, p
    <3>5. framesNum + 1 \in DOMAIN s /\ \A i \in DOMAIN s : s[i].pkt \in C \ {p} <=> i > framesNum + 1
      BY <2>4, <3>1, <3>2, <3>3, <3>4, NextRecord
    <3>6. QED
      BY <3>5 DEF s, C, p
  <2>7. framesNum' <= n
    BY <1>7, <2>3, <2>4, <2>6
  <2>8. QED
    BY <1>1, <1>2, <1>4, <1>6, <1>7, <1>8, <2>2, <2>3, <2>6, <2>7 DEF RecordInv, n
<1>10. CASE ~Ready("dst")
  <2>1. frames' = Cleaned /\ ~ShowsMore /\ starved'
    BY <1>10 DEF PrepareFrame
  <2>2. Waiting' = Waiting
    BY <1>1, <2>1, CleanedFacts DEF Waiting, WaitingIn
  <2>3. WaitingPkts' = WaitingPkts
    BY <2>2 DEF WaitingPkts
  <2>4. QED
    BY <1>1, <1>6, <1>7, <1>8, <2>1, <2>3 DEF RecordInv, n
<1>11. QED
  BY <1>9, <1>10

LEMMA RecordStep ==
  ASSUME IInv, IInv', SizedInv, PointerInv, IdleInv, PktInv, OffsetInv, AgeInv, RecordInv, Next,
         ~led, ~led'
  PROVE  RecordInv'
<1>1. RecordsOK(<< >>) /\ PktsOf(<< >>) = {} /\ Len(<< >>) = 0 /\ DOMAIN << >> = {}
  BY EmptySeq DEF RecordsOK, PktsOf, Range
<1>2. CASE Starts
  <2>1. /\ timestamps' = << >> /\ queued' = 0 /\ vififo' = << >> /\ ~Pending' /\ work' = "idle"
        /\ framesNum' = framesNum /\ Waiting = {} /\ Waiting' = {} /\ starved' = FALSE
    BY <1>2 DEF Starts, StartSession, IdleInv
  <2>2. Coming' = {} /\ WaitingPkts' = {}
    BY <1>1, <2>1 DEF Coming, WaitingPkts
  <2>3. framesNum' = 0
    BY <2>1, FS_EmptySet DEF IInv, FrameInv
  <2>4. One(work = "write")' = 0
    BY <2>1 DEF One
  <2>5. queued' = Len(timestamps') - One(work = "write")' /\ framesNum' <= Len(timestamps')
    BY <1>1, <2>1, <2>3, <2>4
  <2>6. QED
    BY <1>1, <2>1, <2>2, <2>5 DEF RecordInv
<1>3. CASE HevcStop
  <2>1. timestamps' = << >> /\ status' = "stopped"
    BY <1>3 DEF HevcStop, PowerOff
  <2>2. ~Live'
    BY <2>1 DEF Live
  <2>3. QED
    BY <1>1, <2>1, <2>2 DEF RecordInv
<1>4. QED
  BY <1>2, <1>3, QuietRecord, FeedRecord, HeaderRecord, ShowRecord, PrepareRecord,
     StepKinds

-----------------------------------------------------------------------------
(* The theorems.                                                           *)

\* Frames that a drain frees without showing them leave their records behind: what is said
\* of the records holds until a picture with a negative order count comes.
MatchInv   == PktInv /\ OffsetInv /\ RecordInv /\ OvertakeInv /\ AgeInv
RecordsInv == BoundInv /\ PointerInv /\ IdleInv /\ (led \/ MatchInv)

\* A session that starts has no packets and no records.
LEMMA MatchStarts ==
  ASSUME IInv, IdleInv, Next, led, ~led'
  PROVE  MatchInv'
<1>1. RecordsOK(<< >>) /\ PktsOf(<< >>) = {} /\ Len(<< >>) = 0 /\ DOMAIN << >> = {}
  BY EmptySeq DEF RecordsOK, PktsOf, Range
<1>2. /\ frames' = {} /\ framesNum' = 0 /\ ~Pending' /\ StartSession /\ starved' = FALSE
      /\ status = "stopped"
  BY LedFacts DEF StreamOnOutcome, IInv, SessionInv
<1>3. /\ timestamps' = << >> /\ queued' = 0 /\ vififo' = << >> /\ work' = "idle"
      /\ Waiting' = {} /\ WaitingPkts' = {}
  <2>1. PICK q \in Queue : \E b \in BufOf(q) : StreamOn(q, b)
    BY LedFacts
  <2>2. work' = "idle"
    BY <2>1 DEF StreamOn, StreamOnBuffer, NoIoctl, Unlocked, StartSession, KeepSession, feedVars
  <2>3. QED
    BY <1>2, <2>2 DEF StartSession, IdleInv, Waiting, WaitingPkts
<1>4. Coming' = {} /\ One(work = "write")' = 0
  BY <1>1, <1>2, <1>3 DEF Coming, One
<1>5. queued' = Len(timestamps') - One(work = "write")' /\ framesNum' <= Len(timestamps')
  BY <1>1, <1>2, <1>3, <1>4
<1>6. QED
  BY <1>1, <1>2, <1>3, <1>4, <1>5
     DEF MatchInv, PktInv, OffsetInv, RecordInv, OvertakeInv, AgeInv

\* The rest of a session's steps.
LEMMA MatchStep ==
  ASSUME IInv, IInv', SizedInv, BoundInv, PointerInv, PointerInv', IdleInv, MatchInv, Next,
         ~led, ~led'
  PROVE  MatchInv'
<1>1. PktInv /\ OffsetInv /\ RecordInv /\ OvertakeInv /\ AgeInv
  BY DEF MatchInv
<1>2. PktInv'
  BY <1>1, PktStep
<1>3. OffsetInv'
  BY <1>1, OffsetStep
<1>4. RecordInv'
  BY <1>1, RecordStep
<1>5. OvertakeInv'
  BY <1>1, OvertakeStep
<1>6. AgeInv'
  BY <1>1, AgeStep
<1>7. QED
  BY <1>2, <1>3, <1>4, <1>5, <1>6 DEF MatchInv

LEMMA InitRecords ==
  ASSUME Init
  PROVE  RecordsInv
<1>1. RecordsOK(<< >>) /\ PktsOf(<< >>) = {} /\ Len(<< >>) = 0 /\ DOMAIN << >> = {}
  BY EmptySeq DEF RecordsOK, PktsOf, Range
<1>2. /\ Waiting = {} /\ timestamps = << >> /\ vififo = << >> /\ work = "idle" /\ hw = "off"
      /\ status = "stopped" /\ codec = "idle" /\ stop = "none" /\ streamon = {} /\ packets = 0
      /\ written = 0 /\ lastOffset = 0 /\ wrapCount = 0 /\ rdy["src"] = << >>
  BY DEF Init, ParserInit, AdapterInit, M2mInit, Waiting, Queue
<1>3. ~Pending /\ ~Live /\ Wrote = 0
  BY <1>2 DEF Pending, Live, Wrote, One
<1>4. VififoSize \in Nat \ {0} /\ Len(PacketSize) \in Nat
  BY ParserAssumption, LenProperties DEF ParserAssumption
<1>5. BoundInv /\ IdleInv
  BY <1>1, <1>2, <1>4 DEF BoundInv, IdleInv
<1>6. PointerInv
  <2>1. Begun = 0
    BY <1>2, <1>4 DEF Begun
  <2>2. QED
    BY <1>2, <1>4, <2>1 DEF PointerInv
<1>7. PktInv /\ OffsetInv
  BY <1>1, <1>2, <1>3 DEF PktInv, OffsetInv
<1>8. RecordInv /\ OvertakeInv /\ AgeInv
  BY <1>1, <1>2, <1>3 DEF RecordInv, OvertakeInv, AgeInv
<1>9. QED
  BY <1>5, <1>6, <1>7, <1>8 DEF RecordsInv, MatchInv

LEMMA SameRecords ==
  ASSUME RecordsInv, UNCHANGED vars
  PROVE  RecordsInv'
<1> USE DEF vars, m2mVars, parserVars, feedVars, recordVars, sessionVars, adapterVars, codecVars,
            frameVars, RecordsInv, MatchInv
<1>1. Waiting' = Waiting
  BY DEF Waiting
<1>2. Pending' = Pending
  BY DEF Pending
<1>3. One(work = "write")' = One(work = "write")
  BY DEF One
<1>4. Wrote' = Wrote
  BY <1>3 DEF Wrote
<1>5. BoundInv' /\ IdleInv' /\ PointerInv'
  BY DEF BoundInv, IdleInv, PointerInv, Begun, Ready
<1>6. PktInv => PktInv'
  BY <1>1, <1>2, <1>4 DEF PktInv
<1>7. OffsetInv => OffsetInv'
  BY <1>1, <1>2 DEF OffsetInv, PlacedNow, EndOf
<1>8. Coming' = Coming /\ WaitingPkts' = WaitingPkts /\ Draining' = Draining /\ Live' = Live
  BY <1>1, <1>2 DEF Coming, WaitingPkts, Draining, Inactive, Live
<1>9. RecordInv => RecordInv'
  BY <1>3, <1>8 DEF RecordInv
<1>10. OvertakeInv /\ AgeInv => OvertakeInv' /\ AgeInv'
  BY <1>1 DEF OvertakeInv, AgeInv
<1>11. QED
  BY <1>5, <1>6, <1>7, <1>9, <1>10

\* The ring's pointer, the records and their ages are as described in every
\* reachable state, for every size of the ring and of the packets: so the offset that
\* esparser_get_offset computes is right however often the ring wraps, and no record
\* is dropped by its age.
THEOREM RecordsKept == Spec => []RecordsInv
<1>1. /\ IInv /\ IInv' /\ StreamsInv /\ SizedInv /\ RecordsInv /\ [Next]_vars
      => RecordsInv'
  <2> SUFFICES ASSUME IInv, IInv', StreamsInv, SizedInv, RecordsInv, [Next]_vars
               PROVE  RecordsInv'
    OBVIOUS
  <2>1. CASE Next
    <3>1. BoundInv /\ PointerInv /\ IdleInv /\ (led \/ MatchInv)
      BY DEF RecordsInv
    <3>2. BoundInv'
      BY <2>1, <3>1, BoundStep
    <3>3. PointerInv'
      BY <2>1, <3>1, PointerStep
    <3>4. IdleInv'
      BY <2>1, <3>1, IdleStep
    <3>5. ASSUME ~led'
          PROVE  MatchInv'
      BY <2>1, <3>1, <3>3, <3>5, MatchStarts, MatchStep
    <3>6. QED
      BY <3>2, <3>3, <3>4, <3>5 DEF RecordsInv
  <2>2. CASE UNCHANGED vars
    BY <2>2, SameRecords
  <2>3. QED
    BY <2>1, <2>2
<1>2. Init => RecordsInv
  BY InitRecords
<1>3. QED
  BY <1>1, <1>2, Invariant, Accounted, PTL DEF Spec

\* Until a STREAMOFF drains the decoder, every frame is given the timestamp of its own
\* packet, and the parser's counter counts the records: as long as no picture with a
\* negative order count has come, whose record a drain would leave behind.
THEOREM OwnTimestamps == Spec => [](led \/ OwnTimestamp)
<1>1. ASSUME IInv, RecordsInv, ~led, stop = "none", status # "stopped"
      PROVE  /\ \A f \in Waiting : /\ Matched(f.at) # 0
                                   /\ timestamps[Matched(f.at)].pkt = f.pkt
             /\ queued = Len(timestamps) - One(work = "write")
  <2>1. Live /\ ~Draining /\ PointerInv /\ PktInv /\ OffsetInv /\ RecordInv
    BY <1>1 DEF Live, Draining, RecordsInv, MatchInv
  <2>2. /\ RecordsOK(timestamps) /\ WaitingPkts \subseteq PktsOf(timestamps)
        /\ queued = Len(timestamps) - One(work = "write")
    BY <2>1 DEF RecordInv
  <2>3. \A i \in DOMAIN timestamps : timestamps[i] \in Rec
    BY <1>1, <2>1, TypedRecords
  <2>4. ASSUME NEW f \in Waiting
        PROVE  Matched(f.at) # 0 /\ timestamps[Matched(f.at)].pkt = f.pkt
    <3>1. f.pkt \in PktsOf(timestamps)
      BY <2>2 DEF WaitingPkts
    <3>2. Matched(f.at) \in DOMAIN timestamps /\ timestamps[Matched(f.at)].pkt = f.pkt
      BY <2>1, <2>2, <2>3, <3>1, MatchedFacts DEF OffsetInv
    <3>3. 0 \notin DOMAIN timestamps
      BY <2>2, LenProperties DEF RecordsOK
    <3>4. QED
      BY <3>2, <3>3
  <2>5. QED
    BY <2>2, <2>4
<1>2. IInv /\ RecordsInv => led \/ OwnTimestamp
  BY <1>1 DEF OwnTimestamp, One
<1>3. QED
  BY <1>2, Invariant, RecordsKept, PTL
=============================================================================
