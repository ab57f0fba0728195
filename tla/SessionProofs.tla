---------------------------- MODULE SessionProofs ----------------------------
(***************************************************************************)
(* What the runs of MCSession check for two files and two codecs, for any  *)
(* number of open files and any table of codecs; and what S_FMT keeps to,  *)
(* see Formats, for any table of codecs and any number of calls.           *)
(***************************************************************************)
EXTENDS Session, WellFoundedInduction, TLAPS

\* a queue the driver believes to be streaming does, and the other way round as
\* far as meson_vcodec_unprepare_streaming is concerned; formats without a
\* codec cannot get buffers
Marked ==
  \A s \in Sessions : \A q \in Queue :
    /\ status[s][q] >= Inited => q \in On(s)
    /\ codec[s] # NoCodec /\ q \in On(s) => status[s][q] # None
    /\ status[s][q] \in {FmtSet, QSetup} => codec[s] # NoCodec

\* a session that streams has prepared a codec, even if not the one it has now
Backed == \A s \in Streaming : prepared[s] > 0

\* until a file is opened, nobody but the session that streams is active
Alone == ~stolen => \A s \in Streaming : active \in {s, NoSession}

\* a powered core belongs to a session that streams
Accounted ==
  reformatted \cup early = {} => \A c \in powered : \E s \in Streaming : codec[s] = c

\* STREAMOFF waits with a queue that streams
Waiting == \A s \in Sessions : off[s] # "none" => off[s] \in On(s)

IInv ==
  /\ TypeOK
  /\ Marked /\ Backed /\ Alone /\ Accounted /\ Waiting
  /\ StatusAgrees /\ StreamingPrepared /\ Balanced /\ JobStreams /\ Exclusive

-----------------------------------------------------------------------------
(* Formats.                                                                *)

\* a set of table entries has a first one
LEMMA FirstExists ==
  ASSUME NEW is, is \subseteq DOMAIN Table, is # {}
  PROVE  First(is) \in is
<1>1. DOMAIN Table \subseteq Nat
  BY SessionAssumption DEF SessionAssumption
<1>2. is \subseteq Nat
  BY <1>1
<1>3. \E i \in is : \A j \in is : ~ (<<j, i>> \in OpToRel(<, Nat))
  BY <1>2, WFMin, NatLessThanWellFounded, Zenon
<1>4. PICK i \in is : \A j \in is : ~ (<<j, i>> \in OpToRel(<, Nat))
  BY <1>3
<1>5. \A j \in is : ~ (j < i)
  BY <1>2, <1>4 DEF OpToRel
<1>6. \A j \in is : i <= j
  BY <1>2, <1>5
<1> QED
  BY <1>6 DEF First

\* S_FMT sets a pixel format of the table, for either queue
LEMMA TryFmtType ==
  ASSUME NEW f \in [Queue -> Offered("src") \cup Offered("dst") \cup {Unset}],
         NEW q \in Queue, NEW x \in Offered(q)
  PROVE  TryFmt(f, q, x) \in Offered("src") \cup Offered("dst")
<1> DEFINE wanted == [f EXCEPT ![q] = x]
           compatible == {i \in DOMAIN Table : \/ q = "src" /\ wanted["dst"] = Table[i].dst
                                               \/ wanted["src"] = Table[i].src}
<1>1. x \in Offered("src") \cup Offered("dst")
  BY DEF Queue
<1>2. compatible # {} => First(compatible) \in DOMAIN Table
  BY FirstExists
<1>3. compatible # {} => Table[First(compatible)][q] \in Offered(q)
  BY <1>2 DEF Offered
<1>4. Offered(q) \subseteq Offered("src") \cup Offered("dst")
  BY DEF Queue
<1>5. \/ TryFmt(f, q, x) = x
      \/ compatible # {} /\ TryFmt(f, q, x) = Table[First(compatible)][q]
  BY Zenon DEF TryFmt
<1> HIDE DEF wanted, compatible
<1> QED
  BY <1>1, <1>3, <1>4, <1>5

\* find_codec finds a codec of the platform
LEMMA MatchingCodec ==
  ASSUME NEW f, Matching(f) # {}
  PROVE  Table[First(Matching(f))].codec \in Codec
<1>1. First(Matching(f)) \in DOMAIN Table
  BY FirstExists DEF Matching
<1>2. PICK i \in DOMAIN Table : i = First(Matching(f))
  BY <1>1
<1>3. Table[i] \in Entry
  BY <1>2, SessionAssumption DEF SessionAssumption
<1> QED
  BY <1>2, <1>3 DEF Entry

-----------------------------------------------------------------------------
(* Queues.                                                                 *)

\* a queue that starts or stops, and the ones that stream then
LEMMA SetQueueOn ==
  ASSUME TypeOK, NEW s \in Sessions, NEW q \in Queue, NEW v \in {"idle", "on", "started"},
         SetQueue(s, q, v)
  PROVE  /\ queue' \in [Sessions -> [Queue -> {"idle", "on", "started"}]]
         /\ \A t \in Sessions : \A p \in Queue :
              queue'[t][p] = IF t = s /\ p = q THEN v ELSE queue[t][p]
         /\ \A t \in Sessions : \A p \in Queue :
              p \in On(t)' <=> IF t = s /\ p = q THEN v # "idle" ELSE p \in On(t)
<1>1. queue' \in [Sessions -> [Queue -> {"idle", "on", "started"}]]
  BY DEF SetQueue, TypeOK
<1>2. \A t \in Sessions : \A p \in Queue :
        queue'[t][p] = IF t = s /\ p = q THEN v ELSE queue[t][p]
  BY DEF SetQueue, TypeOK
<1>3. \A t \in Sessions : \A p \in Queue :
        p \in On(t)' <=> IF t = s /\ p = q THEN v # "idle" ELSE p \in On(t)
  BY <1>2 DEF On
<1> QED
  BY <1>1, <1>2, <1>3

\* a session streams when one of its queues does
LEMMA StreamingOn ==
  /\ \A s \in Sessions : s \in Streaming <=> \E q \in Queue : q \in On(s)
  /\ \A s \in Sessions : s \in Streaming' <=> \E q \in Queue : q \in On(s)'
  /\ Streaming \subseteq Sessions /\ Streaming' \subseteq Sessions
BY DEF Streaming, On

\* a status is a number
LEMMA StatusInt ==
  ASSUME TypeOK
  PROVE  \A s \in Sessions : \A q \in Queue : status[s][q] \in Int
<1> SUFFICES ASSUME NEW s \in Sessions, NEW q \in Queue PROVE status[s][q] \in Int
  OBVIOUS
<1>1. status[s][q] \in None .. Aborted
  BY DEF TypeOK
<1> QED
  BY <1>1 DEF None, Aborted

\* the same value for both queues
LEMMA BothType ==
  ASSUME NEW D, NEW v \in D
  PROVE  Both(v) \in [Queue -> D]
BY DEF Both

-----------------------------------------------------------------------------
(* The steps.                                                              *)

LEMMA InitIInv == Init => IInv
<1> SUFFICES ASSUME Init PROVE IInv
  OBVIOUS
<1> USE SessionAssumption DEF SessionAssumption
<1>1. TypeOK
  <2>1. Unset \in {Unset} /\ None \in None .. Aborted /\ MaxPrepared \in Nat
    BY DEF None, Aborted
  <2>2. format \in [Sessions -> [Queue -> Offered("src") \cup Offered("dst") \cup {Unset}]]
    BY BothType DEF Init
  <2>3. Both(None) \in [Queue -> None .. Aborted]
    BY <2>1, BothType
  <2>4. status \in [Sessions -> [Queue -> None .. Aborted]]
    BY <2>3 DEF Init
  <2>5. queue \in [Sessions -> [Queue -> {"idle", "on", "started"}]]
    BY BothType DEF Init
  <2>6. prepared \in [Sessions -> 0 .. MaxPrepared]
    BY <2>1 DEF Init
  <2> QED
    BY <2>2, <2>4, <2>5, <2>6 DEF Init, TypeOK
<1>2. \A s \in Sessions : On(s) = {}
  BY DEF Init, On, Both, Queue
<1>3. Streaming = {}
  BY <1>2 DEF Streaming
<1>4. Marked
  BY <1>2 DEF Init, Marked, Both, None, FmtSet, QSetup, Inited
<1>5. Backed /\ Alone /\ Accounted /\ StreamingPrepared /\ Exclusive
  BY <1>3 DEF Init, Backed, Alone, Accounted, StreamingPrepared, Exclusive
<1>6. Waiting /\ JobStreams
  BY DEF Init, Waiting, JobStreams
<1>7. StatusAgrees
  BY <1>2 DEF Init, StatusAgrees, Both, None, Inited, Started
<1>8. Balanced
  BY <1>3 DEF Init, Balanced
<1> QED
  BY <1>1, <1>4, <1>5, <1>6, <1>7, <1>8 DEF IInv

LEMMA ActivateStep ==
  ASSUME IInv, NEW s \in Sessions, Activate(s), opened' \in {opened, opened \cup {s}},
         UNCHANGED <<format, codec, status, prepared, powered, kernel, reformatted, early>>
  PROVE  IInv'
<1> USE DEF IInv
<1>1. TypeOK'
  BY DEF TypeOK, Activate, kernel
<1>2. \A t \in Sessions : On(t)' = On(t)
  BY DEF On, kernel
<1>3. Streaming' = Streaming
  BY <1>2 DEF Streaming
<1>4. Marked' /\ Waiting' /\ StatusAgrees'
  BY <1>2 DEF Marked, Waiting, StatusAgrees, kernel
<1>5. Backed' /\ Accounted' /\ Balanced'
  BY <1>3 DEF Backed, Accounted, Balanced
<1>6. JobStreams'
  BY DEF JobStreams, kernel
<1>7. Alone' /\ StreamingPrepared' /\ Exclusive'
  BY <1>3 DEF Alone, StreamingPrepared, Exclusive, Activate
<1> QED
  BY <1>1, <1>4, <1>5, <1>6, <1>7

LEMMA SFmtStep ==
  ASSUME IInv, NEW s \in Sessions, NEW q \in Queue, NEW x \in Offered(q), SFmt(s, q, x)
  PROVE  IInv'
<1> USE DEF IInv
<1>1. PICK f, c, v :
        /\ f \in [Queue -> Offered("src") \cup Offered("dst") \cup {Unset}]
        /\ c \in Codec \cup {NoCodec} /\ v \in {None, FmtSet}
        /\ c = NoCodec <=> v = None
        /\ format' = [format EXCEPT ![s] = f]
        /\ codec' = [codec EXCEPT ![s] = c]
        /\ status' = [status EXCEPT ![s] = Both(v)]
  <2> DEFINE f == [format[s] EXCEPT ![q] = TryFmt(format[s], q, x)]
             found == Matching(f) # {}
             c == IF found THEN Table[First(Matching(f))].codec ELSE NoCodec
             v == IF found THEN FmtSet ELSE None
  <2>1. format[s] \in [Queue -> Offered("src") \cup Offered("dst") \cup {Unset}]
    BY DEF TypeOK
  <2>2. TryFmt(format[s], q, x) \in Offered("src") \cup Offered("dst")
    BY <2>1, TryFmtType
  <2>3. f \in [Queue -> Offered("src") \cup Offered("dst") \cup {Unset}]
    BY <2>1, <2>2
  <2>4. found => c \in Codec /\ c # NoCodec
    BY MatchingCodec, SessionAssumption DEF SessionAssumption
  <2>5. /\ format' = [format EXCEPT ![s] = f]
        /\ codec' = [codec EXCEPT ![s] = c]
        /\ status' = [status EXCEPT ![s] = IF found THEN Both(FmtSet) ELSE Both(None)]
    BY DEF SFmt
  <2>6. status' = [status EXCEPT ![s] = Both(v)]
    BY <2>5
  <2> HIDE DEF f, c
  <2>7. c \in Codec \cup {NoCodec} /\ v \in {None, FmtSet} /\ (c = NoCodec <=> v = None)
    <3>1. CASE found
      BY <2>4, <3>1 DEF None, FmtSet
    <3>2. CASE ~found
      BY <3>2 DEF c
    <3> QED
      BY <3>1, <3>2
  <2> QED
    BY <2>3, <2>5, <2>6, <2>7
<1>2. UNCHANGED <<opened, active, prepared, powered, kernel, early, stolen>>
  BY DEF SFmt
<1>3. reformatted' = IF s \in Streaming THEN reformatted \cup {s} ELSE reformatted
  BY DEF SFmt
<1>4. \A t \in Sessions : On(t)' = On(t)
  BY <1>2 DEF On, kernel
<1>5. Streaming' = Streaming
  BY <1>4 DEF Streaming
<1>6. /\ status' \in [Sessions -> [Queue -> None .. Aborted]]
      /\ \A t \in Sessions : \A p \in Queue :
           status'[t][p] = IF t = s THEN v ELSE status[t][p]
  BY <1>1 DEF TypeOK, Both, None, FmtSet, Aborted
<1>7. \A t \in Sessions : codec'[t] = IF t = s THEN c ELSE codec[t]
  BY <1>1 DEF TypeOK
<1>8. TypeOK'
  <2>1. format' \in [Sessions -> [Queue -> Offered("src") \cup Offered("dst") \cup {Unset}]]
    BY <1>1 DEF TypeOK
  <2>2. codec' \in [Sessions -> Codec \cup {NoCodec}]
    BY <1>1 DEF TypeOK
  <2> QED
    BY <1>2, <1>3, <1>6, <2>1, <2>2 DEF TypeOK, kernel
<1>9. Marked'
  BY <1>1, <1>4, <1>6, <1>7 DEF Marked, None, FmtSet, QSetup, Inited
<1>10. Backed' /\ Alone' /\ Exclusive'
  BY <1>2, <1>5 DEF Backed, Alone, Exclusive
<1>11. Accounted'
  BY <1>2, <1>3, <1>5, <1>7, StreamingOn DEF Accounted
<1>12. Waiting' /\ JobStreams'
  BY <1>2, <1>4 DEF Waiting, JobStreams, kernel
<1>13. StatusAgrees'
  <2> SUFFICES ASSUME NEW t \in Sessions, t \notin reformatted', NEW p \in Queue
               PROVE  /\ (status'[t][p] >= Inited) = (p \in On(t)')
                      /\ (status'[t][p] >= Started) = (queue'[t][p] = "started")
    BY DEF StatusAgrees
  <2>1. CASE t = s
    <3>1. s \notin Streaming
      BY <1>3, <2>1
    <3>2. p \notin On(s) /\ queue[s][p] # "started"
      BY <3>1 DEF Streaming, On
    <3> QED
      BY <1>1, <1>2, <1>4, <1>6, <2>1, <3>2 DEF kernel, None, FmtSet, Inited, Started
  <2>2. CASE t # s
    BY <1>2, <1>3, <1>4, <1>6, <2>2 DEF StatusAgrees, kernel
  <2> QED
    BY <2>1, <2>2
<1>14. StreamingPrepared'
  BY <1>2, <1>3, <1>5, <1>7, StreamingOn DEF StreamingPrepared
<1>15. Balanced'
  BY <1>2, <1>3, <1>5 DEF Balanced
<1> QED
  BY <1>8, <1>9, <1>10, <1>11, <1>12, <1>13, <1>14, <1>15

LEMMA ReqBufsStep ==
  ASSUME IInv, NEW s \in Sessions, NEW q \in Queue, ReqBufs(s, q)
  PROVE  IInv'
<1> USE DEF IInv
<1>1. /\ status' \in [Sessions -> [Queue -> None .. Aborted]]
      /\ \A t \in Sessions : \A p \in Queue :
           status'[t][p] = IF t = s /\ p = q THEN QSetup ELSE status[t][p]
  BY DEF ReqBufs, TypeOK, None, QSetup, Aborted
<1>2. q \notin On(s) /\ status[s][q] = FmtSet
  BY DEF ReqBufs
<1>3. UNCHANGED <<opened, active, format, codec, prepared, powered, kernel, reformatted,
                  early, stolen>>
  BY DEF ReqBufs
<1>4. \A t \in Sessions : On(t)' = On(t)
  BY <1>3 DEF On, kernel
<1>5. Streaming' = Streaming
  BY <1>4 DEF Streaming
<1>6. TypeOK'
  BY <1>1, <1>3 DEF TypeOK, kernel
<1>7. Marked'
  BY <1>1, <1>2, <1>3, <1>4 DEF Marked, None, FmtSet, QSetup, Inited
<1>8. Backed' /\ Alone' /\ Exclusive' /\ Accounted' /\ StreamingPrepared' /\ Balanced'
  BY <1>3, <1>5 DEF Backed, Alone, Exclusive, Accounted, StreamingPrepared, Balanced
<1>9. Waiting' /\ JobStreams'
  BY <1>3, <1>4 DEF Waiting, JobStreams, kernel
<1>10. StatusAgrees'
  BY <1>1, <1>2, <1>3, <1>4 DEF StatusAgrees, kernel, FmtSet, QSetup, Inited, Started, On
<1> QED
  BY <1>6, <1>7, <1>8, <1>9, <1>10

\* a session that prepares its codec for its first queue and is nobody's victim
\* has no other session beside it
LEMMA OnlyActive ==
  ASSUME IInv, NEW s \in Sessions, active = s, NEW t \in Streaming, ~stolen
  PROVE  t = s
BY SessionAssumption, StreamingOn DEF SessionAssumption, IInv, Alone

LEMMA PrepareFailsStep ==
  ASSUME IInv, NEW s \in Sessions, NEW q \in Queue, PrepareFails(s, q)
  PROVE  IInv'
<1> USE DEF IInv
<1>1. powered' \subseteq powered /\ powered \ powered' \subseteq {codec[s]}
  BY DEF PrepareFails
<1>2. UNCHANGED <<opened, active, format, codec, status, prepared, kernel, reformatted,
                  early, stolen>>
  BY DEF PrepareFails
<1>3. \A t \in Sessions : On(t)' = On(t)
  BY <1>2 DEF On, kernel
<1>4. Streaming' = Streaming
  BY <1>3 DEF Streaming
<1>5. TypeOK'
  BY <1>1, <1>2 DEF TypeOK, kernel
<1>6. Marked' /\ Waiting' /\ StatusAgrees'
  BY <1>2, <1>3 DEF Marked, Waiting, StatusAgrees, kernel
<1>7. Backed' /\ Alone' /\ Balanced' /\ Exclusive'
  BY <1>2, <1>4 DEF Backed, Alone, Balanced, Exclusive
<1>8. Accounted'
  BY <1>1, <1>2, <1>4 DEF Accounted
<1>9. JobStreams'
  BY <1>2 DEF JobStreams, kernel
<1>10. StreamingPrepared'
  <2> SUFFICES ASSUME NEW t \in Streaming, t \notin reformatted, ~stolen
               PROVE  codec[t] \in powered'
    BY <1>2, <1>4 DEF StreamingPrepared
  <2>1. active = s /\ (\A p \in Queue : status[s][p] < Inited)
    BY DEF PrepareFails, MayPrepare, Prepares
  <2>2. t = s
    BY <2>1, OnlyActive
  <2>3. PICK p \in Queue : p \in On(s)
    BY <2>2, StreamingOn
  <2>4. status[s][p] >= Inited
    BY <2>2, <2>3, StreamingOn DEF StatusAgrees
  <2>5. status[s][p] \in Int
    BY StatusInt
  <2> QED
    BY <2>1, <2>4, <2>5 DEF Inited
<1> QED
  BY <1>5, <1>6, <1>7, <1>8, <1>9, <1>10

\* the codec is prepared by a session that does not stream yet
LEMMA PreparesStreaming ==
  ASSUME IInv, NEW s \in Sessions
  PROVE  /\ ~ Prepares(s) => s \in Streaming
         /\ s \notin reformatted /\ s \in Streaming => ~ Prepares(s)
<1>1. \A q \in Queue : status[s][q] \in Int
  BY StatusInt DEF IInv
<1>2. ASSUME ~ Prepares(s) PROVE s \in Streaming
  BY <1>1, <1>2, StreamingOn DEF IInv, Marked, Prepares, Inited
<1>3. ASSUME s \notin reformatted, s \in Streaming PROVE ~ Prepares(s)
  BY <1>1, <1>3, StreamingOn DEF IInv, StatusAgrees, Prepares, Inited
<1> QED
  BY <1>2, <1>3

LEMMA StreamOnStep ==
  ASSUME IInv, NEW s \in Sessions, NEW q \in Queue, StreamOn(s, q)
  PROVE  IInv'
<1> USE DEF IInv
<1>1. /\ off[s] = "none" /\ q \notin On(s) /\ active = s /\ status[s][q] = QSetup
      /\ Prepares(s) => prepared[s] < MaxPrepared
  BY DEF StreamOn, MayPrepare, Lock
<1>2. PICK v, w :
        /\ (v = "on" /\ w = Inited) \/ (v = "started" /\ w = Started)
        /\ SetQueue(s, q, v) /\ status' = [status EXCEPT ![s][q] = w]
  BY DEF StreamOn
<1>3. UNCHANGED <<opened, active, format, codec, off, job, reformatted, early, stolen>>
  BY DEF StreamOn
<1>4. /\ queue' \in [Sessions -> [Queue -> {"idle", "on", "started"}]]
      /\ \A t \in Sessions : \A p \in Queue :
           queue'[t][p] = IF t = s /\ p = q THEN v ELSE queue[t][p]
      /\ \A t \in Sessions : \A p \in Queue :
           p \in On(t)' <=> ((t = s /\ p = q) \/ p \in On(t))
  <2>1. v \in {"idle", "on", "started"} /\ v # "idle"
    BY <1>2
  <2> QED
    BY <1>2, <2>1, SetQueueOn
<1>5. \A t \in Sessions : t \in Streaming' <=> (t = s \/ t \in Streaming)
  BY <1>4, StreamingOn
<1>6. /\ status' \in [Sessions -> [Queue -> None .. Aborted]]
      /\ \A t \in Sessions : \A p \in Queue :
           status'[t][p] = IF t = s /\ p = q THEN w ELSE status[t][p]
  BY <1>2 DEF TypeOK, None, Inited, Started, Aborted
<1>7. codec[s] \in Codec /\ codec[s] # NoCodec
  BY <1>1 DEF Marked, TypeOK
<1>8. /\ prepared' \in [Sessions -> 0 .. MaxPrepared]
      /\ \A t \in Sessions :
           prepared'[t] = IF t = s /\ Prepares(s) THEN prepared[t] + 1 ELSE prepared[t]
  BY <1>1, SessionAssumption DEF StreamOn, Prepared, TypeOK, SessionAssumption
<1>9. powered' = IF Prepares(s) THEN powered \cup {codec[s]} ELSE powered
  BY DEF StreamOn, Prepared
<1>10. /\ ~ Prepares(s) => s \in Streaming
       /\ s \notin reformatted /\ s \in Streaming => ~ Prepares(s)
  BY PreparesStreaming
<1>11. \A t \in Sessions : prepared[t] \in Nat
  BY SessionAssumption DEF TypeOK, SessionAssumption
<1>12. TypeOK'
  BY <1>3, <1>4, <1>6, <1>7, <1>8, <1>9 DEF TypeOK
<1>13. Marked'
  BY <1>2, <1>3, <1>4, <1>6, <1>7 DEF Marked, None, FmtSet, QSetup, Inited, Started
<1>14. Backed'
  BY <1>5, <1>8, <1>10, <1>11, StreamingOn DEF Backed
<1>15. Alone'
  BY <1>1, <1>3, <1>5, StreamingOn DEF Alone
<1>16. Accounted'
  BY <1>3, <1>5, <1>9 , StreamingOn DEF Accounted
<1>17. Waiting'
  BY <1>1, <1>3, <1>4 DEF Waiting, TypeOK
<1>18. StatusAgrees'
  BY <1>2, <1>3, <1>4, <1>6 DEF StatusAgrees, Inited, Started
<1>19. StreamingPrepared'
  BY <1>3, <1>5, <1>9, <1>10, <1>14, StreamingOn DEF StreamingPrepared, Backed
<1>20. Balanced'
  BY <1>3, <1>5, <1>8, <1>10 DEF Balanced
<1>21. JobStreams'
  <2>1. job # s
    BY <1>1, SessionAssumption DEF JobStreams, On, SessionAssumption
  <2> QED
    BY <1>3, <1>4, <2>1 DEF JobStreams, TypeOK
<1>22. Exclusive'
  BY <1>1, <1>3, <1>5, OnlyActive, StreamingOn DEF Exclusive
<1> QED
  BY <1>12, <1>13, <1>14, <1>15, <1>16, <1>17, <1>18, <1>19, <1>20, <1>21, <1>22

LEMMA StartLaterStep ==
  ASSUME IInv, NEW s \in Sessions, NEW q \in Queue, StartLater(s, q)
  PROVE  IInv'
<1> USE DEF IInv
<1>1. queue[s][q] = "on" /\ q \in On(s) /\ status[s][q] = Inited
  BY DEF StartLater, On
<1>2. UNCHANGED <<opened, active, format, codec, prepared, powered, off, job, reformatted,
                  early, stolen>>
  BY DEF StartLater
<1>3. SetQueue(s, q, "started")
  BY DEF StartLater
<1>4. /\ queue' \in [Sessions -> [Queue -> {"idle", "on", "started"}]]
      /\ \A t \in Sessions : \A p \in Queue :
           queue'[t][p] = IF t = s /\ p = q THEN "started" ELSE queue[t][p]
      /\ \A t \in Sessions : \A p \in Queue : p \in On(t)' <=> p \in On(t)
  BY <1>1, <1>3, SetQueueOn
<1>5. /\ status' \in [Sessions -> [Queue -> None .. Aborted]]
      /\ \A t \in Sessions : \A p \in Queue :
           status'[t][p] = IF t = s /\ p = q THEN Started ELSE status[t][p]
  BY DEF StartLater, TypeOK, None, Started, Aborted
<1>6. Streaming' = Streaming
  BY <1>4, StreamingOn
<1>7. TypeOK'
  BY <1>2, <1>4, <1>5 DEF TypeOK
<1>8. Marked'
  BY <1>1, <1>2, <1>4, <1>5 DEF Marked, None, FmtSet, QSetup, Inited, Started
<1>9. Backed' /\ Alone' /\ Exclusive' /\ Accounted' /\ StreamingPrepared' /\ Balanced'
  BY <1>2, <1>6 DEF Backed, Alone, Exclusive, Accounted, StreamingPrepared, Balanced
<1>10. Waiting' /\ JobStreams'
  BY <1>2, <1>4 DEF Waiting, JobStreams, TypeOK
<1>11. StatusAgrees'
  BY <1>1, <1>2, <1>4, <1>5 DEF StatusAgrees, Inited, Started
<1> QED
  BY <1>7, <1>8, <1>9, <1>10, <1>11

\* the job of a session sets both statuses at once
LEMMA BothStatus ==
  ASSUME IInv, NEW s \in Sessions, NEW v \in {Run, Aborted},
         \A q \in Queue : queue[s][q] = "started",
         status' = [status EXCEPT ![s] = Both(v)],
         UNCHANGED <<opened, active, format, codec, prepared, powered, queue, reformatted,
                     early, stolen>>,
         off' \in [Sessions -> Queue \cup {"none"}], job' \in {s, job}
  PROVE  /\ TypeOK' /\ Marked' /\ Backed' /\ Alone' /\ Accounted' /\ StatusAgrees'
         /\ StreamingPrepared' /\ Balanced' /\ JobStreams' /\ Exclusive'
<1> USE DEF IInv
<1>1. \A q \in Queue : q \in On(s)
  BY DEF On
<1>2. \A t \in Sessions : On(t)' = On(t)
  BY DEF On
<1>3. Streaming' = Streaming
  BY <1>2 DEF Streaming
<1>4. /\ status' \in [Sessions -> [Queue -> None .. Aborted]]
      /\ \A t \in Sessions : \A p \in Queue :
           status'[t][p] = IF t = s THEN v ELSE status[t][p]
  BY DEF TypeOK, Both, None, Run, Aborted
<1>5. TypeOK'
  BY <1>4 DEF TypeOK
<1>6. StatusAgrees'
  BY <1>1, <1>2, <1>4 DEF StatusAgrees, Inited, Started, Run, Aborted
<1>7. Backed' /\ Alone' /\ Exclusive' /\ Accounted' /\ StreamingPrepared' /\ Balanced'
  BY <1>3 DEF Backed, Alone, Exclusive, Accounted, StreamingPrepared, Balanced
<1>8. JobStreams'
  BY DEF JobStreams
<1>9. Marked'
  BY <1>1, <1>2, <1>4 DEF Marked, None, FmtSet, QSetup, Inited, Run, Aborted
<1> QED
  BY <1>5, <1>6, <1>7, <1>8, <1>9

LEMMA DeviceRunStep ==
  ASSUME IInv, NEW s \in Sessions, DeviceRun(s)
  PROVE  IInv'
<1>1. /\ \A q \in Queue : queue[s][q] = "started"
      /\ status' = [status EXCEPT ![s] = Both(Run)] /\ job' = s
      /\ UNCHANGED <<opened, active, format, codec, prepared, powered, queue, off,
                     reformatted, early, stolen>>
  BY DEF DeviceRun
<1>2. off' \in [Sessions -> Queue \cup {"none"}]
  BY <1>1 DEF IInv, TypeOK
<1>3. \A t \in Sessions : On(t)' = On(t)
  BY <1>1 DEF On
<1>4. Waiting'
  BY <1>1, <1>3 DEF IInv, Waiting
<1>5. /\ TypeOK' /\ Marked' /\ Backed' /\ Alone' /\ Accounted' /\ StatusAgrees'
      /\ StreamingPrepared' /\ Balanced' /\ JobStreams' /\ Exclusive'
  BY <1>1, <1>2, BothStatus
<1> QED
  BY <1>4, <1>5 DEF IInv

LEMMA StreamOffWaitsStep ==
  ASSUME IInv, NEW s \in Sessions, NEW q \in Queue, StreamOffWaits(s, q)
  PROVE  IInv'
<1>1. /\ job = s /\ q \in On(s) /\ off' = [off EXCEPT ![s] = q]
      /\ status' = [status EXCEPT ![s] = Both(Aborted)]
      /\ UNCHANGED <<opened, active, format, codec, prepared, powered, queue, job,
                     reformatted, early, stolen>>
  BY DEF StreamOffWaits
<1>2. \A p \in Queue : queue[s][p] = "started"
  BY <1>1, SessionAssumption DEF IInv, JobStreams, SessionAssumption
<1>3. off' \in [Sessions -> Queue \cup {"none"}]
  BY <1>1 DEF IInv, TypeOK
<1>4. \A t \in Sessions : On(t)' = On(t)
  BY <1>1 DEF On
<1>5. Waiting'
  BY <1>1, <1>4 DEF IInv, Waiting, TypeOK
<1>6. /\ TypeOK' /\ Marked' /\ Backed' /\ Alone' /\ Accounted' /\ StatusAgrees'
      /\ StreamingPrepared' /\ Balanced' /\ JobStreams' /\ Exclusive'
  BY <1>1, <1>2, <1>3, BothStatus
<1> QED
  BY <1>5, <1>6 DEF IInv

LEMMA JobFinishStep ==
  ASSUME IInv, JobFinish
  PROVE  IInv'
<1> USE DEF IInv
<1>1. /\ job' = NoSession
      /\ UNCHANGED <<opened, state, queue, off, reformatted, early, stolen>>
  BY DEF JobFinish
<1>2. \A t \in Sessions : On(t)' = On(t)
  BY <1>1 DEF On
<1>3. Streaming' = Streaming
  BY <1>2 DEF Streaming
<1>4. TypeOK'
  BY <1>1 DEF TypeOK, state
<1>5. Marked' /\ Waiting' /\ StatusAgrees'
  BY <1>1, <1>2 DEF Marked, Waiting, StatusAgrees, state
<1>6. Backed' /\ Alone' /\ Exclusive' /\ Accounted' /\ StreamingPrepared' /\ Balanced'
  BY <1>1, <1>3 DEF Backed, Alone, Exclusive, Accounted, StreamingPrepared, Balanced, state
<1>7. JobStreams'
  BY <1>1 DEF JobStreams
<1> QED
  BY <1>4, <1>5, <1>6, <1>7

LEMMA StreamOffStep ==
  ASSUME IInv, NEW s \in Sessions, NEW q \in Queue, StreamOff(s, q)
  PROVE  IInv'
<1> USE DEF IInv
<1> DEFINE st == [status[s] EXCEPT ![q] = None]
           rel == Released(s, st)
<1>1. q \in On(s) /\ job # s
  BY DEF StreamOff, Waiting, Waited, Queue
<1>2. s \in Streaming
  BY <1>1, StreamingOn
<1>3. UNCHANGED <<opened, active, format, codec, job, reformatted, stolen>>
  BY DEF StreamOff
<1>4. /\ queue' \in [Sessions -> [Queue -> {"idle", "on", "started"}]]
      /\ \A t \in Sessions : \A p \in Queue :
           queue'[t][p] = IF t = s /\ p = q THEN "idle" ELSE queue[t][p]
      /\ \A t \in Sessions : \A p \in Queue :
           p \in On(t)' <=> (p \in On(t) /\ ~ (t = s /\ p = q))
  <2>1. SetQueue(s, q, "idle")
    BY DEF StreamOff
  <2> QED
    BY <2>1, SetQueueOn
<1>5. /\ off' \in [Sessions -> Queue \cup {"none"}]
      /\ \A t \in Sessions : off'[t] = IF t = s THEN "none" ELSE off[t]
  BY DEF StreamOff, TypeOK
<1>6. /\ status' \in [Sessions -> [Queue -> None .. Aborted]]
      /\ \A t \in Sessions : \A p \in Queue :
           status'[t][p] = IF t = s /\ p = q THEN None ELSE status[t][p]
  BY DEF StreamOff, TypeOK, None, Aborted
<1>7. rel <=> codec[s] # NoCodec /\ \A p \in Queue : p = q \/ status[s][p] = None
  BY DEF Released, TypeOK
<1>8. prepared[s] > 0 /\ \A t \in Sessions : prepared[t] \in 0 .. MaxPrepared
  BY <1>2 DEF Backed, TypeOK
<1>9. /\ powered' = IF rel THEN powered \ {codec[s]} ELSE powered
      /\ prepared' = IF rel THEN [prepared EXCEPT ![s] = @ - 1] ELSE prepared
      /\ early' = IF On(s) \subseteq {q} /\ ~ rel THEN early \cup {s} ELSE early
  BY DEF StreamOff, Early
<1> HIDE DEF rel
<1>10. /\ prepared' \in [Sessions -> 0 .. MaxPrepared]
       /\ \A t \in Sessions :
            prepared'[t] = IF t = s /\ rel THEN prepared[t] - 1 ELSE prepared[t]
  BY <1>8, <1>9, SessionAssumption DEF TypeOK, SessionAssumption
<1>11. \A t \in Sessions : t # s => (t \in Streaming' <=> t \in Streaming)
  BY <1>4, StreamingOn
<1>12. s \in Streaming' <=> ~ (On(s) \subseteq {q})
  <2>1. On(s) \subseteq Queue
    BY DEF On
  <2> QED
    BY <1>4, <2>1, StreamingOn
<1>13. rel => s \notin Streaming'
  <2>1. rel => \A p \in Queue : p # q => p \notin On(s)
    BY <1>7 DEF Marked
  <2> QED
    BY <1>4, <2>1, StreamingOn
<1>14. TypeOK'
  <2>1. powered' \subseteq Codec /\ early' \subseteq Sessions
    BY <1>9 DEF TypeOK
  <2> QED
    BY <1>3, <1>4, <1>5, <1>6, <1>10, <2>1 DEF TypeOK
<1>15. Marked'
  BY <1>3, <1>4, <1>6 DEF Marked, None, FmtSet, QSetup, Inited
<1>16. Backed'
  <2> SUFFICES ASSUME NEW t \in Streaming' PROVE prepared'[t] > 0
    BY DEF Backed
  <2>1. t \in Sessions /\ t \in Streaming
    BY <1>2, <1>11, StreamingOn
  <2>2. prepared'[t] = prepared[t]
    BY <1>10, <1>13, <2>1
  <2> QED
    BY <2>1, <2>2 DEF Backed
<1>17. Alone'
  BY <1>2, <1>3, <1>11, StreamingOn DEF Alone
<1>18. Accounted'
  <2> SUFFICES ASSUME reformatted \cup early' = {}, NEW c \in powered'
               PROVE  \E t \in Streaming' : codec[t] = c
    BY <1>3 DEF Accounted
  <2>1. early = {} /\ c \in powered
    BY <1>9
  <2>2. PICK t \in Streaming : codec[t] = c
    BY <1>3, <2>1 DEF Accounted
  <2>3. CASE t # s
    BY <1>11, <2>2, <2>3, StreamingOn
  <2>4. CASE t = s
    <3>1. ~ rel
      BY <1>9, <2>2, <2>4
    <3>2. ~ (On(s) \subseteq {q})
      BY <1>9, <3>1
    <3> QED
      BY <1>12, <2>2, <2>4, <3>2
  <2> QED
    BY <2>3, <2>4
<1>19. Waiting'
  BY <1>4, <1>5 DEF Waiting
<1>20. StatusAgrees'
  BY <1>3, <1>4, <1>6 DEF StatusAgrees, None, Inited, Started
<1>21. StreamingPrepared'
  <2> SUFFICES ASSUME NEW t \in Streaming', t \notin reformatted, ~stolen
               PROVE  codec[t] \in powered'
    BY <1>3, <1>16 DEF StreamingPrepared, Backed
  <2>1. t \in Streaming
    BY <1>2, <1>11, StreamingOn
  <2>2. t = s
    BY <1>2, <2>1 DEF Exclusive
  <2>3. ~ rel
    BY <1>13, <2>2
  <2> QED
    BY <1>9, <2>1, <2>3 DEF StreamingPrepared
<1>22. Balanced'
  BY <1>2, <1>3, <1>9, <1>10, <1>11, <1>12, <1>13 DEF Balanced
<1>23. JobStreams'
  BY <1>1, <1>3, <1>4 DEF JobStreams, TypeOK
<1>24. Exclusive'
  BY <1>2, <1>3, <1>11, StreamingOn DEF Exclusive
<1> QED
  BY <1>14, <1>15, <1>16, <1>17, <1>18, <1>19, <1>20, <1>21, <1>22, <1>23, <1>24

LEMMA StreamOnFailsStep ==
  ASSUME IInv, NEW s \in Sessions, NEW q \in Queue, StreamOnFails(s, q)
  PROVE  IInv'
<1> USE DEF IInv
<1> DEFINE st == [status[s] EXCEPT ![q] = None]
           rel == Released(s, st)
<1>1. /\ q \notin On(s) /\ active = s /\ status[s][q] = QSetup
      /\ Prepares(s) => prepared[s] < MaxPrepared
  BY DEF StreamOnFails, MayPrepare
<1>2. UNCHANGED <<opened, active, format, codec, kernel, reformatted, stolen>>
  BY DEF StreamOnFails
<1>3. \A t \in Sessions : On(t)' = On(t)
  BY <1>2 DEF On, kernel
<1>4. Streaming' = Streaming
  BY <1>3 DEF Streaming
<1>5. /\ status' \in [Sessions -> [Queue -> None .. Aborted]]
      /\ \A t \in Sessions : \A p \in Queue :
           status'[t][p] = IF t = s /\ p = q THEN None ELSE status[t][p]
  BY DEF StreamOnFails, TypeOK, None, Aborted
<1>6. rel <=> codec[s] # NoCodec /\ \A p \in Queue : p = q \/ status[s][p] = None
  BY DEF Released, TypeOK
<1>7. /\ IF rel THEN powered' = powered \ {codec[s]} /\ UNCHANGED prepared ELSE Prepared(s)
      /\ early' = IF On(s) \subseteq {q} /\ ~ rel THEN early \cup {s} ELSE early
  BY DEF StreamOnFails, Early
<1> HIDE DEF rel
<1>8. codec[s] \in Codec /\ codec[s] # NoCodec
  BY <1>1 DEF Marked, TypeOK
<1>9. powered' \subseteq Codec /\ early' \subseteq Sessions
  BY <1>7, <1>8 DEF TypeOK, Prepared
<1>10. \A t \in Sessions : prepared[t] \in Nat
  BY SessionAssumption DEF TypeOK, SessionAssumption
<1>11. /\ prepared' \in [Sessions -> 0 .. MaxPrepared]
       /\ \A t \in Sessions :
            prepared'[t] = IF t = s /\ ~ rel /\ Prepares(s) THEN prepared[t] + 1 ELSE prepared[t]
  <2>1. CASE rel
    BY <1>7, <2>1 DEF TypeOK
  <2>2. CASE ~ rel
    <3>1. prepared' = [prepared EXCEPT ![s] = IF Prepares(s) THEN @ + 1 ELSE @]
      BY <1>7, <2>2 DEF Prepared
    <3> QED
      BY <1>1, <2>2, <3>1, SessionAssumption DEF TypeOK, SessionAssumption
  <2> QED
    BY <2>1, <2>2
<1>12. s \notin reformatted /\ s \in Streaming => ~ Prepares(s)
  BY PreparesStreaming
<1>13. On(s) \subseteq {q} <=> s \notin Streaming
  <2>1. On(s) \subseteq Queue
    BY DEF On
  <2> QED
    BY <1>1, <2>1, StreamingOn
<1>14. rel => s \notin Streaming
  BY <1>1, <1>6, StreamingOn DEF Marked
<1>15. TypeOK'
  BY <1>2, <1>5, <1>9, <1>11 DEF TypeOK, kernel
<1>16. Marked'
  BY <1>1, <1>2, <1>3, <1>5 DEF Marked, None, FmtSet, QSetup, Inited
<1>17. Backed'
  BY <1>4, <1>10, <1>11, StreamingOn DEF Backed
<1>18. Alone' /\ Exclusive'
  BY <1>2, <1>4 DEF Alone, Exclusive
<1>19. Accounted'
  <2> SUFFICES ASSUME reformatted \cup early' = {}, NEW c \in powered'
               PROVE  \E t \in Streaming : codec[t] = c
    BY <1>2, <1>4 DEF Accounted
  <2>1. early = {} /\ (rel \/ s \in Streaming)
    BY <1>7, <1>13
  <2>2. CASE c \in powered
    BY <2>1, <2>2 DEF Accounted
  <2>3. CASE c \notin powered
    <3>1. ~ rel
      BY <1>7, <2>3
    <3>2. Prepares(s)
      BY <1>7, <2>3, <3>1 DEF Prepared
    <3> QED
      BY <1>12, <2>1, <3>1, <3>2
  <2> QED
    BY <2>2, <2>3
<1>20. Waiting' /\ JobStreams'
  BY <1>2, <1>3 DEF Waiting, JobStreams, kernel
<1>21. StatusAgrees'
  BY <1>1, <1>2, <1>3, <1>5 DEF StatusAgrees, kernel, None, QSetup, Inited, Started, On
<1>22. StreamingPrepared'
  <2> SUFFICES ASSUME NEW t \in Streaming, t \notin reformatted, ~stolen
               PROVE  codec[t] \in powered'
    BY <1>2, <1>4, <1>17 DEF StreamingPrepared, Backed
  <2>1. t = s
    BY <1>1, OnlyActive
  <2>2. ~ rel
    BY <1>14, <2>1
  <2> QED
    BY <1>7, <2>2 DEF StreamingPrepared, Prepared
<1>23. Balanced'
  <2> SUFFICES ASSUME NEW t \in Sessions, t \notin reformatted \cup early'
               PROVE  prepared'[t] = IF t \in Streaming THEN 1 ELSE 0
    BY <1>2, <1>4 DEF Balanced
  <2>1. t \notin early
    BY <1>7
  <2>2. prepared[t] = IF t \in Streaming THEN 1 ELSE 0
    BY <2>1 DEF Balanced
  <2>3. t = s => rel \/ ~ Prepares(s)
    BY <1>7, <1>12, <1>13
  <2> QED
    BY <1>11, <2>2, <2>3
<1> QED
  BY <1>15, <1>16, <1>17, <1>18, <1>19, <1>20, <1>21, <1>22, <1>23

LEMMA CloseStep ==
  ASSUME IInv, NEW s \in Sessions, Close(s)
  PROVE  IInv'
<1> USE DEF IInv
<1> DEFINE st == [q \in Queue |-> IF q \in On(s) THEN None ELSE status[s][q]]
           rel == On(s) # {} /\ Released(s, st)
<1>1. off[s] = "none" /\ job # s
  BY DEF Close, Lock, Waited
<1>2. active' = NoSession /\ opened' = opened \ {s} /\ UNCHANGED <<off, job, reformatted, stolen>>
  BY DEF Close
<1>3. /\ powered' = IF rel THEN powered \ {codec[s]} ELSE powered
      /\ prepared' = [prepared EXCEPT ![s] = IF rel THEN @ - 1 ELSE @]
      /\ early' = IF On(s) # {} /\ ~ rel THEN early \cup {s} ELSE early
  BY DEF Close
<1>4. On(s) # {} <=> s \in Streaming
  BY DEF Streaming
<1>5. rel => s \in Streaming
  BY <1>4
<1> HIDE DEF rel
<1>6. /\ queue' \in [Sessions -> [Queue -> {"idle", "on", "started"}]]
      /\ \A t \in Sessions : \A p \in Queue :
           queue'[t][p] = IF t = s THEN "idle" ELSE queue[t][p]
  BY DEF Close, TypeOK, Both
<1>7. \A t \in Sessions : \A p \in Queue : p \in On(t)' <=> (p \in On(t) /\ t # s)
  BY <1>6 DEF On
<1>8. \A t \in Sessions : t \in Streaming' <=> (t \in Streaming /\ t # s)
  BY <1>7, StreamingOn
<1>9. /\ status' \in [Sessions -> [Queue -> None .. Aborted]]
      /\ \A t \in Sessions : \A p \in Queue :
           status'[t][p] = IF t = s THEN None ELSE status[t][p]
  BY DEF Close, TypeOK, Both, None, Aborted
<1>10. /\ codec' \in [Sessions -> Codec \cup {NoCodec}]
       /\ \A t \in Sessions : codec'[t] = IF t = s THEN NoCodec ELSE codec[t]
  BY DEF Close, TypeOK
<1>11. format' \in [Sessions -> [Queue -> Offered("src") \cup Offered("dst") \cup {Unset}]]
  <2>1. Unset \in Offered("src") \cup Offered("dst") \cup {Unset}
    OBVIOUS
  <2>2. Both(Unset) \in [Queue -> Offered("src") \cup Offered("dst") \cup {Unset}]
    BY <2>1, BothType
  <2> QED
    BY <2>2 DEF Close, TypeOK
<1>12. /\ prepared' \in [Sessions -> 0 .. MaxPrepared]
       /\ \A t \in Sessions :
            prepared'[t] = IF t = s /\ rel THEN prepared[t] - 1 ELSE prepared[t]
  <2>1. \A t \in Sessions : prepared[t] \in 0 .. MaxPrepared
    BY DEF TypeOK
  <2>2. rel => prepared[s] > 0
    BY <1>5 DEF Backed
  <2> QED
    BY <1>3, <2>1, <2>2, SessionAssumption DEF TypeOK, SessionAssumption
<1>13. TypeOK'
  <2>1. powered' \subseteq Codec /\ early' \subseteq Sessions
    BY <1>3 DEF TypeOK
  <2> QED
    BY <1>2, <1>6, <1>9, <1>10, <1>11, <1>12, <2>1 DEF TypeOK
<1>14. Marked'
  BY <1>7, <1>9, <1>10 DEF Marked, None, FmtSet, QSetup, Inited
<1>15. Backed'
  BY <1>8, <1>12, StreamingOn DEF Backed
<1>16. Alone' /\ Exclusive'
  BY <1>2, <1>8, StreamingOn DEF Alone, Exclusive
<1>17. Accounted'
  <2> SUFFICES ASSUME reformatted \cup early' = {}, NEW c \in powered'
               PROVE  \E t \in Streaming' : codec'[t] = c
    BY <1>2 DEF Accounted
  <2>1. early = {} /\ c \in powered /\ (s \in Streaming => rel)
    BY <1>3, <1>4
  <2>2. PICK t \in Streaming : codec[t] = c
    BY <1>2, <2>1 DEF Accounted
  <2>3. t # s
    BY <1>3, <2>1, <2>2
  <2> QED
    BY <1>8, <1>10, <2>2, <2>3, StreamingOn
<1>18. Waiting'
  BY <1>1, <1>2, <1>7 DEF Waiting, TypeOK
<1>19. StatusAgrees'
  BY <1>2, <1>6, <1>7, <1>9 DEF StatusAgrees, None, Inited, Started
<1>20. StreamingPrepared'
  <2> SUFFICES ASSUME NEW t \in Streaming', t \notin reformatted, ~stolen
               PROVE  codec'[t] \in powered'
    BY <1>2, <1>15 DEF StreamingPrepared, Backed
  <2>1. t \in Sessions /\ t \in Streaming /\ t # s
    BY <1>8, StreamingOn
  <2>2. ~ rel
    BY <1>5, <2>1 DEF Exclusive
  <2> QED
    BY <1>3, <1>10, <2>1, <2>2 DEF StreamingPrepared
<1>21. Balanced'
  <2> SUFFICES ASSUME NEW t \in Sessions, t \notin reformatted \cup early'
               PROVE  prepared'[t] = IF t \in Streaming' THEN 1 ELSE 0
    BY <1>2 DEF Balanced
  <2>1. prepared[t] = IF t \in Streaming THEN 1 ELSE 0
    BY <1>3 DEF Balanced
  <2>2. t = s /\ t \in Streaming => rel
    BY <1>3, <1>4
  <2> QED
    BY <1>5, <1>8, <1>12, <2>1, <2>2
<1>22. JobStreams'
  BY <1>1, <1>2, <1>6 DEF JobStreams, TypeOK
<1> QED
  BY <1>13, <1>14, <1>15, <1>16, <1>17, <1>18, <1>19, <1>20, <1>21, <1>22

LEMMA StutterStep ==
  ASSUME IInv, UNCHANGED vars
  PROVE  IInv'
<1> USE DEF IInv
<1>1. UNCHANGED <<opened, state, kernel, reformatted, early, stolen>>
  BY DEF vars
<1>2. \A t \in Sessions : On(t)' = On(t)
  BY <1>1 DEF On, kernel
<1>3. Streaming' = Streaming
  BY <1>2 DEF Streaming
<1>4. TypeOK'
  BY <1>1 DEF TypeOK, state, kernel
<1>5. Marked' /\ Waiting' /\ StatusAgrees' /\ JobStreams'
  BY <1>1, <1>2 DEF Marked, Waiting, StatusAgrees, JobStreams, state, kernel
<1>6. Backed' /\ Alone' /\ Exclusive' /\ Accounted' /\ StreamingPrepared' /\ Balanced'
  BY <1>1, <1>3 DEF Backed, Alone, Exclusive, Accounted, StreamingPrepared, Balanced, state
<1> QED
  BY <1>4, <1>5, <1>6

LEMMA NextStep == IInv /\ [Next]_vars => IInv'
<1> SUFFICES ASSUME IInv, [Next]_vars PROVE IInv'
  OBVIOUS
<1>1. ASSUME NEW s \in Sessions, Open(s) \/ OpenFails(s) PROVE IInv'
  <2>1. /\ Activate(s) /\ opened' \in {opened, opened \cup {s}}
        /\ UNCHANGED <<format, codec, status, prepared, powered, kernel, reformatted, early>>
    BY <1>1 DEF Open, OpenFails
  <2> QED
    BY <2>1, ActivateStep
<1>2. ASSUME NEW s \in Sessions, DeviceRun(s) PROVE IInv'
  BY <1>2, DeviceRunStep
<1>3. ASSUME NEW s \in Sessions, Close(s) PROVE IInv'
  BY <1>3, CloseStep
<1>4. ASSUME NEW s \in Sessions, NEW q \in Queue, NEW x \in Offered(q), SFmt(s, q, x)
      PROVE  IInv'
  BY <1>4, SFmtStep
<1>5. ASSUME NEW s \in Sessions, NEW q \in Queue, ReqBufs(s, q) PROVE IInv'
  BY <1>5, ReqBufsStep
<1>6. ASSUME NEW s \in Sessions, NEW q \in Queue, PrepareFails(s, q) PROVE IInv'
  BY <1>6, PrepareFailsStep
<1>7. ASSUME NEW s \in Sessions, NEW q \in Queue, StreamOn(s, q) PROVE IInv'
  BY <1>7, StreamOnStep
<1>8. ASSUME NEW s \in Sessions, NEW q \in Queue, StreamOnFails(s, q) PROVE IInv'
  BY <1>8, StreamOnFailsStep
<1>9. ASSUME NEW s \in Sessions, NEW q \in Queue, StartLater(s, q) PROVE IInv'
  BY <1>9, StartLaterStep
<1>10. ASSUME NEW s \in Sessions, NEW q \in Queue, StreamOffWaits(s, q) PROVE IInv'
  BY <1>10, StreamOffWaitsStep
<1>11. ASSUME NEW s \in Sessions, NEW q \in Queue, StreamOff(s, q) PROVE IInv'
  BY <1>11, StreamOffStep
<1>12. CASE JobFinish
  BY <1>12, JobFinishStep
<1>13. CASE UNCHANGED vars
  BY <1>13, StutterStep
<1> QED
  BY <1>1, <1>2, <1>3, <1>4, <1>5, <1>6, <1>7, <1>8, <1>9, <1>10, <1>11, <1>12, <1>13 DEF Next

-----------------------------------------------------------------------------
(* The theorems.                                                           *)

\* The inductive invariant holds of every behaviour of the sessions.
THEOREM Inductive == Spec => []IInv
BY InitIInv, NextStep, PTL DEF Spec

\* Type correctness: formats, statuses, queues and the bound on prepare calls.
THEOREM SessionTypeCorrect == Spec => []TypeOK
<1>1. IInv => TypeOK
  BY DEF IInv
<1> QED
  BY <1>1, Inductive, PTL

\* The driver's own status of a queue never disagrees with vb2's, for any
\* number of sessions, unless a format is set under a queue that streams.
THEOREM StatusRight == Spec => []StatusAgrees
<1>1. IInv => StatusAgrees
  BY DEF IInv
<1> QED
  BY <1>1, Inductive, PTL

\* No queue streams with a codec that has been unprepared, or powered down.
THEOREM CodecOutlives == Spec => []StreamingPrepared
<1>1. IInv => StreamingPrepared
  BY DEF IInv
<1> QED
  BY <1>1, Inductive, PTL

\* A codec is prepared once for the two queues of a session, and unprepared
\* with the last of them.
THEOREM PreparedOnce == Spec => []Balanced
<1>1. IInv => Balanced
  BY DEF IInv
<1> QED
  BY <1>1, Inductive, PTL

\* No core stays powered when nothing streams, whatever failed before.
THEOREM CoresOff == Spec => []PoweredDown
<1>1. IInv => PoweredDown
  BY DEF IInv, Accounted, PoweredDown
<1> QED
  BY <1>1, Inductive, PTL

\* A job runs only for a session whose two queues have started.
THEOREM JobsHaveQueues == Spec => []JobStreams
<1>1. IInv => JobStreams
  BY DEF IInv
<1> QED
  BY <1>1, Inductive, PTL

\* The hardware is neither unprepared nor powered down under a queue or a job.
THEOREM HardwareStays == Spec => []HardwareHeld
<1>1. StreamingPrepared /\ JobStreams => HardwareHeld
  BY DEF HardwareHeld
<1> QED
  BY <1>1, CodecOutlives, JobsHaveQueues, PTL

\* Two sessions stream together only after a file was opened under one.
THEOREM OneAtATime == Spec => []Exclusive
<1>1. IInv => Exclusive
  BY DEF IInv
<1> QED
  BY <1>1, Inductive, PTL

-----------------------------------------------------------------------------
(* Formats: what a call of S_FMT leaves on a queue.                        *)

\* a set of numbers has a least member
LEMMA LeastNat ==
  ASSUME NEW ns \in SUBSET Nat, ns # {}
  PROVE  \E n \in ns : \A m \in ns : n <= m
<1>1. \E n \in ns : \A m \in ns : ~ (<<m, n>> \in OpToRel(<, Nat))
  BY WFMin, NatLessThanWellFounded, Zenon
<1>2. PICK n \in ns : \A m \in ns : ~ (<<m, n>> \in OpToRel(<, Nat))
  BY <1>1
<1>3. \A m \in ns : ~ (m < n)
  BY <1>2 DEF OpToRel
<1>4. QED
  BY <1>3

\* What FormatsAssumption says of an entry of the table.
LEMMA CodecIs ==
  ASSUME NEW i \in DOMAIN Codecs
  PROVE  /\ i \in Nat
         /\ F!WidthOf(i) \in Nat /\ F!MinW <= F!WidthOf(i)
         /\ F!HeightOf(i) \in Nat /\ F!MinH <= F!HeightOf(i)
         /\ Codecs[i].pix = [src |-> Codecs[i].pix.src, dst |-> Codecs[i].pix.dst]
         /\ Codecs[i].pix.src \in DOMAIN F!Format /\ Codecs[i].pix.dst \in DOMAIN F!Format
<1> DEFINE Rec == [pix : [src : DOMAIN F!Format, dst : DOMAIN F!Format],
                   maxW : Nat, maxH : Nat]
<1>1. Codecs \in Seq(Rec) /\ F!MinW <= Codecs[i].maxW /\ F!MinH <= Codecs[i].maxH
  BY FormatsAssumption
<1> HIDE DEF Rec
<1>2. Codecs[i] \in Rec /\ i \in Nat
  BY <1>1
<1>3. /\ Codecs[i].pix \in [src : DOMAIN F!Format, dst : DOMAIN F!Format]
      /\ Codecs[i].maxW \in Nat /\ Codecs[i].maxH \in Nat
  BY <1>2 DEF Rec
<1> HIDE DEF Rec
<1>4. QED
  BY <1>1, <1>2, <1>3 DEF F!WidthOf, F!HeightOf

\* The greatest width, or height, of some codecs is one of theirs.
LEMMA GreatestIs ==
  ASSUME NEW is \in SUBSET DOMAIN Codecs, is # {}, NEW size \in [is -> Nat]
  PROVE  LET g == F!Greatest({size[i] : i \in is})
         IN  (\E i \in is : g = size[i]) /\ \A i \in is : size[i] <= g
<1> DEFINE sizes == {size[i] : i \in is}
           n == Len(Codecs)
           Bound(k, b) == \A i \in is : i <= k => size[i] <= b
           Bad == {k \in Nat : ~ \E b \in Nat : Bound(k, b)}
<1>1. n \in Nat /\ is \subseteq 1 .. n /\ is \subseteq Nat
  BY FormatsAssumption
<1> HIDE DEF n
<1>2. Bad = {}
  <2>1. SUFFICES ASSUME Bad # {}
                 PROVE  FALSE
    OBVIOUS
  <2>2. PICK k \in Bad : \A l \in Bad : k <= l
    BY <2>1, LeastNat
  <2>3. k \in Nat /\ ~ \E b \in Nat : Bound(k, b)
    OBVIOUS
  <2>4. CASE k = 0
    <3>1. Bound(0, 0)
      BY <1>1
    <3>2. QED
      BY <2>3, <2>4, <3>1
  <2>5. CASE k # 0
    <3>1. k - 1 \in Nat /\ k - 1 \notin Bad
      <4> HIDE DEF Bad
      <4>1. QED
        BY <2>2, <2>3, <2>5
    <3>2. PICK b \in Nat : Bound(k - 1, b)
      BY <3>1
    <3>3. CASE k \in is
      <4>1. Bound(k, IF b <= size[k] THEN size[k] ELSE b)
        BY <1>1, <2>3, <3>2, <3>3
      <4>2. QED
        BY <2>3, <3>3, <4>1
    <3>4. CASE k \notin is
      <4>1. Bound(k, b)
        BY <1>1, <2>3, <3>2, <3>4
      <4>2. QED
        BY <2>3, <4>1
    <3>5. QED
      BY <3>3, <3>4
  <2>6. QED
    BY <2>4, <2>5
<1> DEFINE Above == {b \in Nat : Bound(n, b)}
<1>3. Above # {}
  BY <1>1, <1>2
<1> HIDE DEF Bad
<1>4. PICK b \in Above : \A c \in Above : b <= c
  BY <1>3, LeastNat
<1>5. b \in Nat /\ \A i \in is : size[i] <= b
  BY <1>1
<1>6. \E i \in is : size[i] = b
  <2>1. SUFFICES ASSUME \A i \in is : size[i] # b
                 PROVE  FALSE
    OBVIOUS
  <2>2. PICK i \in is : TRUE
    OBVIOUS
  <2>3. b - 1 \in Nat /\ Bound(n, b - 1)
    BY <1>5, <2>1, <2>2
  <2>4. QED
    BY <1>4, <1>5, <2>3
<1> HIDE DEF Above
<1>7. b \in sizes /\ \A m \in sizes : m <= b
  BY <1>5, <1>6
<1> DEFINE g == CHOOSE m \in sizes : \A l \in sizes : l <= m
<1>8. g \in sizes /\ \A m \in sizes : m <= g
  <2> HIDE DEF sizes
  <2>1. QED
    BY <1>7
<1>9. F!Greatest(sizes) = g
  <2>1. sizes # {}
    BY <1>7
  <2> HIDE DEF sizes
  <2>2. QED
    BY <2>1 DEF F!Greatest
<1> HIDE DEF g
<1>10. QED
  BY <1>8, <1>9

\* The same for the widths and the heights; those of a codec alone are its own.
LEMMA GreatestSizes ==
  ASSUME NEW is \in SUBSET DOMAIN Codecs, is # {}
  PROVE  LET gw == F!Greatest({F!WidthOf(i) : i \in is})
             gh == F!Greatest({F!HeightOf(i) : i \in is})
         IN  /\ gw \in Nat /\ F!MinW <= gw /\ \A i \in is : F!WidthOf(i) <= gw
             /\ gh \in Nat /\ F!MinH <= gh /\ \A i \in is : F!HeightOf(i) <= gh
             /\ \A i \in is : is = {i} => gw = F!WidthOf(i) /\ gh = F!HeightOf(i)
<1>1. \A i \in is : /\ F!WidthOf(i) \in Nat /\ F!MinW <= F!WidthOf(i)
                    /\ F!HeightOf(i) \in Nat /\ F!MinH <= F!HeightOf(i)
  BY CodecIs
<1> DEFINE gw == F!Greatest({F!WidthOf(i) : i \in is})
           gh == F!Greatest({F!HeightOf(i) : i \in is})
<1>2. (\E i \in is : gw = F!WidthOf(i)) /\ \A i \in is : F!WidthOf(i) <= gw
  <2> DEFINE size == [i \in is |-> F!WidthOf(i)]
  <2>1. size \in [is -> Nat] /\ \A i \in is : size[i] = F!WidthOf(i)
    BY <1>1
  <2> HIDE DEF size
  <2>2. {size[i] : i \in is} = {F!WidthOf(i) : i \in is}
    BY <2>1
  <2>3. QED
    BY <2>1, <2>2, GreatestIs
<1>3. (\E i \in is : gh = F!HeightOf(i)) /\ \A i \in is : F!HeightOf(i) <= gh
  <2> DEFINE size == [i \in is |-> F!HeightOf(i)]
  <2>1. size \in [is -> Nat] /\ \A i \in is : size[i] = F!HeightOf(i)
    BY <1>1
  <2> HIDE DEF size
  <2>2. {size[i] : i \in is} = {F!HeightOf(i) : i \in is}
    BY <2>1
  <2>3. QED
    BY <2>1, <2>2, GreatestIs
<1> HIDE DEF gw, gh
<1>4. QED
  BY <1>1, <1>2, <1>3 DEF gw, gh

\* some pixels in a size, with the planes set_buffer_sizes fills in
Fmt(p, w, h) ==
  [pix |-> p, w |-> w, h |-> h, planes |-> F!BufferSizes(F!Format[p], w, h)]
Pix(q) == {Codecs[i].pix[q] : i \in DOMAIN Codecs}
\* a format as S_FMT leaves it on a queue
Formatted(q) ==
  {Fmt(p, w, h) : p \in Pix(q), w \in {n \in Nat : F!MinW <= n},
                  h \in {n \in Nat : F!MinH <= n}}
\* the sessions S_FMT leaves
Sound ==
  {s \in [F!Queues -> Formatted("src") \cup Formatted("dst") \cup {F!NotSet}] :
     \A q \in F!Queues : s[q] \in Formatted(q) \cup {F!NotSet}}

\* what ENUM_FRAMESIZES reports for some codecs
WidthIn(is) == F!Greatest({F!WidthOf(i) : i \in is})
HeightIn(is) == F!Greatest({F!HeightOf(i) : i \in is})

\* A format of the table is in meson-formats.c, and is not the one of a queue not set.
LEMMA PixIs ==
  ASSUME NEW q \in F!Queues, NEW p \in Pix(q)
  PROVE  p \in DOMAIN F!Format /\ p # F!NoPix
<1>1. PICK i \in DOMAIN Codecs : p = Codecs[i].pix[q]
  BY DEF Pix
<1>2. p \in DOMAIN F!Format
  BY <1>1, CodecIs DEF F!Queues
<1>3. QED
  BY <1>2 DEF F!Format, F!NoPix

\* The parts of a format S_FMT left on a queue; it is not the one of a queue not set.
LEMMA FormattedIs ==
  ASSUME NEW q \in F!Queues, NEW v \in Formatted(q)
  PROVE  /\ v = Fmt(v.pix, v.w, v.h) /\ v.pix \in Pix(q) /\ v.pix # F!NoPix
         /\ v.w \in Nat /\ F!MinW <= v.w /\ v.h \in Nat /\ F!MinH <= v.h
         /\ v.w # 0 /\ v.h # 0 /\ v # F!NotSet
<1>1. PICK p \in Pix(q), w \in {n \in Nat : F!MinW <= n}, h \in {n \in Nat : F!MinH <= n} :
        v = Fmt(p, w, h)
  BY DEF Formatted
<1>2. v.pix = p /\ v.w = w /\ v.h = h
  BY <1>1 DEF Fmt
<1>3. p # F!NoPix /\ v # F!NotSet
  <2>1. F!NotSet.pix = F!NoPix
    BY DEF F!NotSet
  <2>2. p # F!NoPix
    BY PixIs
  <2>3. QED
    BY <1>2, <2>1, <2>2
<1>4. w # 0 /\ h # 0
  BY DEF F!MinW, F!MinH
<1>5. QED
  BY <1>1, <1>2, <1>3, <1>4

\* Giving a format another size recomputes its planes from its pixels.
LEMMA WithSizeIs ==
  ASSUME NEW p, NEW w, NEW h, NEW planes, NEW w2, NEW h2
  PROVE  F!WithSize([pix |-> p, w |-> w, h |-> h, planes |-> planes], w2, h2) = Fmt(p, w2, h2)
<1> DEFINE v == [pix |-> p, w |-> w, h |-> h, planes |-> planes]
<1>1. v.pix = p
  OBVIOUS
<1>2. ASSUME NEW b
      PROVE  [v EXCEPT !.w = w2, !.h = h2, !.planes = b]
               = [pix |-> p, w |-> w2, h |-> h2, planes |-> b]
  <2> DEFINE v1 == [pix |-> p, w |-> w2, h |-> h, planes |-> planes]
             v2 == [pix |-> p, w |-> w2, h |-> h2, planes |-> planes]
  <2>1. [v EXCEPT !.w = w2] = v1
    OBVIOUS
  <2>2. [v1 EXCEPT !.h = h2] = v2
    OBVIOUS
  <2>3. [v2 EXCEPT !.planes = b] = [pix |-> p, w |-> w2, h |-> h2, planes |-> b]
    OBVIOUS
  <2> HIDE DEF v, v1, v2
  <2>4. QED
    BY <2>1, <2>2, <2>3
<1> HIDE DEF v
<1>3. F!WithSize(v, w2, h2) = Fmt(p, w2, h2)
  BY <1>1, <1>2, Zenon DEF F!WithSize, Fmt
<1>4. QED
  BY <1>3 DEF v

\* Limiting a format to the size of some codecs leaves it its pixels, and as it is
\* if it is within that size.
LEMMA WithinIs ==
  ASSUME NEW is \in SUBSET DOMAIN Codecs, is # {},
         NEW p, NEW w \in Nat, NEW h \in Nat, NEW planes
  PROVE  \E w2 \in Nat, h2 \in Nat :
           /\ F!Within([pix |-> p, w |-> w, h |-> h, planes |-> planes], is) = Fmt(p, w2, h2)
           /\ F!MinW <= w2 /\ w2 <= WidthIn(is) /\ F!MinH <= h2 /\ h2 <= HeightIn(is)
           /\ F!MinW <= w /\ w <= WidthIn(is) => w2 = w
           /\ F!MinH <= h /\ h <= HeightIn(is) => h2 = h
<1> DEFINE v == [pix |-> p, w |-> w, h |-> h, planes |-> planes]
           w2 == F!Clamp(w, F!MinW, WidthIn(is))
           h2 == F!Clamp(h, F!MinH, HeightIn(is))
<1>1. /\ WidthIn(is) \in Nat /\ F!MinW <= WidthIn(is) /\ F!MinW \in Nat
      /\ HeightIn(is) \in Nat /\ F!MinH <= HeightIn(is) /\ F!MinH \in Nat
  <2>1. F!MinW \in Nat /\ F!MinH \in Nat
    BY DEF F!MinW, F!MinH
  <2>2. /\ WidthIn(is) \in Nat /\ F!MinW <= WidthIn(is)
        /\ HeightIn(is) \in Nat /\ F!MinH <= HeightIn(is)
    BY GreatestSizes DEF WidthIn, HeightIn
  <2>3. QED
    BY <2>1, <2>2
<1>2. F!Within(v, is) = F!WithSize(v, w2, h2)
  <2>1. v.w = w /\ v.h = h
    OBVIOUS
  <2> HIDE DEF v
  <2>2. QED
    BY <2>1 DEF F!Within, F!Clamped, WidthIn, HeightIn
<1>3. F!Within(v, is) = Fmt(p, w2, h2)
  BY <1>2, WithSizeIs
<1>4. /\ w2 \in Nat /\ F!MinW <= w2 /\ w2 <= WidthIn(is)
      /\ F!MinW <= w /\ w <= WidthIn(is) => w2 = w
  BY <1>1 DEF F!Clamp
<1>5. /\ h2 \in Nat /\ F!MinH <= h2 /\ h2 <= HeightIn(is)
      /\ F!MinH <= h /\ h <= HeightIn(is) => h2 = h
  BY <1>1 DEF F!Clamp
<1> HIDE DEF w2, h2
<1>6. QED
  BY <1>3, <1>4, <1>5

\* The first of some codecs, and its own size.
LEMMA FirstCodec ==
  ASSUME NEW is \in SUBSET DOMAIN Codecs, is # {}
  PROVE  /\ F!Least(is) \in is
         /\ WidthIn({F!Least(is)}) = F!WidthOf(F!Least(is))
         /\ HeightIn({F!Least(is)}) = F!HeightOf(F!Least(is))
         /\ F!WidthOf(F!Least(is)) <= WidthIn(is)
         /\ F!HeightOf(F!Least(is)) <= HeightIn(is)
<1>1. is \subseteq Nat
  BY CodecIs
<1>2. \E i \in is : \A j \in is : i <= j
  BY <1>1, LeastNat
<1>3. F!Least(is) \in is
  BY <1>2 DEF F!Least
<1> DEFINE l == F!Least(is)
<1> HIDE DEF l
<1>4. l \in is /\ {l} \in SUBSET DOMAIN Codecs
  BY <1>3 DEF l
<1>5. WidthIn({l}) = F!WidthOf(l) /\ HeightIn({l}) = F!HeightOf(l)
  BY <1>4, GreatestSizes DEF WidthIn, HeightIn
<1>6. F!WidthOf(l) <= WidthIn(is) /\ F!HeightOf(l) <= HeightIn(is)
  BY <1>4, GreatestSizes DEF WidthIn, HeightIn
<1>7. QED
  BY <1>4, <1>5, <1>6 DEF l

\* the codecs that have a format on a queue
Of(q, p) == {i \in DOMAIN Codecs : Codecs[i].pix[q] = p}
\* a size within that of some codecs
Size(w, h, is) ==
  /\ w \in Nat /\ F!MinW <= w /\ w <= WidthIn(is)
  /\ h \in Nat /\ F!MinH <= h /\ h <= HeightIn(is)

\* The first codec, which TRY_FMT falls back on.
LEMMA FirstIs ==
  /\ 1 \in DOMAIN Codecs
  /\ \A q \in F!Queues : Codecs[1].pix[q] \in Pix(q)
<1>1. 1 \in DOMAIN Codecs
  BY FormatsAssumption
<1>2. QED
  BY <1>1 DEF Pix

\* The codecs of a format exist exactly if the table has the format.
LEMMA OfIs ==
  ASSUME NEW q \in F!Queues, NEW p
  PROVE  /\ Of(q, p) \in SUBSET DOMAIN Codecs
         /\ p \in Pix(q) <=> Of(q, p) # {}
BY DEF Of, Pix

\* With one of the queues not set, TRY_FMT keeps a format of the table and takes the
\* first codec's for any other.
LEMMA HeuristicIs ==
  ASSUME NEW s, NEW q \in F!Queues, NEW p, NEW w \in Nat, NEW h \in Nat, NEW planes,
         s[q] = [pix |-> p, w |-> w, h |-> h, planes |-> planes]
  PROVE  \E p2 \in Pix(q), w2 \in Nat, h2 \in Nat :
           /\ F!Heuristic(s, q, {i \in DOMAIN Codecs : Codecs[i].pix[q] = s[q].pix})
                = Fmt(p2, w2, h2)
           /\ Size(w2, h2, Of(q, p2))
           /\ p \in Pix(q) => p2 = p
           /\ p \in Pix(q) /\ Size(w, h, Of(q, p)) => w2 = w /\ h2 = h
           /\ p \notin Pix(q) => p2 = Codecs[1].pix[q] /\ Size(w2, h2, {1})
<1> DEFINE v == [pix |-> p, w |-> w, h |-> h, planes |-> planes]
           p1 == Codecs[1].pix[q]
<1>1. s[q].pix = p
  OBVIOUS
<1>2. {i \in DOMAIN Codecs : Codecs[i].pix[q] = s[q].pix} = Of(q, p)
  BY <1>1 DEF Of
<1>3. CASE p \in Pix(q)
  <2>1. Of(q, p) \in SUBSET DOMAIN Codecs /\ Of(q, p) # {}
    BY <1>3, OfIs
  <2>2. PICK w2 \in Nat, h2 \in Nat :
          /\ F!Within(v, Of(q, p)) = Fmt(p, w2, h2)
          /\ F!MinW <= w2 /\ w2 <= WidthIn(Of(q, p))
          /\ F!MinH <= h2 /\ h2 <= HeightIn(Of(q, p))
          /\ F!MinW <= w /\ w <= WidthIn(Of(q, p)) => w2 = w
          /\ F!MinH <= h /\ h <= HeightIn(Of(q, p)) => h2 = h
    BY <2>1, WithinIs
  <2>3. F!Heuristic(s, q, Of(q, p)) = F!Within(v, Of(q, p))
    BY <2>1 DEF F!Heuristic
  <2> HIDE DEF v
  <2>4. QED
    BY <1>2, <1>3, <2>2, <2>3 DEF Size
<1>4. CASE p \notin Pix(q)
  <2>1. Of(q, p) = {} /\ {1} \in SUBSET DOMAIN Codecs /\ {1} # {}
    BY <1>4, OfIs, FirstIs
  <2>2. p1 \in Pix(q) /\ 1 \in Of(q, p1)
    BY FirstIs DEF Of
  <2> HIDE DEF p1
  <2> DEFINE v1 == [pix |-> p1, w |-> w, h |-> h, planes |-> planes]
  <2>3. F!WithPix(s, q, p1) = v1
    BY DEF F!WithPix
  <2>4. PICK w2 \in Nat, h2 \in Nat :
          /\ F!Within(v1, {1}) = Fmt(p1, w2, h2)
          /\ F!MinW <= w2 /\ w2 <= WidthIn({1}) /\ F!MinH <= h2 /\ h2 <= HeightIn({1})
    BY <2>1, WithinIs
  <2> HIDE DEF v1
  <2>5. F!Heuristic(s, q, Of(q, p)) = Fmt(p1, w2, h2)
    BY <2>1, <2>3, <2>4 DEF F!Heuristic, p1
  <2>6. /\ WidthIn({1}) = F!WidthOf(1) /\ F!WidthOf(1) <= WidthIn(Of(q, p1))
        /\ HeightIn({1}) = F!HeightOf(1) /\ F!HeightOf(1) <= HeightIn(Of(q, p1))
    <3>1. Of(q, p1) \in SUBSET DOMAIN Codecs /\ Of(q, p1) # {}
      BY <2>2, OfIs
    <3>2. F!WidthOf(1) <= WidthIn(Of(q, p1)) /\ F!HeightOf(1) <= HeightIn(Of(q, p1))
      BY <2>2, <3>1, GreatestSizes DEF WidthIn, HeightIn
    <3>3. WidthIn({1}) = F!WidthOf(1) /\ HeightIn({1}) = F!HeightOf(1)
      BY <2>1, GreatestSizes DEF WidthIn, HeightIn
    <3>4. QED
      BY <3>2, <3>3
  <2>7. /\ WidthIn(Of(q, p1)) \in Nat /\ HeightIn(Of(q, p1)) \in Nat
        /\ F!WidthOf(1) \in Nat /\ F!HeightOf(1) \in Nat
    <3>1. Of(q, p1) \in SUBSET DOMAIN Codecs /\ Of(q, p1) # {}
      BY <2>2, OfIs
    <3>2. QED
      BY <3>1, GreatestSizes, CodecIs, FirstIs DEF WidthIn, HeightIn
  <2>8. F!MinW \in Nat /\ F!MinH \in Nat
    BY DEF F!MinW, F!MinH
  <2>9. Size(w2, h2, Of(q, p1))
    BY <2>4, <2>6, <2>7, <2>8 DEF Size
  <2>10. Size(w2, h2, {1})
    BY <2>4 DEF Size
  <2>11. QED
    BY <1>2, <1>4, <2>2, <2>5, <2>9, <2>10 DEF p1
<1>5. QED
  BY <1>3, <1>4

\* With both set it takes the format and the size of the first candidate.
LEMMA SettledIs ==
  ASSUME NEW s, NEW q \in F!Queues, NEW is \in SUBSET DOMAIN Codecs, is # {},
         s[q].w \in Nat, s[q].h \in Nat,
         s[q] = [pix |-> s[q].pix, w |-> s[q].w, h |-> s[q].h, planes |-> s[q].planes]
  PROVE  LET l == F!Least(is)
         IN  \E w2 \in Nat, h2 \in Nat :
               /\ F!Settled(s, q, is) = Fmt(Codecs[l].pix[q], w2, h2)
               /\ Size(w2, h2, {l})
               /\ Size(s[q].w, s[q].h, {l}) => w2 = s[q].w /\ h2 = s[q].h
<1> DEFINE l == F!Least(is)
           pl == Codecs[l].pix[q]
           w == s[q].w
           h == s[q].h
           planes == s[q].planes
           v == [pix |-> pl, w |-> w, h |-> h, planes |-> planes]
<1>0. s[q] = [pix |-> s[q].pix, w |-> w, h |-> h, planes |-> planes] /\ w \in Nat /\ h \in Nat
  OBVIOUS
<1> HIDE DEF w, h, planes
<1>1. F!WithPix(s, q, pl) = v
  BY <1>0 DEF F!WithPix
<1>2. l \in is /\ {l} \in SUBSET DOMAIN Codecs /\ {l} # {}
  BY FirstCodec
<1> HIDE DEF l, pl
<1>3. PICK w2 \in Nat, h2 \in Nat :
        /\ F!Within(v, {l}) = Fmt(pl, w2, h2)
        /\ F!MinW <= w2 /\ w2 <= WidthIn({l}) /\ F!MinH <= h2 /\ h2 <= HeightIn({l})
        /\ F!MinW <= w /\ w <= WidthIn({l}) => w2 = w
        /\ F!MinH <= h /\ h <= HeightIn({l}) => h2 = h
  BY <1>0, <1>2, WithinIs
<1> HIDE DEF v
<1>4. F!Settled(s, q, is) = Fmt(pl, w2, h2)
  BY <1>1, <1>3 DEF F!Settled, l, pl
<1>5. QED
  BY <1>3, <1>4 DEF Size, l, pl, w, h

\* the codecs that have a format on one queue and what is set on the other
PairsOf(s, q, p) ==
  {i \in DOMAIN Codecs : /\ Codecs[i].pix[q] = p
                         /\ Codecs[i].pix[F!Other(q)] = s[F!Other(q)].pix}

\* A session with another format on one queue.
LEMMA BothIs ==
  ASSUME NEW s \in Sound, NEW q \in F!Queues, NEW v
  PROVE  LET t == [s EXCEPT ![q] = v]
         IN  /\ t[q] = v /\ t[F!Other(q)] = s[F!Other(q)]
             /\ t \in [F!Queues -> {t["src"], t["dst"]}]
             /\ F!FindCodec(t["src"].pix, t["dst"].pix) = PairsOf(s, q, v.pix)
             /\ PairsOf(t, q, v.pix) = PairsOf(s, q, v.pix)
<1> DEFINE t == [s EXCEPT ![q] = v]
           o == F!Other(q)
<1>1. /\ DOMAIN s = F!Queues /\ o \in F!Queues /\ o # q
      /\ (q = "src" /\ o = "dst") \/ (q = "dst" /\ o = "src")
      /\ F!Queues = {"src", "dst"}
  BY DEF Sound, F!Queues, F!Other
<1>2. t[q] = v /\ t[o] = s[o] /\ t \in [F!Queues -> {t["src"], t["dst"]}]
  BY <1>1
<1> HIDE DEF t, o
<1>3. ASSUME NEW i \in DOMAIN Codecs
      PROVE  Codecs[i].pix = [src |-> t["src"].pix, dst |-> t["dst"].pix]
               <=> Codecs[i].pix[q] = v.pix /\ Codecs[i].pix[o] = s[o].pix
  <2> DEFINE c == Codecs[i].pix
  <2>1. c = [src |-> c.src, dst |-> c.dst]
    BY CodecIs
  <2> HIDE DEF c
  <2>2. c = [src |-> t["src"].pix, dst |-> t["dst"].pix]
          <=> c.src = t["src"].pix /\ c.dst = t["dst"].pix
    BY <2>1
  <2>3. c = [src |-> t["src"].pix, dst |-> t["dst"].pix] <=> c[q] = v.pix /\ c[o] = s[o].pix
    <3>1. CASE q = "src" /\ o = "dst"
      BY <1>2, <2>2, <3>1
    <3>2. CASE q = "dst" /\ o = "src"
      BY <1>2, <2>2, <3>2
    <3>3. QED
      BY <1>1, <3>1, <3>2
  <2>4. QED
    BY <2>3 DEF c
<1>4. F!FindCodec(t["src"].pix, t["dst"].pix) = PairsOf(s, q, v.pix)
  BY <1>3 DEF F!FindCodec, PairsOf, o
<1>5. PairsOf(t, q, v.pix) = PairsOf(s, q, v.pix)
  BY <1>2 DEF PairsOf, o
<1>6. QED
  BY <1>2, <1>4, <1>5 DEF t, o

\* a format that is set on the other queue is one of the table
LEMMA OtherIs ==
  ASSUME NEW s \in Sound, NEW q \in F!Queues
  PROVE  LET o == F!Other(q)
         IN  /\ o \in F!Queues
             /\ s[o] = F!NotSet => s[o].pix = F!NoPix /\ s[o].w = 0
             /\ s[o] # F!NotSet => /\ s[o] \in Formatted(o) /\ s[o].pix # F!NoPix
                                   /\ s[o].w # 0 /\ s[o].h # 0
                                   /\ \E i \in DOMAIN Codecs : Codecs[i].pix[o] = s[o].pix
<1> DEFINE o == F!Other(q)
<1>1. o \in F!Queues
  BY DEF F!Queues, F!Other
<1> HIDE DEF o
<1>2. s[o] \in Formatted(o) \cup {F!NotSet}
  BY <1>1 DEF Sound
<1>3. F!NotSet.pix = F!NoPix /\ F!NotSet.w = 0
  BY DEF F!NotSet
<1>4. ASSUME s[o] \in Formatted(o)
      PROVE  /\ s[o].pix # F!NoPix /\ s[o].w # 0 /\ s[o].h # 0
             /\ \E i \in DOMAIN Codecs : Codecs[i].pix[o] = s[o].pix
  <2>1. s[o].pix \in Pix(o) /\ s[o].pix # F!NoPix /\ s[o].w # 0 /\ s[o].h # 0
    BY <1>1, <1>4, FormattedIs
  <2>2. QED
    BY <2>1 DEF Pix
<1>5. QED
  BY <1>1, <1>2, <1>3, <1>4 DEF o

\* What TRY_FMT makes of a format: see Heuristic with the other queue not set.  With
\* it set, a pair of the table stays what it is, CAPTURE always makes one with
\* OUTPUT, and OUTPUT has no more than the size of the pair, if there is one.
Asking(s, q, t) ==
  /\ t = [s EXCEPT ![q] = t[q]] /\ t[q].w \in Nat /\ t[q].h \in Nat
  /\ t[q] = [pix |-> t[q].pix, w |-> t[q].w, h |-> t[q].h, planes |-> t[q].planes]
Guess(s, q, p, w, h, p2, w2, h2) ==
  /\ F!MinW <= w2 /\ F!MinH <= h2
  /\ s[F!Other(q)] = F!NotSet =>
       /\ Size(w2, h2, Of(q, p2))
       /\ p \in Pix(q) => p2 = p
       /\ p \in Pix(q) /\ Size(w, h, Of(q, p)) => w2 = w /\ h2 = h
  /\ s[F!Other(q)] # F!NotSet =>
       /\ PairsOf(s, q, p) # {} => p2 = p
       /\ PairsOf(s, q, p) # {} /\ Size(w, h, {F!Least(PairsOf(s, q, p))}) => w2 = w /\ h2 = h
       /\ q = "dst" /\ p # F!NoPix => PairsOf(s, q, p2) # {}
       /\ q = "src" /\ PairsOf(s, q, p2) # {} => Size(w2, h2, {F!Least(PairsOf(s, q, p2))})

\* What TRY_FMT makes of a format that is asked for: see Guess.
LEMMA TriedIs ==
  ASSUME NEW s \in Sound, NEW q \in F!Queues, NEW t, Asking(s, q, t)
  PROVE  \E p2 \in Pix(q), w2 \in Nat, h2 \in Nat :
           /\ F!Tried(t, q) = Fmt(p2, w2, h2)
           /\ Guess(s, q, t[q].pix, t[q].w, t[q].h, p2, w2, h2)
<1> DEFINE p == t[q].pix
           w == t[q].w
           h == t[q].h
           planes == t[q].planes
           o == F!Other(q)
           same == {i \in DOMAIN Codecs : Codecs[i].pix[q] = t[q].pix}
           exact == F!FindCodec(t["src"].pix, t["dst"].pix)
           is == F!Candidates(t, q, exact)
<1>1. /\ t[q].pix = p /\ t[o] = s[o] /\ exact = PairsOf(s, q, p)
      /\ t["src"] \in {t[q], t[o]} /\ t["dst"] \in {t[q], t[o]}
      /\ w \in Nat /\ h \in Nat /\ t[q].w = w /\ t[q].h = h
      /\ t[q] = [pix |-> p, w |-> w, h |-> h, planes |-> planes]
  <2> DEFINE v == t[q]
  <2>1. t = [s EXCEPT ![q] = v]
    BY DEF Asking
  <2> HIDE DEF v
  <2>2. t[o] = s[o] /\ exact = PairsOf(s, q, v.pix)
    BY <2>1, BothIs
  <2>3. (q = "src" /\ o = "dst") \/ (q = "dst" /\ o = "src")
    BY DEF F!Queues, F!Other
  <2> HIDE DEF o, exact
  <2>4. QED
    BY <2>2, <2>3 DEF v, Asking
<1> HIDE DEF p, w, h, planes
<1>2. (q = "src" /\ o = "dst") \/ (q = "dst" /\ o = "src")
  BY DEF F!Queues, F!Other
<1>3. /\ o \in F!Queues
      /\ s[o] = F!NotSet => s[o].pix = F!NoPix
      /\ s[o] # F!NotSet => /\ s[o].pix # F!NoPix
                            /\ \E i \in DOMAIN Codecs : Codecs[i].pix[o] = s[o].pix
  BY OtherIs
<1>4. F!Tried(t, q) = F!Settled(t, q, is)
  BY DEF F!Tried
<1> HIDE DEF o
<1>5. ASSUME is = {}
      PROVE  F!Settled(t, q, is) = F!Heuristic(t, q, same)
  BY <1>5 DEF F!Settled
<1>6. PICK p3 \in Pix(q), w3 \in Nat, h3 \in Nat :
        /\ F!Heuristic(t, q, same) = Fmt(p3, w3, h3)
        /\ Size(w3, h3, Of(q, p3))
        /\ p \in Pix(q) => p3 = p
        /\ p \in Pix(q) /\ Size(w, h, Of(q, p)) => w3 = w /\ h3 = h
        /\ p \notin Pix(q) => p3 = Codecs[1].pix[q] /\ Size(w3, h3, {1})
  BY <1>1, HeuristicIs
<1> HIDE DEF same, exact
<1>7. F!MinW <= w3 /\ F!MinH <= h3
  BY <1>6 DEF Size
<1>8. \A x : PairsOf(s, q, x) \in SUBSET DOMAIN Codecs /\ (PairsOf(s, q, x) # {} => x \in Pix(q))
  BY DEF PairsOf, Pix
<1>9. CASE s[o] = F!NotSet
  <2>1. is = {}
    BY <1>1, <1>2, <1>3, <1>9 DEF F!Candidates, F!Queues
  <2>2. QED
    BY <1>4, <1>5, <1>6, <1>7, <1>9, <2>1 DEF Guess, o, p, w, h
<1>10. CASE s[o] # F!NotSet /\ p = F!NoPix
  <2>1. is = {} /\ p \notin Pix(q)
    BY <1>1, <1>10, PixIs DEF F!Candidates
  <2>2. PairsOf(s, q, p) = {}
    BY <1>8, <2>1
  <2>3. ASSUME q = "src", PairsOf(s, q, p3) # {}
        PROVE  Size(w3, h3, {F!Least(PairsOf(s, q, p3))})
    <3> DEFINE l == F!Least(PairsOf(s, q, p3))
    <3>1. l \in PairsOf(s, q, p3)
      BY <1>8, <2>3, FirstCodec
    <3> HIDE DEF l
    <3>2. l \in DOMAIN Codecs /\ Codecs[l].pix.src = Codecs[1].pix.src
      BY <1>6, <2>1, <2>3, <3>1 DEF PairsOf
    <3>3. F!WidthOf(1) <= F!WidthOf(l) /\ F!HeightOf(1) <= F!HeightOf(l)
      BY <3>2, FormatsAssumption DEF F!WidthOf, F!HeightOf
    <3>4. /\ WidthIn({1}) = F!WidthOf(1) /\ HeightIn({1}) = F!HeightOf(1)
          /\ F!WidthOf(1) \in Nat /\ F!HeightOf(1) \in Nat
      <4>1. 1 \in DOMAIN Codecs /\ {1} \in SUBSET DOMAIN Codecs
        BY FirstIs
      <4>2. QED
        BY <4>1, GreatestSizes, CodecIs DEF WidthIn, HeightIn
    <3>5. /\ WidthIn({l}) = F!WidthOf(l) /\ HeightIn({l}) = F!HeightOf(l)
          /\ F!WidthOf(l) \in Nat /\ F!HeightOf(l) \in Nat
      <4>1. {l} \in SUBSET DOMAIN Codecs
        BY <3>2
      <4>2. QED
        BY <3>2, <4>1, GreatestSizes, CodecIs DEF WidthIn, HeightIn
    <3>6. Size(w3, h3, {1})
      BY <1>6, <2>1
    <3>7. Size(w3, h3, {l})
      BY <3>3, <3>4, <3>5, <3>6 DEF Size
    <3>8. QED
      BY <3>7 DEF l
  <2>4. QED
    BY <1>4, <1>5, <1>6, <1>7, <1>10, <2>1, <2>2, <2>3 DEF Guess, o, p, w, h
<1>11. CASE s[o] # F!NotSet /\ p # F!NoPix
  <2>1. is = IF PairsOf(s, q, p) # {} THEN PairsOf(s, q, p) ELSE F!Nearest(t, q)
    BY <1>1, <1>2, <1>3, <1>11 DEF F!Candidates, F!Queues
  <2> DEFINE near == F!Nearest(t, q)
  <2>2. near = {i \in DOMAIN Codecs : \/ q = "src" /\ s[o].pix = Codecs[i].pix[o]
                                      \/ q = "src" /\ Codecs[i].pix[q] = p
                                      \/ q = "dst" /\ s[o].pix = Codecs[i].pix[o]}
    BY <1>1, <1>2 DEF F!Nearest
  <2>3. near # {} /\ near \in SUBSET DOMAIN Codecs
    BY <1>2, <1>3, <1>11, <2>2
  <2> HIDE DEF near
  <2>4. is # {} /\ is \in SUBSET DOMAIN Codecs
    BY <1>8, <2>1, <2>3 DEF near
  <2> DEFINE l == F!Least(is)
             p2 == Codecs[l].pix[q]
  <2>5. PICK w2 \in Nat, h2 \in Nat :
          /\ F!Settled(t, q, is) = Fmt(p2, w2, h2)
          /\ Size(w2, h2, {l})
          /\ Size(w, h, {l}) => w2 = w /\ h2 = h
    <3> HIDE DEF is
    <3>1. QED
      BY <1>1, <2>4, SettledIs
  <2>6. l \in is
    BY <2>4, FirstCodec
  <2> HIDE DEF is, l
  <2>7. p2 \in Pix(q)
    BY <2>4, <2>6 DEF Pix
  <2>8. PairsOf(s, q, p) # {} => is = PairsOf(s, q, p) /\ p2 = p
    BY <2>1, <2>6 DEF PairsOf
  <2>9. ASSUME PairsOf(s, q, p2) # {}
        PROVE  l = F!Least(PairsOf(s, q, p2))
    <3>1. CASE PairsOf(s, q, p) # {}
      BY <2>8, <3>1 DEF l
    <3>2. CASE PairsOf(s, q, p) = {}
      <4>1. is = near /\ p2 # p
        BY <2>1, <2>9, <3>2 DEF near
      <4>2. l \in PairsOf(s, q, p2)
        BY <2>2, <2>6, <4>1 DEF PairsOf, o
      <4>3. PairsOf(s, q, p2) \subseteq is
        BY <1>2, <2>2, <4>1 DEF PairsOf, o
      <4>4. is \subseteq Nat
        BY <2>4, CodecIs
      <4>5. \A i \in is : l <= i
        <5>1. \E i \in is : \A j \in is : i <= j
          BY <2>4, <4>4, LeastNat
        <5>2. QED
          BY <5>1 DEF l, F!Least
      <4>6. ASSUME NEW k \in PairsOf(s, q, p2), \A j \in PairsOf(s, q, p2) : k <= j
            PROVE  k = l
        <5>1. k <= l /\ l <= k
          BY <4>2, <4>3, <4>5, <4>6
        <5>2. k \in Nat /\ l \in Nat
          BY <4>2, <4>3, <4>4
        <5> HIDE DEF p2
        <5>3. QED
          BY <5>1, <5>2
      <4>7. \A j \in PairsOf(s, q, p2) : l <= j
        BY <4>3, <4>5
      <4>8. QED
        BY <4>2, <4>6, <4>7 DEF F!Least
    <3>3. QED
      BY <3>1, <3>2
  <2>10. q = "dst" => PairsOf(s, q, p2) # {}
    <3>1. CASE PairsOf(s, q, p) # {}
      BY <2>8, <3>1
    <3>2. CASE PairsOf(s, q, p) = {}
      <4>1. is = near
        BY <2>1, <3>2 DEF near
      <4>2. q = "dst" => l \in PairsOf(s, q, p2)
        BY <2>2, <2>6, <4>1 DEF PairsOf, o
      <4>3. QED
        BY <4>2
    <3>3. QED
      BY <3>1, <3>2
  <2> HIDE DEF p2
  <2>11. F!MinW <= w2 /\ F!MinH <= h2
    BY <2>5 DEF Size
  <2>12. PairsOf(s, q, p) # {} => l = F!Least(PairsOf(s, q, p))
    BY <2>8 DEF l
  <2>13. QED
    BY <1>4, <1>11, <2>5, <2>7, <2>8, <2>9, <2>10, <2>11, <2>12 DEF Guess, o, p, w, h
<1>12. QED
  BY <1>9, <1>10, <1>11

\* What S_FMT stores when both formats are known, or one is not.
LEMMA StoredIs ==
  ASSUME NEW s \in Sound, NEW q \in F!Queues, s[q] \in Formatted(q)
  PROVE  LET o == F!Other(q)
             is == PairsOf(s, q, s[q].pix)
             l == F!Least(is)
         IN  /\ s[o] = F!NotSet =>
                  F!Chosen(s, q) = [ok |-> TRUE, session |-> s, reply |-> s[q]]
             /\ s[o] # F!NotSet /\ is = {} =>
                  F!Chosen(s, q) = [ok |-> FALSE, session |-> s, reply |-> s[q]]
             /\ s[o] # F!NotSet /\ is # {} =>
                  \E w \in Nat, h \in Nat :
                    /\ Size(w, h, {l})
                    /\ Size(s["src"].w, s["src"].h, {l}) => w = s["src"].w /\ h = s["src"].h
                    /\ F!Chosen(s, q) = F!BothSized(s, q, Fmt(s["src"].pix, w, h))
<1> DEFINE o == F!Other(q)
           is == PairsOf(s, q, s[q].pix)
           l == F!Least(is)
           found == F!FindCodec(s["src"].pix, s["dst"].pix)
<1>1. F!Chosen(s, q) = F!Stored(s, q, found)
  BY DEF F!Chosen
<1>2. found = is
  <2> DEFINE v == s[q]
             t == [s EXCEPT ![q] = v]
  <2>1. t = s
    BY DEF Sound
  <2> HIDE DEF v
  <2>2. F!FindCodec(t["src"].pix, t["dst"].pix) = PairsOf(s, q, v.pix)
    BY BothIs
  <2> HIDE DEF t
  <2>3. QED
    BY <2>1, <2>2 DEF v
<1>3. s[q].pix # F!NoPix /\ s[q].w # 0 /\ s[q].h # 0
  BY FormattedIs
<1>4. /\ o \in F!Queues
      /\ s[o] = F!NotSet => s[o].pix = F!NoPix
      /\ s[o] # F!NotSet => /\ s[o] \in Formatted(o) /\ s[o].pix # F!NoPix
                            /\ s[o].w # 0 /\ s[o].h # 0
  BY OtherIs
<1>5. \A p \in F!Queues : p \in {q, o}
  BY DEF F!Queues, F!Other
<1> HIDE DEF o, is, found
<1>6. ASSUME s[o] = F!NotSet
      PROVE  F!Stored(s, q, found) = [ok |-> TRUE, session |-> s, reply |-> s[q]]
  BY <1>4, <1>6 DEF F!Stored, F!Kept
<1>7. ASSUME s[o] # F!NotSet
      PROVE  ~ \E p \in F!Queues : s[p].pix = F!NoPix \/ s[p].w = 0 \/ s[p].h = 0
  BY <1>3, <1>4, <1>5, <1>7
<1>8. ASSUME s[o] # F!NotSet, is = {}
      PROVE  F!Stored(s, q, found) = [ok |-> FALSE, session |-> s, reply |-> s[q]]
  BY <1>2, <1>7, <1>8 DEF F!Stored, F!Kept
<1>9. ASSUME s[o] # F!NotSet, is # {}
      PROVE  \E w \in Nat, h \in Nat :
               /\ Size(w, h, {l})
               /\ Size(s["src"].w, s["src"].h, {l}) => w = s["src"].w /\ h = s["src"].h
               /\ F!Stored(s, q, found) = F!BothSized(s, q, Fmt(s["src"].pix, w, h))
  <2>1. F!Stored(s, q, found) = F!BothSized(s, q, F!Within(s["src"], {l}))
    BY <1>2, <1>7, <1>9 DEF F!Stored
  <2>2. s["src"] \in Formatted("src")
    <3>1. q = "src" \/ o = "src"
      BY <1>5 DEF F!Queues
    <3>2. QED
      BY <1>4, <1>9, <3>1
  <2>3. {l} \in SUBSET DOMAIN Codecs
    <3>1. is \in SUBSET DOMAIN Codecs
      BY DEF is, PairsOf
    <3>2. QED
      BY <1>9, <3>1, FirstCodec
  <2> HIDE DEF l
  <2> DEFINE p == s["src"].pix
             w0 == s["src"].w
             h0 == s["src"].h
             planes == F!BufferSizes(F!Format[p], w0, h0)
  <2>4. /\ s["src"] = [pix |-> p, w |-> w0, h |-> h0, planes |-> planes]
        /\ w0 \in Nat /\ h0 \in Nat
    <3>1. "src" \in F!Queues
      BY DEF F!Queues
    <3>2. s["src"] = Fmt(p, w0, h0) /\ w0 \in Nat /\ h0 \in Nat
      BY <2>2, <3>1, FormattedIs
    <3>3. QED
      BY <3>2 DEF Fmt
  <2> HIDE DEF p, w0, h0, planes
  <2>5. PICK w \in Nat, h \in Nat :
          /\ F!Within(s["src"], {l}) = Fmt(p, w, h)
          /\ F!MinW <= w /\ w <= WidthIn({l}) /\ F!MinH <= h /\ h <= HeightIn({l})
          /\ F!MinW <= w0 /\ w0 <= WidthIn({l}) => w = w0
          /\ F!MinH <= h0 /\ h0 <= HeightIn({l}) => h = h0
    BY <2>3, <2>4, WithinIs
  <2>6. QED
    BY <2>1, <2>5 DEF Size, p, w0, h0
<1>10. QED
  BY <1>1, <1>6, <1>8, <1>9 DEF o, is

\* A call of S_FMT: the queue gets p, w, h (see TriedIs) and, if that makes a pair,
\* both get its size.
SetAs(s, q, r, p, w, h) ==
  LET o == F!Other(q)
      l == F!Least(PairsOf(s, q, p))
      v == Fmt(p, w, h)
      t == [s EXCEPT ![q] = v]
  IN  /\ s[o] = F!NotSet => r = [ok |-> TRUE, session |-> t, reply |-> v]
      /\ s[o] # F!NotSet /\ PairsOf(s, q, p) = {} =>
           r = [ok |-> FALSE, session |-> t, reply |-> v]
      /\ s[o] # F!NotSet /\ PairsOf(s, q, p) # {} /\ q = "src" =>
           /\ Size(w, h, {l})
           /\ r = [ok |-> TRUE, session |-> [t EXCEPT !["dst"] = Fmt(s["dst"].pix, w, h)],
                   reply |-> v]
      /\ s[o] # F!NotSet /\ PairsOf(s, q, p) # {} /\ q = "dst" =>
           \E w2 \in Nat, h2 \in Nat :
             /\ Size(w2, h2, {l})
             /\ Size(s["src"].w, s["src"].h, {l}) => w2 = s["src"].w /\ h2 = s["src"].h
             /\ r = [ok |-> TRUE, session |-> [t EXCEPT !["src"] = Fmt(s["src"].pix, w2, h2)],
                     reply |-> Fmt(p, w2, h2)]

\* What S_FMT makes of the format TRY_FMT gave: see SetAs.
LEMMA ChosenIs ==
  ASSUME NEW s \in Sound, NEW q \in F!Queues,
         NEW p \in Pix(q), NEW w \in Nat, NEW h \in Nat, F!MinW <= w, F!MinH <= h,
         q = "src" /\ s[F!Other(q)] # F!NotSet /\ PairsOf(s, q, p) # {} =>
           Size(w, h, {F!Least(PairsOf(s, q, p))})
  PROVE  LET t == [s EXCEPT ![q] = Fmt(p, w, h)]
         IN  t \in Sound /\ SetAs(s, q, F!Chosen(t, q), p, w, h)
<1> DEFINE v == Fmt(p, w, h)
           t == [s EXCEPT ![q] = v]
           o == F!Other(q)
           is == PairsOf(s, q, p)
           l == F!Least(is)
<1>1. v \in Formatted(q) /\ v.pix = p /\ v.w = w /\ v.h = h
  BY DEF Formatted, Fmt
<1> HIDE DEF v
<1>2. t[q] = v /\ t[o] = s[o] /\ PairsOf(t, q, v.pix) = is
  <2>1. t[q] = v /\ t[o] = s[o] /\ PairsOf(t, q, v.pix) = PairsOf(s, q, v.pix)
    BY BothIs
  <2>2. QED
    BY <1>1, <2>1
<1>3. t \in Sound
  BY <1>1 DEF Sound, F!Queues
<1> HIDE DEF t
<1>4. /\ o \in F!Queues
      /\ (q = "src" /\ o = "dst") \/ (q = "dst" /\ o = "src")
      /\ s[o] # F!NotSet => s[o] \in Formatted(o)
  BY OtherIs DEF F!Other, F!Queues
<1> HIDE DEF o, is
<1>5. /\ t[o] = F!NotSet => F!Chosen(t, q) = [ok |-> TRUE, session |-> t, reply |-> t[q]]
      /\ t[o] # F!NotSet /\ is = {} =>
           F!Chosen(t, q) = [ok |-> FALSE, session |-> t, reply |-> t[q]]
      /\ t[o] # F!NotSet /\ is # {} =>
           \E w2 \in Nat, h2 \in Nat :
             /\ Size(w2, h2, {l})
             /\ Size(t["src"].w, t["src"].h, {l}) => w2 = t["src"].w /\ h2 = t["src"].h
             /\ F!Chosen(t, q) = F!BothSized(t, q, Fmt(t["src"].pix, w2, h2))
  <2>1. t[q] \in Formatted(q) /\ PairsOf(t, q, t[q].pix) = is
    BY <1>1, <1>2
  <2>2. QED
    BY <1>3, <2>1, StoredIs DEF o
<1> HIDE DEF l
<1>6. CASE s[o] # F!NotSet /\ is # {}
  <2>1. PICK w2 \in Nat, h2 \in Nat :
          /\ Size(w2, h2, {l})
          /\ Size(t["src"].w, t["src"].h, {l}) => w2 = t["src"].w /\ h2 = t["src"].h
          /\ F!Chosen(t, q) = F!BothSized(t, q, Fmt(t["src"].pix, w2, h2))
    BY <1>2, <1>5, <1>6
  <2> DEFINE c == Fmt(t["src"].pix, w2, h2)
  <2>2. c.w = w2 /\ c.h = h2
    BY DEF Fmt
  <2> HIDE DEF c
  <2>3. F!WithSize(t["dst"], c.w, c.h) = Fmt(t["dst"].pix, w2, h2)
    <3>1. t["dst"] = Fmt(t["dst"].pix, t["dst"].w, t["dst"].h)
      <4>1. t["dst"] \in Formatted("dst") /\ "dst" \in F!Queues
        BY <1>1, <1>2, <1>4, <1>6 DEF F!Queues
      <4>2. QED
        BY <4>1, FormattedIs
    <3> DEFINE x == t["dst"].pix
               y == t["dst"].w
               z == t["dst"].h
               b == F!BufferSizes(F!Format[x], y, z)
    <3>2. t["dst"] = [pix |-> x, w |-> y, h |-> z, planes |-> b]
      BY <3>1 DEF Fmt
    <3> HIDE DEF x, y, z, b
    <3>3. F!WithSize([pix |-> x, w |-> y, h |-> z, planes |-> b], c.w, c.h) = Fmt(x, c.w, c.h)
      BY WithSizeIs
    <3>4. QED
      BY <2>2, <3>2, <3>3 DEF x
  <2>4. CASE q = "src" /\ o = "dst"
    <3>1. Size(w, h, {l})
      BY <1>6, <2>4 DEF l, o, is
    <3>2. t["src"] = v /\ t["dst"] = s["dst"] /\ w2 = w /\ h2 = h
      BY <1>1, <1>2, <2>1, <2>4, <3>1
    <3>3. c = v
      BY <1>1, <3>2 DEF c, v
    <3>4. F!Chosen(t, q) = [ok |-> TRUE, reply |-> v,
                            session |-> [t EXCEPT !["dst"] = Fmt(s["dst"].pix, w, h)]]
      BY <2>1, <2>3, <2>4, <3>2, <3>3 DEF F!BothSized, c
    <3>5. QED
      BY <1>3, <1>6, <2>4, <3>1, <3>4 DEF SetAs, t, v, o, l, is
  <2>5. CASE q = "dst" /\ o = "src"
    <3>1. t["dst"] = v /\ t["src"] = s["src"]
      BY <1>2, <2>5
    <3>2. F!Chosen(t, q) = [ok |-> TRUE, reply |-> Fmt(p, w2, h2),
                            session |-> [t EXCEPT !["src"] = Fmt(s["src"].pix, w2, h2)]]
      BY <1>1, <2>1, <2>3, <2>5, <3>1 DEF F!BothSized, c
    <3>3. QED
      BY <1>3, <1>6, <2>1, <2>5, <3>1, <3>2 DEF SetAs, t, v, o, l, is
  <2>6. QED
    BY <1>4, <2>4, <2>5
<1>7. CASE s[o] = F!NotSet
  BY <1>2, <1>3, <1>5, <1>7 DEF SetAs, t, v, o
<1>8. CASE s[o] # F!NotSet /\ is = {}
  BY <1>2, <1>3, <1>5, <1>8 DEF SetAs, t, v, o, is
<1>9. QED
  BY <1>6, <1>7, <1>8

\* Only OUTPUT formats with a plane per buffer are taken for others, and none of the table.
LEMMA MultiPlaneIs ==
  ASSUME NEW q, NEW x
  PROVE  /\ x \in DOMAIN F!Format => F!MultiPlane(q, x) = x
         /\ q = "dst" => F!MultiPlane(q, x) = x
<1>1. x \in DOMAIN F!Format => x # "YUV420" /\ x # "NV12"
  BY DEF F!Format
<1>2. QED
  BY <1>1 DEF F!MultiPlane

\* A call of S_FMT from the format that is asked for.
LEMMA SetIs ==
  ASSUME NEW s \in Sound, NEW q \in F!Queues, NEW x, NEW w0 \in Nat, NEW h0 \in Nat,
         NEW planes
  PROVE  LET a == [pix |-> x, w |-> w0, h |-> h0, planes |-> planes]
         IN  \E p \in Pix(q), w \in Nat, h \in Nat :
               /\ F!TryFormat(s, q, a) = Fmt(p, w, h)
               /\ [s EXCEPT ![q] = Fmt(p, w, h)] \in Sound
               /\ SetAs(s, q, F!SetFormat(s, q, a), p, w, h)
               /\ Guess(s, q, F!MultiPlane(q, x), w0, h0, p, w, h)
<1> DEFINE a == [pix |-> x, w |-> w0, h |-> h0, planes |-> planes]
           m == F!MultiPlane(q, x)
           v == [a EXCEPT !.pix = m]
           t0 == [s EXCEPT ![q] = [pix |-> m, w |-> w0, h |-> h0, planes |-> planes]]
<1> HIDE DEF m
<1>1. v = [pix |-> m, w |-> w0, h |-> h0, planes |-> planes]
  OBVIOUS
<1>2. a.pix = x
  OBVIOUS
<1> HIDE DEF v, a
<1>3. F!TryFormat(s, q, a) = F!Tried(t0, q)
  BY <1>1, <1>2 DEF F!TryFormat, v, m
<1>4. PICK p \in Pix(q), w \in Nat, h \in Nat :
        F!Tried(t0, q) = Fmt(p, w, h) /\ Guess(s, q, m, w0, h0, p, w, h)
  <2>1. /\ t0 = [s EXCEPT ![q] = t0[q]] /\ t0[q].pix = m /\ t0[q].w = w0 /\ t0[q].h = h0
        /\ t0[q] = [pix |-> m, w |-> w0, h |-> h0, planes |-> t0[q].planes]
    BY DEF Sound
  <2> HIDE DEF t0
  <2>2. Asking(s, q, t0)
    BY <2>1 DEF Asking
  <2>3. QED
    BY <2>1, <2>2, TriedIs
<1> HIDE DEF t0
<1>5. F!SetFormat(s, q, a) = F!Chosen([s EXCEPT ![q] = Fmt(p, w, h)], q)
  BY <1>3, <1>4 DEF F!SetFormat
<1>6. /\ [s EXCEPT ![q] = Fmt(p, w, h)] \in Sound
      /\ SetAs(s, q, F!Chosen([s EXCEPT ![q] = Fmt(p, w, h)], q), p, w, h)
  BY <1>4, ChosenIs DEF Guess
<1>7. QED
  BY <1>3, <1>4, <1>5, <1>6 DEF m, a

\* ENUM_FRAMESIZES of a pair
LEMMA FrameSizesIs ==
  ASSUME NEW s \in Sound, NEW q \in F!Queues, NEW x, s[q].pix = x, PairsOf(s, q, x) # {},
         x # F!NoPix, s[F!Other(q)].pix # F!NoPix, NEW p \in F!Queues
  PROVE  LET l == F!Least(PairsOf(s, q, x))
         IN  /\ F!FrameSizes(s, s[p].pix) = <<F!WidthOf(l), F!HeightOf(l)>>
             /\ \A v, w, h : v.w = w /\ v.h = h /\ Size(w, h, {l}) =>
                  F!Sized(v, F!FrameSizes(s, s[p].pix))
<1> DEFINE is == PairsOf(s, q, x)
           l == F!Least(is)
           all == {i \in DOMAIN Codecs : /\ \E k \in F!Queues : Codecs[i].pix[k] = s[p].pix
                                         /\ \A k \in F!Queues : s[k].pix \in {F!NoPix, Codecs[i].pix[k]}}
<1>1. /\ F!Other(q) \in F!Queues /\ p \in {q, F!Other(q)}
      /\ \A k \in F!Queues : k \in {q, F!Other(q)}
  BY DEF F!Queues, F!Other
<1>2. all = is
  BY <1>1 DEF PairsOf
<1>3. \A k \in F!Queues : s[k].pix # F!NoPix
  BY <1>1
<1>4. is # {} /\ is \in SUBSET DOMAIN Codecs
  BY DEF PairsOf
<1> HIDE DEF is, all
<1>5. l \in is /\ l \in DOMAIN Codecs /\ {l} \in SUBSET DOMAIN Codecs
  BY <1>4, FirstCodec
<1>6. F!FrameSizes(s, s[p].pix) =
        <<F!Greatest({F!WidthOf(i) : i \in {l}}), F!Greatest({F!HeightOf(i) : i \in {l}})>>
  BY <1>2, <1>3, <1>4 DEF F!FrameSizes, all
<1> HIDE DEF l
<1>7. /\ WidthIn({l}) = F!WidthOf(l) /\ HeightIn({l}) = F!HeightOf(l)
      /\ F!WidthOf(l) \in Nat /\ F!HeightOf(l) \in Nat
  BY <1>5, GreatestSizes, CodecIs DEF WidthIn, HeightIn
<1>8. F!FrameSizes(s, s[p].pix) = <<F!WidthOf(l), F!HeightOf(l)>>
  BY <1>6, <1>7 DEF WidthIn, HeightIn
<1>9. F!MinW \in Nat /\ F!MinH \in Nat
  BY DEF F!MinW, F!MinH
<1>10. ASSUME NEW v, NEW w, NEW h, v.w = w, v.h = h, Size(w, h, {l})
       PROVE  F!Sized(v, F!FrameSizes(s, s[p].pix))
  BY <1>7, <1>8, <1>9, <1>10 DEF F!Sized, Size
<1>11. QED
  BY <1>8, <1>10 DEF l, is

\* A format within its size, asked for, is what S_FMT gives.
LEMMA Again ==
  ASSUME NEW s \in Sound, NEW q \in F!Queues, NEW p \in Pix(q), NEW w \in Nat, NEW h \in Nat,
         s[F!Other(q)] = F!NotSet => Size(w, h, Of(q, p)),
         s[F!Other(q)] # F!NotSet =>
           /\ PairsOf(s, q, p) # {} /\ Size(w, h, {F!Least(PairsOf(s, q, p))})
           /\ q = "dst" => s["src"].w = w /\ s["src"].h = h
  PROVE  F!SetFormat(s, q, Fmt(p, w, h)).reply = Fmt(p, w, h)
<1> DEFINE o == F!Other(q)
           a == Fmt(p, w, h)
           planes == F!BufferSizes(F!Format[p], w, h)
           r == F!SetFormat(s, q, a)
<1>1. a = [pix |-> p, w |-> w, h |-> h, planes |-> planes]
  BY DEF Fmt
<1>2. F!MultiPlane(q, p) = p
  BY MultiPlaneIs, PixIs
<1> HIDE DEF planes
<1>3. PICK p2 \in Pix(q), w2 \in Nat, h2 \in Nat :
        /\ SetAs(s, q, F!SetFormat(s, q, [pix |-> p, w |-> w, h |-> h, planes |-> planes]),
                 p2, w2, h2)
        /\ Guess(s, q, F!MultiPlane(q, p), w, h, p2, w2, h2)
  BY SetIs
<1> HIDE DEF a
<1>4. SetAs(s, q, r, p2, w2, h2) /\ Guess(s, q, p, w, h, p2, w2, h2)
  BY <1>1, <1>2, <1>3
<1>5. p2 = p /\ w2 = w /\ h2 = h
  BY <1>4 DEF Guess
<1>6. SetAs(s, q, r, p, w, h)
  BY <1>4, <1>5
<1> HIDE DEF r
<1>7. CASE s[o] = F!NotSet
  <2>1. \E ok, u : r = [ok |-> ok, session |-> u, reply |-> a]
    BY <1>6, <1>7, Zenon DEF SetAs, a, o
  <2> HIDE DEF a
  <2>2. r.reply = a
    BY <2>1
  <2>3. QED
    BY <2>2 DEF r, a
<1>8. CASE s[o] # F!NotSet /\ q = "src"
  <2>1. \E ok, u : r = [ok |-> ok, session |-> u, reply |-> a]
    BY <1>6, <1>8, Zenon DEF SetAs, a, o
  <2> HIDE DEF a
  <2>2. r.reply = a
    BY <2>1
  <2>3. QED
    BY <2>2 DEF r, a
<1>9. CASE s[o] # F!NotSet /\ q = "dst"
  <2>1. PICK w3 \in Nat, h3 \in Nat :
          /\ Size(s["src"].w, s["src"].h, {F!Least(PairsOf(s, q, p))}) =>
               w3 = s["src"].w /\ h3 = s["src"].h
          /\ r.reply = Fmt(p, w3, h3)
    BY <1>6, <1>9 DEF SetAs
  <2>2. w3 = w /\ h3 = h
    BY <1>9, <2>1
  <2>3. QED
    BY <2>1, <2>2 DEF r, a
<1>10. QED
  BY <1>7, <1>8, <1>9 DEF r, a, F!Queues

\* What an application asks for is a format and a size.
LEMMA AskedIs ==
  ASSUME NEW a \in F!Asked
  PROVE  /\ a = [pix |-> a.pix, w |-> a.w, h |-> a.h, planes |-> << >>]
         /\ a.w \in Nat /\ a.h \in Nat
<1>1. PICK p \in AskedPix \cup DOMAIN F!Format, z \in AskedSizes :
        a = [pix |-> p, w |-> z[1], h |-> z[2], planes |-> << >>]
  BY DEF F!Asked
<1>2. z[1] \in Nat /\ z[2] \in Nat
  BY FormatsAssumption
<1>3. QED
  BY <1>1, <1>2

\* What ENUM_FMT offers has a codec, with what is set on the other queue.
LEMMA OffersAre ==
  ASSUME NEW s \in Sound, NEW q \in F!Queues, NEW x
  PROVE  /\ x \in F!FilterFormats(s, q) =>
              /\ x \in Pix(q) /\ F!MultiPlane(q, x) = x
              /\ s[F!Other(q)] # F!NotSet => PairsOf(s, q, x) # {}
<1> DEFINE o == F!Other(q)
<1>1. s[o] # F!NotSet => s[o].pix # F!NoPix
  BY OtherIs
<1> HIDE DEF o
<1>2. ASSUME x \in F!FilterFormats(s, q)
      PROVE  x \in Pix(q) /\ (s[o] # F!NotSet => PairsOf(s, q, x) # {})
  <2>1. PICK i \in DOMAIN Codecs :
          s[o].pix \in {F!NoPix, Codecs[i].pix[o]} /\ x = Codecs[i].pix[q]
    BY <1>2 DEF F!FilterFormats, o
  <2>2. s[o] # F!NotSet => i \in PairsOf(s, q, x)
    BY <1>1, <2>1 DEF PairsOf, o
  <2>3. QED
    BY <2>1, <2>2 DEF Pix
<1>3. x \in Pix(q) => F!MultiPlane(q, x) = x
  BY MultiPlaneIs, PixIs
<1>4. QED
  BY <1>2, <1>3 DEF o

\* A session whose formats are those of another is a pair, or not, as the other is.
LEMMA PairIs ==
  ASSUME NEW s \in Sound, NEW q \in F!Queues, NEW u, NEW p \in Pix(q), u[q].pix = p,
         u[F!Other(q)].pix = s[F!Other(q)].pix
  PROVE  /\ F!BothSet(u) <=> s[F!Other(q)] # F!NotSet
         /\ (\E i \in DOMAIN Codecs : \A k \in F!Queues : Codecs[i].pix[k] = u[k].pix)
              <=> PairsOf(s, q, p) # {}
         /\ PairsOf(u, q, p) = PairsOf(s, q, p)
<1> DEFINE o == F!Other(q)
<1>1. F!Queues = {q, o}
  BY DEF F!Queues, F!Other
<1>2. p # F!NoPix /\ (s[o] = F!NotSet => s[o].pix = F!NoPix)
                  /\ (s[o] # F!NotSet => s[o].pix # F!NoPix)
  BY PixIs, OtherIs
<1> HIDE DEF o
<1>3. u[q].pix = p /\ u[o].pix = s[o].pix
  BY DEF o
<1>4. F!BothSet(u) <=> s[o] # F!NotSet
  BY <1>1, <1>2, <1>3 DEF F!BothSet
<1>5. PairsOf(u, q, p) = PairsOf(s, q, p)
  BY <1>3 DEF PairsOf, o
<1>6. (\E i \in DOMAIN Codecs : \A k \in F!Queues : Codecs[i].pix[k] = u[k].pix)
        <=> PairsOf(s, q, p) # {}
  BY <1>1, <1>3 DEF PairsOf, o
<1>7. QED
  BY <1>4, <1>5, <1>6 DEF o

\* what a reply r to a call promises
Kept(s, q, a, r) ==
  /\ r.session \in Sound
  /\ F!Supported(r) /\ F!OffersHold(s, q, a, r)
  /\ F!Stable(q, r) /\ F!OneSize(q, r)

\* A call with the other queue not set, and one that makes no pair.
LEMMA NoPairKept ==
  ASSUME NEW s \in Sound, NEW q \in F!Queues, NEW a \in F!Asked, NEW r,
         NEW p \in Pix(q), NEW w \in Nat, NEW h \in Nat,
         [s EXCEPT ![q] = Fmt(p, w, h)] \in Sound,
         SetAs(s, q, r, p, w, h), Guess(s, q, F!MultiPlane(q, a.pix), a.w, a.h, p, w, h),
         s[F!Other(q)] = F!NotSet \/ PairsOf(s, q, p) = {}
  PROVE  Kept(s, q, a, r)
<1> DEFINE o == F!Other(q)
           v == Fmt(p, w, h)
           t == [s EXCEPT ![q] = v]
           x == a.pix
           m == F!MultiPlane(q, x)
<1>1. v.pix = p /\ v.w = w /\ v.h = h
  BY DEF Fmt
<1> HIDE DEF v
<1>2. t[q] = v /\ t[o] = s[o] /\ t \in Sound
  BY BothIs DEF v
<1> HIDE DEF t
<1>3. /\ F!BothSet(t) <=> s[o] # F!NotSet
      /\ (\E i \in DOMAIN Codecs : \A k \in F!Queues : Codecs[i].pix[k] = t[k].pix)
           <=> PairsOf(s, q, p) # {}
  BY <1>1, <1>2, PairIs
<1>4. /\ x \in F!FilterFormats(s, q) =>
            x \in Pix(q) /\ m = x /\ (s[o] # F!NotSet => PairsOf(s, q, x) # {})
      /\ p \in F!FilterFormats(s, q) => (s[o] # F!NotSet => PairsOf(s, q, p) # {})
  BY OffersAre
<1> HIDE DEF o, x, m
<1>5. CASE s[o] = F!NotSet
  <2>1. r.ok /\ r.session = t /\ r.reply = v
    <3>1. r = [ok |-> TRUE, session |-> t, reply |-> v]
      BY <1>5, Zenon DEF SetAs, t, v, o
    <3>2. QED
      BY <3>1
  <2>2. F!Supported(r)
    BY <1>3, <1>5, <2>1, Zenon DEF F!Supported
  <2>3. x \in F!FilterFormats(s, q) => p = x
    BY <1>4, <1>5 DEF Guess, o, m, x
  <2>4. F!OffersHold(s, q, a, r)
    BY <1>1, <2>1, <2>3, Zenon DEF F!OffersHold, x
  <2>5. F!SetFormat(t, q, v).reply = v
    <3>1. Size(w, h, Of(q, p))
      BY <1>5 DEF Guess, o
    <3>2. QED
      BY <1>2, <1>5, <3>1, Again DEF v, o
  <2>6. F!Stable(q, r)
    BY <1>3, <1>5, <2>1, <2>5, Zenon DEF F!Stable
  <2>7. F!OneSize(q, r)
    BY <1>3, <1>5, <2>1, Zenon DEF F!OneSize
  <2>8. QED
    BY <1>2, <2>1, <2>2, <2>4, <2>6, <2>7 DEF Kept
<1>6. CASE s[o] # F!NotSet /\ PairsOf(s, q, p) = {}
  <2>1. ~ r.ok /\ r.session = t /\ r.reply = v
    <3>1. r = [ok |-> FALSE, session |-> t, reply |-> v]
      BY <1>6, Zenon DEF SetAs, t, v, o
    <3>2. QED
      BY <3>1
  <2>4. F!Supported(r)
    BY <2>1, Zenon DEF F!Supported
  <2>5. F!OffersHold(s, q, a, r)
    <3>1. x \notin F!FilterFormats(s, q)
      BY <1>4, <1>6 DEF Guess, o, m, x
    <3>2. QED
      BY <3>1, Zenon DEF F!OffersHold, x
  <2>6. F!Stable(q, r) /\ F!OneSize(q, r)
    BY <2>1, Zenon DEF F!Stable, F!OneSize
  <2>7. QED
    BY <1>2, <2>1, <2>4, <2>5, <2>6 DEF Kept
<1>7. QED
  BY <1>5, <1>6 DEF o

\* A call that makes a pair: OUTPUT set last gets the size of the pair, and CAPTURE
\* with it; CAPTURE set last, OUTPUT and the reply do.
LEMMA PairKept ==
  ASSUME NEW s \in Sound, NEW q \in F!Queues, NEW a \in F!Asked, NEW r,
         NEW p \in Pix(q), NEW w \in Nat, NEW h \in Nat,
         F!TryFormat(s, q, a) = Fmt(p, w, h), [s EXCEPT ![q] = Fmt(p, w, h)] \in Sound,
         SetAs(s, q, r, p, w, h), Guess(s, q, F!MultiPlane(q, a.pix), a.w, a.h, p, w, h),
         s[F!Other(q)] # F!NotSet, PairsOf(s, q, p) # {}
  PROVE  Kept(s, q, a, r)
<1> DEFINE o == F!Other(q)
           v == Fmt(p, w, h)
           t == [s EXCEPT ![q] = v]
           l == F!Least(PairsOf(s, q, p))
<1>1. s[o] # F!NotSet /\ PairsOf(s, q, p) # {}
  OBVIOUS
<1>2. v.pix = p /\ v.w = w /\ v.h = h
  BY DEF Fmt
<1> HIDE DEF v
<1>3. t[q] = v /\ t[o] = s[o] /\ t \in Sound
  BY BothIs DEF v
<1> HIDE DEF t
<1>4. /\ (q = "src" /\ o = "dst") \/ (q = "dst" /\ o = "src")
      /\ o \in F!Queues /\ s[o] \in Formatted(o) /\ s[o].pix \in Pix(o)
  BY OtherIs, FormattedIs DEF F!Other, F!Queues
<1> HIDE DEF o, l
\* what a reply of the size w2, h2 means
<1>5. ASSUME NEW w2 \in Nat, NEW h2 \in Nat, Size(w2, h2, {l}), r.ok, r.reply = Fmt(p, w2, h2),
             r.session = [t EXCEPT ![o] = Fmt(s[o].pix, w2, h2)], r.session[q].pix = p,
             r.session["src"].w = w2, r.session["src"].h = h2
      PROVE  /\ r.session \in Sound
             /\ F!Supported(r) /\ F!OffersHold(s, q, a, r) /\ F!Stable(q, r)
  <2> DEFINE u == r.session
             y == r.reply
  <2>0. /\ Size(w2, h2, {l}) /\ r.ok /\ r.session = u /\ r.reply = y /\ y = Fmt(p, w2, h2)
        /\ u = [t EXCEPT ![o] = Fmt(s[o].pix, w2, h2)] /\ u[q].pix = p
        /\ u["src"].w = w2 /\ u["src"].h = h2
    BY <1>5
  <2> HIDE DEF u, y
  <2>1. u \in Sound /\ u[o] = Fmt(s[o].pix, w2, h2) /\ u[o] # F!NotSet /\ u[o].pix = s[o].pix
    <3> DEFINE z == Fmt(s[o].pix, w2, h2)
    <3>1. z \in Formatted(o) /\ z.pix = s[o].pix
      BY <1>4, <2>0 DEF Formatted, Size, Fmt
    <3> HIDE DEF z
    <3>2. z # F!NotSet
      BY <1>4, <3>1, FormattedIs
    <3>3. u = [t EXCEPT ![o] = z]
      BY <2>0 DEF z
    <3>4. u \in Sound /\ u[o] = z
      BY <1>3, <1>4, <3>1, <3>3 DEF Sound
    <3>5. QED
      BY <3>1, <3>2, <3>4 DEF z
  <2>2. /\ F!BothSet(u)
        /\ \E i \in DOMAIN Codecs : \A k \in F!Queues : Codecs[i].pix[k] = u[k].pix
        /\ PairsOf(u, q, p) = PairsOf(s, q, p)
    <3>1. u[q].pix = p /\ u[o].pix = s[o].pix
      BY <2>0, <2>1
    <3>2. /\ F!BothSet(u) <=> s[o] # F!NotSet
          /\ (\E i \in DOMAIN Codecs : \A k \in F!Queues : Codecs[i].pix[k] = u[k].pix)
               <=> PairsOf(s, q, p) # {}
          /\ PairsOf(u, q, p) = PairsOf(s, q, p)
      BY <3>1, PairIs DEF o
    <3>3. QED
      BY <1>1, <3>2
  <2>3. F!Supported(r)
    <3>1. PairsOf(s, q, p) \in SUBSET DOMAIN Codecs
      BY DEF PairsOf
    <3>2. l \in PairsOf(s, q, p) /\ l \in DOMAIN Codecs
      BY <1>1, <3>1, FirstCodec DEF l
    <3>3. WidthIn({l}) = F!WidthOf(l) /\ HeightIn({l}) = F!HeightOf(l)
      BY <1>1, <3>1, FirstCodec DEF l
    <3>4. Codecs[l].pix[q] = u[q].pix /\ Codecs[l].pix[o] = u[o].pix
      BY <2>0, <2>1, <3>2 DEF PairsOf, o
    <3>5. \A k \in F!Queues : Codecs[l].pix[k] = r.session[k].pix
      BY <1>4, <2>0, <3>4 DEF F!Queues
    <3>6. y.w = w2 /\ y.h = h2
      BY <2>0 DEF Fmt
    <3>7. F!WidthOf(l) \in Nat /\ F!HeightOf(l) \in Nat
      BY <3>2, CodecIs
    <3>8. \A v1 \in {r.reply, r.session["src"]} :
            F!Sized(v1, <<F!WidthOf(l), F!HeightOf(l)>>)
      <4>1. \A v1 : v1.w = w2 /\ v1.h = h2 => F!Sized(v1, <<F!WidthOf(l), F!HeightOf(l)>>)
        BY <2>0, <3>3, <3>7 DEF F!Sized, Size, F!MinW, F!MinH
      <4>2. QED
        BY <2>0, <3>6, <4>1
    <3>9. QED
      BY <3>2, <3>5, <3>8, Zenon DEF F!Supported
  <2>4. F!OffersHold(s, q, a, r)
    <3> DEFINE x == a.pix
    <3>1. x \in F!FilterFormats(s, q) => F!MultiPlane(q, x) = x /\ PairsOf(s, q, x) # {}
      BY <1>1, OffersAre DEF o
    <3> HIDE DEF x
    <3>2. PairsOf(s, q, F!MultiPlane(q, x)) # {} => p = F!MultiPlane(q, x)
      BY <1>1 DEF Guess, o, x
    <3>3. x \in F!FilterFormats(s, q) => p = x
      BY <3>1, <3>2
    <3>4. y.pix = p
      BY <2>0 DEF Fmt
    <3>5. QED
      BY <2>0, <3>3, <3>4, Zenon DEF F!OffersHold, x
  <2>5. F!SetFormat(u, q, y).reply = y
    <3>1. Size(w2, h2, {F!Least(PairsOf(u, q, p))})
      BY <2>0, <2>2 DEF l
    <3>2. q = "dst" => u["src"].w = w2 /\ u["src"].h = h2
      BY <1>4, <2>1 DEF Fmt
    <3>3. F!SetFormat(u, q, Fmt(p, w2, h2)).reply = Fmt(p, w2, h2)
      BY <1>1, <2>1, <2>2, <3>1, <3>2, Again DEF o
    <3>4. QED
      BY <2>0, <3>3
  <2>6. \A k \in F!Queues : F!Sized(y, F!FrameSizes(u, u[k].pix))
    <3>1. u[q].pix = p /\ p # F!NoPix /\ u[o].pix # F!NoPix
      BY <1>4, <2>0, <2>1, PixIs
    <3>2. PairsOf(u, q, p) # {} /\ Size(w2, h2, {F!Least(PairsOf(u, q, p))})
      BY <1>1, <2>0, <2>2 DEF l
    <3>3. y.w = w2 /\ y.h = h2
      BY <2>0 DEF Fmt
    <3>4. QED
      BY <2>1, <3>1, <3>2, <3>3, FrameSizesIs DEF o
  <2>7. F!Stable(q, r)
    BY <2>0, <2>5, <2>6, Zenon DEF F!Stable
  <2>8. QED
    BY <2>0, <2>1, <2>3, <2>4, <2>7
<1>6. CASE q = "src" /\ o = "dst"
  <2> DEFINE d == Fmt(s["dst"].pix, w, h)
             u == [t EXCEPT !["dst"] = d]
  <2>1. Size(w, h, {l}) /\ r = [ok |-> TRUE, session |-> u, reply |-> v]
    BY <1>1, <1>6, Zenon DEF SetAs, t, v, l, o
  <2>2. d.w = w /\ d.h = h
    BY DEF Fmt
  <2> HIDE DEF d
  <2>3. u["src"] = v /\ u["dst"] = d
    BY <1>3, <1>6 DEF Sound, F!Queues
  <2> HIDE DEF u
  <2>4. r.ok /\ r.session = u /\ r.reply = v
    BY <2>1
  <2>5. F!OneSize(q, r)
    <3>1. r.reply.w = r.session["src"].w /\ r.reply.h = r.session["src"].h
      BY <2>3, <2>4
    <3>2. /\ r.reply = r.session["src"]
          /\ r.session["dst"].w = r.reply.w /\ r.session["dst"].h = r.reply.h
      BY <1>2, <2>2, <2>3, <2>4
    <3>3. QED
      BY <1>6, <3>1, <3>2, Zenon DEF F!OneSize
  <2>6. /\ u[q].pix = p /\ v = Fmt(p, w, h) /\ u = [t EXCEPT ![o] = Fmt(s[o].pix, w, h)]
        /\ u["src"].w = w /\ u["src"].h = h
    BY <1>2, <1>6, <2>3 DEF u, d, v
  <2>7. QED
    BY <1>5, <2>1, <2>4, <2>5, <2>6 DEF Kept
<1>7. CASE q = "dst" /\ o = "src"
  <2>1. PICK w2 \in Nat, h2 \in Nat :
          /\ Size(w2, h2, {l})
          /\ r = [ok |-> TRUE, session |-> [t EXCEPT !["src"] = Fmt(s["src"].pix, w2, h2)],
                  reply |-> Fmt(p, w2, h2)]
    BY <1>1, <1>7, Zenon DEF SetAs, t, v, l, o
  <2> DEFINE c == Fmt(s["src"].pix, w2, h2)
             u == [t EXCEPT !["src"] = c]
             y == Fmt(p, w2, h2)
  <2>2. c.w = w2 /\ c.h = h2 /\ y.w = w2 /\ y.h = h2
    BY DEF Fmt
  <2> HIDE DEF c
  <2>3. u["src"] = c /\ u["dst"] = v
    BY <1>3, <1>7 DEF Sound, F!Queues
  <2> HIDE DEF u, y
  <2>4. r.ok /\ r.session = u /\ r.reply = y
    BY <2>1 DEF u, y, c
  <2>5. F!OneSize(q, r)
    <3>1. r.reply.w = r.session["src"].w /\ r.reply.h = r.session["src"].h
      BY <2>2, <2>3, <2>4
    <3>2. QED
      BY <1>7, <3>1, Zenon DEF F!OneSize
  <2>6. /\ u[q].pix = p /\ y = Fmt(p, w2, h2) /\ u = [t EXCEPT ![o] = Fmt(s[o].pix, w2, h2)]
        /\ u["src"].w = w2 /\ u["src"].h = h2
    BY <1>2, <1>7, <2>2, <2>3 DEF u, c, y
  <2>7. QED
    BY <1>5, <2>1, <2>4, <2>5, <2>6 DEF Kept
<1>8. QED
  BY <1>4, <1>6, <1>7

\* Whatever the session and the call, S_FMT keeps its promises and leaves a session as it
\* should be.
LEMMA CallKept ==
  ASSUME NEW s \in Sound, NEW q \in F!Queues, NEW a \in F!Asked
  PROVE  Kept(s, q, a, F!SetFormat(s, q, a))
<1> DEFINE x == a.pix
           w0 == a.w
           h0 == a.h
           b == [pix |-> x, w |-> w0, h |-> h0, planes |-> << >>]
           r == F!SetFormat(s, q, a)
<1>1. a = b /\ w0 \in Nat /\ h0 \in Nat
  BY AskedIs
<1> HIDE DEF x, w0, h0
<1>2. PICK p \in Pix(q), w \in Nat, h \in Nat :
        /\ F!TryFormat(s, q, b) = Fmt(p, w, h)
        /\ [s EXCEPT ![q] = Fmt(p, w, h)] \in Sound
        /\ SetAs(s, q, F!SetFormat(s, q, b), p, w, h)
        /\ Guess(s, q, F!MultiPlane(q, x), w0, h0, p, w, h)
  BY <1>1, SetIs
<1> HIDE DEF b
<1>3. /\ F!TryFormat(s, q, a) = Fmt(p, w, h)
      /\ SetAs(s, q, r, p, w, h)
      /\ Guess(s, q, F!MultiPlane(q, a.pix), a.w, a.h, p, w, h)
  BY <1>1, <1>2 DEF x, w0, h0
<1> HIDE DEF r
<1>4. CASE s[F!Other(q)] = F!NotSet \/ PairsOf(s, q, p) = {}
  BY <1>2, <1>3, <1>4, NoPairKept DEF r
<1>5. CASE s[F!Other(q)] # F!NotSet /\ PairsOf(s, q, p) # {}
  BY <1>2, <1>3, <1>5, PairKept DEF r
<1>6. QED
  BY <1>4, <1>5 DEF r

-----------------------------------------------------------------------------
(* Canvases.                                                               *)

\* The entries of meson-formats.c for raw video.
LEMMA RawIs ==
  ASSUME NEW p \in F!RawFormat
  PROVE  LET f == F!Format[p]
         IN  /\ f.bits = 8 /\ f.alignW = 32 /\ f.alignH = 16 /\ f.bppy = 4
             /\ (f.planes = 2 /\ f.bppx = 8) \/ (p = "yuv420" /\ f.planes = 3 /\ f.bppx = 4)
<1>1. F!Raw(2, 4) =
        [bits |-> 8, planes |-> 2, bppx |-> 8, bppy |-> 4, alignW |-> 32, alignH |-> 16]
  BY DEF F!Raw
<1>2. F!Raw(3, 4) =
        [bits |-> 8, planes |-> 3, bppx |-> 4, bppy |-> 4, alignW |-> 32, alignH |-> 16]
  BY DEF F!Raw
<1>3. F!Format.nv12 = F!Raw(2, 4) /\ F!Format.nv21 = F!Raw(2, 4) /\ F!Format.yuv420 = F!Raw(3, 4)
  BY DEF F!Format
<1>4. F!Format[p] = F!Raw(2, 4) \/ (p = "yuv420" /\ F!Format[p] = F!Raw(3, 4))
  BY <1>3 DEF F!RawFormat
<1>5. QED
  BY <1>1, <1>2, <1>4

\* ALIGN rounds up.
LEMMA AlignIs ==
  ASSUME NEW x \in Nat
  PROVE  /\ \E k \in Nat : F!Align(x, 32) = 32 * k /\ 32 * k >= x
         /\ F!Align(x, 16) \in Nat /\ F!Align(x, 16) >= x
<1> DEFINE k == (x + 31) \div 32
           l == (x + 15) \div 16
<1>1. k \in Nat /\ 32 * k >= x /\ l \in Nat /\ 16 * l >= x
  OBVIOUS
<1>2. F!Align(x, 32) = k * 32 /\ F!Align(x, 16) = l * 16
  BY DEF F!Align
<1> HIDE DEF k, l
<1>3. QED
  BY <1>1, <1>2

\* The canvases of a raw format of any size lie within its planes.
LEMMA CanvasesAre ==
  ASSUME NEW p \in F!RawFormat, NEW w \in Nat, NEW h \in Nat
  PROVE  F!CanvasesFit(Fmt(p, w, h))
<1> DEFINE f == F!Format[p]
           v == Fmt(p, w, h)
<1>1. /\ f.bits = 8 /\ f.alignW = 32 /\ f.alignH = 16 /\ f.bppy = 4
      /\ (f.planes = 2 /\ f.bppx = 8) \/ (p = "yuv420" /\ f.planes = 3 /\ f.bppx = 4)
  BY RawIs
<1>2. v.pix = p /\ v.w = w /\ v.h = h /\ v.planes = F!BufferSizes(f, w, h)
  BY DEF Fmt
<1> HIDE DEF f, v
<1>3. ASSUME NEW j \in 1 .. f.planes
      PROVE  LET c == F!Canvas(v)[j]
             IN  /\ c[1] = v.planes[j].stride /\ c[1] * c[2] <= v.planes[j].size
                 /\ c[2] * (IF j = 1 THEN 1 ELSE 2) = h - (IF j = 1 THEN 0 ELSE h % 2)
                 /\ c[1] * (IF j > 1 /\ p = "yuv420" THEN 2 ELSE 1) >= w
                 /\ F!Misaligned(v, j) => p = "yuv420" /\ j > 1
  <2> DEFINE c == F!PlaneSize(f, w, h, j)
             size == F!Align(c[1] * c[2], 16)
  <2>1. F!Canvas(v)[j] = c
    BY <1>2 DEF F!Canvas, f
  <2>2. v.planes[j].stride = c[1] /\ v.planes[j].size = size
    <3>1. v.planes[j] = [stride |-> c[1], size |-> F!Align(c[1] * c[2], f.alignH)]
      BY <1>2 DEF F!BufferSizes
    <3> HIDE DEF c
    <3>2. QED
      BY <1>1, <3>1
  <2>3. F!Misaligned(v, j) <=> c[1] % 32 # 0 \/ (c[1] * c[2]) % 16 # 0
    <3> HIDE DEF c
    <3>1. QED
      BY <1>1, <1>2, <2>1 DEF F!Misaligned, f
  <2>4. PICK k \in Nat : F!Align(w, 32) = 32 * k /\ 32 * k >= w
    BY AlignIs
  <2>5. (w * f.bits) \div 8 = w /\ (h * f.bits) \div 8 = h
    BY <1>1
  <2>6. c = IF j = 1 THEN <<32 * k, h>> ELSE <<(32 * k * f.bppx) \div 8, (h * f.bppy) \div 8>>
    BY <1>1, <2>4, <2>5 DEF F!PlaneSize
  <2> DEFINE x == c[1]
             y == c[2]
  <2>7. j = 1 => x = 32 * k /\ y = h
    BY <2>6
  <2>8. j # 1 => /\ y = (h * 4) \div 8
                 /\ x = IF f.bppx = 8 THEN 32 * k ELSE 16 * k
    <3>1. j # 1 => y = (h * f.bppy) \div 8 /\ x = (32 * k * f.bppx) \div 8
      BY <2>6
    <3> HIDE DEF x, y
    <3>2. QED
      BY <1>1, <3>1
  <2> HIDE DEF c, x, y
  <2> DEFINE d == h \div 2
             odd == h % 2
  <2>9. h = 2 * d + odd /\ odd \in 0 .. 1 /\ d \in Nat
    OBVIOUS
  <2> HIDE DEF d, odd
  <2>10. x \in Nat /\ y \in Nat
    BY <1>1, <2>7, <2>8
  <2>11. /\ y * (IF j = 1 THEN 1 ELSE 2) = h - (IF j = 1 THEN 0 ELSE odd)
         /\ x * (IF j > 1 /\ p = "yuv420" THEN 2 ELSE 1) >= w
    <3>1. CASE j = 1
      BY <2>4, <2>7, <3>1
    <3>2. CASE j # 1
      <4>1. j > 1
        BY <1>1, <3>2
      <4>2. y * 2 = h - odd
        <5>1. y = (h * 4) \div 8
          BY <2>8, <3>2
        <5>2. (h * 4) \div 8 = d
          BY <2>9
        <5>3. QED
          BY <2>9, <5>1, <5>2
      <4>3. x = 32 * k \/ (p = "yuv420" /\ x = 16 * k)
        BY <1>1, <2>8, <3>2
      <4>4. CASE x = 32 * k
        <5>1. x >= w /\ x * 2 >= w
          BY <2>4, <4>4
        <5>2. x * (IF j > 1 /\ p = "yuv420" THEN 2 ELSE 1) >= w
          BY <2>10, <5>1
        <5>3. QED
          BY <3>2, <4>2, <5>2
      <4>5. CASE p = "yuv420" /\ x = 16 * k
        <5>1. x * 2 >= w
          BY <2>4, <4>5
        <5>2. x * (IF j > 1 /\ p = "yuv420" THEN 2 ELSE 1) >= w
          BY <4>1, <4>5, <5>1
        <5>3. QED
          BY <3>2, <4>2, <5>2
      <4>6. QED
        BY <4>3, <4>4, <4>5
    <3>3. QED
      BY <3>1, <3>2
  <2>12. x * y <= F!Align(x * y, 16)
    <3> DEFINE m == x * y
    <3>1. m \in Nat
      BY <2>10
    <3> HIDE DEF m
    <3>2. m <= F!Align(m, 16)
      BY <3>1, AlignIs
    <3>3. QED
      BY <3>2 DEF m
  <2>13. (x % 32 # 0 \/ (x * y) % 16 # 0) => p = "yuv420" /\ j > 1
    <3>1. SUFFICES ASSUME x = 32 * k
                   PROVE  x % 32 = 0 /\ (x * y) % 16 = 0
      BY <1>1, <2>7, <2>8
    <3>2. x % 32 = 0
      BY <3>1
    <3> DEFINE m == 2 * (k * y)
    <3>3. m \in Nat
      BY <2>10
    <3>4. x * y = 16 * m
      BY <2>10, <3>1
    <3> HIDE DEF m
    <3>5. (x * y) % 16 = 0
      BY <3>3, <3>4
    <3>6. QED
      BY <3>2, <3>5
  <2>14. x = c[1] /\ y = c[2]
    BY DEF x, y
  <2> HIDE DEF size
  <2>15. x * y <= size
    BY <2>12, <2>14 DEF size
  <2>16. F!Misaligned(v, j) => p = "yuv420" /\ j > 1
    BY <2>3, <2>13, <2>14
  <2>17. /\ y * (IF j = 1 THEN 1 ELSE 2) = h - (IF j = 1 THEN 0 ELSE h % 2)
         /\ x * (IF j > 1 /\ p = "yuv420" THEN 2 ELSE 1) >= w
    BY <2>11, Zenon DEF odd
  <2>18. QED
    BY <2>1, <2>2, <2>14, <2>15, <2>16, <2>17
<1>4. F!Format[v.pix].planes = f.planes /\ v.pix = p /\ v.w = w /\ v.h = h
  BY <1>2 DEF f
<1>5. ASSUME NEW j \in 1 .. F!Format[v.pix].planes
      PROVE  LET c == F!Canvas(v)[j]
             IN  /\ c[1] = v.planes[j].stride /\ c[1] * c[2] <= v.planes[j].size
                 /\ c[2] * (IF j = 1 THEN 1 ELSE 2) = v.h - (IF j = 1 THEN 0 ELSE v.h % 2)
                 /\ c[1] * (IF j > 1 /\ v.pix = "yuv420" THEN 2 ELSE 1) >= v.w
                 /\ F!Misaligned(v, j) => v.pix = "yuv420" /\ j > 1
  <2>1. j \in 1 .. f.planes
    BY <1>4, Zenon
  <2>2. QED
    BY <1>3, <1>4, <2>1
<1>6. QED
  BY <1>5, Zenon DEF F!CanvasesFit, v

-----------------------------------------------------------------------------
(* Sessions after any number of calls.                                     *)

\* Calls of S_FMT leave sessions as they should be, however many there are.
LEMMA ReachedIs ==
  ASSUME NEW n \in Nat
  PROVE  F!Reached(n) \subseteq Sound
<1> DEFINE Grows(f, m) == f = [k \in 0 .. m |-> IF k = 0 THEN {F!Fresh}
                                                ELSE f[k - 1] \cup F!After(f[k - 1])]
           reach == CHOOSE f : Grows(f, n)
<1>1. F!Reached(n) = reach[n]
  BY DEF F!Reached
<1>2. ASSUME NEW m \in Nat
      PROVE  \E f : Grows(f, m)
  <2> DEFINE Bad == {k \in Nat : ~ \E f : Grows(f, k)}
  <2>1. SUFFICES ASSUME Bad # {}
                 PROVE  FALSE
    OBVIOUS
  <2>2. PICK k \in Bad : \A l \in Bad : k <= l
    BY <2>1, LeastNat
  <2>3. CASE k = 0
    <3>1. Grows([i \in 0 .. 0 |-> {F!Fresh}], 0)
      OBVIOUS
    <3>2. QED
      BY <2>2, <2>3, <3>1
  <2>4. CASE k # 0
    <3>1. k - 1 \in Nat /\ k - 1 \notin Bad
      <4>1. k \in Nat
        OBVIOUS
      <4> HIDE DEF Bad
      <4>2. QED
        BY <2>2, <2>4, <4>1
    <3>2. PICK f : Grows(f, k - 1)
      BY <3>1
    <3> DEFINE g == [i \in 0 .. k |-> IF i = k THEN f[k - 1] \cup F!After(f[k - 1]) ELSE f[i]]
    <3>3. ASSUME NEW i \in 0 .. k
          PROVE  g[i] = IF i = 0 THEN {F!Fresh} ELSE g[i - 1] \cup F!After(g[i - 1])
      <4>1. CASE i = k
        BY <2>4, <3>1, <4>1
      <4>2. CASE i # k
        <5>1. i \in 0 .. (k - 1) /\ g[i] = f[i] /\ (i # 0 => g[i - 1] = f[i - 1])
          BY <3>1, <4>2
        <5>2. f[i] = IF i = 0 THEN {F!Fresh} ELSE f[i - 1] \cup F!After(f[i - 1])
          BY <3>2, <5>1
        <5>3. QED
          BY <5>1, <5>2
      <4>3. QED
        BY <4>1, <4>2
    <3>4. Grows(g, k)
      BY <3>3
    <3>5. QED
      BY <2>2, <3>4
  <2>5. QED
    BY <2>3, <2>4
<1>3. Grows(reach, n)
  BY <1>2
<1> HIDE DEF reach
<1>4. \A k \in 0 .. n : reach[k] = IF k = 0 THEN {F!Fresh}
                                   ELSE reach[k - 1] \cup F!After(reach[k - 1])
  BY <1>3
<1>5. F!Fresh \in Sound
  BY DEF F!Fresh, Sound
<1>6. ASSUME NEW ss, ss \subseteq Sound
      PROVE  F!After(ss) \subseteq Sound
  <2>1. \A s \in Sound, q \in F!Queues, a \in F!Asked : F!SetFormat(s, q, a).session \in Sound
    BY CallKept DEF Kept
  <2>2. QED
    BY <1>6, <2>1 DEF F!After
<1> DEFINE Bad == {k \in Nat : k <= n /\ ~ reach[k] \subseteq Sound}
<1>7. Bad = {}
  <2>1. SUFFICES ASSUME Bad # {}
                 PROVE  FALSE
    OBVIOUS
  <2>2. PICK k \in Bad : \A l \in Bad : k <= l
    BY <2>1, LeastNat
  <2>3. k \in Nat /\ k \in 0 .. n /\ ~ reach[k] \subseteq Sound
    OBVIOUS
  <2>4. k # 0
    BY <1>4, <1>5, <2>3
  <2>5. k - 1 \in Nat /\ k - 1 \notin Bad
    <3> HIDE DEF Bad
    <3>1. QED
      BY <2>2, <2>3, <2>4
  <2>6. reach[k - 1] \subseteq Sound
    BY <2>3, <2>5
  <2>7. F!After(reach[k - 1]) \subseteq Sound
    BY <1>6, <2>6
  <2>8. reach[k] = reach[k - 1] \cup F!After(reach[k - 1])
    BY <1>4, <2>3, <2>4
  <2>9. QED
    BY <2>3, <2>6, <2>7, <2>8
<1>8. QED
  BY <1>1, <1>7

\* S_FMT, in whatever order and however often the two queues are set, and for any
\* table of codecs, accepts only pairs of formats and sizes that some codec supports,
\* takes what ENUM_FMT offers, answers its own reply with the same reply, gives both
\* queues the size it reports when OUTPUT is set last, and leaves room for the canvases
\* of a buffer (meson_vcodec_s_fmt_vid, common_try_fmt_vid).
THEOREM FormatsStayAgreed == Spec => []FormatsAgree
<1>1. MaxCalls \in Nat /\ MaxCalls - 1 \in Nat
  BY FormatsAssumption
<1>2. ASSUME NEW s \in F!Reached(MaxCalls), NEW q \in F!Queues, s[q].pix \in F!RawFormat
      PROVE  F!CanvasesFit(s[q])
  <2>1. s[q] \in Formatted(q) \cup {F!NotSet}
    BY <1>1, ReachedIs DEF Sound
  <2>2. F!NotSet.pix \notin F!RawFormat
    BY Zenon DEF F!NotSet, F!NoPix, F!RawFormat
  <2>3. s[q] \in Formatted(q)
    BY <1>2, <2>1, <2>2
  <2>4. s[q] = Fmt(s[q].pix, s[q].w, s[q].h) /\ s[q].w \in Nat /\ s[q].h \in Nat
    BY <2>3, FormattedIs
  <2>5. F!CanvasesFit(Fmt(s[q].pix, s[q].w, s[q].h))
    BY <1>2, <2>4, CanvasesAre
  <2>6. QED
    BY <2>4, <2>5
<1>3. ASSUME NEW s \in F!Reached(MaxCalls - 1), NEW q \in F!Queues, NEW a \in F!Asked,
             NEW r \in {F!SetFormat(s, q, a)}
      PROVE  F!Supported(r) /\ F!OffersHold(s, q, a, r) /\ F!Stable(q, r)
               /\ F!OneSize(q, r)
  <2>1. s \in Sound /\ r = F!SetFormat(s, q, a)
    BY <1>1, ReachedIs
  <2>2. QED
    BY <2>1, CallKept DEF Kept
<1>4. FormatsAgree
  BY <1>2, <1>3 DEF FormatsAgree, F!FormatsAgree
<1>5. QED
  BY <1>4, PTL

=============================================================================
