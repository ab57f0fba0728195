------------------------------ MODULE M2mLemmas ------------------------------
(***************************************************************************)
(* Facts about numbers and about the ready queues of the m2m context,      *)
(* cited by the proofs about the codec modules.                            *)
(***************************************************************************)
EXTENDS M2m, SequenceTheorems, WellFoundedInduction, TLAPS

\* A nonempty set of numbers has a least element: a first free slot, a
\* first picture to output.
LEMMA LeastExists ==
  ASSUME NEW S, S \subseteq Nat, S # {}
  PROVE  \E x \in S : \A y \in S : x <= y
<1>1. \E x \in S : \A y \in S : ~(<<y, x>> \in OpToRel(<, Nat))
  BY WFMin, NatLessThanWellFounded, Zenon
<1>2. PICK x \in S : \A y \in S : ~(<<y, x>> \in OpToRel(<, Nat))
  BY <1>1
<1>3. \A y \in S : ~(y < x)
  BY <1>2 DEF OpToRel
<1>4. QED
  BY <1>3

\* v4l2_m2m_buf_queue adds exactly one buffer to a ready queue.
LEMMA AppendFacts ==
  ASSUME NEW S, NEW s \in Seq(S), NEW b \in S
  PROVE  /\ Append(s, b) \in Seq(S)
         /\ Range(Append(s, b)) = Range(s) \cup {b}
         /\ IsInjective(s) /\ b \notin Range(s) => IsInjective(Append(s, b))
<1> DEFINE t == Append(s, b)
<1>1. /\ t \in Seq(S)
      /\ Len(t) = Len(s) + 1
      /\ \A i \in 1 .. Len(s) : t[i] = s[i]
      /\ t[Len(s) + 1] = b
  BY AppendProperties
<1>2. Len(s) \in Nat /\ DOMAIN s = 1 .. Len(s) /\ DOMAIN t = 1 .. Len(t)
  BY <1>1, LenProperties
<1>3. Range(t) = Range(s) \cup {b}
  BY <1>1, <1>2 DEF Range
<1>4. ASSUME IsInjective(s), b \notin Range(s)
      PROVE  IsInjective(t)
  BY <1>1, <1>2, <1>4 DEF Range, IsInjective
<1>5. QED
  BY <1>1, <1>3, <1>4

\* v4l2_m2m_src_buf_remove and _dst_buf_remove take exactly one buffer away.
LEMMA TailFacts ==
  ASSUME NEW S, NEW s \in Seq(S), s # << >>, IsInjective(s)
  PROVE  /\ Tail(s) \in Seq(S) /\ Head(s) \in S
         /\ Head(s) \in Range(s)
         /\ Range(Tail(s)) = Range(s) \ {Head(s)}
         /\ IsInjective(Tail(s))
<1> DEFINE t == Tail(s)
<1>1. /\ Head(s) \in S /\ t \in Seq(S)
      /\ Len(t) = Len(s) - 1
      /\ \A i \in 1 .. Len(t) : t[i] = s[i + 1]
  BY HeadTailProperties
<1>2. Len(s) \in Nat /\ DOMAIN s = 1 .. Len(s) /\ DOMAIN t = 1 .. Len(t)
  BY <1>1, LenProperties
<1>3. Len(s) >= 1 /\ Head(s) = s[1]
  BY <1>2, EmptySeq
<1>4. Range(t) = Range(s) \ {Head(s)}
  <2>1. \A i \in 1 .. Len(t) : t[i] \in Range(s) /\ t[i] # s[1]
    BY <1>1, <1>2, <1>3 DEF Range, IsInjective
  <2>2. ASSUME NEW i \in 1 .. Len(s), s[i] # s[1]
        PROVE  s[i] \in Range(t)
    <3>1. i - 1 \in 1 .. Len(t) /\ s[i] = t[i - 1]
      BY <1>1, <1>2, <1>3, <2>2
    <3>2. QED
      BY <3>1, <1>2 DEF Range
  <2>3. Range(t) = {t[i] : i \in 1 .. Len(t)} /\ Range(s) = {s[i] : i \in 1 .. Len(s)}
    BY <1>2, Zenon DEF Range
  <2>4. QED
    BY <2>1, <2>2, <2>3, <1>3
<1>5. IsInjective(t)
  BY <1>1, <1>2 DEF IsInjective
<1>6. Head(s) \in Range(s)
  BY <1>2, <1>3 DEF Range
<1>7. QED
  BY <1>1, <1>4, <1>5, <1>6

\* The parts of a sequence behind and before the element at i.
LEMMA CutFacts ==
  ASSUME NEW S, NEW s \in Seq(S), NEW i \in DOMAIN s
  PROVE  /\ SubSeq(s, i + 1, Len(s)) \in Seq(S) /\ Len(SubSeq(s, i + 1, Len(s))) = Len(s) - i
         /\ \A j \in 1 .. Len(s) - i : SubSeq(s, i + 1, Len(s))[j] = s[i + j]
         /\ SubSeq(s, 1, i - 1) \in Seq(S) /\ Len(SubSeq(s, 1, i - 1)) = i - 1
         /\ \A j \in 1 .. i - 1 : SubSeq(s, 1, i - 1)[j] = s[j]
<1> DEFINE n == Len(s)
           a == SubSeq(s, i + 1, n)
           b == SubSeq(s, 1, i - 1)
<1>1. n \in Nat /\ DOMAIN s = 1 .. n /\ \A j \in 1 .. n : s[j] \in S
  BY LenProperties, ElementOfSeq
<1> HIDE DEF n
<1>2. i \in 1 .. n
  BY <1>1
<1>3. /\ a \in Seq(S) /\ Len(a) = (IF i + 1 <= n THEN n - (i + 1) + 1 ELSE 0)
      /\ \A j \in 1 .. n - (i + 1) + 1 : a[j] = s[(i + 1) + j - 1]
  <2>1. i + 1 \in Int /\ n \in Int /\ \A j \in (i + 1) .. n : s[j] \in S
    BY <1>1, <1>2
  <2>2. QED
    BY <2>1, SubSeqProperties
<1>4. /\ b \in Seq(S) /\ Len(b) = (IF 1 <= i - 1 THEN (i - 1) - 1 + 1 ELSE 0)
      /\ \A j \in 1 .. (i - 1) - 1 + 1 : b[j] = s[1 + j - 1]
  <2>1. 1 \in Int /\ i - 1 \in Int /\ \A j \in 1 .. (i - 1) : s[j] \in S
    BY <1>1, <1>2
  <2>2. QED
    BY <2>1, SubSeqProperties
<1> HIDE DEF a, b
<1>5. Len(a) = n - i /\ \A j \in 1 .. n - i : a[j] = s[i + j]
  <2>1. n - (i + 1) + 1 = n - i /\ \A j \in 1 .. n - i : (i + 1) + j - 1 = i + j
    BY <1>1, <1>2
  <2>2. Len(a) = n - i
    BY <1>1, <1>2, <1>3
  <2>3. QED
    BY <1>3, <2>1, <2>2
<1>6. Len(b) = i - 1 /\ \A j \in 1 .. i - 1 : b[j] = s[j]
  <2>1. (i - 1) - 1 + 1 = i - 1 /\ \A j \in 1 .. i - 1 : 1 + j - 1 = j
    BY <1>1, <1>2
  <2>2. Len(b) = i - 1
    BY <1>1, <1>2, <1>4
  <2>3. QED
    BY <1>4, <2>1, <2>2
<1>7. QED
  BY <1>3, <1>4, <1>5, <1>6 DEF a, b, n

\* The codec takes the element at i out of a ready queue, and puts those before it
\* behind the others.
LEMMA RotateFacts ==
  ASSUME NEW S, NEW s \in Seq(S), IsInjective(s), NEW i \in DOMAIN s
  PROVE  LET t == SubSeq(s, i + 1, Len(s)) \o SubSeq(s, 1, i - 1)
         IN  /\ t \in Seq(S) /\ IsInjective(t) /\ Len(t) = Len(s) - 1
             /\ s[i] \in Range(s) /\ s[i] \in S /\ Range(t) = Range(s) \ {s[i]}
<1> DEFINE n == Len(s)
           a == SubSeq(s, i + 1, n)
           b == SubSeq(s, 1, i - 1)
           t == a \o b
<1>1. n \in Nat /\ DOMAIN s = 1 .. n /\ s[i] \in S
  BY LenProperties, ElementOfSeq
<1>2. /\ a \in Seq(S) /\ Len(a) = n - i /\ \A j \in 1 .. n - i : a[j] = s[i + j]
      /\ b \in Seq(S) /\ Len(b) = i - 1 /\ \A j \in 1 .. i - 1 : b[j] = s[j]
  BY CutFacts
<1> HIDE DEF n, a, b
<1>3. /\ t \in Seq(S) /\ Len(t) = Len(a) + Len(b)
      /\ \A j \in 1 .. Len(a) + Len(b) : t[j] = IF j <= Len(a) THEN a[j] ELSE b[j - Len(a)]
  BY <1>2, ConcatProperties
<1>4. DOMAIN t = 1 .. Len(t)
  BY <1>3, LenProperties
<1> HIDE DEF t
<1>5. /\ i \in 1 .. n /\ Len(t) = n - 1 /\ DOMAIN t = 1 .. n - 1
      /\ \A j \in 1 .. n - i : t[j] = s[i + j]
      /\ \A j \in (n - i + 1) .. n - 1 : t[j] = s[j - (n - i)]
  <2>1. i \in 1 .. n /\ Len(t) = n - 1
    BY <1>1, <1>2, <1>3
  <2>2. DOMAIN t = 1 .. n - 1
    BY <1>4, <2>1
  <2>3. \A j \in 1 .. n - 1 : t[j] = IF j <= n - i THEN a[j] ELSE b[j - (n - i)]
    BY <1>1, <1>2, <1>3, <2>1
  <2>4. \A j \in 1 .. n - i : t[j] = s[i + j]
    BY <1>1, <1>2, <2>1, <2>3
  <2>5. ASSUME NEW j \in (n - i + 1) .. n - 1
        PROVE  t[j] = s[j - (n - i)]
    <3>1. j \in 1 .. n - 1 /\ ~(j <= n - i) /\ j - (n - i) \in 1 .. i - 1
      BY <1>1, <2>1
    <3>2. QED
      BY <1>2, <2>3, <3>1
  <2>6. QED
    BY <2>1, <2>2, <2>4, <2>5
<1>6. \A j \in 1 .. n - 1 :
        \/ j \in 1 .. n - i /\ i + j \in 1 .. n /\ i + j > i
        \/ j \in (n - i + 1) .. n - 1 /\ j - (n - i) \in 1 .. n /\ j - (n - i) < i
  BY <1>1, <1>5
<1>7. IsInjective(t)
  <2>1. ASSUME NEW j \in 1 .. n - 1, NEW k \in 1 .. n - 1, t[j] = t[k]
        PROVE  j = k
    <3>1. \A x, y \in 1 .. n : s[x] = s[y] => x = y
      BY <1>1 DEF IsInjective
    <3>2. QED
      BY <1>1, <1>5, <1>6, <2>1, <3>1
  <2>2. QED
    BY <1>5, <2>1 DEF IsInjective
<1>8. Range(t) = Range(s) \ {s[i]}
  <2>1. \A j \in 1 .. n - 1 : t[j] \in Range(s) /\ t[j] # s[i]
    <3>1. \A x, y \in 1 .. n : s[x] = s[y] => x = y
      BY <1>1 DEF IsInjective
    <3>2. \A x \in 1 .. n : s[x] \in Range(s)
      BY <1>1 DEF Range
    <3>3. ASSUME NEW j \in 1 .. n - 1
          PROVE  \E k \in 1 .. n : t[j] = s[k] /\ k # i
      BY <1>1, <1>5, <1>6
    <3>4. QED
      BY <1>5, <3>1, <3>2, <3>3
  <2>2. ASSUME NEW j \in 1 .. n, s[j] # s[i]
        PROVE  \E k \in 1 .. n - 1 : s[j] = t[k]
    <3>1. CASE j < i
      <4> DEFINE k == j + (n - i)
      <4>1. k \in (n - i + 1) .. n - 1 /\ k \in 1 .. n - 1 /\ k - (n - i) = j
        BY <1>1, <1>5, <3>1
      <4> HIDE DEF k
      <4>2. QED
        BY <1>5, <4>1
    <3>2. CASE j > i
      <4> DEFINE k == j - i
      <4>1. k \in 1 .. n - i /\ k \in 1 .. n - 1 /\ i + k = j
        BY <1>1, <1>5, <3>2
      <4> HIDE DEF k
      <4>2. QED
        BY <1>5, <4>1
    <3>3. j # i
      BY <2>2
    <3>4. QED
      BY <1>1, <1>5, <3>1, <3>2, <3>3
  <2>3. Range(t) = {t[j] : j \in 1 .. n - 1} /\ Range(s) = {s[j] : j \in 1 .. n}
    BY <1>1, <1>5, Zenon DEF Range
  <2>4. QED
    BY <2>1, <2>2, <2>3
<1>9. s[i] \in Range(s)
  BY <1>1 DEF Range
<1>10. QED
  BY <1>1, <1>3, <1>5, <1>7, <1>8, <1>9 DEF t, a, b, n

LEMMA EmptyFacts ==
  ASSUME NEW S
  PROVE  << >> \in Seq(S) /\ Range(<< >>) = {} /\ IsInjective(<< >>)
BY DEF Range, IsInjective

LEMMA RangeInSet ==
  ASSUME NEW S, NEW s \in Seq(S)
  PROVE  Range(s) \subseteq S
BY ElementOfSeq, LenProperties DEF Range

LEMMA RangeSeq ==
  ASSUME NEW S, NEW s \in Seq(S)
  PROVE  s \in Seq(Range(s))
<1>1. s \in [1 .. Len(s) -> Range(s)] /\ Len(s) \in Nat
  BY LenProperties DEF Range
<1>2. QED
  BY <1>1, SeqDef

-----------------------------------------------------------------------------
\* the ready queues as a function f: typed, and no buffer is queued twice
QueuesTyped(f) == f \in [Queue -> Seq(Buf)] /\ \A q \in Queue : f[q] \in Seq(BufOf(q))
QueuesOK(f)    == QueuesTyped(f) /\ \A q \in Queue : IsInjective(f[q])

Queued(f)   == Range(f["src"]) \cup Range(f["dst"])
ActiveIn(f) == {b \in Buf : f[b] = "active"}

\* Every operation on a ready queue keeps the queues typed.
LEMMA TypedFacts ==
  ASSUME NEW f, QueuesTyped(f), NEW q \in Queue
  PROVE  /\ f[q] # << >> => /\ QueuesTyped([f EXCEPT ![q] = Tail(@)])
                            /\ Head(f[q]) \in BufOf(q)
         /\ \A b \in BufOf(q) : QueuesTyped([f EXCEPT ![q] = Append(@, b)])
         /\ QueuesTyped([f EXCEPT ![q] = << >>])
<1>1. f[q] \in Seq(BufOf(q)) /\ f[q] \in Seq(Buf) /\ BufOf(q) \subseteq Buf
  BY DEF QueuesTyped, BufOf, Buf
<1>2. ASSUME f[q] # << >>
      PROVE  QueuesTyped([f EXCEPT ![q] = Tail(@)]) /\ Head(f[q]) \in BufOf(q)
  <2>1. Tail(f[q]) \in Seq(BufOf(q)) /\ Tail(f[q]) \in Seq(Buf) /\ Head(f[q]) \in BufOf(q)
    BY <1>1, <1>2, HeadTailProperties
  <2>2. QED
    BY <2>1 DEF QueuesTyped
<1>3. ASSUME NEW b \in BufOf(q)
      PROVE  QueuesTyped([f EXCEPT ![q] = Append(@, b)])
  <2>1. Append(f[q], b) \in Seq(BufOf(q)) /\ Append(f[q], b) \in Seq(Buf)
    BY <1>1, AppendProperties
  <2>2. QED
    BY <2>1 DEF QueuesTyped
<1>4. QueuesTyped([f EXCEPT ![q] = << >>])
  BY EmptyFacts DEF QueuesTyped
<1>5. QED
  BY <1>2, <1>3, <1>4

\* Every buffer belongs to one queue.
LEMMA BufOfFacts ==
  ASSUME BufAssumption, NEW b \in Buf
  PROVE  /\ QueueOf(b) \in Queue /\ b \in BufOf(QueueOf(b)) /\ b # NoBuf
         /\ \A q \in Queue : b \in BufOf(q) => QueueOf(b) = q
BY DEF BufAssumption, Buf, BufOf, QueueOf, Queue

\* The buffers of a ready queue are buffers of that queue.
LEMMA QueuedFacts ==
  ASSUME BufAssumption, NEW f, QueuesOK(f)
  PROVE  /\ Queued(f) \subseteq Buf
         /\ \A q \in Queue : Range(f[q]) = {b \in Queued(f) : QueueOf(b) = q}
<1>1. Range(f["src"]) \subseteq SrcBuf /\ Range(f["dst"]) \subseteq DstBuf
  BY RangeInSet DEF QueuesOK, QueuesTyped, Queue, BufOf
<1>2. QED
  BY <1>1 DEF BufAssumption, Buf, QueueOf, Queue, Queued

\* Taking the head of one ready queue takes that one buffer.
LEMMA TakeFacts ==
  ASSUME BufAssumption, NEW f, QueuesOK(f), NEW q \in Queue, f[q] # << >>
  PROVE  /\ QueuesOK([f EXCEPT ![q] = Tail(@)])
         /\ Queued([f EXCEPT ![q] = Tail(@)]) = Queued(f) \ {Head(f[q])}
         /\ Head(f[q]) \in Queued(f) /\ Head(f[q]) \in BufOf(q)
<1> DEFINE g == [f EXCEPT ![q] = Tail(@)]
<1>1. f[q] \in Seq(BufOf(q)) /\ IsInjective(f[q])
  BY DEF QueuesOK, QueuesTyped
<1>2. /\ Tail(f[q]) \in Seq(BufOf(q)) /\ IsInjective(Tail(f[q]))
      /\ Range(Tail(f[q])) = Range(f[q]) \ {Head(f[q])}
      /\ Head(f[q]) \in Range(f[q]) /\ Head(f[q]) \in BufOf(q)
  BY <1>1, TailFacts
<1>3. Tail(f[q]) \in Seq(Buf)
  <2>1. f[q] \in Seq(Buf)
    BY DEF QueuesOK, QueuesTyped
  <2>2. QED
    BY <2>1, HeadTailProperties
<1>4. QueuesOK(g)
  BY <1>2, <1>3 DEF QueuesOK, QueuesTyped
<1>5. \A r \in Queue : Range(g[r]) = IF r = q THEN Range(f[q]) \ {Head(f[q])} ELSE Range(f[r])
  BY <1>2 DEF QueuesOK, QueuesTyped
<1>6. \A r \in Queue : r # q => Head(f[q]) \notin Range(f[r])
  <2>1. \A r \in Queue : Range(f[r]) = {b \in Queued(f) : QueueOf(b) = r}
    BY QueuedFacts
  <2>2. QueueOf(Head(f[q])) = q
    BY <1>2, <2>1
  <2>3. QED
    BY <2>1, <2>2
<1>7. Queued(g) = Queued(f) \ {Head(f[q])}
  BY <1>5, <1>6 DEF Queued, Queue
<1>8. QED
  BY <1>2, <1>4, <1>7 DEF Queued, Queue

\* Queueing a buffer adds that one buffer.
LEMMA PutFacts ==
  ASSUME BufAssumption, NEW f, QueuesOK(f), NEW b \in Buf, b \notin Queued(f)
  PROVE  /\ QueuesOK([f EXCEPT ![QueueOf(b)] = Append(@, b)])
         /\ Queued([f EXCEPT ![QueueOf(b)] = Append(@, b)]) = Queued(f) \cup {b}
<1> DEFINE q == QueueOf(b)
           g == [f EXCEPT ![q] = Append(@, b)]
<1>1. /\ q \in Queue /\ b \in BufOf(q)
      /\ f[q] \in Seq(BufOf(q)) /\ f[q] \in Seq(Buf) /\ IsInjective(f[q])
  BY BufOfFacts DEF QueuesOK, QueuesTyped
<1>2. b \notin Range(f[q])
  BY <1>1 DEF Queued, Queue
<1>3. /\ Append(f[q], b) \in Seq(BufOf(q)) /\ IsInjective(Append(f[q], b))
      /\ Range(Append(f[q], b)) = Range(f[q]) \cup {b}
  BY <1>1, <1>2, AppendFacts
<1>4. Append(f[q], b) \in Seq(Buf)
  BY <1>1, AppendFacts
<1>5. QueuesOK(g)
  BY <1>1, <1>3, <1>4 DEF QueuesOK, QueuesTyped
<1>6. \A r \in Queue : Range(g[r]) = IF r = q THEN Range(f[q]) \cup {b} ELSE Range(f[r])
  BY <1>1, <1>3 DEF QueuesOK, QueuesTyped
<1>7. Queued(g) = Queued(f) \cup {b}
  BY <1>1, <1>6 DEF Queued, Queue
<1>8. QED
  BY <1>5, <1>7

\* Emptying one ready queue takes exactly the buffers of that queue.
LEMMA EmptyQueueFacts ==
  ASSUME BufAssumption, NEW f, QueuesOK(f), NEW q \in Queue
  PROVE  /\ QueuesOK([f EXCEPT ![q] = << >>])
         /\ Queued([f EXCEPT ![q] = << >>]) = {b \in Queued(f) : QueueOf(b) # q}
<1> DEFINE g == [f EXCEPT ![q] = << >>]
<1>1. QueuesOK(g)
  BY EmptyFacts DEF QueuesOK, QueuesTyped
<1>2. \A r \in Queue : Range(g[r]) = IF r = q THEN {} ELSE Range(f[r])
  BY EmptyFacts DEF QueuesOK, QueuesTyped
<1>3. \A r \in Queue : Range(f[r]) = {b \in Queued(f) : QueueOf(b) = r}
  BY QueuedFacts
<1>4. Queued(f) \subseteq Buf /\ \A b \in Buf : QueueOf(b) \in Queue
  BY QueuedFacts, BufOfFacts
<1>5. Queued(g) = {b \in Queued(f) : QueueOf(b) # q}
  BY <1>2, <1>3, <1>4 DEF Queued, Queue
<1>6. QED
  BY <1>1, <1>5

\* v4l2_m2m_buf_done takes at most that buffer from the driver.
LEMMA BufDoneFacts ==
  ASSUME BufAssumption, NEW f \in [Buf -> VbState], NEW b \in Buf \cup {NoBuf},
         NEW state \in VbState, state # "active"
  PROVE  /\ BufDone(f, b, state) \in [Buf -> VbState]
         /\ ActiveIn(BufDone(f, b, state)) = ActiveIn(f) \ {b}
BY DEF BufAssumption, Buf, BufDone, ActiveIn, VbState
-----------------------------------------------------------------------------
(* Buffer conservation as the framework sees it: every active buffer is in  *)
(* one place - a ready queue, the OUTPUT buffers the codec works on, the     *)
(* CAPTURE buffers it holds, or nowhere any more ("dropped").               *)

Balanced(f, r, taken, held, lost) ==
  /\ f \in [Buf -> VbState] /\ QueuesOK(r)
  /\ ActiveIn(f) = Queued(r) \cup taken \cup held \cup lost
  /\ Queued(r) \cap (taken \cup held) = {}
  /\ lost \cap (Queued(r) \cup taken \cup held) = {}
  /\ taken \subseteq SrcBuf /\ held \subseteq DstBuf

\* QBUF queues a buffer of userspace, or drops it.
LEMMA QueueKeepsBalance ==
  ASSUME BufAssumption, NEW f, NEW r, NEW taken, NEW held, NEW lost,
         Balanced(f, r, taken, held, lost), NEW b \in Buf, f[b] # "active"
  PROVE  /\ Balanced([f EXCEPT ![b] = "active"], [r EXCEPT ![QueueOf(b)] = Append(@, b)],
                     taken, held, lost)
         /\ Balanced([f EXCEPT ![b] = "active"], r, taken, held, lost \cup {b})
<1> DEFINE g == [f EXCEPT ![b] = "active"]
           s == [r EXCEPT ![QueueOf(b)] = Append(@, b)]
<1>1. g \in [Buf -> VbState] /\ ActiveIn(g) = ActiveIn(f) \cup {b} /\ b \notin ActiveIn(f)
  BY DEF Balanced, ActiveIn, VbState
<1>2. b \notin Queued(r) \cup taken \cup held \cup lost
  BY <1>1 DEF Balanced
<1>3. QueuesOK(s) /\ Queued(s) = Queued(r) \cup {b}
  BY <1>2, PutFacts DEF Balanced
<1> HIDE DEF g, s
<1>4. Balanced(g, s, taken, held, lost)
  BY <1>1, <1>2, <1>3 DEF Balanced
<1>5. Balanced(g, r, taken, held, lost \cup {b})
  BY <1>1, <1>2 DEF Balanced
<1>6. QED
  BY <1>4, <1>5 DEF g, s

\* The codec takes the head of a ready queue.
LEMMA TakeKeepsBalance ==
  ASSUME BufAssumption, NEW f, NEW r, NEW taken, NEW held, NEW lost,
         Balanced(f, r, taken, held, lost), NEW q \in Queue, r[q] # << >>
  PROVE  LET b == Head(r[q])
             s == [r EXCEPT ![q] = Tail(@)]
         IN  /\ b \in BufOf(q) /\ b \notin taken \cup held
             /\ q = "src" => Balanced(f, s, taken \cup {b}, held, lost)
             /\ q = "dst" => Balanced(f, s, taken, held \cup {b}, lost)
             /\ \A state \in VbState \ {"active"} :
                  Balanced([f EXCEPT ![b] = state], s, taken, held, lost)
<1> DEFINE b == Head(r[q])
           s == [r EXCEPT ![q] = Tail(@)]
<1>1. /\ QueuesOK(s) /\ Queued(s) = Queued(r) \ {b}
      /\ b \in Queued(r) /\ b \in BufOf(q)
  BY TakeFacts DEF Balanced
<1>2. q = "src" => Balanced(f, s, taken \cup {b}, held, lost)
  BY <1>1 DEF Balanced, BufOf
<1>3. q = "dst" => Balanced(f, s, taken, held \cup {b}, lost)
  BY <1>1 DEF Balanced, BufOf
<1>4. ASSUME NEW state \in VbState, state # "active"
      PROVE  Balanced([f EXCEPT ![b] = state], s, taken, held, lost)
  <2> DEFINE g == [f EXCEPT ![b] = state]
  <2>1. g \in [Buf -> VbState] /\ ActiveIn(g) = ActiveIn(f) \ {b}
    BY <1>4 DEF Balanced, ActiveIn
  <2>2. QED
    BY <1>1, <2>1 DEF Balanced
<1>5. QED
  BY <1>1, <1>2, <1>3, <1>4 DEF Balanced

\* The codec takes a CAPTURE buffer out of the middle of the ready queue.
LEMMA PickKeepsBalance ==
  ASSUME BufAssumption, NEW f, NEW r, NEW taken, NEW held, NEW lost,
         Balanced(f, r, taken, held, lost), NEW i \in DOMAIN r["dst"]
  PROVE  LET t == SubSeq(r["dst"], i + 1, Len(r["dst"])) \o SubSeq(r["dst"], 1, i - 1)
         IN  /\ r["dst"][i] \in DstBuf /\ r["dst"][i] \notin held
             /\ Len(t) = Len(r["dst"]) - 1
             /\ Balanced(f, [r EXCEPT !["dst"] = t], taken, held \cup {r["dst"][i]}, lost)
<1> DEFINE b == r["dst"][i]
           t == SubSeq(r["dst"], i + 1, Len(r["dst"])) \o SubSeq(r["dst"], 1, i - 1)
           s == [r EXCEPT !["dst"] = t]
<1>1. /\ r["dst"] \in Seq(DstBuf) /\ r["dst"] \in Seq(Buf) /\ IsInjective(r["dst"])
      /\ r \in [Queue -> Seq(Buf)] /\ "dst" \in Queue
  BY DEF Balanced, QueuesOK, QueuesTyped, Queue, BufOf
<1>2. /\ t \in Seq(DstBuf) /\ t \in Seq(Buf) /\ IsInjective(t) /\ Len(t) = Len(r["dst"]) - 1
      /\ b \in Range(r["dst"]) /\ b \in DstBuf /\ Range(t) = Range(r["dst"]) \ {b}
  <2>1. /\ t \in Seq(DstBuf) /\ IsInjective(t) /\ Len(t) = Len(r["dst"]) - 1
        /\ b \in Range(r["dst"]) /\ b \in DstBuf /\ Range(t) = Range(r["dst"]) \ {b}
    BY <1>1, RotateFacts
  <2>2. t \in Seq(Buf)
    BY <1>1, RotateFacts
  <2>3. QED
    BY <2>1, <2>2
<1> HIDE DEF b, t
<1>3. s["dst"] = t /\ s["src"] = r["src"]
  BY <1>1
<1>4. QueuesOK(s)
  BY <1>1, <1>2 DEF Balanced, QueuesOK, QueuesTyped, Queue, BufOf
<1>5. b \notin Range(r["src"])
  BY <1>2, QueuedFacts DEF Balanced, Queue, QueueOf, BufAssumption, Queued
<1>6. Queued(s) = Queued(r) \ {b} /\ b \in Queued(r)
  BY <1>2, <1>3, <1>5 DEF Queued
<1> HIDE DEF s
<1>7. Balanced(f, s, taken, held \cup {b}, lost) /\ b \notin held
  BY <1>2, <1>4, <1>6 DEF Balanced
<1>8. QED
  BY <1>2, <1>7 DEF b, s, t

\* The codec puts a CAPTURE buffer it had back into the ready queue.
LEMMA ReturnKeepsBalance ==
  ASSUME BufAssumption, NEW f, NEW r, NEW taken, NEW held, NEW lost,
         Balanced(f, r, taken, held, lost), NEW b \in held
  PROVE  Balanced(f, [r EXCEPT !["dst"] = Append(@, b)], taken, held \ {b}, lost)
<1> DEFINE s == [r EXCEPT !["dst"] = Append(@, b)]
<1>1. b \in Buf /\ QueueOf(b) = "dst" /\ b \notin Queued(r) /\ b \notin taken
  BY DEF Balanced, Buf, QueueOf, BufAssumption
<1>2. QueuesOK(s) /\ Queued(s) = Queued(r) \cup {b}
  <2>1. QueuesOK(r)
    BY DEF Balanced
  <2>2. /\ QueuesOK([r EXCEPT ![QueueOf(b)] = Append(@, b)])
        /\ Queued([r EXCEPT ![QueueOf(b)] = Append(@, b)]) = Queued(r) \cup {b}
    BY <1>1, <2>1, PutFacts
  <2>3. QED
    BY <1>1, <2>2
<1> HIDE DEF s
<1>3. Balanced(f, s, taken, held \ {b}, lost)
  BY <1>1, <1>2 DEF Balanced
<1>4. QED
  BY <1>3 DEF s

\* The codec gives back a buffer it had.
LEMMA DoneKeepsBalance ==
  ASSUME BufAssumption, NEW f, NEW r, NEW taken, NEW held, NEW lost,
         Balanced(f, r, taken, held, lost), NEW b \in taken \cup held,
         NEW state \in VbState, state # "active"
  PROVE  Balanced([f EXCEPT ![b] = state], r, taken \ {b}, held \ {b}, lost)
<1> DEFINE g == [f EXCEPT ![b] = state]
<1>1. b \in Buf
  BY DEF Balanced, Buf
<1>2. g \in [Buf -> VbState] /\ ActiveIn(g) = ActiveIn(f) \ {b}
  BY <1>1 DEF Balanced, ActiveIn
<1>3. QED
  BY <1>2 DEF Balanced

\* The end of STREAMOFF takes by force what is active of one queue.
LEMMA ForceKeepsBalance ==
  ASSUME BufAssumption, NEW f, NEW r, NEW taken, NEW held, NEW lost,
         Balanced(f, r, taken, held, lost), NEW q \in Queue, NEW g, NEW s, NEW l,
         g = [b \in Buf |-> IF QueueOf(b) = q /\ f[b] = "active" THEN "error" ELSE f[b]],
         s = [r EXCEPT ![q] = << >>],
         l = {b \in lost : QueueOf(b) # q}
  PROVE  /\ q = "src" => Balanced(g, s, {}, held, l)
         /\ q = "dst" => Balanced(g, s, taken, {}, l)
<1>1. QueuesOK(s) /\ Queued(s) = {b \in Queued(r) : QueueOf(b) # q}
  BY EmptyQueueFacts DEF Balanced
<1>2. g \in [Buf -> VbState] /\ ActiveIn(g) = {b \in ActiveIn(f) : QueueOf(b) # q}
  BY DEF Balanced, ActiveIn, VbState
<1>3. /\ \A b \in taken : QueueOf(b) = "src"
      /\ \A b \in held : QueueOf(b) = "dst"
  BY DEF Balanced, QueueOf, BufAssumption
<1>4. QED
  BY <1>1, <1>2, <1>3 DEF Balanced
-----------------------------------------------------------------------------
(* Records: a sequence in the order of the packets its entries are of, as    *)
(* the timestamps of a session and the packets in the ring.                  *)

PktsOf(s) == {s[i].pkt : i \in DOMAIN s}

RecordsOK(s) ==
  /\ s \in Seq(Range(s)) /\ \A i \in DOMAIN s : s[i].pkt \in Nat
  /\ \A i, j \in DOMAIN s : i < j => s[i].pkt < s[j].pkt

\* amvdec_add_ts: a record joins the end.
LEMMA AppendRecord ==
  ASSUME NEW s, RecordsOK(s), NEW r, r.pkt \in Nat, \A p \in PktsOf(s) : p < r.pkt
  PROVE  /\ RecordsOK(Append(s, r)) /\ PktsOf(Append(s, r)) = PktsOf(s) \cup {r.pkt}
         /\ Len(Append(s, r)) = Len(s) + 1 /\ Len(s) \in Nat
<1> DEFINE n == Len(s)
           t == Append(s, r)
<1>1. n \in Nat /\ DOMAIN s = 1 .. n
  BY LenProperties DEF RecordsOK
<1>2. s \in Seq(Range(s) \cup {r})
  BY <1>1, SeqDef DEF RecordsOK
<1>3. /\ t \in Seq(Range(s) \cup {r}) /\ Len(t) = n + 1 /\ t[n + 1] = r
      /\ \A i \in 1 .. n : t[i] = s[i]
  BY <1>2, AppendProperties
<1>4. t \in Seq(Range(t)) /\ DOMAIN t = 1 .. n + 1
  BY <1>3, RangeSeq, LenProperties
<1> HIDE DEF n, t
<1>5. \A i \in 1 .. n : s[i].pkt \in Nat /\ s[i].pkt < r.pkt
  BY <1>1 DEF RecordsOK, PktsOf
<1>6. \A i \in DOMAIN t : t[i].pkt \in Nat
  BY <1>1, <1>3, <1>4, <1>5
<1>7. ASSUME NEW i \in DOMAIN t, NEW j \in DOMAIN t, i < j
      PROVE  t[i].pkt < t[j].pkt
  <2>1. i \in 1 .. n
    BY <1>1, <1>4, <1>7
  <2>2. CASE j = n + 1
    BY <1>3, <1>5, <2>1, <2>2
  <2>3. CASE j # n + 1
    <3>1. j \in 1 .. n
      BY <1>1, <1>4, <2>3
    <3>2. s[i].pkt < s[j].pkt
      BY <1>1, <1>7, <2>1, <3>1 DEF RecordsOK
    <3>3. QED
      BY <1>3, <2>1, <3>1, <3>2
  <2>4. QED
    BY <2>2, <2>3
<1>8. PktsOf(t) = PktsOf(s) \cup {r.pkt}
  <2>1. \A i \in 1 .. n + 1 : i \in 1 .. n \/ i = n + 1
    BY <1>1
  <2>2. \A i \in 1 .. n : i \in 1 .. n + 1
    BY <1>1
  <2>3. n + 1 \in 1 .. n + 1
    BY <1>1
  <2>4. QED
    BY <1>1, <1>3, <1>4, <2>1, <2>2, <2>3 DEF PktsOf
<1>9. QED
  BY <1>1, <1>3, <1>4, <1>6, <1>7, <1>8 DEF n, t, RecordsOK

\* the place an entry had before the k-th one was taken away
Shift(j, k) == IF j < k THEN j ELSE j + 1

\* What list_del leaves.
LEMMA WithoutFacts ==
  ASSUME NEW S, NEW s \in Seq(S), NEW k \in DOMAIN s
  PROVE  LET t == SubSeq(s, 1, k - 1) \o SubSeq(s, k + 1, Len(s))
         IN  /\ t \in Seq(S) /\ Len(t) = Len(s) - 1 /\ Len(s) \in Nat /\ k \in 1 .. Len(s)
             /\ \A j \in 1 .. Len(s) - 1 : t[j] = s[Shift(j, k)]
<1> DEFINE n == Len(s)
           a == SubSeq(s, 1, k - 1)
           c == SubSeq(s, k + 1, n)
           t == a \o c
<1>1. n \in Nat /\ DOMAIN s = 1 .. n
  BY LenProperties
<1>2. /\ c \in Seq(S) /\ Len(c) = n - k /\ \A j \in 1 .. n - k : c[j] = s[k + j]
      /\ a \in Seq(S) /\ Len(a) = k - 1 /\ \A j \in 1 .. k - 1 : a[j] = s[j]
  BY CutFacts
<1>3. k \in 1 .. n
  BY <1>1
<1> HIDE DEF a, c, n
<1>4. /\ t \in Seq(S) /\ Len(t) = Len(a) + Len(c)
      /\ \A j \in 1 .. Len(a) + Len(c) : t[j] = IF j <= Len(a) THEN a[j] ELSE c[j - Len(a)]
  BY <1>2, ConcatProperties
<1> HIDE DEF t
<1>5. Len(t) = n - 1
  BY <1>1, <1>2, <1>3, <1>4
<1>6. ASSUME NEW j \in 1 .. n - 1
      PROVE  t[j] = s[Shift(j, k)]
  <2>1. t[j] = IF j <= Len(a) THEN a[j] ELSE c[j - Len(a)]
    BY <1>1, <1>2, <1>3, <1>4
  <2>2. CASE j < k
    <3>1. j \in 1 .. k - 1 /\ j <= Len(a) /\ Shift(j, k) = j
      BY <1>1, <1>2, <1>3, <2>2 DEF Shift
    <3>2. QED
      BY <1>2, <2>1, <3>1
  <2>3. CASE j >= k
    <3>1. /\ j - Len(a) \in 1 .. n - k /\ ~(j <= Len(a)) /\ k + (j - Len(a)) = j + 1
          /\ Shift(j, k) = j + 1
      BY <1>1, <1>2, <1>3, <2>3 DEF Shift
    <3>2. QED
      BY <1>2, <2>1, <3>1
  <2>4. QED
    BY <1>3, <2>2, <2>3
<1>7. QED
  BY <1>1, <1>3, <1>4, <1>5, <1>6 DEF a, c, n, t

\* t has the packets of s without the k-th
Shortened(s, k, t) ==
  /\ k \in DOMAIN s /\ t \in Seq(Range(t)) /\ Len(t) = Len(s) - 1
  /\ \A j \in 1 .. Len(s) - 1 : t[j].pkt = s[Shift(j, k)].pkt

\* One record less: what else becomes of its neighbours does not matter.
LEMMA ShorterRecords ==
  ASSUME NEW s, RecordsOK(s), NEW k, NEW t, Shortened(s, k, t)
  PROVE  RecordsOK(t) /\ PktsOf(t) = PktsOf(s) \ {s[k].pkt}
<1> DEFINE n == Len(s)
<1>1. n \in Nat /\ DOMAIN s = 1 .. n /\ DOMAIN t = 1 .. n - 1 /\ k \in 1 .. n
  BY LenProperties DEF RecordsOK, Shortened
<1>2. \A i, j \in 1 .. n : s[i].pkt \in Nat /\ (i < j => s[i].pkt < s[j].pkt)
  BY <1>1 DEF RecordsOK
<1>3. t \in Seq(Range(t)) /\ \A j \in 1 .. n - 1 : t[j].pkt = s[Shift(j, k)].pkt
  BY DEF Shortened
<1> HIDE DEF n
<1>4. \A j \in 1 .. n - 1 : Shift(j, k) \in 1 .. n /\ Shift(j, k) # k
  BY <1>1 DEF Shift
<1>5. RecordsOK(t)
  <2>1. \A i \in DOMAIN t : t[i].pkt \in Nat
    BY <1>1, <1>2, <1>3, <1>4
  <2>2. ASSUME NEW i \in DOMAIN t, NEW j \in DOMAIN t, i < j
        PROVE  t[i].pkt < t[j].pkt
    <3>1. Shift(i, k) < Shift(j, k)
      BY <1>1, <2>2 DEF Shift
    <3>2. QED
      BY <1>1, <1>2, <1>3, <1>4, <3>1
  <2>3. QED
    BY <1>3, <2>1, <2>2 DEF RecordsOK
<1>6. \A q : q \in PktsOf(t) => q \in PktsOf(s) /\ q # s[k].pkt
  <2>1. \A i \in 1 .. n : i # k => s[i].pkt # s[k].pkt
    <3>1. ASSUME NEW i \in 1 .. n, i # k
          PROVE  s[i].pkt # s[k].pkt
      <4>1. i < k \/ k < i
        BY <1>1, <3>1
      <4>2. QED
        BY <1>1, <1>2, <4>1
    <3>2. QED
      BY <3>1
  <2>2. QED
    BY <1>1, <1>3, <1>4, <2>1 DEF PktsOf
<1>7. \A q : q \in PktsOf(s) /\ q # s[k].pkt => q \in PktsOf(t)
  <2>1. ASSUME NEW i \in 1 .. n, i # k
        PROVE  \E j \in 1 .. n - 1 : t[j].pkt = s[i].pkt
    <3>1. CASE i < k
      <4>1. i \in 1 .. n - 1 /\ Shift(i, k) = i
        BY <1>1, <3>1 DEF Shift
      <4>2. QED
        BY <1>3, <4>1
    <3>2. CASE i > k
      <4>1. i - 1 \in 1 .. n - 1 /\ Shift(i - 1, k) = i
        BY <1>1, <3>2 DEF Shift
      <4>2. QED
        BY <1>3, <4>1
    <3>3. QED
      BY <1>1, <2>1, <3>1, <3>2
  <2>2. \A q : q \in PktsOf(s) /\ q # s[k].pkt => \E i \in 1 .. n : i # k /\ s[i].pkt = q
    BY <1>1 DEF PktsOf
  <2>3. \A q : q \in PktsOf(s) /\ q # s[k].pkt => \E j \in DOMAIN t : t[j].pkt = q
    BY <1>1, <2>1, <2>2
  <2>4. QED
    BY <2>3 DEF PktsOf
<1>8. QED
  BY <1>5, <1>6, <1>7

\* The record of the least packet is the first.
LEMMA FirstRecord ==
  ASSUME NEW s, RecordsOK(s), NEW p \in PktsOf(s), \A q \in PktsOf(s) : p <= q
  PROVE  s # << >> /\ s[1].pkt = p
<1>1. Len(s) \in Nat /\ DOMAIN s = 1 .. Len(s)
  BY LenProperties DEF RecordsOK
<1>2. PICK i \in DOMAIN s : s[i].pkt = p
  BY DEF PktsOf
<1>3. s # << >>
  <2>1. DOMAIN s # {}
    BY <1>2
  <2>2. QED
    BY <2>1
<1>4. 1 \in DOMAIN s /\ p <= s[1].pkt
  BY <1>1, <1>2 DEF PktsOf
<1>5. ~(1 < i)
  BY <1>2, <1>4 DEF RecordsOK
<1>6. QED
  BY <1>1, <1>2, <1>3, <1>5

\* The first record goes.
LEMMA TailRecord ==
  ASSUME NEW s, RecordsOK(s), s # << >>
  PROVE  /\ 1 \in DOMAIN s /\ Len(s) \in Nat
         /\ Tail(s) \in Seq(Range(Tail(s))) /\ Len(Tail(s)) = Len(s) - 1
         /\ \A j \in 1 .. Len(s) - 1 : Tail(s)[j] = s[Shift(j, 1)]
         /\ RecordsOK(Tail(s)) /\ PktsOf(Tail(s)) = PktsOf(s) \ {s[1].pkt}
<1> DEFINE n == Len(s)
           t == Tail(s)
<1>1. n \in Nat /\ DOMAIN s = 1 .. n
  BY LenProperties DEF RecordsOK
<1>2. /\ t \in Seq(Range(s)) /\ Len(t) = n - 1 /\ \A i \in 1 .. n - 1 : t[i] = s[i + 1]
  BY HeadTailProperties DEF RecordsOK
<1>3. t \in Seq(Range(t))
  BY <1>2, RangeSeq
<1> HIDE DEF n, t
<1>4. 1 \in DOMAIN s
  BY <1>1, EmptySeq DEF n, RecordsOK
<1>5. \A i \in 1 .. n - 1 : Shift(i, 1) = i + 1
  BY <1>1 DEF Shift
<1>6. \A i \in 1 .. n - 1 : t[i] = s[Shift(i, 1)] /\ t[i].pkt = s[Shift(i, 1)].pkt
  BY <1>2, <1>5
<1>7. RecordsOK(t) /\ PktsOf(t) = PktsOf(s) \ {s[1].pkt}
  <2>1. Shortened(s, 1, t)
    BY <1>2, <1>3, <1>4, <1>6 DEF n, Shortened
  <2>2. QED
    BY <2>1, ShorterRecords
<1>8. QED
  BY <1>1, <1>2, <1>3, <1>4, <1>6, <1>7 DEF n, t

\* The record in the middle goes.
LEMMA DropRecord ==
  ASSUME NEW s, RecordsOK(s), NEW k \in DOMAIN s
  PROVE  LET t == SubSeq(s, 1, k - 1) \o SubSeq(s, k + 1, Len(s))
         IN  /\ Len(s) \in Nat /\ k \in 1 .. Len(s)
             /\ t \in Seq(Range(t)) /\ Len(t) = Len(s) - 1
             /\ \A j \in 1 .. Len(s) - 1 : t[j] = s[Shift(j, k)]
             /\ RecordsOK(t) /\ PktsOf(t) = PktsOf(s) \ {s[k].pkt}
<1> DEFINE t == SubSeq(s, 1, k - 1) \o SubSeq(s, k + 1, Len(s))
<1>1. /\ t \in Seq(Range(s)) /\ Len(t) = Len(s) - 1 /\ Len(s) \in Nat /\ k \in 1 .. Len(s)
      /\ \A j \in 1 .. Len(s) - 1 : t[j] = s[Shift(j, k)]
  BY WithoutFacts DEF RecordsOK
<1>2. t \in Seq(Range(t))
  BY <1>1, RangeSeq
<1> HIDE DEF t
<1>3. Shortened(s, k, t)
  BY <1>1, <1>2 DEF Shortened
<1>4. RecordsOK(t) /\ PktsOf(t) = PktsOf(s) \ {s[k].pkt}
  BY <1>3, ShorterRecords
<1>5. QED
  BY <1>1, <1>2, <1>4 DEF t
=============================================================================
