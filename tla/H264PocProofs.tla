---------------------------- MODULE H264PocProofs ----------------------------
(***************************************************************************)
(* POC modes 0 and 2 decode every conforming stream from an IDR picture to *)
(* the first MMCO 5, for every width of pic_order_cnt_lsb, frame_num and   *)
(* the picture fields.                                                     *)
(***************************************************************************)
EXTENDS H264Poc, TLAPS

-----------------------------------------------------------------------------
(* Arithmetic.                                                             *)

\* division with remainder
LEMMA Division ==
  ASSUME NEW x \in Int, NEW m \in Nat \ {0}
  PROVE  /\ x % m \in 0 .. (m - 1)
         /\ x \div m \in Int
         /\ x = m * (x \div m) + (x % m)
  OBVIOUS

\* a step of at least n quotients is a step of at least n times the divisor
LEMMA Steps ==
  ASSUME NEW m \in Nat, NEW q \in Int, NEW r \in Int, NEW n \in Int, r >= q + n
  PROVE  m * r >= m * q + m * n
<1>1. r - (q + n) \in Nat
  OBVIOUS
<1>2. m * (r - (q + n)) >= 0
  BY <1>1
<1>3. m * (r - (q + n)) = m * r - (m * q + m * n)
  OBVIOUS
<1> QED
  BY <1>2, <1>3

\* a value that fits a field is stored as it is
LEMMA Small ==
  ASSUME NEW m \in Nat \ {0}, NEW x \in 0 .. (m - 1)
  PROVE  x % m = x
<1>1. x % m \in 0 .. (m - 1) /\ x \div m \in Int /\ x = m * (x \div m) + (x % m)
  BY Division
<1>2. CASE x \div m >= 1
  <2>1. m * (x \div m) >= m * 0 + m * 1
    BY <1>1, <1>2, Steps
  <2> QED
    BY <1>1, <2>1
<1>3. CASE x \div m <= 0 - 1
  <2>1. m * 0 >= m * (x \div m) + m * 1
    BY <1>1, <1>3, Steps
  <2> QED
    BY <1>1, <2>1
<1>4. CASE x \div m = 0
  BY <1>1, <1>4
<1> QED
  BY <1>1, <1>2, <1>3, <1>4

\* two numbers less than half a modulus apart: their residues tell in which of
\* three blocks the second one is
LEMMA Near ==
  ASSUME NEW h \in Nat \ {0}, NEW p \in Int, NEW d \in Int, 0 - h < d, d <= h
  PROVE  LET m == 2 * h
             a == p % m
             b == (p + d) % m
         IN  \/ d = b - a /\ ~(b < a /\ a - b >= h) /\ ~(b > a /\ b - a > h)
             \/ d = b - a + m /\ b < a /\ a - b >= h
             \/ d = b - a - m /\ b > a /\ b - a > h
<1> DEFINE m == 2 * h
           a == p % m
           b == (p + d) % m
           q == p \div m
           r == (p + d) \div m
<1>1. m \in Nat \ {0} /\ m = 2 * h /\ p + d \in Int
  OBVIOUS
<1> HIDE DEF m
<1>2. a \in 0 .. (m - 1) /\ q \in Int /\ p = m * q + a
  BY <1>1, Division
<1>3. b \in 0 .. (m - 1) /\ r \in Int /\ p + d = m * r + b
  BY <1>1, Division
<1> HIDE DEF a, b, q, r
<1>4. ~(r >= q + 2)
  <2> SUFFICES ASSUME r >= q + 2 PROVE FALSE
    OBVIOUS
  <2>1. m * r >= m * q + m * 2
    BY <1>1, <1>2, <1>3, Steps
  <2> DEFINE x == m * r
             y == m * q
  <2>2. x \in Int /\ y \in Int /\ x >= y + m * 2 /\ p = y + a /\ p + d = x + b
    BY <1>1, <1>2, <1>3, <2>1
  <2> HIDE DEF x, y
  <2> QED
    BY <1>1, <1>2, <1>3, <2>2
<1>5. ~(q >= r + 2)
  <2> SUFFICES ASSUME q >= r + 2 PROVE FALSE
    OBVIOUS
  <2>1. m * q >= m * r + m * 2
    BY <1>1, <1>2, <1>3, Steps
  <2> DEFINE x == m * r
             y == m * q
  <2>2. x \in Int /\ y \in Int /\ y >= x + m * 2 /\ p = y + a /\ p + d = x + b
    BY <1>1, <1>2, <1>3, <2>1
  <2> HIDE DEF x, y
  <2> QED
    BY <1>1, <1>2, <1>3, <2>2
<1>6. \/ m * r = m * q
      \/ m * r = m * q + m
      \/ m * r = m * q - m
  <2>1. r = q \/ r = q + 1 \/ r = q - 1
    BY <1>2, <1>3, <1>4, <1>5
  <2>2. m * (q + 1) = m * q + m /\ m * (q - 1) = m * q - m
    BY <1>1, <1>2
  <2> QED
    BY <2>1, <2>2
<1>7. \/ d = b - a /\ ~(b < a /\ a - b >= h) /\ ~(b > a /\ b - a > h)
      \/ d = b - a + m /\ b < a /\ a - b >= h
      \/ d = b - a - m /\ b > a /\ b - a > h
  <2> DEFINE x == m * r
             y == m * q
  <2>1. /\ x \in Int /\ y \in Int /\ (x = y \/ x = y + m \/ x = y - m)
        /\ p = y + a /\ p + d = x + b
    BY <1>1, <1>2, <1>3, <1>6
  <2> HIDE DEF x, y
  <2> QED
    BY <1>1, <1>2, <1>3, <2>1
<1> QED
  BY <1>7 DEF a, b, m

\* a counter that goes up by one wraps exactly when its residue goes down
LEMMA CountUp ==
  ASSUME NEW f \in Nat \ {0, 1}, NEW n \in Nat
  PROVE  \/ (n + 1) % f = (n % f) + 1
         \/ (n + 1) % f = 0 /\ n % f = f - 1
<1> DEFINE a == n % f
           b == (n + 1) % f
           q == n \div f
           r == (n + 1) \div f
<1>1. a \in 0 .. (f - 1) /\ q \in Int /\ n = f * q + a
  BY Division
<1>2. b \in 0 .. (f - 1) /\ r \in Int /\ n + 1 = f * r + b
  BY Division
<1> HIDE DEF a, b, q, r
<1>3. CASE r = q
  BY <1>1, <1>2, <1>3 DEF a, b
<1>4. CASE r >= q + 1
  <2>1. f * r >= f * q + f * 1
    BY <1>1, <1>2, <1>4, Steps
  <2> DEFINE x == f * r
             y == f * q
  <2>2. x \in Int /\ y \in Int /\ x >= y + f /\ n = y + a /\ n + 1 = x + b
    BY <1>1, <1>2, <2>1
  <2> HIDE DEF x, y
  <2>3. b = 0 /\ a = f - 1
    BY <1>1, <1>2, <2>2
  <2> QED
    BY <2>3 DEF a, b
<1>5. CASE q >= r + 1
  <2>1. f * q >= f * r + f * 1
    BY <1>1, <1>2, <1>5, Steps
  <2> DEFINE x == f * r
             y == f * q
  <2>2. x \in Int /\ y \in Int /\ y >= x + f /\ n = y + a /\ n + 1 = x + b
    BY <1>1, <1>2, <2>1
  <2> HIDE DEF x, y
  <2> QED
    BY <1>1, <1>2, <2>2
<1> QED
  BY <1>1, <1>2, <1>3, <1>4, <1>5
-----------------------------------------------------------------------------
(* The decoder keeps step with the stream.                                 *)

IInv == TypeOK /\ InStep /\ DecodedRight

LEMMA Widths ==
  /\ HalfLsb \in Nat \ {0} /\ MaxLsb \in Nat \ {0} /\ MaxLsb = 2 * HalfLsb
  /\ MaxFrameNum \in Nat \ {0, 1} /\ MaxFrameNum \in Nat \ {0}
  /\ PocWidth \in Nat \ {0}
BY PocAssumption DEF MaxLsb

LEMMA Residues ==
  /\ \A x \in Int : LsbOf(x) \in 0 .. (MaxLsb - 1)
  /\ \A n \in Nat : FrameNumOf(n) \in 0 .. (MaxFrameNum - 1)
  /\ LsbOf(0) = 0 /\ FrameNumOf(0) = 0
  /\ \A n \in Nat :
       \/ FrameNumOf(n + 1) = FrameNumOf(n) + 1
       \/ FrameNumOf(n + 1) = 0 /\ FrameNumOf(n) = MaxFrameNum - 1
  /\ \A x \in 0 .. (PocWidth - 1) : Trunc(x) = x
<1>1. ASSUME NEW x \in Int PROVE LsbOf(x) \in 0 .. (MaxLsb - 1)
  BY Widths, Division DEF LsbOf
<1>2. ASSUME NEW n \in Nat PROVE FrameNumOf(n) \in 0 .. (MaxFrameNum - 1)
  BY Widths, Division DEF FrameNumOf
<1>3. LsbOf(0) = 0
  BY Widths, Small DEF LsbOf
<1>4. FrameNumOf(0) = 0
  BY Widths, Small DEF FrameNumOf
<1>5. ASSUME NEW n \in Nat
      PROVE  \/ FrameNumOf(n + 1) = FrameNumOf(n) + 1
             \/ FrameNumOf(n + 1) = 0 /\ FrameNumOf(n) = MaxFrameNum - 1
  BY Widths, CountUp DEF FrameNumOf
<1>6. ASSUME NEW x \in 0 .. (PocWidth - 1) PROVE Trunc(x) = x
  BY Widths, Small DEF Trunc
<1> QED
  BY <1>1, <1>2, <1>3, <1>4, <1>5, <1>6

LEMMA InitIInv ==
  ASSUME Init
  PROVE  IInv
<1>1. HalfLsb \in Nat \ {0} /\ MaxLsb \in Nat \ {0} /\ MaxFrameNum \in Nat \ {0}
  BY Widths
<1>2. TypeOK
  <2>1. poc \in [msb : Int, lsb : 0 .. (MaxLsb - 1),
                 frameNum : 0 .. (MaxFrameNum - 1), offset : Int]
    BY <1>1 DEF Init
  <2>2. NoPoc \in PocResult
    BY DEF NoPoc, PocResult
  <2> QED
    BY <2>1, <2>2 DEF Init, TypeOK
<1>3. InStep
  BY <1>1, Residues DEF Init, InStep, Synced
<1> QED
  BY <1>2, <1>3 DEF Init, IInv, DecodedRight

\* POC mode 0: the residue of the last reference picture and that of the new
\* one give the new POC
LEMMA MsbRight ==
  ASSUME NEW p, NEW top \in Int, NEW d \in Int, pocType = 0,
         0 - HalfLsb < d, d <= HalfLsb,
         NEW ref \in Int, top = ref + d,
         p.msb \in Int, p.lsb \in Int,
         p.msb + p.lsb = ref, p.lsb = LsbOf(ref)
  PROVE  Msb(p, LsbOf(top)) + LsbOf(top) = top
<1>1. HalfLsb \in Nat \ {0} /\ MaxLsb \in Nat \ {0}
  BY Widths
<1> DEFINE a == LsbOf(ref)
           b == LsbOf(top)
<1>2. \/ d = b - a /\ ~(b < a /\ a - b >= HalfLsb) /\ ~(b > a /\ b - a > HalfLsb)
      \/ d = b - a + MaxLsb /\ b < a /\ a - b >= HalfLsb
      \/ d = b - a - MaxLsb /\ b > a /\ b - a > HalfLsb
  BY <1>1, Near DEF MaxLsb, LsbOf
<1>3. a \in 0 .. (MaxLsb - 1) /\ b \in 0 .. (MaxLsb - 1)
  BY Residues
<1>4. p.lsb = a /\ p.msb = ref - a
  BY <1>3
<1> HIDE DEF a, b
<1>5. Msb(p, b) + b = top
  BY <1>1, <1>2, <1>3, <1>4 DEF Msb
<1> QED
  BY <1>5 DEF b
-----------------------------------------------------------------------------
(* One picture.                                                            *)

\* the POCs of a picture whose fields all fit
Right(structure, top, bot) ==
  [top    |-> IF structure = "bottom" THEN 0 ELSE top,
   bottom |-> IF structure = "top" THEN 0 ELSE bot,
   frame  |-> Least(top, bot)]

LEMMA FieldsRight ==
  ASSUME NEW structure \in Structure, NEW top, NEW bot, Fits(top), Fits(bot),
         structure # "frame" => top = bot
  PROVE  /\ Fields(structure, top, bot) = Right(structure, top, bot)
         /\ Trunc(top) = top
<1>1. Trunc(top) = top /\ Trunc(bot) = bot
  BY Residues DEF Fits
<1>2. Least(top, bot) = top \/ structure = "frame"
  BY DEF Least
<1> QED
  BY <1>1, <1>2 DEF Fields, Right, Structure, Least

PocStates == [msb : Int, lsb : 0 .. (MaxLsb - 1),
              frameNum : 0 .. (MaxFrameNum - 1), offset : Int]

LEMMA Mode0 ==
  ASSUME pocType = 0, TypeOK, NEW pic, NEW top, NEW bot, top \in Int,
         pic.idr \in BOOLEAN, pic.ref \in BOOLEAN, pic.structure \in Structure,
         pic.lsb = LsbOf(top), pic.frameNum \in 0 .. (MaxFrameNum - 1),
         pic.idr => top = 0 /\ pic.ref, pic.idr \/ Synced,
         ~pic.idr => 0 - HalfLsb < top - refPoc /\ top - refPoc <= HalfLsb,
         bot = (IF pic.structure = "frame" THEN top + pic.delta0 ELSE top),
         Fits(top), Fits(bot)
  PROVE  /\ DecodePoc(poc, pic, FALSE) = Right(pic.structure, top, bot)
         /\ PocState(poc, pic, FALSE) \in PocStates
         /\ PocState(poc, pic, FALSE).msb + PocState(poc, pic, FALSE).lsb
              = (IF pic.ref THEN top ELSE refPoc)
         /\ PocState(poc, pic, FALSE).lsb = LsbOf(IF pic.ref THEN top ELSE refPoc)
<1> DEFINE prev == PrevMsbLsb(poc, pic, FALSE)
           lsb  == LsbOf(top)
           idr  == pic.idr
           ref  == pic.ref
           structure == pic.structure
           delta0 == pic.delta0
<1>1. /\ HalfLsb \in Nat \ {0} /\ MaxLsb \in Nat \ {0} /\ MaxFrameNum \in Nat \ {0}
      /\ top \in Int /\ refPoc \in Int
      /\ poc.msb \in Int /\ poc.lsb \in 0 .. (MaxLsb - 1) /\ poc.offset \in Int
  BY Widths DEF TypeOK
<1>2. pic.lsb = lsb
  OBVIOUS
<1>3. lsb \in 0 .. (MaxLsb - 1)
  BY <1>1, Residues
<1>4. /\ prev.msb = (IF idr THEN 0 ELSE poc.msb)
      /\ prev.lsb = (IF idr THEN 0 ELSE poc.lsb)
  BY <1>2 DEF PrevMsbLsb
<1> HIDE DEF prev, lsb
<1>5. Msb(prev, lsb) + lsb = top
  <2>1. CASE idr
    <3>1. lsb = 0
      BY <2>1, Residues DEF lsb
    <3> QED
      BY <2>1, <3>1, <1>1, <1>4 DEF Msb
  <2>2. CASE ~idr
    <3>1. /\ prev.msb \in Int /\ prev.lsb \in Int
          /\ prev.msb + prev.lsb = refPoc /\ prev.lsb = LsbOf(refPoc)
      BY <2>2, <1>1, <1>4 DEF Synced
    <3> DEFINE d == top - refPoc
    <3>2. d \in Int /\ 0 - HalfLsb < d /\ d <= HalfLsb /\ top = refPoc + d
      BY <2>2, <1>1
    <3> HIDE DEF d
    <3> QED
      BY <3>1, <3>2, <1>1, MsbRight DEF lsb
  <2> QED
    BY <2>1, <2>2
<1>6. Msb(prev, lsb) = top - lsb
  <2>1. Msb(prev, lsb) \in Int
    BY <1>1, <1>3, <1>4 DEF Msb, lsb
  <2> QED
    BY <2>1, <1>5, <1>3, <1>1 DEF lsb
<1>7. DecodePoc(poc, pic, FALSE) = Right(structure, top, bot)
  <2>1. DecodePoc(poc, pic, FALSE) =
          Fields(structure, top, IF structure = "frame" THEN Trunc(top) + delta0 ELSE top)
    BY <1>2, <1>5 DEF DecodePoc, PocMode0, prev
  <2>2. Fields(structure, top, bot) = Right(structure, top, bot) /\ Trunc(top) = top
    BY FieldsRight
  <2> QED
    BY <2>1, <2>2
<1> DEFINE s   == PocState(poc, pic, FALSE)
           msb == IF ref THEN top - lsb ELSE poc.msb
           l   == IF ref THEN lsb ELSE poc.lsb
           num == pic.frameNum
<1>8. s = [poc EXCEPT !.frameNum = num, !.msb = msb, !.lsb = l]
  <2>1. ~ref => prev.msb = poc.msb /\ prev.lsb = poc.lsb
    BY <1>4
  <2> QED
    BY <2>1, <1>2, <1>6 DEF PocState, prev
<1>9. msb \in Int /\ l \in 0 .. (MaxLsb - 1) /\ num \in 0 .. (MaxFrameNum - 1)
  BY <1>1, <1>3 DEF lsb
<1>10. msb + l = (IF ref THEN top ELSE refPoc)
  BY <1>1, <1>3 DEF Synced, lsb
<1>11. l = LsbOf(IF ref THEN top ELSE refPoc)
  BY DEF Synced, lsb
<1> HIDE DEF s, msb, l, num
<1>12. s \in PocStates /\ s.msb = msb /\ s.lsb = l
  <2>1. poc \in PocStates
    BY DEF TypeOK, PocStates
  <2> QED
    BY <2>1, <1>8, <1>9 DEF PocStates
<1> QED
  BY <1>7, <1>10, <1>11, <1>12 DEF s

LEMMA Mode2 ==
  ASSUME pocType = 2, TypeOK, NEW pic, NEW n, NEW top, n \in Nat,
         pic.idr \in BOOLEAN, pic.ref \in BOOLEAN, pic.structure \in Structure,
         pic.frameNum = FrameNumOf(n),
         n = 0 \/ n = frames \/ n = frames + 1,
         pic.idr <=> n = 0,
         top = (IF pic.ref THEN 2 * n ELSE 2 * n - 1), Fits(top),
         pic.idr => pic.ref /\ pic.structure = "frame", pic.idr \/ Synced
  PROVE  /\ DecodePoc(poc, pic, FALSE) = Right(pic.structure, top, top)
         /\ PocState(poc, pic, FALSE) \in PocStates
         /\ PocState(poc, pic, FALSE).offset + PocState(poc, pic, FALSE).frameNum = n
         /\ PocState(poc, pic, FALSE).frameNum = FrameNumOf(n)
<1> DEFINE num == FrameNumOf(n)
           idr  == pic.idr
           ref  == pic.ref
           structure == pic.structure
<1>1. /\ MaxFrameNum \in Nat \ {0, 1} /\ PocWidth \in Nat \ {0}
      /\ poc.offset \in Int /\ poc.frameNum \in 0 .. (MaxFrameNum - 1) /\ frames \in Nat
      /\ idr \/ (poc.offset + poc.frameNum = frames /\ poc.frameNum = FrameNumOf(frames))
  BY Widths DEF TypeOK, Synced
<1>2. pic.frameNum = num
  OBVIOUS
<1>3. num \in 0 .. (MaxFrameNum - 1)
  BY Residues
<1> DEFINE o == FrameNumOffset(poc, pic, FALSE)
<1>4. o = (IF idr THEN 0 ELSE IF num < poc.frameNum THEN poc.offset + MaxFrameNum
                              ELSE poc.offset)
  BY <1>2 DEF FrameNumOffset
<1>5. n = 0 => num = 0
  BY Residues
<1>6. ~idr /\ n = frames + 1 =>
        num = poc.frameNum + 1 \/ (num = 0 /\ poc.frameNum = MaxFrameNum - 1)
  BY <1>1, Residues
<1>7. ~idr /\ n = frames => num = poc.frameNum
  BY <1>1
<1> HIDE DEF num, o
<1>8. o + num = n /\ o \in Int
  <2>1. CASE idr
    BY <2>1, <1>3, <1>4, <1>5
  <2>2. CASE ~idr
    BY <2>2, <1>1, <1>3, <1>4, <1>6, <1>7
  <2> QED
    BY <2>1, <2>2
<1>9. DecodePoc(poc, pic, FALSE) = Right(structure, top, top)
  <2>1. CASE idr
    <3>1. top = 0 /\ structure = "frame"
      BY <2>1
    <3> QED
      BY <2>1, <3>1, <1>2 DEF DecodePoc, PocMode2, Right, Least, NoPoc
  <2>2. CASE ~idr
    <3>0. FrameNumOffset(poc, pic, FALSE) + pic.frameNum = n
      BY <1>2, <1>8 DEF o
    <3> DEFINE abs  == FrameNumOffset(poc, pic, FALSE) + pic.frameNum
               this == IF pic.idr THEN 0 ELSE IF pic.ref THEN 2 * abs ELSE 2 * abs - 1
    <3>1. DecodePoc(poc, pic, FALSE) = Fields(structure, top, top)
      <4>1. DecodePoc(poc, pic, FALSE) =
              IF pic.idr THEN NoPoc ELSE Fields(pic.structure, this, this)
        BY DEF DecodePoc, PocMode2
      <4> HIDE DEF abs
      <4>2. abs = n
        BY <3>0 DEF abs
      <4>3. this = top
        BY <4>2, <2>2, <1>2
      <4> HIDE DEF this
      <4> QED
        BY <4>1, <4>3, <2>2, <1>2
    <3>2. Fields(structure, top, top) = Right(structure, top, top)
      BY FieldsRight
    <3> QED
      BY <3>1, <3>2
  <2> QED
    BY <2>1, <2>2
<1> DEFINE s == PocState(poc, pic, FALSE)
<1>10. s = [poc EXCEPT !.frameNum = num, !.offset = o]
  BY <1>2 DEF PocState, o
<1> HIDE DEF s
<1>11. s \in PocStates /\ s.frameNum = num /\ s.offset = o
  <2>1. poc \in PocStates
    BY DEF TypeOK, PocStates
  <2> QED
    BY <2>1, <1>3, <1>8, <1>10 DEF PocStates
<1> QED
  BY <1>8, <1>9, <1>11 DEF num, s

-----------------------------------------------------------------------------
(* The specification.                                                      *)

\* whatever the picture and the history: the decoder's state keeps its types
LEMMA PictureType ==
  ASSUME pocType \in {0, 2}, TypeOK, NEW pic, NEW reset \in BOOLEAN,
         pic.idr \in BOOLEAN, pic.ref \in BOOLEAN, pic.structure \in Structure,
         pic.lsb \in 0 .. (MaxLsb - 1), pic.frameNum \in 0 .. (MaxFrameNum - 1),
         pic.delta0 \in Int
  PROVE  /\ DecodePoc(poc, pic, reset) \in PocResult
         /\ PocState(poc, pic, reset) \in PocStates
<1>1. /\ MaxLsb \in Nat \ {0} /\ MaxFrameNum \in Nat \ {0} /\ PocWidth \in Nat \ {0}
      /\ poc.msb \in Int /\ poc.lsb \in 0 .. (MaxLsb - 1) /\ poc.offset \in Int
      /\ poc.frameNum \in 0 .. (MaxFrameNum - 1)
      /\ poc \in PocStates
  BY Widths DEF TypeOK, PocStates
<1>2. \A x \in Int : Trunc(x) \in Int
  <2>1. ASSUME NEW x \in Int PROVE Trunc(x) \in Int
    BY <1>1, Division DEF Trunc
  <2> QED
    BY <2>1
<1>3. ASSUME NEW structure \in Structure, NEW top \in Int, NEW bot \in Int
      PROVE  Fields(structure, top, bot) \in PocResult
  BY <1>2 DEF Fields, Least, PocResult
<1>4. CASE pocType = 0
  <2>1. PICK prev : prev = PrevMsbLsb(poc, pic, reset)
    OBVIOUS
  <2>2. prev.msb \in Int /\ prev.lsb \in 0 .. (MaxLsb - 1)
    BY <2>1, <1>1 DEF PrevMsbLsb
  <2>3. PICK msb : msb = Msb(prev, pic.lsb)
    OBVIOUS
  <2>4. msb \in Int
    BY <2>2, <2>3, <1>1 DEF Msb
  <2>5. PICK top, bot : /\ top = msb + pic.lsb
                        /\ bot = (IF pic.structure = "frame"
                                    THEN Trunc(top) + pic.delta0 ELSE top)
    OBVIOUS
  <2>6. top \in Int /\ bot \in Int
    BY <2>4, <2>5, <1>1, <1>2
  <2>7. DecodePoc(poc, pic, reset) = Fields(pic.structure, top, bot)
    BY <1>4, <2>1, <2>3, <2>5 DEF DecodePoc, PocMode0
  <2>8. PICK m, l : m = (IF pic.ref THEN msb ELSE prev.msb)
                    /\ l = (IF pic.ref THEN pic.lsb ELSE prev.lsb)
    OBVIOUS
  <2>9. m \in Int /\ l \in 0 .. (MaxLsb - 1)
    BY <2>2, <2>4, <2>8
  <2>10. PocState(poc, pic, reset) = [poc EXCEPT !.frameNum = pic.frameNum, !.msb = m, !.lsb = l]
    BY <1>4, <2>1, <2>3, <2>8 DEF PocState
  <2>11. PocState(poc, pic, reset) \in PocStates
    BY <1>1, <2>9, <2>10 DEF PocStates
  <2> QED
    BY <1>3, <2>6, <2>7, <2>11
<1>5. CASE pocType = 2
  <2>1. PICK o : o = FrameNumOffset(poc, pic, reset)
    OBVIOUS
  <2>2. o \in Int
    BY <2>1, <1>1 DEF FrameNumOffset
  <2>3. PICK this : this = (IF pic.idr THEN 0
                            ELSE IF pic.ref THEN 2 * (o + pic.frameNum)
                            ELSE 2 * (o + pic.frameNum) - 1)
    OBVIOUS
  <2>4. this \in Int
    BY <2>2, <2>3
  <2>5. DecodePoc(poc, pic, reset) = (IF pic.idr THEN NoPoc ELSE Fields(pic.structure, this, this))
    BY <1>5, <2>1, <2>3 DEF DecodePoc, PocMode2
  <2>6. NoPoc \in PocResult
    BY DEF NoPoc, PocResult
  <2>7. PocState(poc, pic, reset) = [poc EXCEPT !.frameNum = pic.frameNum, !.offset = o]
    BY <1>5, <2>1 DEF PocState
  <2>8. PocState(poc, pic, reset) \in PocStates
    BY <1>1, <2>2, <2>7 DEF PocStates
  <2> QED
    BY <1>3, <2>4, <2>5, <2>6, <2>8
<1> QED
  BY <1>4, <1>5

LEMMA PictureStep ==
  ASSUME IInv, PocTypes \subseteq {0, 2},
         NEW idr \in BOOLEAN, NEW ref \in BOOLEAN, NEW structure \in Structure,
         NEW chosen, chosen \in Int, idr => chosen = 0,
         ~idr => 0 - HalfLsb < chosen - refPoc /\ chosen - refPoc <= HalfLsb,
         NEW delta0 \in Int, NEW delta1 \in Int, NEW mmco5 \in BOOLEAN,
         idr => structure = "frame",
         ~idr => frames > 0 \/ lastRef,
         Picture(idr, ref, structure, chosen, delta0, delta1, mmco5)
  PROVE  IInv'
<1>0. PICK n, top, bot, pic :
        /\ n = (IF idr THEN 0 ELSE IF lastRef THEN frames + 1 ELSE frames)
        /\ top = TruePoc(n, ref, structure, chosen, delta0)
        /\ bot = (IF structure = "frame" THEN TrueBottom(top, delta0, delta1) ELSE top)
        /\ pic = [idr |-> idr, ref |-> ref, structure |-> structure,
                  lsb |-> LsbOf(top), frameNum |-> FrameNumOf(n),
                  delta0 |-> delta0, delta1 |-> delta1]
  OBVIOUS
<1>1. /\ TypeOK /\ InStep
      /\ frames \in Nat /\ n \in Nat /\ refPoc \in Int
      /\ pocType \in {0, 2}
  BY <1>0 DEF IInv, TypeOK
<1>2. /\ idr => ref /\ ~mmco5
      /\ Fits(top) /\ Fits(bot)
      /\ decoded' = DecodePoc(poc, pic, mmco5)
      /\ truth' = Right(structure, top, bot)
      /\ poc' = PocState(poc, pic, mmco5)
      /\ disturbed' = (mmco5 \/ (disturbed /\ ~idr)) /\ lastRef' = ref
      /\ refPoc' = (IF ref THEN top ELSE refPoc) /\ frames' = n
      /\ pocType' = pocType
  BY <1>0 DEF Picture, Right
<1>3. /\ pic.idr = idr /\ pic.ref = ref /\ pic.structure = structure
      /\ pic.lsb = LsbOf(top) /\ pic.frameNum = FrameNumOf(n) /\ pic.delta0 = delta0
  BY <1>0
<1>4. pocType = 0 => /\ top = chosen
                     /\ bot = (IF structure = "frame" THEN top + delta0 ELSE top)
  BY <1>0 DEF TruePoc, TrueBottom
<1>5. pocType = 2 => top = (IF ref THEN 2 * n ELSE 2 * n - 1) /\ bot = top
  BY <1>0 DEF TruePoc, TrueBottom
<1>6. (n = 0 \/ n = frames \/ n = frames + 1) /\ (idr <=> n = 0)
  BY <1>0, <1>1
<1>7. pic.frameNum \in 0 .. (MaxFrameNum - 1) /\ top \in Int
  BY <1>1, <1>2, <1>3, Residues, Widths DEF Fits
<1>8. poc' \in PocStates
  <2>1. /\ pic.idr \in BOOLEAN /\ pic.ref \in BOOLEAN /\ pic.structure \in Structure
        /\ pic.lsb \in 0 .. (MaxLsb - 1) /\ pic.delta0 \in Int
    BY <1>3, <1>7, Residues
  <2>2. PocState(poc, pic, mmco5) \in PocStates
    BY <1>1, <1>7, <2>1, PictureType
  <2> QED
    BY <1>2, <2>2
<1>9. ASSUME ~disturbed' PROVE decoded' = truth' /\ Synced'
  <2>0. mmco5 = FALSE /\ (idr \/ Synced)
    BY <1>1, <1>2, <1>9 DEF InStep
  <2>1. CASE pocType = 0
    <3>1. /\ DecodePoc(poc, pic, FALSE) = Right(pic.structure, top, bot)
          /\ PocState(poc, pic, FALSE) \in PocStates
          /\ PocState(poc, pic, FALSE).msb + PocState(poc, pic, FALSE).lsb
               = (IF pic.ref THEN top ELSE refPoc)
          /\ PocState(poc, pic, FALSE).lsb = LsbOf(IF pic.ref THEN top ELSE refPoc)
      <4>1. /\ pic.idr \in BOOLEAN /\ pic.ref \in BOOLEAN /\ pic.structure \in Structure
            /\ pic.lsb = LsbOf(top) /\ pic.frameNum \in 0 .. (MaxFrameNum - 1)
            /\ pic.idr => top = 0 /\ pic.ref
            /\ ~pic.idr => 0 - HalfLsb < top - refPoc /\ top - refPoc <= HalfLsb
            /\ bot = (IF pic.structure = "frame" THEN top + pic.delta0 ELSE top)
            /\ pic.idr \/ Synced
        BY <2>0, <2>1, <1>1, <1>2, <1>3, <1>4, <1>7
      <4>2. top \in Int /\ Fits(top) /\ Fits(bot) /\ TypeOK
        BY <1>1, <1>2, <1>7
      <4> QED
        BY <2>1, <4>1, <4>2, Mode0
    <3>2. decoded' = Right(structure, top, bot)
      BY <2>0, <3>1, <1>2, <1>3
    <3>3. pocType' = 0 /\ poc'.msb + poc'.lsb = refPoc' /\ poc'.lsb = LsbOf(refPoc')
      BY <2>0, <2>1, <3>1, <1>2, <1>3
    <3>4. Synced'
      BY <3>3 DEF Synced, LsbOf
    <3> QED
      BY <3>2, <3>4, <1>2
  <2>2. CASE pocType = 2
    <3>1. /\ DecodePoc(poc, pic, FALSE) = Right(pic.structure, top, top)
          /\ PocState(poc, pic, FALSE) \in PocStates
          /\ PocState(poc, pic, FALSE).offset + PocState(poc, pic, FALSE).frameNum = n
          /\ PocState(poc, pic, FALSE).frameNum = FrameNumOf(n)
      <4>1. /\ pic.idr \in BOOLEAN /\ pic.ref \in BOOLEAN /\ pic.structure \in Structure
            /\ pic.frameNum = FrameNumOf(n)
            /\ (pic.idr <=> n = 0) /\ (pic.idr => pic.ref /\ pic.structure = "frame")
            /\ top = (IF pic.ref THEN 2 * n ELSE 2 * n - 1)
            /\ pic.idr \/ Synced
        BY <2>0, <2>2, <1>1, <1>2, <1>3, <1>5, <1>6
      <4>2. n \in Nat /\ Fits(top) /\ TypeOK
        BY <2>2, <1>1, <1>2
      <4> QED
        BY <2>2, <4>1, <4>2, <1>6, Mode2
    <3>2. decoded' = Right(structure, top, bot)
      BY <2>0, <2>2, <3>1, <1>2, <1>3, <1>5
    <3>3. /\ pocType' = 2 /\ poc'.offset + poc'.frameNum = frames'
          /\ poc'.frameNum = FrameNumOf(frames')
      BY <2>0, <2>2, <3>1, <1>2
    <3>4. Synced'
      <4>1. pocType' # 0
        BY <3>3
      <4>2. (poc.offset + poc.frameNum = frames /\ poc.frameNum = FrameNumOf(frames))'
        BY <3>3 DEF FrameNumOf
      <4> QED
        BY <4>1, <4>2 DEF Synced
    <3> QED
      BY <3>2, <3>4, <1>2
  <2> QED
    BY <1>1, <2>1, <2>2
<1>10. DecodePoc(poc, pic, mmco5) \in PocResult
  <2>1. /\ pic.idr \in BOOLEAN /\ pic.ref \in BOOLEAN /\ pic.structure \in Structure
        /\ pic.lsb \in 0 .. (MaxLsb - 1) /\ pic.delta0 \in Int
    BY <1>3, <1>7, Residues
  <2> QED
    BY <1>1, <1>7, <2>1, PictureType
<1>11. Right(structure, top, bot) \in PocResult
  BY <1>2, Widths DEF Fits, Right, Least, PocResult
<1>12. TypeOK'
  BY <1>1, <1>2, <1>7, <1>8, <1>10, <1>11 DEF TypeOK, PocStates
<1>13. InStep' /\ DecodedRight'
  BY <1>9 DEF InStep, DecodedRight
<1> QED
  BY <1>12, <1>13 DEF IInv

LEMMA StepIInv ==
  ASSUME IInv, [Next]_vars, PocTypes \subseteq {0, 2}
  PROVE  IInv'
<1>1. HalfLsb \in Nat \ {0} /\ Deltas \subseteq Int
  BY PocAssumption
<1>2. CASE Idr
  <2>1. PICK d0 \in Deltas, d1 \in Deltas :
           Picture(TRUE, TRUE, "frame", 0, d0, d1, FALSE)
    BY <1>2 DEF Idr
  <2>2. d0 \in Int /\ d1 \in Int /\ "frame" \in Structure
    BY <1>1 DEF Structure
  <2>3. PICK idr, chosen : idr = TRUE /\ chosen = 0
    OBVIOUS
  <2>4. idr \in BOOLEAN /\ idr /\ chosen \in Int /\ chosen = 0
    BY <2>3
  <2>5. Picture(idr, TRUE, "frame", chosen, d0, d1, FALSE)
    BY <2>1, <2>3
  <2> QED
    BY <2>2, <2>4, <2>5, PictureStep
<1>3. CASE NonIdr
  <2>1. PICK ref \in BOOLEAN, structure \in Structure, d \in (1 - HalfLsb) .. HalfLsb,
             d0 \in Deltas, d1 \in Deltas, mmco5 \in BOOLEAN :
           /\ d # 0 => pocType = 0
           /\ Picture(FALSE, ref, structure, refPoc + d, d0, d1, mmco5)
    BY <1>3 DEF NonIdr
  <2>2. PICK chosen : chosen = refPoc + d
    OBVIOUS
  <2>3. /\ 0 - HalfLsb < chosen - refPoc /\ chosen - refPoc <= HalfLsb
        /\ chosen \in Int /\ d0 \in Int /\ d1 \in Int
    BY <1>1, <2>2 DEF IInv, TypeOK
  <2>4. frames > 0 \/ lastRef
    BY <1>3 DEF NonIdr
  <2>5. Picture(FALSE, ref, structure, chosen, d0, d1, mmco5)
    BY <2>1, <2>2
  <2> QED
    BY <2>3, <2>4, <2>5, PictureStep
<1>4. CASE UNCHANGED vars
  <2>1. TypeOK' /\ InStep' /\ DecodedRight'
    <3>1. /\ pocType' = pocType /\ poc' = poc /\ decoded' = decoded /\ truth' = truth
          /\ disturbed' = disturbed /\ refPoc' = refPoc /\ frames' = frames
          /\ lastRef' = lastRef
      BY <1>4 DEF vars
    <3>2. TypeOK'
      BY <3>1 DEF IInv, TypeOK
    <3>3. Synced' = Synced
      BY <3>1 DEF Synced
    <3> QED
      BY <3>1, <3>2, <3>3 DEF IInv, InStep, DecodedRight
  <2> QED
    BY <2>1 DEF IInv
<1> QED
  BY <1>2, <1>3, <1>4 DEF Next

\* In modes 0 and 2 the decoder finds the POC the encoder meant, and keeps step
\* with its reference pictures and its frame numbers, for every width of the
\* fields.  Code: amlvdec_h264_dpb_decode_poc.
THEOREM PocRight ==
  ASSUME PocTypes \subseteq {0, 2}
  PROVE  Spec => [](DecodedRight /\ InStep)
<1>1. Init => IInv
  BY InitIInv
<1>2. IInv /\ [Next]_vars => IInv'
  BY StepIInv
<1>3. IInv => DecodedRight /\ InStep
  BY DEF IInv
<1> QED
  BY <1>1, <1>2, <1>3, PTL DEF Spec
=============================================================================
