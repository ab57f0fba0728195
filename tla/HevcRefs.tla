------------------------------ MODULE HevcRefs ------------------------------
(***************************************************************************)
(* The reference pictures of an HEVC slice (vdec/codec_hevc.c): from the   *)
(* short-term set the firmware has parsed, the driver builds the two lists,*)
(* finds the co-located picture, and tells the hardware whether all        *)
(* references come before the picture in display order.                    *)
(*                                                                         *)
(* Bounds: the picture has order count 4, the set holds up to three of the *)
(* counts in Delta, a list has one or two entries.  A picture may have     *)
(* several slices.                                                         *)
(***************************************************************************)
EXTENDS Integers, SequencesExt, FiniteSetsExt

PocNow == 4
Delta  == <<-1, -3, 1, 2>>  \* negative ones first, as CUR_RPS has them

SignBit == 8  \* 1 << (RPS_USED_BIT - 1); 2 * SignBit says that it is used

\* the firmware's words: "unused" deltas stay references of later pictures
Use    == [DOMAIN Delta -> {"absent", "kept", "used"}]
RpsWord(d, use) == (IF d < 0 THEN SignBit + (SignBit + d) ELSE d)
                     + (IF use = "used" THEN 2 * SignBit ELSE 0)
Rps(use) == LET there == SelectSeq([i \in DOMAIN Delta |-> i], LAMBDA i : use[i] # "absent")
            IN  [i \in DOMAIN there |-> RpsWord(Delta[there[i]], use[there[i]])]

\* the order count a word stands for
PocOfWord(word) ==
  IF (word \div SignBit) % 2 = 1 THEN PocNow - (SignBit - (word % SignBit))
  ELSE PocNow + (word % SignBit)

Used(word)     == (word \div (2 * SignBit)) % 2 = 1
Negative(word) == (word \div SignBit) % 2 = 1

\* codec_hevc_update_referenced: the order counts that stay references
KeptPocs(rps) == {PocOfWord(rps[i]) : i \in DOMAIN rps}

-----------------------------------------------------------------------------
(* codec_hevc_update_frame_refs.                                           *)

PicSet0(rps) == LET ws == SelectSeq(rps, LAMBDA w : Used(w) /\ Negative(w))
                IN  [i \in DOMAIN ws |-> PocOfWord(ws[i])]
PicSet1(rps) == LET ws == SelectSeq(rps, LAMBDA w : Used(w) /\ ~Negative(w))
                IN  [i \in DOMAIN ws |-> PocOfWord(ws[i])]

\* entry "cidx" of one set followed by the other
Pick(first, second, cidx) ==
  IF cidx >= Len(first) THEN second[cidx - Len(first) + 1] ELSE first[cidx + 1]

\* "mod0" and "mod1" are the bits of modification_flag, "mods" is modification_list
List0(slice, rps) ==
  LET total == Len(PicSet0(rps)) + Len(PicSet1(rps))
  IN  [i \in 0 .. slice.num0 - 1 |->
         Pick(PicSet0(rps), PicSet1(rps), IF slice.mod0 THEN slice.mods[i] ELSE i % total)]

\* mutant: the entries of the second list are always at the start
List1Mods(slice, i) == slice.mods[i]

\* the entries of the second list follow those of the first, if it has any
ModOf1(slice, i) == IF slice.mod0 THEN slice.mods[slice.num0 + i] ELSE slice.mods[i]

List1(slice, rps) ==
  LET total == Len(PicSet0(rps)) + Len(PicSet1(rps))
  IN  [i \in 0 .. slice.num1 - 1 |->
         Pick(PicSet1(rps), PicSet0(rps), IF slice.mod1 THEN ModOf1(slice, i) ELSE i % total)]

\* codec_hevc_update_ldc_flag
LowDelay(slice, rps) ==
  /\ slice.type # "I"
  /\ \A i \in DOMAIN List0(slice, rps) : List0(slice, rps)[i] <= PocNow
  /\ slice.type = "B" => \A i \in DOMAIN List1(slice, rps) : List1(slice, rps)[i] <= PocNow

Null == -1  \* col_frame is NULL

\* codec_hevc_update_col_frame: the order count of the picture that col_frame points at.
\* For an I slice it is the one of an earlier slice, "before", although show_frames may
\* have freed that picture since; a reference out of range, one that is not found and
\* no earlier one make it the picture itself.
ColPoc(slice, rps, pocs, before) ==
  LET list  == IF slice.type = "B" /\ ~slice.colFromL0 THEN List1(slice, rps) ELSE List0(slice, rps)
      named == IF slice.colRef \notin DOMAIN list THEN PocNow
               ELSE IF list[slice.colRef] \in pocs THEN list[slice.colRef] ELSE Null
      col   == IF slice.type = "I" THEN before ELSE named
  IN  IF col = Null THEN PocNow ELSE col

-----------------------------------------------------------------------------
(* The lists of the HEVC standard, 8.3.2 and 8.3.4.                        *)

StCurrBefore(use) == {PocNow + Delta[i] : i \in {j \in DOMAIN Delta : use[j] = "used" /\ Delta[j] < 0}}
StCurrAfter(use)  == {PocNow + Delta[i] : i \in {j \in DOMAIN Delta : use[j] = "used" /\ Delta[j] > 0}}
Nearest(S) == SetToSortSeq(S, LAMBDA a, b : (IF a < PocNow THEN PocNow - a ELSE a - PocNow)
                                             < (IF b < PocNow THEN PocNow - b ELSE b - PocNow))
Temp0(use) == Nearest(StCurrBefore(use)) \o Nearest(StCurrAfter(use))
Temp1(use) == Nearest(StCurrAfter(use)) \o Nearest(StCurrBefore(use))

Total(use) == Cardinality(StCurrBefore(use)) + Cardinality(StCurrAfter(use))

\* the entries are read in the order of the flags
Slices(total) ==
  {s \in [type : {"I", "P", "B"}, num0 : 1 .. 2, num1 : 1 .. 2, mod0 : BOOLEAN, mod1 : BOOLEAN,
          mods : [0 .. 3 -> 0 .. total - 1], colFromL0 : BOOLEAN, colRef : 0 .. 1] :
     /\ s.type # "B" => s.num1 = 1 /\ ~s.mod1 /\ s.colFromL0
     /\ s.type = "I" => s.num0 = 1 /\ ~s.mod0
     /\ s.colRef < IF s.colFromL0 THEN s.num0 ELSE s.num1
     /\ \A i \in 0 .. 3 : i >= (IF s.mod0 THEN s.num0 ELSE 0) + (IF s.mod1 THEN s.num1 ELSE 0)
                            => s.mods[i] = 0}

RightList(list, num, temp, mod, mods) ==
  \A i \in 0 .. num - 1 :
    list[i] = IF mod THEN temp[mods[i] + 1] ELSE temp[(i % Len(temp)) + 1]

\* The hardware is given the reference lists of the standard: every entry is a
\* picture that update_referenced has retained, so that it is found in the list of
\* frames; the low delay flag agrees with them.  So does the co-located picture of a P
\* or B slice, whatever an earlier slice has left; an I slice reads no vectors, and
\* nothing is claimed of the picture whose slot set_mpred_mv looks up for it.
\* Code: codec_hevc_update_frame_refs, update_referenced, set_ref_list,
\* update_col_frame, update_ldc_flag.
ListsRight ==
  \A use \in Use : Total(use) > 0 =>
    \A s \in Slices(Total(use)), before \in {Null, PocNow - 1, PocNow + 3} :
      LET rps  == Rps(use)
          retained == KeptPocs(rps)
          l0   == List0(s, rps)
          l1   == List1(s, rps)
          mods1 == [i \in 0 .. s.num1 - 1 |-> s.mods[(IF s.mod0 THEN s.num0 ELSE 0) + i]]
      IN  /\ RightList(l0, s.num0, Temp0(use), s.mod0, s.mods)
          /\ s.type = "B" => RightList(l1, s.num1, Temp1(use), s.mod1, mods1)
          /\ ToSet(Temp0(use)) \subseteq retained
          /\ s.type # "I" => LowDelay(s, rps) =
               (\A p \in {l0[i] : i \in DOMAIN l0} \cup (IF s.type = "B" THEN {l1[i] : i \in DOMAIN l1} ELSE {}) :
                  p < PocNow)
          /\ s.type # "I" => ColPoc(s, rps, retained, before) =
               IF s.type = "P" \/ s.colFromL0 THEN l0[s.colRef] ELSE l1[s.colRef]
=============================================================================
