------------------------------ MODULE Vp9Probs ------------------------------
(***************************************************************************)
(* The backward adaptation of the VP9 probabilities (vdec/codec_vp9.c,     *)
(* adapt_coef_probs).  After a frame the hardware leaves counters in       *)
(* memory; the driver merges what they say into the probabilities of the   *)
(* next frame.  Both are arrays laid out in groups; a probability belongs  *)
(* to a node of a binary tree and the counters are the leaves.             *)
(*                                                                         *)
(* Bounds: the layouts are whole, the arithmetic is checked for some       *)
(* probabilities and for counters up to 26.                                *)
(***************************************************************************)
EXTENDS Integers, SequencesExt, FiniteSetsExt

-----------------------------------------------------------------------------
(* The layouts: groups in the order of the memory, with their sizes.       *)

ProbLayout ==
  << <<"partition_key", 48>>, <<"partition", 48>>, <<"skip", 4>>, <<"tx", 12>>,
     <<"coef", 1600>>, <<"inter_mode", 24>>, <<"interp", 8>>, <<"intra_inter", 4>>,
     <<"comp_inter", 5>>, <<"comp_ref", 5>>, <<"single_ref", 10>>, <<"y_mode", 36>>,
     <<"uv_mode", 92>>, <<"joints", 3>>, <<"sign_0", 1>>, <<"classes_0", 10>>,
     <<"class0_0", 1>>, <<"bits_0", 10>>, <<"sign_1", 1>>, <<"classes_1", 10>>,
     <<"class0_1", 1>>, <<"bits_1", 10>>, <<"fp_0", 9>>, <<"fp_1", 9>>, <<"hp_0", 2>>,
     <<"hp_1", 2>> >>

CountLayout ==
  << <<"coef", 2640>>, <<"intra_inter", 8>>, <<"comp_inter", 10>>, <<"comp_ref", 10>>,
     <<"single_ref", 20>>, <<"tx", 24>>, <<"skip", 6>>, <<"sign_0", 2>>, <<"sign_1", 2>>,
     <<"bits_0", 20>>, <<"bits_1", 20>>, <<"hp_0", 4>>, <<"hp_1", 4>>, <<"inter_mode", 28>>,
     <<"y_mode", 40>>, <<"uv_mode", 100>>, <<"partition", 64>>, <<"interp", 12>>,
     <<"joints", 4>>, <<"classes_0", 11>>, <<"class0_0", 2>>, <<"classes_1", 11>>,
     <<"class0_1", 2>>, <<"fp_0", 12>>, <<"fp_1", 12>> >>

\* the VP9_..._START of a layout
StartsOf(layout) ==
  [g \in {layout[i][1] : i \in DOMAIN layout} |->
     LET i == CHOOSE j \in DOMAIN layout : layout[j][1] = g
     IN  FoldLeft(LAMBDA n, e : n + e[2], 0, SubSeq(layout, 1, i - 1))]

ProbStart  == StartsOf(ProbLayout)
CountStart == StartsOf(CountLayout)

-----------------------------------------------------------------------------
(* The merge of one probability: "left" of "left + right" events went left. *)

Clip(p) == IF p < 1 THEN 1 ELSE IF p > 255 THEN 255 ELSE p

\* round_power_of_two(value, 8)
RoundPower(value) == (value + 128) \div 256

\* clip_prob(div_r32(left * 256 + den / 2, den))
Observed(left, right) == Clip((left * 256 + (left + right) \div 2) \div (left + right))

Weighted(pre, get, factor) == RoundPower(pre * (256 - factor) + get * factor)

\* count_to_update_factor, saturated at MODE_MV_COUNT_SAT
Factor(n) == <<0, 6, 12, 19, 25, 32, 38, 44, 51, 57, 64, 70, 76, 83, 89, 96, 102, 108, 115, 121,
               128>>[(IF n > 20 THEN 20 ELSE n) + 1]

\* vp9_tree_merge_probs
MergeTree(pre, left, right) ==
  IF left + right = 0 THEN pre
  ELSE Weighted(pre, Observed(left, right), Factor(left + right))

\* adapt_coef_probs: faster after a key frame
UpdateFactor(curKey, prevKey) == IF ~curKey /\ prevKey THEN 128 ELSE 112

\* one node of adapt_coef_probs_cxt, saturated at 24
MergeCoef(update, pre, left, right) ==
  LET den == left + right
  IN  Weighted(pre, IF den = 0 THEN 128 ELSE Observed(left, right),
               (update * (IF den > 24 THEN 24 ELSE den)) \div 24)

-----------------------------------------------------------------------------
(* The trees: for every node the leaves on its left and on its right.      *)

CoefTree      == << <<{3}, {4}>>, <<{0}, {1, 2}>>, <<{1}, {2}>> >>
PairTree      == << <<{0}, {1}>> >>
InterModeTree == << <<{2}, {0, 1, 3}>>, <<{0}, {1, 3}>>, <<{1}, {3}>> >>
InterpTree    == << <<{0}, {1, 2}>>, <<{1}, {2}>> >>
PartitionTree == << <<{0}, {1, 2, 3}>>, <<{1}, {2, 3}>>, <<{2}, {3}>> >>
JointsTree    == << <<{0}, {1, 2, 3}>>, <<{1}, {2, 3}>>, <<{2}, {3}>> >>
FpTree        == << <<{0}, {1, 2, 3}>>, <<{1}, {2, 3}>>, <<{2}, {3}>> >>

\* the prediction modes; DC, V, H, D45, D135, D117, D153, D207, D63, TM are 0 .. 9
IntraTree ==
  << <<{0}, 1 .. 9>>, <<{9}, 1 .. 8>>, <<{1}, 2 .. 8>>, <<{2, 5, 4}, {3, 7, 6, 8}>>,
     <<{2}, {5, 4}>>, <<{4}, {5}>>, <<{3}, {7, 6, 8}>>, <<{8}, {7, 6}>>, <<{6}, {7}>> >>

ClassesTree ==
  << <<{0}, 1 .. 10>>, <<{1}, 2 .. 10>>, <<{2, 3}, 4 .. 10>>, <<{2}, {3}>>,
     <<{4, 5}, 6 .. 10>>, <<{4}, {5}>>, <<{6}, 7 .. 10>>, <<{7, 8}, {9, 10}>>, <<{7}, {8}>>,
     <<{9}, {10}>> >>

\* the merges of the k-th copy of a tree
MergesOf(tree, prob, count, leaves, k) ==
  LET at(S) == {count + k * leaves + c : c \in S}
  IN  {[prob |-> prob + k * Len(tree) + n - 1, left |-> at(tree[n][1]), right |-> at(tree[n][2])] :
         n \in DOMAIN tree}

Copies(tree, group, leaves, n) ==
  UNION {MergesOf(tree, ProbStart[group], CountStart[group], leaves, k) : k \in 0 .. n - 1}

\* mutant: band 0 has no padding
BandTight(band) == [prob  |-> IF band = 0 THEN 0 ELSE 9 + 18 * (band - 1),
                    count |-> IF band = 0 THEN 0 ELSE 15 + 29 * (band - 1)]

\* where a band of coefficients begins in its set
Band(band) == [prob  |-> IF band = 0 THEN 0 ELSE 10 + 18 * (band - 1),
               count |-> IF band = 0 THEN 0 ELSE 15 + 30 * (band - 1)]

\* adapt_coef_probs: 4 sizes of transform, 2 planes, 2 types, 6 bands
CoefMerges ==
  UNION {MergesOf(CoefTree,
                  ProbStart["coef"] + 100 * (4 * tx + 2 * plane + type) + Band(at[1]).prob,
                  CountStart["coef"] + 165 * (4 * tx + 2 * plane + type) + Band(at[1]).count,
                  5, at[2]) :
           tx \in 0 .. 3, plane \in 0 .. 1, type \in 0 .. 1,
           at \in {<<0, c>> : c \in 0 .. 2} \cup ((1 .. 5) \X (0 .. 5))}

\* ... of the pairs of counters that have no tree.  A pair that is not the first
\* of one of the eight groups named is sent where VP9_MV_CLASS0_HP_0 begins.
PairNode(count) ==
  LET first == {g \in {"intra_inter", "comp_inter", "tx", "skip", "sign_0", "sign_1", "bits_0",
                       "bits_1"} : CountStart[g] = count}
  IN  IF first = {} THEN ProbStart["hp_0"] ELSE ProbStart[CHOOSE g \in first : TRUE]

Pairs == {c \in CountStart["intra_inter"] .. CountStart["hp_1"] + 3 :
            (c - CountStart["intra_inter"]) % 2 = 0}

\* The rest of adapt_coef_probs.  The loop of the luma modes runs on into those
\* of chroma, and the trees of partitions into the half for inter frames.
ModeMerges  == Copies(InterModeTree, "inter_mode", 4, 7)
IntraMerges == Copies(IntraTree, "y_mode", 10, 14)
PartitionMerges == Copies(PartitionTree, "partition", 4, 16)
InterpMerges    == Copies(InterpTree, "interp", 3, 4)
JointMerges     == Copies(JointsTree, "joints", 4, 1)
ClassMerges  == Copies(ClassesTree, "classes_0", 11, 1) \cup Copies(ClassesTree, "classes_1", 11, 1)
Class0Merges == Copies(PairTree, "class0_0", 2, 1) \cup Copies(PairTree, "class0_1", 2, 1)
FpMerges     == Copies(FpTree, "fp_0", 4, 3) \cup Copies(FpTree, "fp_1", 4, 3)

Merges == UNION {CoefMerges, ModeMerges, IntraMerges, PartitionMerges, InterpMerges,
                 JointMerges, ClassMerges, Class0Merges, FpMerges}

-----------------------------------------------------------------------------
(* What the adaptation promises.                                           *)

\* every node splits all leaves, or one side of one node before it; every side
\* with more than one leaf is split
ProperTree(tree, leaves) ==
  /\ \A n \in DOMAIN tree :
       /\ tree[n][1] \cap tree[n][2] = {}
       /\ n > 1 => \E k \in 1 .. n - 1, side \in {1, 2} :
                     tree[n][1] \cup tree[n][2] = tree[k][side]
  /\ tree[1][1] \cup tree[1][2] = 0 .. leaves - 1
  /\ Len(tree) = leaves - 1

TreesProper ==
  /\ ProperTree(InterModeTree, 4) /\ ProperTree(InterpTree, 3) /\ ProperTree(PartitionTree, 4)
  /\ ProperTree(JointsTree, 4) /\ ProperTree(FpTree, 4) /\ ProperTree(IntraTree, 10)
  /\ ProperTree(ClassesTree, 11)

\* Two merges have a counter in common only when one is above the other in a
\* tree, no two write one probability, and none writes where the pairs do.
OwnPlaces ==
  LET trees == Merges \ CoefMerges
  IN  /\ Cardinality({m.prob : m \in Merges}) = Cardinality(Merges)
      /\ {m.prob : m \in Merges} \cap {PairNode(c) : c \in Pairs} = {}
      /\ \A m \in trees : \A n \in trees :
           LET a == m.left \cup m.right
               b == n.left \cup n.right
           IN  a \cap b = {} \/ a \subseteq b \/ b \subseteq a
      /\ Cardinality(UNION {m.left \cup m.right : m \in CoefMerges}) = CountStart["intra_inter"]
      /\ UNION {m.left \cup m.right : m \in CoefMerges} = 0 .. CountStart["intra_inter"] - 1

\* the new probability lies between the old one and the observed one, is a
\* probability, and moves with what was observed
Moves(merge(_, _, _), pre, counts) ==
  \A left \in counts, right \in counts :
    LET new == merge(pre, left, right)
        get == IF left + right = 0 THEN pre ELSE Observed(left, right)
    IN  /\ new \in (IF get < pre THEN get .. pre ELSE pre .. get)
        /\ new \in 1 .. 255
        /\ right > 0 => new <= merge(pre, left + 1, right - 1)

WeightsRight(probs, counts) ==
  \A pre \in probs :
    /\ Moves(MergeTree, pre, counts)
    /\ \A thisKey \in BOOLEAN, lastKey \in BOOLEAN :
         LET Coef(p, left, right) == MergeCoef(UpdateFactor(thisKey, lastKey), p, left, right)
         IN  Moves(Coef, pre, counts)

\* The probabilities of the next frame follow the counters of this one: the
\* tables of nodes are binary trees over their counters, every probability but
\* those of the pairs has a place and counters of its own, and merging keeps it
\* a probability between the old and the observed one.
\* Code: adapt_coef_probs, adapt_coef_probs_cxt, vp9_tree_merge_probs.
ProbsFollow ==
  TreesProper /\ OwnPlaces /\ WeightsRight({1, 2, 77, 128, 254, 255}, 0 .. 26)
=============================================================================
