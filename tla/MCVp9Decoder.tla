----------------------------- MODULE MCVp9Decoder -----------------------------
(* Small instances of Vp9Decoder, with the tables the interrupt thread gives  *)
(* to the hardware.                                                           *)
EXTENDS Vp9Decoder

MCPacketSize == <<2, 1, 1>>
MCPayload    == <<1, 1, 1>>
BufSymmetry  == Permutations(SrcBuf) \cup Permutations(DstBuf)
SlotSymmetry == BufSymmetry \cup Permutations(RefSlot)

Probs  == INSTANCE Vp9Probs
Filter == INSTANCE Vp9LoopFilter

\* When a frame has been set up, its probabilities follow the counters of the last
\* one and its filter levels the header: see Vp9Probs and Vp9LoopFilter.  Not claimed of
\* the pairs (PairNode): all but the first of a group adapt another probability.
TablesRight == codec = "idle" /\ frames # {} => Probs!ProbsFollow /\ Filter!FilterFollows
=============================================================================
