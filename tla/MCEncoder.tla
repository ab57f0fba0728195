------------------------------- MODULE MCEncoder -------------------------------
(* Groups of two frames: separate headers, once with and repeated without     *)
(* rate control, and joined headers, repeated; and the rate control itself.   *)
EXTENDS Encoder

Control(j, r, c) == [gop |-> 2, join |-> j, repeat |-> r, rc |-> c]

SomeControls ==
  {Control(FALSE, FALSE, TRUE), Control(FALSE, TRUE, FALSE), Control(TRUE, TRUE, FALSE)}

Rate == INSTANCE Cbr

\* When a frame is configured, the blocks, targets and quantisers of the rate
\* control are what they should be: see Cbr.
RateFollows == pc = "configure" /\ ctl.rc => Rate!RateFollows
=============================================================================
