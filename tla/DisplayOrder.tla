---------------------------- MODULE DisplayOrder ----------------------------
(***************************************************************************)
(* What a decoder that reorders promises its user: every picture of the    *)
(* stream is shown once, in display order, without a gap, and after it     *)
(* was decoded.  Pictures are numbered in display order.                   *)
(***************************************************************************)
EXTENDS Naturals

CONSTANT Picture    \* the display numbers of the stream, naturals

VARIABLES
  coded,  \* the pictures decoded so far
  shown   \* the number after that of the last picture shown

vars == <<coded, shown>>

Init == coded = {} /\ shown = 0

Decode(n) ==
  /\ n \notin coded
  /\ coded' = coded \cup {n}
  /\ UNCHANGED shown

Show ==
  /\ shown \in coded
  /\ shown' = shown + 1
  /\ UNCHANGED coded

Next == Show \/ \E n \in Picture : Decode(n)

Spec == Init /\ [][Next]_vars
=============================================================================
