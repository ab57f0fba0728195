------------------------------ MODULE MCH264Poc ------------------------------
(* Short cycles and narrow fields, so that everything wraps.                  *)
EXTENDS H264Poc

\* two reference frames per cycle, the second a long step
MCCycle  == <<1, 3>>
MCDeltas == {0, 1}
MCNonRef == -1
=============================================================================
