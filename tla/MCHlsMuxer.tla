----------------------------- MODULE MCHlsMuxer -----------------------------
(* A segment lasts 2 ticks of PTS and a packet 1 or 2; the live window is  *)
(* 2 segments.  An int has 5 bits and the two epochs are 43 ticks apart,   *)
(* 43 = 32 + 11: as with the real 6437664000 s and 32 bits, the difference *)
(* wraps to a large positive number.                                       *)
EXTENDS HlsMuxer

CONSTANT none

MCGaps == {1, 2}
=============================================================================
