-------------------------- MODULE MCStreamPipeline --------------------------
(* A source time base of 1/3 and an output of 2 ticks per second: frames   *)
(* of different timestamps may fall on the same tick.  MCSteady is a source *)
(* that sends its frames evenly.                                           *)
EXTENDS StreamPipeline

CONSTANT none

MCSteps == -1..2
MCSteady == {1}
MCGaps == 1..9
MCStamps == -20..20
=============================================================================
