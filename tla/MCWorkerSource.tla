--------------------------- MODULE MCWorkerSource ---------------------------
(* One of two workers, with and without reconnecting.  uint32_t has 5 bits.*)
(* A second has 2 ticks, a source is stale after more than 1 s, and the    *)
(* delays are 2, 4 and then 6 ticks, give or take a half.                  *)
EXTENDS WorkerSource

CONSTANTS cam1, cam2

MCWorkers == {cam1, cam2}
MCReconnecting == {cam1}
MCJitter == {-50, 0, 50}
=============================================================================
