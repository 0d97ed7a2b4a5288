--------------------------- MODULE MCStreamWorker ---------------------------
(* Two workers that do not interact, one with reconnecting disabled.       *)
EXTENDS StreamWorker

CONSTANTS cam1, cam2

MCWorkers == {cam1, cam2}
MCReconnecting == {cam1}
=============================================================================
