-------------------------- MODULE MCStreamManager --------------------------
(* Two cameras, one of which reconnects; whether packets are counted more  *)
(* than once makes no difference to a report that takes each as it is.     *)
EXTENDS StreamHealth

CONSTANTS cam1, cam2

MCWorkers == {cam1, cam2}
MCReconnecting == {cam1}
=============================================================================
