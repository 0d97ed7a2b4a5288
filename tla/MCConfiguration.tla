-------------------------- MODULE MCConfiguration --------------------------
(* Settings that are missing, zero, negative, at a bound and past it; each *)
(* section has values that clash with the defaults of the others.          *)
EXTENDS Configuration

CONSTANTS none, a, b, u, d

MCReconnectNodes ==
    [initial : {none, 0, -1, 40000}, max : {none, 999, 40000},
     jitter : {none, 101}, stale : {none, 0}] \union {none}

MCStreamNodes ==
    [name : {a, b}, url : {u}, dir : {none, d}, reconnect : MCReconnectNodes]
        \union [name : {none, a}, url : {none, u}, dir : {d}, reconnect : {none}]

MCRtspNodes == [url : {none, u}, legal : BOOLEAN, reconnect : MCReconnectNodes]

MCHlsNodes ==
    [duration : {none, 0, 1}, retention : {none, 0, 600000}, interval : {none, 0}]
        \union {none}

MCPorts == {none, 0, -1, 80, 65536}

MCInferenceNodes ==
    [id : {a, b}, enabled : BOOLEAN, in : {none, d}, out : {none, d}]
=============================================================================
