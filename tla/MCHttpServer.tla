---------------------------- MODULE MCHttpServer ----------------------------
(* Two clients: one is served while the other waits, leaves or comes back. *)
EXTENDS HttpServer

CONSTANTS a, b

MCClients == {a, b}
MCNone == {}
=============================================================================
