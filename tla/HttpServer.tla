----------------------------- MODULE HttpServer -----------------------------
(***************************************************************************)
(* HttpServer (src/server/HttpServer.cpp): one listener thread accepts a   *)
(* connection, reads the request, answers it and closes the connection,    *)
(* one client after the other, while the main thread may stop it.          *)
(*                                                                         *)
(* A request is known by how much of its request line has arrived, a       *)
(* response by its kind and size: whether it fits into the buffer of the   *)
(* client's socket or send() has to wait until the client reads.           *)
(***************************************************************************)
EXTENDS Naturals, Sequences

CONSTANTS
    Clients,
    Reading,        \* the clients that read what they are sent
    Backlog         \* BACKLOG of listen(): connections that may wait

ASSUME ServerAssumption == Reading \subseteq Clients /\ Backlog \in Nat \ {0}

VARIABLES
    running,        \* running_
    sock,           \* listening_socket_
    opc,            \* where the main thread is in start(), stop()
    lpc,            \* where the listener thread is
    queue,          \* connections established but not accepted yet
    serving,        \* client_socket of the listener
    response,       \* what it is about to send
    conn,           \* each client's connection
    arrived,        \* how much of the request line the server has got
    hungUp,         \* the client has closed its end
    reply           \* what the client was sent

ownerVars == <<running, sock, opc>>
listenerVars == <<lpc, serving, response>>
clientVars == <<queue, conn, arrived, hungUp, reply>>
vars == <<ownerVars, listenerVars, clientVars>>

OwnerPc == {"idle", "spawn", "unwind", "shutdown", "join", "close", "destroyed"}
ListenerPc == {"none", "check", "accept", "recv", "route", "send", "close", "done"}
Response == {"none", "bad", "small", "large"}

Init ==
    /\ running = FALSE /\ sock = "none" /\ opc = "idle"
    /\ lpc = "none" /\ serving \in Clients /\ response = "none"
    /\ queue = <<>>
    /\ conn = [c \in Clients |-> "away"]
    /\ arrived = [c \in Clients |-> "nothing"]
    /\ hungUp = [c \in Clients |-> FALSE]
    /\ reply = [c \in Clients |-> "none"]
-----------------------------------------------------------------------------
(* start(), on the main thread.  When socket(), bind() or listen() fails   *)
(* nothing has changed; start() of a running server does nothing either.   *)

StartListen ==
    /\ opc = "idle" /\ ~running
    /\ sock' = "listening"
    /\ opc' = "spawn"
    /\ UNCHANGED <<running, listenerVars, clientVars>>

(* The listener thread starts, or its creation throws and the caller's     *)
(* frame, with the server in it, is unwound.                               *)
StartThread ==
    /\ opc = "spawn"
    /\ running' = TRUE
    /\ \/ lpc' = "check" /\ opc' = "idle"
       \/ lpc' = "none" /\ opc' = "unwind"
    /\ UNCHANGED <<sock, serving, response, clientVars>>
-----------------------------------------------------------------------------
(* stop() and the destructor, on the main thread.                          *)

StopEnter ==
    /\ opc \in {"idle", "unwind"} /\ running
    /\ running' = FALSE
    /\ opc' = "shutdown"
    /\ UNCHANGED <<sock, listenerVars, clientVars>>

(* shutdown(): accept() fails from now on, and the connections that were   *)
(* not accepted are reset.                                                 *)
StopShutdown ==
    /\ opc = "shutdown"
    /\ sock' = "shut"
    /\ queue' = <<>>
    /\ conn' = [c \in Clients |-> IF conn[c] = "queued" THEN "away" ELSE conn[c]]
    /\ opc' = "join"
    /\ UNCHANGED <<running, listenerVars, arrived, hungUp, reply>>

(* Wrong: the listener is left to itself.                                  *)
StopJoinDetaches ==
    /\ opc = "join"
    /\ opc' = "close"
    /\ UNCHANGED <<running, sock, listenerVars, clientVars>>

StopJoin ==
    /\ opc = "join"
    /\ lpc \in {"none", "done"}
    /\ lpc' = "none"
    /\ opc' = "close"
    /\ UNCHANGED <<running, sock, serving, response, clientVars>>

StopClose ==
    /\ opc = "close"
    /\ sock' = "none"
    /\ opc' = "idle"
    /\ UNCHANGED <<running, listenerVars, clientVars>>

(* ~HttpServer once stop() has nothing to do; the manager goes next.       *)
Destroy ==
    /\ opc = "idle" /\ ~running
    /\ opc' = "destroyed"
    /\ UNCHANGED <<running, sock, listenerVars, clientVars>>
-----------------------------------------------------------------------------
(* listenerLoop().                                                         *)

(* Wrong: the loop never looks at running_.                                *)
LoopForEver ==
    /\ lpc = "check"
    /\ lpc' = "accept"
    /\ UNCHANGED <<ownerVars, serving, response, clientVars>>

LoopCheck ==
    /\ lpc = "check"
    /\ lpc' = IF running THEN "accept" ELSE "done"
    /\ UNCHANGED <<ownerVars, serving, response, clientVars>>

Accept ==
    /\ lpc = "accept"
    /\ queue # <<>>
    /\ serving' = Head(queue)
    /\ queue' = Tail(queue)
    /\ conn' = [conn EXCEPT ![Head(queue)] = "open"]
    /\ lpc' = "recv"
    /\ UNCHANGED <<ownerVars, response, arrived, hungUp, reply>>

(* accept() times out, is interrupted, or fails.                           *)
AcceptFails ==
    /\ lpc = "accept"
    /\ lpc' = "check"
    /\ UNCHANGED <<ownerVars, serving, response, clientVars>>

(* handleConnection(), readHttpRequest(): one recv(), which returns what   *)
(* has arrived, nothing after 500 ms, or nothing when the client is gone.  *)
ReadRequest ==
    /\ lpc = "recv"
    /\ lpc' = "route"
    /\ arrived[serving] = "line"
    /\ UNCHANGED <<ownerVars, serving, response, clientVars>>

ReadFails ==
    /\ lpc = "recv"
    /\ arrived[serving] # "line"
    /\ response' = "bad"
    /\ lpc' = "send"
    /\ UNCHANGED <<ownerVars, serving, clientVars>>

(* Wrong: an exception of a handler ends the listener thread.              *)
routeRequestThrows ==
    /\ lpc = "route"
    /\ \/ response' \in {"small", "large"} /\ lpc' = "send"
       \/ lpc' = "done" /\ UNCHANGED response
    /\ UNCHANGED <<ownerVars, serving, clientVars>>

(* routeRequest(): a short answer (404, 405, the JSON of the API, 500 when *)
(* a handler throws), or a segment.                                        *)
routeRequest ==
    /\ lpc = "route"
    /\ response' \in {"small", "large"}
    /\ lpc' = "send"
    /\ UNCHANGED <<ownerVars, serving, clientVars>>

(* Wrong: sendResponse() failed, and so the connection is not closed.      *)
sendResponseLeaks ==
    /\ lpc = "send"
    /\ response # "large" \/ serving \in Reading \/ hungUp[serving]
    /\ reply' = IF hungUp[serving] THEN reply ELSE [reply EXCEPT ![serving] = response]
    /\ response' = "none"
    /\ lpc' = IF hungUp[serving] THEN "check" ELSE "close"
    /\ UNCHANGED <<ownerVars, serving, queue, conn, arrived, hungUp>>

(* sendResponse(): send() blocks while the client does not read, and fails *)
(* when it is gone.                                                        *)
sendResponse ==
    /\ lpc = "send"
    /\ response # "large" \/ serving \in Reading \/ hungUp[serving]
    /\ reply' = IF hungUp[serving] THEN reply ELSE [reply EXCEPT ![serving] = response]
    /\ response' = "none"
    /\ lpc' = "close"
    /\ UNCHANGED <<ownerVars, serving, queue, conn, arrived, hungUp>>

CloseConnection ==
    /\ lpc = "close"
    /\ conn' = [conn EXCEPT ![serving] = "away"]
    /\ lpc' = "check"
    /\ UNCHANGED <<ownerVars, serving, response, queue, arrived, hungUp, reply>>
-----------------------------------------------------------------------------
(* The clients.                                                            *)

Connect(c) ==
    /\ conn[c] = "away"
    /\ sock = "listening" /\ Len(queue) < Backlog
    /\ queue' = Append(queue, c)
    /\ conn' = [conn EXCEPT ![c] = "queued"]
    /\ arrived' = [arrived EXCEPT ![c] = "nothing"]
    /\ hungUp' = [hungUp EXCEPT ![c] = FALSE]
    /\ reply' = [reply EXCEPT ![c] = "none"]
    /\ UNCHANGED <<ownerVars, listenerVars>>

(* The request line arrives, in one piece or in two.                       *)
Send(c) ==
    /\ conn[c] # "away" /\ ~hungUp[c]
    /\ \/ arrived[c] = "nothing" /\ arrived' = [arrived EXCEPT ![c] = "part"]
       \/ arrived[c] # "line" /\ arrived' = [arrived EXCEPT ![c] = "line"]
    /\ UNCHANGED <<ownerVars, listenerVars, queue, conn, hungUp, reply>>

HangUp(c) ==
    /\ conn[c] # "away" /\ ~hungUp[c]
    /\ hungUp' = [hungUp EXCEPT ![c] = TRUE]
    /\ UNCHANGED <<ownerVars, listenerVars, queue, conn, arrived, reply>>
-----------------------------------------------------------------------------
(* A call that the main thread is in runs on to its end.                   *)
OwnerStep ==
    \/ StartThread \/ StopShutdown \/ StopJoin \/ StopClose
    \/ opc = "unwind" /\ StopEnter

handleConnection == ReadRequest \/ ReadFails \/ routeRequest \/ sendResponse

listenerLoop ==
    LoopCheck \/ Accept \/ AcceptFails \/ handleConnection \/ CloseConnection

ClientStep == \E c \in Clients : Connect(c) \/ Send(c) \/ HangUp(c)

Next ==
    \/ StartListen \/ OwnerStep \/ StopEnter \/ Destroy
    \/ listenerLoop \/ ClientStep

(* Both threads are scheduled, and accept() does not fail for ever while   *)
(* connections wait.                                                       *)
Fairness == WF_vars(OwnerStep) /\ WF_vars(listenerLoop) /\ SF_vars(Accept)

Spec == Init /\ [][Next]_vars
FairSpec == Spec /\ Fairness
-----------------------------------------------------------------------------
TypeOK ==
    /\ running \in BOOLEAN /\ sock \in {"none", "listening", "shut"}
    /\ opc \in OwnerPc
    /\ lpc \in ListenerPc /\ serving \in Clients /\ response \in Response
    /\ queue \in Seq(Clients)
    /\ conn \in [Clients -> {"away", "queued", "open"}]
    /\ arrived \in [Clients -> {"nothing", "part", "line"}]
    /\ hungUp \in [Clients -> BOOLEAN]
    /\ reply \in [Clients -> Response]

(* The listener never works without what it uses: its socket is open while *)
(* it runs, start() finds no thread to overwrite (std::terminate), and no  *)
(* handler is left when the server is gone and the StreamManager that the  *)
(* handlers call is destroyed.                                             *)
ListenerIsSafe ==
    /\ lpc # "none" => sock # "none"
    /\ opc \in {"spawn", "unwind", "close", "destroyed"} => lpc = "none"

(* Every accepted connection is closed again, whichever way the request    *)
(* went: at any time only the one being handled is open.                   *)
NoConnectionLeaks ==
    \A c \in Clients :
        conn[c] = "open" => c = serving /\ lpc \in {"recv", "route", "send", "close"}

(* stop() comes back, whatever the clients are in the middle of, as long   *)
(* as they read their responses.                                           *)
StopReturns == opc = "shutdown" ~> opc = "idle"

(* A client that waits in the backlog is accepted, or reset because the    *)
(* server stops: slow, silent and vanished clients before it, and handlers *)
(* that throw, do not keep it from its turn.                               *)
EveryoneHasATurn == \A c \in Clients : conn[c] = "queued" ~> conn[c] # "queued"
-----------------------------------------------------------------------------
(* What a comment, a doc or a test says and the code does not do: TLC      *)
(* refutes each property below (README, "Disagreements").                  *)

(* HttpServer.cpp:225: the receive timeout is set "so that a slow or closed *)
(* client cannot stall the server indefinitely".  There is none for send().*)
SlowClientsDoNotStall == lpc = "recv" ~> lpc = "check"

(* HttpServer.h:85, readHttpRequest: "Read HTTP request until blank line,  *)
(* return first line".  It calls recv() once.                              *)
ReadsWholeRequest ==
    [][response' = "bad" /\ response = "none" => arrived[serving] # "part"]_vars
=============================================================================
