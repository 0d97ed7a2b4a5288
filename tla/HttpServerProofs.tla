--------------------------- MODULE HttpServerProofs ---------------------------
(***************************************************************************)
(* The safety of HttpServer for any number of clients and any backlog.     *)
(* OwnerInv says what the place of the main thread tells about the socket  *)
(* and the listener: this is the handshake of stop(), which closes the     *)
(* socket only after the join.                                             *)
(***************************************************************************)
EXTENDS HttpServer, TLAPS

OwnerInv ==
    /\ opc = "idle" => (running <=> sock # "none") /\ (running => sock = "listening")
    /\ opc = "idle" /\ ~running => lpc = "none"
    /\ opc = "spawn" => ~running /\ sock = "listening" /\ lpc = "none"
    /\ opc = "unwind" => running /\ sock = "listening" /\ lpc = "none"
    /\ opc \in {"shutdown", "join"} => ~running /\ sock # "none"
    /\ opc = "close" => ~running /\ lpc = "none"
    /\ opc = "destroyed" => ~running /\ sock = "none" /\ lpc = "none"

ServerInv == TypeOK /\ OwnerInv /\ NoConnectionLeaks

LEMMA ServerInit == Init => ServerInv
<1> SUFFICES ASSUME Init PROVE ServerInv
  OBVIOUS
<1>1. /\ running \in BOOLEAN /\ hungUp \in [Clients -> BOOLEAN]
  BY Zenon DEF Init
<1>2. /\ sock \in {"none", "listening", "shut"} /\ opc \in OwnerPc
      /\ lpc \in ListenerPc /\ serving \in Clients /\ response \in Response
      /\ queue \in Seq(Clients)
      /\ conn \in [Clients -> {"away", "queued", "open"}]
      /\ arrived \in [Clients -> {"nothing", "part", "line"}]
      /\ reply \in [Clients -> Response]
  BY DEF Init, OwnerPc, ListenerPc, Response
<1>3. OwnerInv
  BY DEF Init, OwnerInv
<1>4. NoConnectionLeaks
  BY DEF Init, NoConnectionLeaks
<1>5. QED
  BY <1>1, <1>2, <1>3, <1>4 DEF ServerInv, TypeOK

(* The steps of the main thread.                                           *)
LEMMA OwnerKeepsServerInv ==
    ServerInv /\ (StartListen \/ OwnerStep \/ StopEnter \/ Destroy) => ServerInv'
<1> SUFFICES ASSUME ServerInv, StartListen \/ OwnerStep \/ StopEnter \/ Destroy
             PROVE  ServerInv'
  OBVIOUS
<1> USE DEF ServerInv, TypeOK, OwnerInv, NoConnectionLeaks, OwnerPc, ListenerPc,
            Response, listenerVars, clientVars
<1>1. CASE StartListen
  BY <1>1 DEF StartListen
<1>2. CASE StartThread
  BY <1>2 DEF StartThread
<1>3. CASE StopEnter
  BY <1>3 DEF StopEnter
<1>4. CASE StopShutdown
  BY <1>4 DEF StopShutdown
<1>5. CASE StopJoin
  BY <1>5 DEF StopJoin
<1>6. CASE StopClose
  BY <1>6 DEF StopClose
<1>7. CASE Destroy
  BY <1>7 DEF Destroy
<1>8. QED
  BY <1>1, <1>2, <1>3, <1>4, <1>5, <1>6, <1>7 DEF OwnerStep

(* The steps of the listener thread.                                       *)
LEMMA ListenerKeepsServerInv == ServerInv /\ listenerLoop => ServerInv'
<1> SUFFICES ASSUME ServerInv, listenerLoop PROVE ServerInv'
  OBVIOUS
<1> USE DEF ServerInv, TypeOK, OwnerInv, NoConnectionLeaks, OwnerPc, ListenerPc,
            Response, ownerVars, clientVars
<1>1. CASE LoopCheck
  BY <1>1 DEF LoopCheck
<1>2. CASE Accept
  BY <1>2 DEF Accept
<1>3. CASE AcceptFails
  BY <1>3 DEF AcceptFails
<1>4. CASE ReadRequest
  BY <1>4 DEF ReadRequest
<1>5. CASE ReadFails
  BY <1>5 DEF ReadFails
<1>6. CASE routeRequest
  BY <1>6 DEF routeRequest
<1>7. CASE sendResponse
  BY <1>7 DEF sendResponse
<1>8. CASE CloseConnection
  BY <1>8 DEF CloseConnection
<1>9. QED
  BY <1>1, <1>2, <1>3, <1>4, <1>5, <1>6, <1>7, <1>8
     DEF listenerLoop, handleConnection

(* The steps of the clients.                                               *)
LEMMA ClientsKeepServerInv == ServerInv /\ (ClientStep \/ UNCHANGED vars) => ServerInv'
<1> SUFFICES ASSUME ServerInv, ClientStep \/ UNCHANGED vars PROVE ServerInv'
  OBVIOUS
<1> USE DEF ServerInv, TypeOK, OwnerInv, NoConnectionLeaks, OwnerPc, ListenerPc,
            Response, ownerVars, listenerVars
<1>1. ASSUME NEW c \in Clients, Connect(c) PROVE ServerInv'
  BY <1>1 DEF Connect
<1>2. ASSUME NEW c \in Clients, Send(c) PROVE ServerInv'
  BY <1>2 DEF Send
<1>3. ASSUME NEW c \in Clients, HangUp(c) PROVE ServerInv'
  BY <1>3 DEF HangUp
<1>4. CASE UNCHANGED vars
  BY <1>4 DEF vars, clientVars
<1>5. QED
  BY <1>1, <1>2, <1>3, <1>4 DEF ClientStep

(* ServerInv holds throughout.                                             *)
THEOREM ServerHolds == Spec => []ServerInv
<1>1. ServerInv /\ [Next]_vars => ServerInv'
  BY OwnerKeepsServerInv, ListenerKeepsServerInv, ClientsKeepServerInv DEF Next
<1>2. QED
  BY ServerInit, <1>1, PTL DEF Spec

(* ListenerIsSafe: the socket outlives the listener, and the listener is   *)
(* joined before the server and the StreamManager go.                      *)
THEOREM ListenerOutlived == Spec => []ListenerIsSafe
<1>1. ServerInv => ListenerIsSafe
  BY DEF ServerInv, TypeOK, OwnerPc, OwnerInv, ListenerIsSafe
<1>2. QED
  BY <1>1, ServerHolds, PTL

(* NoConnectionLeaks: every accepted connection is closed.                 *)
THEOREM ConnectionsClosed == Spec => []NoConnectionLeaks
<1>1. ServerInv => NoConnectionLeaks
  BY DEF ServerInv
<1>2. QED
  BY <1>1, ServerHolds, PTL
=============================================================================
