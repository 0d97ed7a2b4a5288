---------------------------- MODULE StreamWorker ----------------------------
(***************************************************************************)
(* StreamWorker (src/util/StreamWorker.cpp): one processing thread per     *)
(* camera, started and stopped by another thread.                          *)
(*                                                                         *)
(* Two threads act on a worker w: the caller, inside start(), stop() or    *)
(* the destructor (cpc[w] is where it is), and the processing thread,      *)
(* inside processingLoop() (tpc[w]).  An atomic load or store, the write   *)
(* of rtspSource_ and every call that blocks is a step of its own; the     *)
(* code in between touches nothing the other thread reads.                 *)
(*                                                                         *)
(* readPacket() is RtspSource's: seen from here it blocks until it has a   *)
(* packet or gives up, and it gives up only when a shutdown was requested  *)
(* or reconnecting is disabled.                                            *)
(***************************************************************************)
EXTENDS Naturals

CONSTANTS
    Workers,            \* the streams of the configuration
    Reconnecting        \* those with reconnect.enabled

ASSUME WorkerAssumption == Reconnecting \subseteq Workers

VARIABLES
    status,             \* atomicStatus_
    shutdownRequested,  \* shutdownRequested_
    stopped,            \* stopped_
    source,             \* rtspSource_ is set
    srcShutdown,        \* rtspSource_->shutdown_requested_
    muxer,              \* hlsMuxer_ is set
    initialized,        \* the thread has reached its packet loop
    tpc,                \* where the processing thread is
    cpc,                \* where the caller is
    dying,              \* the caller is inside the destructor
    result              \* what start() returned last

vars == <<status, shutdownRequested, stopped, source, srcShutdown, muxer,
          initialized, tpc, cpc, dying, result>>

Status == {"IDLE", "RUNNING", "RECONNECTING", "ERROR", "SHUTTING_DOWN"}

ThreadPc == {"none", "create_source", "open_source", "init_muxer",
             "set_running", "check", "read", "write", "done"}

CallerPc == {"idle", "spawn", "started", "stop_status", "stop_flag",
             "stop_source", "join", "cleanup", "set_idle", "destroyed"}

isActive(w) == status[w] \in {"RUNNING", "RECONNECTING"}

(* std::thread::joinable() of workerThread_, and whether it still runs.    *)
Joinable(w) == tpc[w] # "none"
ThreadRuns(w) == tpc[w] \notin {"none", "done"}

ThreadGoesTo(w, pc) == tpc' = [tpc EXCEPT ![w] = pc]
CallerGoesTo(w, pc) == cpc' = [cpc EXCEPT ![w] = pc]
SetStatus(w, s) == status' = [status EXCEPT ![w] = s]

Init ==
    /\ status = [w \in Workers |-> "IDLE"]
    /\ shutdownRequested = [w \in Workers |-> FALSE]
    /\ stopped = [w \in Workers |-> FALSE]
    /\ source = [w \in Workers |-> FALSE]
    /\ srcShutdown = [w \in Workers |-> FALSE]
    /\ muxer = [w \in Workers |-> FALSE]
    /\ initialized = [w \in Workers |-> FALSE]
    /\ tpc = [w \in Workers |-> "none"]
    /\ cpc = [w \in Workers |-> "idle"]
    /\ dying = [w \in Workers |-> FALSE]
    /\ result = [w \in Workers |-> FALSE]
-----------------------------------------------------------------------------
(* start(), on the caller's thread.                                        *)

StartRefused(w) ==
    /\ cpc[w] = "idle"
    /\ status[w] # "IDLE"
    /\ result' = [result EXCEPT ![w] = FALSE]
    /\ UNCHANGED <<status, shutdownRequested, stopped, source, srcShutdown,
                   muxer, initialized, tpc, cpc, dying>>

StartReset(w) ==
    /\ cpc[w] = "idle"
    /\ status[w] = "IDLE"
    /\ shutdownRequested' = [shutdownRequested EXCEPT ![w] = FALSE]
    /\ stopped' = [stopped EXCEPT ![w] = FALSE]
    /\ initialized' = [initialized EXCEPT ![w] = FALSE]
    /\ SetStatus(w, "RUNNING")
    /\ CallerGoesTo(w, "spawn")
    /\ UNCHANGED <<source, srcShutdown, muxer, tpc, dying, result>>

(* make_unique<std::thread>: the thread starts, or its creation throws.    *)
Spawn(w) ==
    /\ cpc[w] = "spawn"
    /\ \/ /\ ThreadGoesTo(w, "create_source")
          /\ CallerGoesTo(w, "started")
          /\ UNCHANGED <<status, result>>
       \/ /\ SetStatus(w, "ERROR")
          /\ result' = [result EXCEPT ![w] = FALSE]
          /\ CallerGoesTo(w, "idle")
          /\ UNCHANGED tpc
    /\ UNCHANGED <<shutdownRequested, stopped, source, srcShutdown, muxer,
                   initialized, dying>>

(* After its 100 ms sleep start() reports what the thread has done so far. *)
StartReturn(w) ==
    /\ cpc[w] = "started"
    /\ result' = [result EXCEPT ![w] = status[w] # "ERROR"]
    /\ CallerGoesTo(w, "idle")
    /\ UNCHANGED <<status, shutdownRequested, stopped, source, srcShutdown,
                   muxer, initialized, tpc, dying>>
-----------------------------------------------------------------------------
(* stop() and the destructor, on the caller's thread.                      *)

(* stop() up to its first store: the guards on stopped_ and on IDLE.       *)
StopEnter(w) ==
    /\ cpc[w] = "idle"
    /\ ~stopped[w]
    /\ stopped' = [stopped EXCEPT ![w] = TRUE]
    /\ IF status[w] = "IDLE" THEN UNCHANGED cpc
                             ELSE CallerGoesTo(w, "stop_status")
    /\ UNCHANGED <<status, shutdownRequested, source, srcShutdown, muxer,
                   initialized, tpc, dying, result>>

StopStatus(w) ==
    /\ cpc[w] = "stop_status"
    /\ SetStatus(w, "SHUTTING_DOWN")
    /\ CallerGoesTo(w, "stop_flag")
    /\ UNCHANGED <<shutdownRequested, stopped, source, srcShutdown, muxer,
                   initialized, tpc, dying, result>>

(* Wrong: the flag that the loop looks at is never set.                    *)
StopFlagForgotten(w) ==
    /\ cpc[w] = "stop_flag"
    /\ CallerGoesTo(w, "stop_source")
    /\ UNCHANGED <<status, shutdownRequested, stopped, source, srcShutdown,
                   muxer, initialized, tpc, dying, result>>

StopFlag(w) ==
    /\ cpc[w] = "stop_flag"
    /\ shutdownRequested' = [shutdownRequested EXCEPT ![w] = TRUE]
    /\ CallerGoesTo(w, "stop_source")
    /\ UNCHANGED <<status, stopped, source, srcShutdown, muxer, initialized,
                   tpc, dying, result>>

(* Wrong: the source is not told.                                          *)
StopSourceForgotten(w) ==
    /\ cpc[w] = "stop_source"
    /\ CallerGoesTo(w, "join")
    /\ UNCHANGED <<status, shutdownRequested, stopped, source, srcShutdown,
                   muxer, initialized, tpc, dying, result>>

(* "if (rtspSource_) rtspSource_->requestShutdown()".  The pointer is not  *)
(* atomic: while the thread that assigned it is still in its next call,    *)
(* open(), the caller may yet read null.                                   *)
StopSource(w) ==
    /\ cpc[w] = "stop_source"
    /\ \/ srcShutdown' = [srcShutdown EXCEPT ![w] = source[w]]
       \/ tpc[w] = "open_source" /\ UNCHANGED srcShutdown
    /\ CallerGoesTo(w, "join")
    /\ UNCHANGED <<status, shutdownRequested, stopped, source, muxer,
                   initialized, tpc, dying, result>>

(* Wrong: stop() goes on while the thread still runs.                      *)
JoinSkipped(w) ==
    /\ cpc[w] = "join"
    /\ CallerGoesTo(w, "cleanup")
    /\ UNCHANGED <<status, shutdownRequested, stopped, source, srcShutdown,
                   muxer, initialized, tpc, dying, result>>

Join(w) ==
    /\ cpc[w] = "join"
    /\ ~ThreadRuns(w)
    /\ ThreadGoesTo(w, "none")
    /\ CallerGoesTo(w, "cleanup")
    /\ UNCHANGED <<status, shutdownRequested, stopped, source, srcShutdown,
                   muxer, initialized, dying, result>>

(* Wrong: the muxer, and its open segment, are kept.                       *)
ReleaseSourceOnly(w) ==
    /\ source' = [source EXCEPT ![w] = FALSE]
    /\ srcShutdown' = [srcShutdown EXCEPT ![w] = FALSE]
    /\ UNCHANGED muxer

ReleaseResources(w) ==
    /\ muxer' = [muxer EXCEPT ![w] = FALSE]
    /\ source' = [source EXCEPT ![w] = FALSE]
    /\ srcShutdown' = [srcShutdown EXCEPT ![w] = FALSE]

cleanup(w) ==
    /\ cpc[w] = "cleanup"
    /\ ReleaseResources(w)
    /\ CallerGoesTo(w, "set_idle")
    /\ UNCHANGED <<status, shutdownRequested, stopped, initialized, tpc,
                   dying, result>>

StopReturn(w) ==
    /\ cpc[w] = "set_idle"
    /\ SetStatus(w, "IDLE")
    /\ CallerGoesTo(w, IF dying[w] THEN "destroyed" ELSE "idle")
    /\ UNCHANGED <<shutdownRequested, stopped, source, srcShutdown, muxer,
                   initialized, tpc, dying, result>>

(* ~StreamWorker: stop(), then cleanup().  When stop() has something to do *)
(* its own cleanup() leaves nothing for the second one.                    *)
Destroy(w) ==
    /\ cpc[w] = "idle"
    /\ dying' = [dying EXCEPT ![w] = TRUE]
    /\ stopped' = [stopped EXCEPT ![w] = TRUE]
    /\ IF stopped[w] \/ status[w] = "IDLE"
          THEN ReleaseResources(w) /\ CallerGoesTo(w, "destroyed")
          ELSE CallerGoesTo(w, "stop_status")
               /\ UNCHANGED <<muxer, source, srcShutdown>>
    /\ UNCHANGED <<status, shutdownRequested, initialized, tpc, result>>
-----------------------------------------------------------------------------
(* processingLoop(), on the processing thread.                             *)

(* Wrong: the thread reports ERROR and goes on.                            *)
ThreadGoesOn(w) == ThreadGoesTo(w, "check") /\ SetStatus(w, "ERROR")

(* The store of ERROR and the end of the thread: the lines in between      *)
(* touch nothing that the other thread reads.                              *)
ThreadFails(w) == ThreadGoesTo(w, "done") /\ SetStatus(w, "ERROR")
ThreadEnds(w) == ThreadGoesTo(w, "done") /\ UNCHANGED status

(* initializeSource(): the construction of RtspSource ...                  *)
CreateSource(w) ==
    /\ tpc[w] = "create_source"
    /\ \/ /\ source' = [source EXCEPT ![w] = TRUE]
          /\ srcShutdown' = [srcShutdown EXCEPT ![w] = FALSE]
          /\ ThreadGoesTo(w, "open_source")
          /\ UNCHANGED status
       \/ ThreadFails(w) /\ UNCHANGED <<source, srcShutdown>>
    /\ UNCHANGED <<shutdownRequested, stopped, muxer, initialized, cpc,
                   dying, result>>

(* ... and its open().                                                     *)
OpenSource(w) ==
    /\ tpc[w] = "open_source"
    /\ \/ ThreadGoesTo(w, "init_muxer") /\ UNCHANGED status
       \/ ThreadFails(w)
    /\ UNCHANGED <<shutdownRequested, stopped, source, srcShutdown, muxer,
                   initialized, cpc, dying, result>>

(* initializeMuxer(): when open() fails the muxer object stays.            *)
InitMuxer(w) ==
    /\ tpc[w] = "init_muxer"
    /\ muxer' = [muxer EXCEPT ![w] = TRUE]
    /\ \/ ThreadGoesTo(w, "set_running") /\ UNCHANGED status
       \/ ThreadFails(w)
    /\ UNCHANGED <<shutdownRequested, stopped, source, srcShutdown,
                   initialized, cpc, dying, result>>

(* The store of RUNNING; av_packet_alloc() may fail just after it.         *)
SetRunning(w) ==
    /\ tpc[w] = "set_running"
    /\ initialized' = [initialized EXCEPT ![w] = TRUE]
    /\ \/ ThreadGoesTo(w, "check") /\ SetStatus(w, "RUNNING")
       \/ ThreadFails(w)
    /\ UNCHANGED <<shutdownRequested, stopped, source, srcShutdown, muxer,
                   cpc, dying, result>>

(* Wrong: the loop never looks at the flag.                                *)
LoopForEver(w) ==
    /\ tpc[w] = "check"
    /\ ThreadGoesTo(w, "read")
    /\ UNCHANGED <<status, shutdownRequested, stopped, source, srcShutdown,
                   muxer, initialized, cpc, dying, result>>

LoopCheck(w) ==
    /\ tpc[w] = "check"
    /\ ThreadGoesTo(w, IF shutdownRequested[w] THEN "done" ELSE "read")
    /\ UNCHANGED <<status, shutdownRequested, stopped, source, srcShutdown,
                   muxer, initialized, cpc, dying, result>>

(* readPacket() returns a packet, or gives up and the loop is left.        *)
ReadPacket(w) ==
    /\ tpc[w] = "read"
    /\ \/ ThreadGoesTo(w, "write") /\ UNCHANGED status
       \/ (srcShutdown[w] \/ w \notin Reconnecting) /\ ThreadEnds(w)
    /\ UNCHANGED <<shutdownRequested, stopped, source, srcShutdown, muxer,
                   initialized, cpc, dying, result>>

(* The rest of the loop body: the packet is skipped or written, the muxer  *)
(* refuses it (break), or something throws.                                *)
WritePacket(w) ==
    /\ tpc[w] = "write"
    /\ \/ ThreadGoesTo(w, "check") /\ UNCHANGED status
       \/ ThreadEnds(w)
       \/ ThreadFails(w)
    /\ UNCHANGED <<shutdownRequested, stopped, source, srcShutdown, muxer,
                   initialized, cpc, dying, result>>
-----------------------------------------------------------------------------
(* A call the caller has made runs on to its end.                          *)
CallerStep(w) ==
    \/ Spawn(w) \/ StartReturn(w)
    \/ StopStatus(w) \/ StopFlag(w) \/ StopSource(w) \/ Join(w)
    \/ cleanup(w) \/ StopReturn(w)

ThreadStep(w) ==
    \/ CreateSource(w) \/ OpenSource(w) \/ InitMuxer(w) \/ SetRunning(w)
    \/ LoopCheck(w) \/ ReadPacket(w) \/ WritePacket(w)

Call(w) == StartRefused(w) \/ StartReset(w) \/ StopEnter(w) \/ Destroy(w)

Next == \E w \in Workers : Call(w) \/ CallerStep(w) \/ ThreadStep(w)

(* Both threads are scheduled, open() and the muxer return, and readPacket *)
(* returns once its source was told to shut down; a readPacket that was    *)
(* not told may keep reconnecting for ever.                                *)
Fairness ==
    \A w \in Workers :
        /\ WF_vars(CallerStep(w))
        /\ WF_vars(ThreadStep(w) /\ (tpc[w] = "read" => srcShutdown[w]))

Spec == Init /\ [][Next]_vars
FairSpec == Spec /\ Fairness
-----------------------------------------------------------------------------
TypeOK ==
    /\ status \in [Workers -> Status]
    /\ shutdownRequested \in [Workers -> BOOLEAN]
    /\ stopped \in [Workers -> BOOLEAN]
    /\ source \in [Workers -> BOOLEAN]
    /\ srcShutdown \in [Workers -> BOOLEAN]
    /\ muxer \in [Workers -> BOOLEAN]
    /\ initialized \in [Workers -> BOOLEAN]
    /\ tpc \in [Workers -> ThreadPc]
    /\ cpc \in [Workers -> CallerPc]
    /\ dying \in [Workers -> BOOLEAN]
    /\ result \in [Workers -> BOOLEAN]

(* Once stop() waits for the thread, the thread cannot be (or ever get)    *)
(* into a readPacket() that nobody told to give up: whichever way the      *)
(* store of shutdownRequested_, the read of rtspSource_ in stop() and its  *)
(* assignment in the thread are ordered, one of the two checks is seen.    *)
NoLostShutdown ==
    \A w \in Workers :
        cpc[w] = "join" /\ tpc[w] = "read" => srcShutdown[w]

(* workerThread_ is never overwritten or destroyed while joinable (which   *)
(* would call std::terminate), and cleanup() never frees the source and    *)
(* the muxer under a thread that uses them.                                *)
JoinedBeforeReuse ==
    \A w \in Workers :
        cpc[w] \in {"spawn", "cleanup", "set_idle", "destroyed"} => ~Joinable(w)

(* A worker that is IDLE, or gone, holds nothing: no thread, no            *)
(* connection, no open segment.                                            *)
IdleHoldsNothing ==
    \A w \in Workers :
        (status[w] = "IDLE" \/ cpc[w] = "destroyed") =>
            ~Joinable(w) /\ ~source[w] /\ ~muxer[w]

(* ERROR is reported only for a thread that is over, or was never made: a  *)
(* caller that skips workers in ERROR (StreamManager::stop) leaves nothing *)
(* running behind.                                                         *)
ErrorMeansOver ==
    \A w \in Workers : status[w] = "ERROR" => ~ThreadRuns(w)

(* stop() and the destructor come back whenever they are called.           *)
StopReturns ==
    \A w \in Workers :
        cpc[w] = "stop_status" ~> cpc[w] \in {"idle", "destroyed"}
-----------------------------------------------------------------------------
(* What a comment, a doc or a test says and the code does not do: TLC      *)
(* refutes each property below (README, "Disagreements").                  *)

(* StreamWorker.h:46: RUNNING is "Active and processing packets".  The     *)
(* thread leaves its loop on a failed read or write without saying so.     *)
RunningMeansProcessing ==
    \A w \in Workers :
        isActive(w) /\ cpc[w] = "idle" => ThreadRuns(w)

(* StreamWorker.h:49: SHUTTING_DOWN is "Graceful shutdown in progress".    *)
(* A thread still initialising overwrites it with RUNNING.                 *)
ShuttingDownIsShown ==
    \A w \in Workers :
        cpc[w] \in {"stop_flag", "stop_source", "join"} => ~isActive(w)

(* StreamWorker.h, start(): "Returns true on success, false if already     *)
(* running or initialization fails".  It looks only once, after 100 ms.    *)
StartReportsInit ==
    \A w \in Workers :
        cpc[w] = "idle" /\ result[w] /\ status[w] = "ERROR" => initialized[w]
=============================================================================
