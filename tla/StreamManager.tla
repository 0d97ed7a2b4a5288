---------------------------- MODULE StreamManager ----------------------------
(***************************************************************************)
(* StreamManager (src/util/StreamManager.cpp) and the main thread that     *)
(* drives it (runMultiStreamMode in src/main.cpp): every configured worker *)
(* is started, then on a signal, or when the HTTP server does not start,   *)
(* the active ones are stopped, and the destructor destroys them all.      *)
(*                                                                         *)
(* The calls go one after the other, on the main thread, while the threads *)
(* of all workers run.  The order of the configuration is abstracted: a    *)
(* loop takes the workers it has not visited yet in any order.             *)
(***************************************************************************)
EXTENDS StreamWorker

VARIABLES
    mpc,            \* where the main thread is
    todo,           \* the workers its current loop has yet to visit
    mgrStopped,     \* StreamManager::stopped_
    started         \* successCount of start()

managerVars == <<mpc, todo, mgrStopped, started>>
allVars == <<vars, managerVars>>

MainPc == {"starting", "running", "stop", "stopping", "stopped", "destroying",
           "gone"}

(* No call on a worker is in progress: the main thread has the control.    *)
AtHome == \A w \in Workers : cpc[w] \in {"idle", "destroyed"}

ManagerInit ==
    /\ Init
    /\ mpc = "starting"
    /\ todo = Workers
    /\ mgrStopped = FALSE
    /\ started = 0

(* start(): one worker after the other.  Every worker is still IDLE, as    *)
(* start() is called once, so that StartRefused has no place here.         *)
StartNext(w) ==
    /\ mpc = "starting" /\ AtHome
    /\ w \in todo
    /\ todo' = todo \ {w}
    /\ StartReset(w)
    /\ UNCHANGED <<mpc, mgrStopped, started>>

(* A step of the call in progress; a start() that returns is counted.      *)
CallProceeds(w) ==
    /\ CallerStep(w)
    /\ started' = started + (IF StartReturn(w) /\ result'[w] THEN 1 ELSE 0)
    /\ UNCHANGED <<mpc, todo, mgrStopped>>

StartDone ==
    /\ mpc = "starting" /\ AtHome
    /\ todo = {}
    /\ mpc' = "running"
    /\ UNCHANGED <<vars, todo, mgrStopped, started>>

(* The signal, or a HTTP server that fails to start: with no stream        *)
(* started the latter leaves stop() to the destructor.                     *)
Shutdown ==
    /\ mpc = "running"
    /\ \/ mpc' = "stop"
       \/ started = 0 /\ mpc' = "stopped"
    /\ UNCHANGED <<vars, todo, mgrStopped, started>>

(* Wrong: nothing is stopped unless every worker is active.                *)
StopBeginAll ==
    /\ mpc = "stop"
    /\ mgrStopped' = TRUE
    /\ \/ /\ \A w \in Workers : isActive(w)
          /\ mpc' = "stopping" /\ todo' = Workers
       \/ /\ \E w \in Workers : ~isActive(w)
          /\ mpc' = "stopped" /\ UNCHANGED todo
    /\ UNCHANGED <<vars, started>>

(* stop(): nothing to do when no worker is active.  The guard on stopped_  *)
(* is in DestroyBegin, the only place that may call stop() again.          *)
StopBegin ==
    /\ mpc = "stop"
    /\ mgrStopped' = TRUE
    /\ \/ /\ \E w \in Workers : isActive(w)
          /\ mpc' = "stopping" /\ todo' = Workers
       \/ /\ \A w \in Workers : ~isActive(w)
          /\ mpc' = "stopped" /\ UNCHANGED todo
    /\ UNCHANGED <<vars, started>>

StopNext(w) ==
    /\ mpc = "stopping" /\ AtHome
    /\ w \in todo
    /\ todo' = todo \ {w}
    /\ IF isActive(w) /\ ~stopped[w] THEN StopEnter(w) ELSE UNCHANGED vars
    /\ UNCHANGED <<mpc, mgrStopped, started>>

StopDone ==
    /\ mpc = "stopping" /\ AtHome
    /\ todo = {}
    /\ mpc' = "stopped"
    /\ UNCHANGED <<vars, todo, mgrStopped, started>>

(* ~StreamManager: stop() once more, then workers_.clear().                *)
DestroyBegin ==
    /\ mpc = "stopped"
    /\ IF mgrStopped THEN mpc' = "destroying" /\ todo' = Workers
                     ELSE mpc' = "stop" /\ UNCHANGED todo
    /\ UNCHANGED <<vars, mgrStopped, started>>

DestroyNext(w) ==
    /\ mpc = "destroying" /\ AtHome
    /\ w \in todo
    /\ todo' = todo \ {w}
    /\ Destroy(w)
    /\ UNCHANGED <<mpc, mgrStopped, started>>

DestroyDone ==
    /\ mpc = "destroying" /\ AtHome
    /\ todo = {}
    /\ mpc' = "gone"
    /\ UNCHANGED <<vars, todo, mgrStopped, started>>

MainStep ==
    \/ \E w \in Workers : StartNext(w) \/ StopNext(w) \/ DestroyNext(w)
    \/ StartDone \/ StopBegin \/ StopDone \/ DestroyBegin \/ DestroyDone

WorkerThread(w) == ThreadStep(w) /\ UNCHANGED managerVars

ManagerNext ==
    \/ MainStep \/ Shutdown
    \/ \E w \in Workers : CallProceeds(w) \/ WorkerThread(w)

ManagerSpec == ManagerInit /\ [][ManagerNext]_allVars

(* The workers' threads are scheduled too, and their blocking calls return *)
(* as StreamWorker assumes.                                                *)
ThreadFairness ==
    \A w \in Workers :
        WF_allVars(WorkerThread(w) /\ (tpc[w] = "read" => srcShutdown[w]))

-----------------------------------------------------------------------------
ManagerTypeOK ==
    /\ TypeOK
    /\ mpc \in MainPc
    /\ todo \subseteq Workers
    /\ mgrStopped \in BOOLEAN
    /\ started \in Nat

(* stop() skips the workers that are not active, and yet leaves no thread  *)
(* running: when the manager's stop() is over every camera thread is over. *)
StopLeavesNoThread ==
    mpc \in {"stopped", "destroying", "gone"} /\ mgrStopped =>
        \A w \in Workers : ~ThreadRuns(w)

(* After the destructor every thread is joined and nothing is held.        *)
GoneMeansReleased ==
    mpc = "gone" =>
        \A w \in Workers : ~Joinable(w) /\ ~source[w] /\ ~muxer[w]

(* Once the signal has come, the process gets through its shutdown,        *)
(* whatever state each camera is in, if the cameras' threads are scheduled.*)
ShutdownCompletes ==
    ThreadFairness => (mpc \in {"stop", "stopped"} ~> mpc = "gone")
=============================================================================
