---------------------------- MODULE DetectionPool ----------------------------
(***************************************************************************)
(* DetectionWorkerPool (src/ai_inference/worker_pool.py) and the main      *)
(* thread around it (__main__.py): one DetectionWorker per enabled stream, *)
(* started one after the other and stopped by a signal handler, which      *)
(* Python runs on the main thread, between any two steps of it.            *)
(***************************************************************************)
EXTENDS DetectionWorker

VARIABLES
    mpc,            \* where the main thread is
    todo,           \* the streams its present loop has yet to visit
    starting,       \* the worker started but not yet in self.workers
    workers,        \* self.workers
    poolRunning     \* self.running of the pool

poolVars == <<mpc, todo, starting, workers, poolRunning>>
allVars == <<vars, poolVars>>

MainPc == {"starting", "serving", "failing", "stopping", "exited"}

PoolInit ==
    /\ Init
    /\ mpc = "starting" /\ todo = Streams
    /\ starting = {} /\ workers = {}
    /\ poolRunning = TRUE

(* The threads are daemons: they end with the process.                     *)
Alive == mpc # "exited"
-----------------------------------------------------------------------------
(* start(), _start_worker().  When a worker cannot be made running is      *)
(* reset and the exception goes to main(); the workers already made go on. *)

StartWorker(s) ==
    /\ mpc = "starting" /\ starting = {}
    /\ s \in todo
    /\ todo' = todo \ {s}
    /\ \/ start(s) /\ starting' = {s} /\ UNCHANGED <<mpc, poolRunning>>
       \/ mpc' = "failing" /\ poolRunning' = FALSE /\ UNCHANGED <<vars, starting>>
    /\ UNCHANGED workers

RegisterWorker ==
    /\ mpc = "starting" /\ starting # {}
    /\ workers' = workers \union starting
    /\ starting' = {}
    /\ UNCHANGED <<vars, mpc, todo, poolRunning>>

(* The except branch of main(): pool.stop() returns at once, as running is *)
(* reset, and sys.exit() follows.  No worker is stopped.                   *)
GiveUp ==
    /\ mpc = "failing" /\ ~poolRunning
    /\ mpc' = "exited"
    /\ UNCHANGED <<vars, todo, starting, workers, poolRunning>>

StartDone ==
    /\ mpc = "starting" /\ starting = {} /\ todo = {}
    /\ mpc' = "serving"
    /\ UNCHANGED <<vars, todo, starting, workers, poolRunning>>
-----------------------------------------------------------------------------
(* signal_handler(): stop(), then sys.exit().                              *)

AtHome == \A s \in Streams : stopper[s] \in {"no", "stopped"}

Signal ==
    /\ mpc \in {"starting", "serving"}
    /\ poolRunning' = FALSE
    /\ mpc' = "stopping" /\ todo' = workers
    /\ UNCHANGED <<vars, starting, workers>>

(* A second signal, or one after a failed start, finds running reset: its  *)
(* sys.exit() ends the stop() of the first one.                            *)
SecondSignal ==
    /\ mpc \in {"stopping", "failing"}
    /\ mpc' = "exited"
    /\ UNCHANGED <<vars, todo, starting, workers, poolRunning>>

StopWorker(s) ==
    /\ mpc = "stopping" /\ AtHome
    /\ s \in todo
    /\ todo' = todo \ {s}
    /\ StopFlag(s)
    /\ UNCHANGED <<mpc, starting, workers, poolRunning>>

StopProceeds(s) ==
    /\ mpc = "stopping"
    /\ StopStep(s)
    /\ UNCHANGED poolVars

StopDone ==
    /\ mpc = "stopping" /\ AtHome /\ todo = {}
    /\ mpc' = "exited" /\ workers' = {}
    /\ UNCHANGED <<vars, todo, starting, poolRunning>>
-----------------------------------------------------------------------------
MainStep ==
    \/ \E s \in Streams : StartWorker(s) \/ StopWorker(s) \/ StopProceeds(s)
    \/ RegisterWorker \/ GiveUp \/ StartDone \/ StopDone

WorkerThread(s) == Alive /\ run(s) /\ UNCHANGED poolVars

Muxer(s) == Alive /\ (SegmentCloses(s) \/ MuxerReopens(s)) /\ UNCHANGED poolVars

PoolNext ==
    \/ MainStep \/ Signal \/ SecondSignal
    \/ \E s \in Streams : WorkerThread(s) \/ Muxer(s)

(* The main thread runs; the muxers and the signals may not.               *)
PoolSpec == PoolInit /\ [][PoolNext]_allVars
MainFairPoolSpec == PoolSpec /\ WF_allVars(MainStep)

(* The worker's thread runs too, and its calls all return: ffmpeg is given *)
(* 10 s.                                                                   *)
ThreadFairness(s) == WF_allVars(WorkerThread(s))
-----------------------------------------------------------------------------
PoolTypeOK ==
    /\ TypeOK
    /\ mpc \in MainPc /\ todo \subseteq Streams
    /\ starting \subseteq Streams /\ workers \subseteq Streams
    /\ poolRunning \in BOOLEAN

(* A segment is processed once by a worker, although a muxer that was      *)
(* opened again may put an older one at the end of its list.               *)
NoSegmentTwice ==
    [][\A s \in Streams :
          thread[s] = "poll" /\ thread'[s] = "extract" => segment'[s] \notin taken[s]]_allVars

(* Whoever called stop() can rely on it: once it has returned, the worker  *)
(* adds nothing to the database, even if its thread goes on.               *)
StoppedStoresNothing ==
    [][\A s \in Streams : stopper[s] = "stopped" => stored'[s] = stored[s]]_allVars

(* A worker does not fall behind for good: the end of the list, however    *)
(* many segments were skipped and whatever order the list is in, is taken, *)
(* unless the worker stops or crashes, or the list has moved back.         *)
FollowsTheStream ==
    \A s \in Streams :
        ThreadFairness(s) =>
            (tail[s] > 0 /\ tail[s] > lastIndex[s] /\ thread[s] # "none" ~>
                tail[s] <= lastIndex[s] \/ tail[s] = 0 \/ thread[s] = "done" \/ ~Alive)

(* The signal ends the process, and so does a worker that cannot be made   *)
(* (the except branch of main()), whatever the threads of the workers      *)
(* already started are doing: after a failed start nobody stops those.     *)
ShutdownEnds == mpc \in {"stopping", "failing"} ~> mpc = "exited"
-----------------------------------------------------------------------------
(* What a comment, a doc or a test says and the code does not do: TLC      *)
(* refutes each property below (README, "Disagreements").                  *)

(* detection_worker.py:173, stop(): "Stop worker thread gracefully."  A    *)
(* thread that has not got to the first line of run() undoes the request.  *)
StopIsHeard == \A s \in Streams : stopper[s] = "stopped" => ~running[s]

(* docs/design.md:664: "Graceful shutdown of all workers and database      *)
(* connections".  stop() closes the connection after 5 s under a thread    *)
(* whose wait for a frame may take 10 s: the detection is lost.            *)
NothingDropped == \A s \in Streams : ~dropped[s]
=============================================================================
