------------------------- MODULE DetectionPoolProofs -------------------------
(***************************************************************************)
(* What DetectionWorker promises about its database and its segments, for  *)
(* every set of streams and every bound.                                   *)
(***************************************************************************)
EXTENDS DetectionPool, TLAPS

(* stop() is called for started workers only, closes the connection before *)
(* it returns, and nothing opens it again; a thread that is saving has     *)
(* something left to save, of a segment it has taken.                      *)
StopsCleanly ==
    \A s \in Streams :
        /\ thread[s] = "none" => stopper[s] = "no"
        /\ stopper[s] \in {"rejoin", "stopped"} => db[s] = "closed"
        /\ thread[s] \in {"save", "insert"} => left[s] > 0
        /\ thread[s] \in {"extract", "save", "insert"} => segment[s] > 0

OnlyStarted ==
    /\ \A s \in workers \union starting : thread[s] # "none"
    /\ mpc = "stopping" => todo \subseteq workers

TakenInOrder == \A s \in Streams : \A n \in taken[s] : n <= lastIndex[s]

PoolInv == PoolTypeOK /\ StopsCleanly /\ OnlyStarted /\ TakenInOrder
-----------------------------------------------------------------------------
LEMMA InitHolds == PoolInit => PoolInv
  BY DetectionAssumption
     DEF PoolInit, Init, PoolInv, PoolTypeOK, TypeOK, StopsCleanly, OnlyStarted,
         TakenInOrder, ThreadPc, StopPc, MainPc

(* A step of a worker's thread.                                            *)
LEMMA ThreadKeeps ==
  ASSUME PoolInv, NEW s \in Streams, WorkerThread(s)
  PROVE  PoolInv'
<1>0. run(s)
  BY DEF WorkerThread
<1> USE DetectionAssumption
    DEF PoolInv, PoolTypeOK, TypeOK, StopsCleanly, OnlyStarted, TakenInOrder,
        ThreadPc, StopPc, MainPc, WorkerThread, poolVars, GoesTo,
        archiveVars, threadVars, controlVars
<1>1. CASE RunBegins(s)
  BY <1>1 DEF RunBegins
<1>2. CASE RunCheck(s)
  BY <1>2 DEF RunCheck
<1>3. CASE SegmentFound(s)
  BY <1>3 DEF SegmentFound, IsNew
<1>4. CASE NothingFound(s)
  BY <1>4 DEF NothingFound
<1>5. CASE Detect(s)
  BY <1>5 DEF Detect
<1>6. CASE SaveFrames(s)
  BY <1>6 DEF SaveFrames
<1>7. CASE Insert(s)
  <2>1. stored' \in [Streams -> SUBSET (1..MaxSegment)]
    BY <1>7 DEF Insert
  <2>2. dropped' \in [Streams -> BOOLEAN]
    BY <1>7 DEF Insert
  <2>3. left' \in [Streams -> 0..MaxDetections]
    BY <1>7 DEF Insert
  <2> QED  BY <1>7, <2>1, <2>2, <2>3 DEF Insert
<1>8. CASE RunEnds(s)
  BY <1>8 DEF RunEnds
<1> QED
  BY ONLY <1>0, <1>1, <1>2, <1>3, <1>4, <1>5, <1>6, <1>7, <1>8 DEF run

(* A step of a stream's muxer.                                             *)
LEMMA MuxerKeeps ==
  ASSUME PoolInv, NEW s \in Streams, Muxer(s)
  PROVE  PoolInv'
<1> USE DetectionAssumption
    DEF PoolInv, PoolTypeOK, TypeOK, StopsCleanly, OnlyStarted, TakenInOrder,
        Muxer, poolVars, threadVars, controlVars
<1>1. CASE SegmentCloses(s)
  BY <1>1 DEF SegmentCloses
<1>2. CASE MuxerReopens(s)
  BY <1>2 DEF MuxerReopens
<1> QED  BY <1>1, <1>2

(* A step of the main thread for one worker.                               *)
LEMMA WorkerCallKeeps ==
  ASSUME PoolInv, NEW s \in Streams,
         StartWorker(s) \/ StopWorker(s) \/ StopProceeds(s)
  PROVE  PoolInv'
<1> USE DetectionAssumption
    DEF PoolInv, PoolTypeOK, TypeOK, StopsCleanly, OnlyStarted, TakenInOrder,
        ThreadPc, StopPc, MainPc, poolVars, GoesTo, vars, archiveVars, threadVars,
        controlVars
<1>1. CASE StartWorker(s)
  <2>1. CASE start(s) /\ starting' = {s} /\ UNCHANGED <<mpc, poolRunning>>
    BY <1>1, <2>1 DEF StartWorker, start
  <2>2. CASE mpc' = "failing" /\ poolRunning' = FALSE /\ UNCHANGED <<vars, starting>>
    BY <1>1, <2>2 DEF StartWorker
  <2> QED  BY <1>1, <2>1, <2>2 DEF StartWorker
<1>2. CASE StopWorker(s)
  BY <1>2 DEF StopWorker, StopFlag
<1>3. CASE StopProceeds(s)
  <2>1. CASE StopClose(s)
    BY <1>3, <2>1 DEF StopProceeds, StopClose
  <2>2. CASE StopReturn(s)
    BY <1>3, <2>2 DEF StopProceeds, StopReturn
  <2> QED  BY <1>3, <2>1, <2>2 DEF StopProceeds, StopStep
<1> QED  BY <1>1, <1>2, <1>3

(* The other steps of the main thread, and the signals.                    *)
LEMMA MainKeeps ==
  ASSUME PoolInv,
         RegisterWorker \/ GiveUp \/ StartDone \/ StopDone \/ Signal \/ SecondSignal
  PROVE  PoolInv'
<1> USE DEF PoolInv, PoolTypeOK, TypeOK, StopsCleanly, OnlyStarted, TakenInOrder,
            MainPc, vars, archiveVars, threadVars, controlVars
<1>1. CASE RegisterWorker
  BY <1>1 DEF RegisterWorker
<1>2. CASE StartDone
  BY <1>2 DEF StartDone
<1>3. CASE StopDone
  BY <1>3 DEF StopDone
<1>4. CASE Signal
  BY <1>4 DEF Signal
<1>5. CASE SecondSignal
  BY <1>5 DEF SecondSignal
<1>6. CASE GiveUp
  BY <1>6 DEF GiveUp
<1> QED  BY <1>1, <1>2, <1>3, <1>4, <1>5, <1>6

LEMMA NextKeeps == PoolInv /\ [PoolNext]_allVars => PoolInv'
<1> SUFFICES ASSUME PoolInv, [PoolNext]_allVars PROVE PoolInv'
  OBVIOUS
<1>1. CASE UNCHANGED allVars
  BY <1>1 DEF allVars, vars, archiveVars, threadVars, controlVars, poolVars,
              PoolInv, PoolTypeOK, TypeOK, StopsCleanly, OnlyStarted, TakenInOrder
<1>2. CASE PoolNext
  BY <1>2, ThreadKeeps, MuxerKeeps, WorkerCallKeeps, MainKeeps DEF PoolNext, MainStep
<1> QED  BY <1>1, <1>2

(* The invariant of the pool, its type invariant included.                 *)
THEOREM PoolHolds == PoolSpec => []PoolInv
  BY InitHolds, NextKeeps, PTL DEF PoolSpec
-----------------------------------------------------------------------------
LEMMA OtherThread ==
  ASSUME NEW s \in Streams, NEW t \in Streams, s # t, WorkerThread(t), PoolInv
  PROVE  stored'[s] = stored[s] /\ thread'[s] = thread[s]
  BY DEF WorkerThread, run, RunBegins, RunCheck, SegmentFound, NothingFound, Detect,
         SaveFrames, Insert, RunEnds, GoesTo, PoolInv, PoolTypeOK, TypeOK

(* Only a worker's own thread touches what it has stored, and finding a    *)
(* segment is a step of that thread.                                       *)
LEMMA NotTheThread ==
  ASSUME NEW s \in Streams, PoolInv, [PoolNext]_allVars, ~WorkerThread(s)
  PROVE  /\ stored'[s] = stored[s]
         /\ thread[s] = "poll" => thread'[s] = "poll"
<1>1. CASE UNCHANGED allVars
  BY <1>1 DEF allVars, vars, threadVars
<1>2. CASE \E t \in Streams : WorkerThread(t)
  BY <1>2, OtherThread
<1>3. CASE \E t \in Streams : Muxer(t)
  BY <1>3 DEF Muxer, SegmentCloses, MuxerReopens, threadVars
<1>4. CASE \E t \in Streams : StartWorker(t)
  BY <1>4 DEF StartWorker, start, GoesTo, vars, threadVars, PoolInv, PoolTypeOK, TypeOK
<1>5. CASE \E t \in Streams : StopWorker(t) \/ StopProceeds(t)
  BY <1>5 DEF StopWorker, StopFlag, StopProceeds, StopStep, StopClose, StopReturn,
              threadVars
<1>6. CASE RegisterWorker \/ GiveUp \/ StartDone \/ StopDone \/ Signal \/ SecondSignal
  BY <1>6 DEF RegisterWorker, GiveUp, StartDone, StopDone, Signal, SecondSignal, vars,
              threadVars
<1> QED  BY <1>1, <1>2, <1>3, <1>4, <1>5, <1>6 DEF PoolNext, MainStep

(* After stop() has returned for a worker, its thread may go on, but the   *)
(* database gets nothing more from it: the connection is closed for good.  *)
THEOREM StopEndsStoring == PoolSpec => StoppedStoresNothing
<1>1. PoolInv /\ [PoolNext]_allVars =>
        \A s \in Streams : stopper[s] = "stopped" => stored'[s] = stored[s]
  <2> SUFFICES ASSUME PoolInv, [PoolNext]_allVars, NEW s \in Streams,
                      stopper[s] = "stopped"
               PROVE  stored'[s] = stored[s]
    OBVIOUS
  <2>1. db[s] = "closed"
    BY DEF PoolInv, StopsCleanly
  <2>2. CASE WorkerThread(s)
    BY <2>1, <2>2
       DEF WorkerThread, run, RunBegins, RunCheck, SegmentFound, NothingFound, Detect,
           SaveFrames, Insert, RunEnds
  <2> QED  BY <2>2, NotTheThread
<1> QED  BY <1>1, PoolHolds, PTL DEF PoolSpec, StoppedStoresNothing

(* A segment is processed at most once by a worker, in whatever order the  *)
(* muxer lists its segments.                                               *)
THEOREM SegmentsTakenOnce == PoolSpec => NoSegmentTwice
<1>1. PoolInv /\ [PoolNext]_allVars =>
        \A s \in Streams :
            thread[s] = "poll" /\ thread'[s] = "extract" => segment'[s] \notin taken[s]
  <2> SUFFICES ASSUME PoolInv, [PoolNext]_allVars, NEW s \in Streams,
                      thread[s] = "poll", thread'[s] = "extract"
               PROVE  segment'[s] \notin taken[s]
    OBVIOUS
  <2>1. CASE WorkerThread(s)
    <3>1. SegmentFound(s)
      BY <2>1 DEF WorkerThread, run, RunBegins, RunCheck, NothingFound, Detect,
                  SaveFrames, Insert, RunEnds, GoesTo, PoolInv, PoolTypeOK, TypeOK
    <3>2. segment'[s] = tail[s] /\ tail[s] > lastIndex[s]
      BY <3>1 DEF SegmentFound, IsNew, PoolInv, PoolTypeOK, TypeOK
    <3> QED  BY <3>2, DetectionAssumption DEF PoolInv, TakenInOrder, PoolTypeOK, TypeOK
  <2> QED  BY <2>1, NotTheThread
<1> QED  BY <1>1, PoolHolds, PTL DEF PoolSpec, NoSegmentTwice
=============================================================================
