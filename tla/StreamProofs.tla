---------------------------- MODULE StreamProofs ----------------------------
(***************************************************************************)
(* The streams of the process, for any set of workers, in three layers.    *)
(* The start / stop protocol of StreamWorker: ProtocolInv is inductive,    *)
(* and WorkerInv(w) says of one worker what its caller and its thread may  *)
(* assume of each other.  StreamManager drives its workers only through    *)
(* these calls (ManagerImplements), so that they keep ProtocolInv;         *)
(* ManagerInv adds what the main thread's loops have already done.  The    *)
(* reports and main's watch only read (HealthImplements), so that both     *)
(* hold of the whole process; HealthInv adds which thread may be in which  *)
(* loop when, and ReportInv what a report in progress has added up.        *)
(***************************************************************************)
EXTENDS StreamHealth, FiniteSetTheorems, TLAPS

WorkerInv(w) ==
    \* the caller touches what the thread uses only when there is no thread
    /\ cpc[w] \in {"spawn", "cleanup", "set_idle", "destroyed"} => tpc[w] = "none"
    /\ cpc[w] = "spawn" => status[w] = "RUNNING"
    /\ cpc[w] \in {"set_idle", "destroyed"} => ~source[w] /\ ~muxer[w]
    /\ status[w] = "IDLE" => /\ cpc[w] \in {"idle", "destroyed"}
                             /\ tpc[w] = "none"
                             /\ ~source[w] /\ ~muxer[w]
    /\ cpc[w] = "destroyed" => status[w] = "IDLE"
    /\ cpc[w] \in {"spawn", "started"} => ~stopped[w]
    \* a worker that was stopped and not started again is IDLE
    /\ stopped[w] /\ cpc[w] = "idle" => status[w] = "IDLE"
    /\ status[w] = "SHUTTING_DOWN" =>
            cpc[w] \in {"stop_flag", "stop_source", "join", "cleanup", "set_idle"}
    /\ status[w] = "ERROR" => tpc[w] \in {"none", "done"}
    \* the thread has its source before it can look at the shutdown flag
    /\ tpc[w] \in {"open_source", "init_muxer", "set_running", "check", "read",
                   "write"} => source[w]
    \* stop() has raised the flag before it looks for the source
    /\ cpc[w] \in {"stop_source", "join"} => shutdownRequested[w]
    /\ cpc[w] = "join" /\ tpc[w] = "read" => srcShutdown[w]

ProtocolInv == TypeOK /\ \A w \in Workers : WorkerInv(w)

LEMMA InitProtocol == Init => ProtocolInv
  BY DEF Init, ProtocolInv, TypeOK, WorkerInv, Status, ThreadPc, CallerPc

(* One step of worker w, of its caller or of its thread.                   *)
Step(w) == Call(w) \/ CallerStep(w) \/ ThreadStep(w)

(* Every step keeps the types.                                             *)
LEMMA StepTypes ==
    ASSUME TypeOK, NEW w \in Workers, Step(w)
    PROVE  TypeOK'
<1> USE DEF Step
<1> USE DEF TypeOK, Status, ThreadPc, CallerPc
<1>1. CASE Call(w)
  <2>1. CASE StartRefused(w)
    BY <2>1 DEF StartRefused
  <2>2. CASE StartReset(w)
    BY <2>2 DEF StartReset, SetStatus, CallerGoesTo
  <2>3. CASE StopEnter(w)
    BY <2>3 DEF StopEnter, CallerGoesTo
  <2>4. CASE Destroy(w)
    BY <2>4 DEF Destroy, CallerGoesTo, ReleaseResources
  <2>5. QED
    BY <1>1, <2>1, <2>2, <2>3, <2>4 DEF Call
<1>2. CASE CallerStep(w)
  <2>1. CASE Spawn(w)
    BY <2>1 DEF Spawn, SetStatus, CallerGoesTo, ThreadGoesTo
  <2>2. CASE StartReturn(w)
    BY <2>2 DEF StartReturn, CallerGoesTo
  <2>3. CASE StopStatus(w)
    BY <2>3 DEF StopStatus, SetStatus, CallerGoesTo
  <2>4. CASE StopFlag(w)
    BY <2>4 DEF StopFlag, CallerGoesTo
  <2>5. CASE StopSource(w)
    BY <2>5 DEF StopSource, CallerGoesTo
  <2>6. CASE Join(w)
    BY <2>6 DEF Join, CallerGoesTo, ThreadGoesTo, ThreadRuns
  <2>7. CASE cleanup(w)
    BY <2>7 DEF cleanup, CallerGoesTo, ReleaseResources
  <2>8. CASE StopReturn(w)
    BY <2>8 DEF StopReturn, SetStatus, CallerGoesTo
  <2>9. QED
    BY <1>2, <2>1, <2>2, <2>3, <2>4, <2>5, <2>6, <2>7, <2>8 DEF CallerStep
<1>3. CASE ThreadStep(w)
  <2>1. CASE CreateSource(w)
    BY <2>1 DEF CreateSource, ThreadFails, SetStatus, ThreadGoesTo
  <2>2. CASE OpenSource(w)
    BY <2>2 DEF OpenSource, ThreadFails, SetStatus, ThreadGoesTo
  <2>3. CASE InitMuxer(w)
    BY <2>3 DEF InitMuxer, ThreadFails, SetStatus, ThreadGoesTo
  <2>4. CASE SetRunning(w)
    BY <2>4 DEF SetRunning, ThreadFails, SetStatus, ThreadGoesTo
  <2>5. CASE LoopCheck(w)
    BY <2>5 DEF LoopCheck, ThreadGoesTo
  <2>6. CASE ReadPacket(w)
    BY <2>6 DEF ReadPacket, ThreadEnds, ThreadGoesTo
  <2>7. CASE WritePacket(w)
    BY <2>7 DEF WritePacket, ThreadEnds, ThreadFails, SetStatus, ThreadGoesTo
  <2>8. QED
    BY <1>3, <2>1, <2>2, <2>3, <2>4, <2>5, <2>6, <2>7 DEF ThreadStep
<1>4. QED
  BY <1>1, <1>2, <1>3

(* A step of w disturbs no other worker.                                   *)
LEMMA StepOfOther ==
    ASSUME TypeOK, NEW w \in Workers, Step(w), NEW v \in Workers, v # w
    PROVE  /\ status'[v] = status[v] /\ stopped'[v] = stopped[v]
           /\ tpc'[v] = tpc[v] /\ cpc'[v] = cpc[v]
           /\ source'[v] = source[v] /\ muxer'[v] = muxer[v]
           /\ srcShutdown'[v] = srcShutdown[v]
           /\ shutdownRequested'[v] = shutdownRequested[v]
           /\ dying'[v] = dying[v]
<1> USE DEF Step
<1> USE DEF TypeOK
<1>1. CASE Call(w)
  <2>1. CASE StartRefused(w)
    BY <2>1 DEF StartRefused
  <2>2. CASE StartReset(w)
    BY <2>2 DEF StartReset, SetStatus, CallerGoesTo
  <2>3. CASE StopEnter(w)
    BY <2>3 DEF StopEnter, CallerGoesTo
  <2>4. CASE Destroy(w)
    BY <2>4 DEF Destroy, CallerGoesTo, ReleaseResources
  <2>5. QED
    BY <1>1, <2>1, <2>2, <2>3, <2>4 DEF Call
<1>2. CASE CallerStep(w)
  <2>1. CASE Spawn(w)
    BY <2>1 DEF Spawn, SetStatus, CallerGoesTo, ThreadGoesTo
  <2>2. CASE StartReturn(w)
    BY <2>2 DEF StartReturn, CallerGoesTo
  <2>3. CASE StopStatus(w)
    BY <2>3 DEF StopStatus, SetStatus, CallerGoesTo
  <2>4. CASE StopFlag(w)
    BY <2>4 DEF StopFlag, CallerGoesTo
  <2>5. CASE StopSource(w)
    BY <2>5 DEF StopSource, CallerGoesTo
  <2>6. CASE Join(w)
    BY <2>6 DEF Join, CallerGoesTo, ThreadGoesTo, ThreadRuns
  <2>7. CASE cleanup(w)
    BY <2>7 DEF cleanup, CallerGoesTo, ReleaseResources
  <2>8. CASE StopReturn(w)
    BY <2>8 DEF StopReturn, SetStatus, CallerGoesTo
  <2>9. QED
    BY <1>2, <2>1, <2>2, <2>3, <2>4, <2>5, <2>6, <2>7, <2>8 DEF CallerStep
<1>3. CASE ThreadStep(w)
  <2>1. CASE CreateSource(w)
    BY <2>1 DEF CreateSource, ThreadFails, SetStatus, ThreadGoesTo
  <2>2. CASE OpenSource(w)
    BY <2>2 DEF OpenSource, ThreadFails, SetStatus, ThreadGoesTo
  <2>3. CASE InitMuxer(w)
    BY <2>3 DEF InitMuxer, ThreadFails, SetStatus, ThreadGoesTo
  <2>4. CASE SetRunning(w)
    BY <2>4 DEF SetRunning, ThreadFails, SetStatus, ThreadGoesTo
  <2>5. CASE LoopCheck(w)
    BY <2>5 DEF LoopCheck, ThreadGoesTo
  <2>6. CASE ReadPacket(w)
    BY <2>6 DEF ReadPacket, ThreadEnds, ThreadGoesTo
  <2>7. CASE WritePacket(w)
    BY <2>7 DEF WritePacket, ThreadEnds, ThreadFails, SetStatus, ThreadGoesTo
  <2>8. QED
    BY <1>3, <2>1, <2>2, <2>3, <2>4, <2>5, <2>6, <2>7 DEF ThreadStep
<1>4. QED
  BY <1>1, <1>2, <1>3

(* A step of w keeps what the two threads of w assume of each other.       *)
LEMMA StepOfSelf ==
    ASSUME TypeOK, NEW w \in Workers, WorkerInv(w), Step(w)
    PROVE  WorkerInv(w)'
<1> USE DEF Step
<1> USE DEF TypeOK, WorkerInv
<1>1. CASE Call(w)
  <2>1. CASE StartRefused(w)
    BY <2>1 DEF StartRefused
  <2>2. CASE StartReset(w)
    BY <2>2 DEF StartReset, SetStatus, CallerGoesTo
  <2>3. CASE StopEnter(w)
    BY <2>3 DEF StopEnter, CallerGoesTo
  <2>4. CASE Destroy(w)
    BY <2>4 DEF Destroy, CallerGoesTo, ReleaseResources
  <2>5. QED
    BY <1>1, <2>1, <2>2, <2>3, <2>4 DEF Call
<1>2. CASE CallerStep(w)
  <2>1. CASE Spawn(w)
    BY <2>1 DEF Spawn, SetStatus, CallerGoesTo, ThreadGoesTo
  <2>2. CASE StartReturn(w)
    BY <2>2 DEF StartReturn, CallerGoesTo
  <2>3. CASE StopStatus(w)
    BY <2>3 DEF StopStatus, SetStatus, CallerGoesTo
  <2>4. CASE StopFlag(w)
    BY <2>4 DEF StopFlag, CallerGoesTo
  <2>5. CASE StopSource(w)
    BY <2>5 DEF StopSource, CallerGoesTo
  <2>6. CASE Join(w)
    BY <2>6 DEF Join, CallerGoesTo, ThreadGoesTo, ThreadRuns
  <2>7. CASE cleanup(w)
    BY <2>7 DEF cleanup, CallerGoesTo, ReleaseResources
  <2>8. CASE StopReturn(w)
    BY <2>8 DEF StopReturn, SetStatus, CallerGoesTo
  <2>9. QED
    BY <1>2, <2>1, <2>2, <2>3, <2>4, <2>5, <2>6, <2>7, <2>8 DEF CallerStep
<1>3. CASE ThreadStep(w)
  <2>1. CASE CreateSource(w)
    BY <2>1 DEF CreateSource, ThreadFails, SetStatus, ThreadGoesTo
  <2>2. CASE OpenSource(w)
    BY <2>2 DEF OpenSource, ThreadFails, SetStatus, ThreadGoesTo
  <2>3. CASE InitMuxer(w)
    BY <2>3 DEF InitMuxer, ThreadFails, SetStatus, ThreadGoesTo
  <2>4. CASE SetRunning(w)
    BY <2>4 DEF SetRunning, ThreadFails, SetStatus, ThreadGoesTo
  <2>5. CASE LoopCheck(w)
    BY <2>5 DEF LoopCheck, ThreadGoesTo
  <2>6. CASE ReadPacket(w)
    BY <2>6 DEF ReadPacket, ThreadEnds, ThreadGoesTo
  <2>7. CASE WritePacket(w)
    BY <2>7 DEF WritePacket, ThreadEnds, ThreadFails, SetStatus, ThreadGoesTo
  <2>8. QED
    BY <1>3, <2>1, <2>2, <2>3, <2>4, <2>5, <2>6, <2>7 DEF ThreadStep
<1>4. QED
  BY <1>1, <1>2, <1>3

LEMMA StepProtocol == ProtocolInv /\ [Next]_vars => ProtocolInv'
<1> SUFFICES ASSUME ProtocolInv, [Next]_vars PROVE ProtocolInv'
  OBVIOUS
<1>1. ASSUME NEW w \in Workers, Step(w) PROVE ProtocolInv'
  <2>1. TypeOK'
    BY <1>1, StepTypes DEF ProtocolInv
  <2>2. WorkerInv(w)'
    BY <1>1, StepOfSelf DEF ProtocolInv
  <2>3. ASSUME NEW v \in Workers, v # w PROVE WorkerInv(v)'
    <3>1. WorkerInv(v)
      BY DEF ProtocolInv
    <3>2. QED
      BY <1>1, <2>3, <3>1, StepOfOther DEF ProtocolInv, WorkerInv
  <2>4. QED
    BY <2>1, <2>2, <2>3 DEF ProtocolInv
<1>2. CASE UNCHANGED vars
  BY <1>2 DEF vars, ProtocolInv, TypeOK, WorkerInv
<1>3. QED
  BY <1>1, <1>2 DEF Next, Step

(* Type correctness and the protocol between the two threads, in every     *)
(* reachable state, for any number of workers.                             *)
THEOREM ProtocolHolds == Spec => []ProtocolInv
<1>1. QED
  BY InitProtocol, StepProtocol, PTL DEF Spec

(* The store of shutdownRequested_ before the read of rtspSource_ in       *)
(* stop(), and the assignment of rtspSource_ before the read of            *)
(* shutdownRequested_ in the thread, lose no shutdown.                     *)
THEOREM ShutdownNotLost == Spec => []NoLostShutdown
<1>1. ProtocolInv => NoLostShutdown
  BY DEF ProtocolInv, WorkerInv, NoLostShutdown
<1>2. QED
  BY <1>1, ProtocolHolds, PTL

(* No std::thread is overwritten or destroyed while joinable, and nothing  *)
(* is freed under a running thread.                                        *)
THEOREM AlwaysJoined == Spec => []JoinedBeforeReuse
<1>1. ProtocolInv => JoinedBeforeReuse
  BY DEF ProtocolInv, WorkerInv, JoinedBeforeReuse, Joinable
<1>2. QED
  BY <1>1, ProtocolHolds, PTL

(* A stopped or destroyed worker has released everything it held.          *)
THEOREM IdleIsEmpty == Spec => []IdleHoldsNothing
<1>1. ProtocolInv => IdleHoldsNothing
  BY DEF ProtocolInv, WorkerInv, IdleHoldsNothing, Joinable
<1>2. QED
  BY <1>1, ProtocolHolds, PTL

(* A worker in ERROR has no running thread.                                *)
THEOREM ErrorIsOver == Spec => []ErrorMeansOver
<1>1. ProtocolInv => ErrorMeansOver
  BY DEF ProtocolInv, WorkerInv, ErrorMeansOver, ThreadRuns
<1>2. QED
  BY <1>1, ProtocolHolds, PTL
-----------------------------------------------------------------------------
(* StreamManager.                                                          *)

StopPc == {"stop_status", "stop_flag", "stop_source", "join", "cleanup",
           "set_idle"}

(* w was visited by the stop loop: it is being stopped, or has no thread.  *)
Stopping(w) == cpc[w] \in StopPc \/ ~ThreadRuns(w)

(* w was visited by the destructor's loop.                                 *)
Destroying(w) == cpc[w] = "destroyed" \/ (cpc[w] \in StopPc /\ dying[w])

ManagerInv ==
    /\ mpc \in MainPc /\ todo \subseteq Workers
    /\ mgrStopped \in BOOLEAN /\ started \in Nat
    /\ mpc \notin {"starting", "stopping", "destroying"} => AtHome
    /\ mpc # "starting" => \A w \in Workers : cpc[w] \notin {"spawn", "started"}
    /\ mpc \in {"starting", "running", "stop"} => ~mgrStopped
    /\ mpc \in {"stopping", "destroying", "gone"} => mgrStopped
    /\ mpc = "stopping" => \A w \in Workers \ todo : Stopping(w)
    /\ mpc = "destroying" => \A w \in Workers \ todo : Destroying(w)
    /\ mpc = "gone" => \A w \in Workers : cpc[w] = "destroyed"
    /\ mpc \in {"stopped", "destroying", "gone"} /\ mgrStopped =>
            \A w \in Workers : ~ThreadRuns(w)

ManagerStep == [ManagerNext]_allVars

(* Every step of the manager is a step of one worker, or of none.          *)
LEMMA StepMapsToStep == ManagerStep => [Next]_vars
<1> SUFFICES ASSUME ManagerStep PROVE [Next]_vars
  OBVIOUS
<1>1. CASE MainStep
  <2>1. ASSUME NEW w \in Workers, StartNext(w) PROVE [Next]_vars
    BY <2>1 DEF StartNext, Next, Call
  <2>2. ASSUME NEW w \in Workers, StopNext(w) PROVE [Next]_vars
    BY <2>2 DEF StopNext, Next, Call
  <2>3. ASSUME NEW w \in Workers, DestroyNext(w) PROVE [Next]_vars
    BY <2>3 DEF DestroyNext, Next, Call
  <2>4. CASE StartDone \/ StopBegin \/ StopDone \/ DestroyBegin \/ DestroyDone
    BY <2>4 DEF StartDone, StopBegin, StopDone, DestroyBegin, DestroyDone
  <2>5. QED
    BY <1>1, <2>1, <2>2, <2>3, <2>4 DEF MainStep
<1>2. CASE Shutdown
  BY <1>2 DEF Shutdown
<1>3. ASSUME NEW w \in Workers, CallProceeds(w) \/ WorkerThread(w)
      PROVE  [Next]_vars
  BY <1>3 DEF CallProceeds, WorkerThread, Next
<1>4. CASE UNCHANGED allVars
  BY <1>4 DEF allVars
<1>5. QED
  BY <1>1, <1>2, <1>3, <1>4 DEF ManagerStep, ManagerNext

(* The manager uses every worker as StreamWorker allows: its behaviours    *)
(* are behaviours of the workers' specification.                           *)
THEOREM ManagerImplements == ManagerSpec => Spec
<1>1. ManagerInit => Init
  BY DEF ManagerInit
<1>2. QED
  BY <1>1, StepMapsToStep, PTL DEF ManagerSpec, Spec, ManagerStep

LEMMA InitManager == ManagerInit => ManagerInv
<1> SUFFICES ASSUME ManagerInit PROVE ManagerInv
  OBVIOUS
<1>1. mpc = "starting" /\ todo \subseteq Workers /\ started \in Nat
  BY DEF ManagerInit
<1>2. mgrStopped = FALSE
  BY DEF ManagerInit
<1>3. mgrStopped \in BOOLEAN /\ ~mgrStopped
  BY <1>2
<1>4. QED
  BY <1>1, <1>3 DEF ManagerInv, MainPc

(* The thread of a worker never comes back to life, and leaves the caller  *)
(* alone.                                                                  *)
LEMMA ThreadOnly ==
    ASSUME TypeOK, NEW w \in Workers, ThreadStep(w), NEW v \in Workers
    PROVE  /\ cpc' = cpc /\ dying' = dying
           /\ ~ThreadRuns(v) => ~ThreadRuns(v)'
<1>1. cpc' = cpc /\ dying' = dying
  BY DEF ThreadStep, CreateSource, OpenSource, InitMuxer, SetRunning,
         LoopCheck, ReadPacket, WritePacket
<1>2. ThreadRuns(w)
  BY DEF ThreadStep, CreateSource, OpenSource, InitMuxer, SetRunning,
         LoopCheck, ReadPacket, WritePacket, ThreadRuns
<1>3. v # w => tpc'[v] = tpc[v]
  BY StepOfOther DEF Step
<1>4. QED
  BY <1>1, <1>2, <1>3 DEF ThreadRuns

(* A call in progress on w: where it is, and where it gets.                *)
LEMMA CallerOnly ==
    ASSUME TypeOK, NEW w \in Workers, CallerStep(w)
    PROVE  /\ cpc[w] \in StopPc \union {"spawn", "started"}
           /\ cpc[w] \in StopPc =>
                 /\ cpc'[w] \in StopPc \/ (cpc[w] = "set_idle" /\
                        cpc'[w] = IF dying[w] THEN "destroyed" ELSE "idle")
                 /\ tpc'[w] \in {tpc[w], "none"}
           /\ dying' = dying
           /\ \A v \in Workers : v # w => cpc'[v] = cpc[v] /\ tpc'[v] = tpc[v]
<1>1. dying' = dying
  BY DEF CallerStep, Spawn, StartReturn, StopStatus, StopFlag, StopSource,
         Join, cleanup, StopReturn
<1>2. \A v \in Workers : v # w => cpc'[v] = cpc[v] /\ tpc'[v] = tpc[v]
  BY StepOfOther DEF Step
<1> USE DEF TypeOK, StopPc, CallerGoesTo, ThreadGoesTo
<1>3. CASE Spawn(w)
  BY <1>1, <1>2, <1>3 DEF Spawn
<1>4. CASE StartReturn(w)
  BY <1>1, <1>2, <1>4 DEF StartReturn
<1>5. CASE StopStatus(w)
  BY <1>1, <1>2, <1>5 DEF StopStatus
<1>6. CASE StopFlag(w)
  BY <1>1, <1>2, <1>6 DEF StopFlag
<1>7. CASE StopSource(w)
  BY <1>1, <1>2, <1>7 DEF StopSource
<1>8. CASE Join(w)
  BY <1>1, <1>2, <1>8 DEF Join
<1>9. CASE cleanup(w)
  BY <1>1, <1>2, <1>9 DEF cleanup
<1>10. CASE StopReturn(w)
  BY <1>1, <1>2, <1>10 DEF StopReturn
<1>11. QED
  BY <1>3, <1>4, <1>5, <1>6, <1>7, <1>8, <1>9, <1>10 DEF CallerStep

(* While the main thread has the control, a worker that is not active has  *)
(* no running thread, and one that is active was not stopped.              *)
LEMMA InactiveIsOver ==
    ASSUME ProtocolInv, NEW w \in Workers, cpc[w] \in {"idle", "destroyed"}
    PROVE  /\ ~isActive(w) => ~ThreadRuns(w)
           /\ isActive(w) /\ cpc[w] = "idle" => ~stopped[w]
  BY DEF ProtocolInv, TypeOK, WorkerInv, isActive, ThreadRuns, Status

(* The loops of start(), stop() and the destructor.                        *)
LEMMA LoopStepInv ==
    ASSUME ProtocolInv, ManagerInv, NEW w \in Workers,
           StartNext(w) \/ StopNext(w) \/ DestroyNext(w)
    PROVE  ManagerInv'
<1> USE DEF ManagerInv, MainPc
<1>1. CASE StartNext(w)
  BY <1>1 DEF StartNext
<1>2. CASE StopNext(w)
  <2>1. /\ mpc = "stopping" /\ AtHome /\ w \in todo /\ mgrStopped
        /\ todo' = todo \ {w} /\ mpc' = mpc
        /\ mgrStopped' = mgrStopped /\ started' = started
    BY <1>2 DEF StopNext
  <2>2. CASE ~isActive(w)
    <3>1. UNCHANGED vars
      BY <1>2, <2>2 DEF StopNext
    <3>2. Stopping(w)
      BY <2>1, <2>2, InactiveIsOver DEF AtHome, Stopping
    <3>3. \A v \in Workers : Stopping(v)' <=> Stopping(v)
      BY <3>1 DEF vars, Stopping, ThreadRuns
    <3>4. QED
      BY <2>1, <3>1, <3>2, <3>3 DEF vars
  <2>3. CASE isActive(w)
    <3>1. cpc[w] = "idle"
      BY <2>1, <2>3 DEF AtHome, ProtocolInv, WorkerInv, isActive
    <3>2. StopEnter(w)
      <4>1. ~stopped[w]
        BY <2>3, <3>1, InactiveIsOver
      <4>2. QED
        BY <1>2, <2>3, <4>1 DEF StopNext
    <3>3. cpc' = [cpc EXCEPT ![w] = "stop_status"] /\ tpc' = tpc
      BY <2>3, <3>2 DEF StopEnter, isActive, CallerGoesTo
    <3>4. \A v \in Workers \ todo' : Stopping(v)'
      BY <2>1, <3>3 DEF Stopping, StopPc, ThreadRuns, ProtocolInv, TypeOK
    <3>5. \A v \in Workers : cpc'[v] \notin {"spawn", "started"}
      BY <2>1, <3>3 DEF ProtocolInv, TypeOK
    <3>6. QED
      BY <2>1, <3>4, <3>5
  <2>4. QED
    BY <2>2, <2>3
<1>3. CASE DestroyNext(w)
  <2>1. /\ mpc = "destroying" /\ AtHome /\ w \in todo /\ mgrStopped
        /\ todo' = todo \ {w} /\ mpc' = mpc /\ Destroy(w)
        /\ mgrStopped' = mgrStopped /\ started' = started
    BY <1>3 DEF DestroyNext
  <2>2. /\ dying' = [dying EXCEPT ![w] = TRUE] /\ tpc' = tpc
        /\ \/ cpc' = [cpc EXCEPT ![w] = "stop_status"]
           \/ cpc' = [cpc EXCEPT ![w] = "destroyed"]
    BY <2>1 DEF Destroy, CallerGoesTo
  <2>3. \A v \in Workers \ todo' : Destroying(v)'
    BY <2>1, <2>2 DEF Destroying, StopPc, ProtocolInv, TypeOK
  <2>4. \A v \in Workers : cpc'[v] \notin {"spawn", "started"}
    BY <2>1, <2>2 DEF ProtocolInv, TypeOK
  <2>5. \A v \in Workers : ~ThreadRuns(v)'
    BY <2>1, <2>2 DEF ThreadRuns
  <2>6. QED
    BY <2>1, <2>3, <2>4, <2>5
<1>4. QED
  BY <1>1, <1>2, <1>3

(* The steps of the main thread between its loops.                         *)
LEMMA PhaseStepInv ==
    ASSUME ProtocolInv, ManagerInv,
           StartDone \/ Shutdown \/ StopBegin \/ StopDone \/ DestroyBegin
             \/ DestroyDone
    PROVE  ManagerInv'
<1> USE DEF ManagerInv, MainPc, vars
<1>1. CASE StartDone
  BY <1>1 DEF StartDone, AtHome
<1>2. CASE Shutdown
  BY <1>2 DEF Shutdown, AtHome
<1>3. CASE StopBegin
  <2>1. CASE mpc' = "stopping"
    BY <1>3, <2>1 DEF StopBegin
  <2>2. CASE mpc' = "stopped"
    <3>1. \A w \in Workers : ~isActive(w) /\ cpc[w] \in {"idle", "destroyed"}
      BY <1>3, <2>2 DEF StopBegin, AtHome
    <3>2. \A w \in Workers : ~ThreadRuns(w)
      BY <3>1, InactiveIsOver
    <3>3. QED
      BY <1>3, <2>2, <3>2 DEF StopBegin, AtHome, ThreadRuns
  <2>3. QED
    BY <1>3, <2>1, <2>2 DEF StopBegin
<1>4. CASE StopDone
  <2>1. \A w \in Workers : ~ThreadRuns(w)
    BY <1>4 DEF StopDone, AtHome, Stopping, StopPc
  <2>2. QED
    BY <1>4, <2>1 DEF StopDone, AtHome, ThreadRuns
<1>5. CASE DestroyBegin
  BY <1>5 DEF DestroyBegin, AtHome, ThreadRuns
<1>6. CASE DestroyDone
  <2>1. \A w \in Workers : cpc[w] = "destroyed"
    BY <1>6 DEF DestroyDone, AtHome, Destroying, StopPc
  <2>2. QED
    BY <1>6, <2>1 DEF DestroyDone, AtHome, ThreadRuns
<1>7. QED
  BY <1>1, <1>2, <1>3, <1>4, <1>5, <1>6

(* A call in progress goes on: only in a phase that makes calls.           *)
LEMMA CallProceedsInv ==
    ASSUME ProtocolInv, ManagerInv, NEW w \in Workers, CallProceeds(w)
    PROVE  ManagerInv'
<1> USE DEF ManagerInv, MainPc
<1>1. /\ UNCHANGED <<mpc, todo, mgrStopped>> /\ CallerStep(w)
      /\ started' \in Nat
  BY DEF CallProceeds
<1>2. /\ cpc[w] \in StopPc \union {"spawn", "started"}
      /\ cpc[w] \in StopPc =>
            /\ cpc'[w] \in StopPc \/ (cpc[w] = "set_idle" /\
                   cpc'[w] = IF dying[w] THEN "destroyed" ELSE "idle")
            /\ tpc'[w] \in {tpc[w], "none"}
      /\ dying' = dying
      /\ \A v \in Workers : v # w => cpc'[v] = cpc[v] /\ tpc'[v] = tpc[v]
  BY <1>1, CallerOnly DEF ProtocolInv
<1>3. mpc \in {"starting", "stopping", "destroying"}
  BY <1>2 DEF AtHome, StopPc
<1>4. CASE mpc = "starting"
  BY <1>1, <1>4
<1>5. CASE mpc # "starting"
  <2>1. cpc[w] \in StopPc
    BY <1>2, <1>5
  <2>2. \A v \in Workers : cpc'[v] \notin {"spawn", "started"}
    BY <1>2, <1>5, <2>1 DEF StopPc
  <2>3. \A v \in Workers : ~ThreadRuns(v) => ~ThreadRuns(v)'
    BY <1>2, <2>1 DEF ThreadRuns
  <2>4. cpc[w] = "set_idle" => ~ThreadRuns(w)
    BY DEF ProtocolInv, WorkerInv, ThreadRuns
  <2>5. mpc = "stopping" => \A v \in Workers \ todo : Stopping(v)'
    BY <1>2, <2>1, <2>3, <2>4 DEF Stopping
  <2>6. mpc = "destroying" => \A v \in Workers \ todo : Destroying(v)'
    BY <1>2, <2>1 DEF Destroying, StopPc
  <2>7. QED
    BY <1>1, <1>3, <1>5, <2>2, <2>3, <2>5, <2>6
<1>6. QED
  BY <1>4, <1>5

LEMMA WorkerThreadInv ==
    ASSUME ProtocolInv, ManagerInv, NEW w \in Workers, WorkerThread(w)
    PROVE  ManagerInv'
<1>1. UNCHANGED managerVars /\ ThreadStep(w) /\ TypeOK
  BY DEF WorkerThread, ProtocolInv
<1>2. /\ cpc' = cpc /\ dying' = dying
      /\ \A v \in Workers : ~ThreadRuns(v) => ~ThreadRuns(v)'
  BY <1>1, ThreadOnly
<1>3. QED
  BY <1>1, <1>2
  DEF ManagerInv, managerVars, AtHome, Stopping, Destroying

LEMMA StepManager ==
    ASSUME ProtocolInv, ManagerInv, ManagerStep
    PROVE  ManagerInv'
<1>1. CASE MainStep
  BY <1>1, LoopStepInv, PhaseStepInv DEF MainStep
<1>2. CASE Shutdown
  BY <1>2, PhaseStepInv
<1>3. ASSUME NEW w \in Workers, CallProceeds(w) \/ WorkerThread(w)
      PROVE  ManagerInv'
  BY <1>3, CallProceedsInv, WorkerThreadInv
<1>4. CASE UNCHANGED allVars
  BY <1>4 DEF allVars, vars, managerVars, ManagerInv, AtHome, Stopping,
              Destroying, ThreadRuns
<1>5. QED
  BY <1>1, <1>2, <1>3, <1>4 DEF ManagerStep, ManagerNext

(* Where the main thread's loops have got to, in every reachable state.    *)
THEOREM ManagerHolds == ManagerSpec => [](ProtocolInv /\ ManagerInv)
<1>1. ManagerInit => ManagerInv
  BY InitManager
<1>2. ProtocolInv /\ ManagerInv /\ [ManagerNext]_allVars => ManagerInv'
  BY StepManager DEF ManagerStep
<1>3. ManagerSpec => []ProtocolInv
  BY ManagerImplements, ProtocolHolds, PTL
<1>4. QED
  BY <1>1, <1>2, <1>3, PTL DEF ManagerSpec

(* Nor does stop() leave a worker active: one that its loop has passed is  *)
(* being stopped, or was inactive and cannot become active again.          *)
QuietInv ==
    /\ mpc = "stopping" =>
            \A w \in Workers \ todo : cpc[w] \in StopPc \/ ~isActive(w)
    /\ mpc \in {"stopped", "destroying", "gone"} /\ mgrStopped =>
            \A w \in Workers : ~isActive(w)

(* A call that stops w does not make it active, and ends with it inactive. *)
LEMMA StoppingQuiets ==
    ASSUME TypeOK, NEW w \in Workers, CallerStep(w), cpc[w] \in StopPc
    PROVE  /\ ~isActive(w) => ~isActive(w)'
           /\ cpc[w] = "set_idle" => ~isActive(w)'
<1>1. status'[w] \in {status[w], "SHUTTING_DOWN", "IDLE"}
  BY DEF CallerStep, Spawn, StartReturn, StopStatus, StopFlag, StopSource, Join,
         cleanup, StopReturn, SetStatus, StopPc, TypeOK
<1>2. cpc[w] = "set_idle" => status'[w] = "IDLE"
  BY DEF CallerStep, Spawn, StartReturn, StopStatus, StopFlag, StopSource, Join,
         cleanup, StopReturn, SetStatus, TypeOK
<1>3. QED
  BY <1>1, <1>2 DEF isActive

LEMMA QuietStep ==
    ASSUME ProtocolInv, ManagerInv, QuietInv, ManagerStep
    PROVE  QuietInv'
<1> TypeOK
  BY DEF ProtocolInv
<1>1. ASSUME NEW w \in Workers, StartNext(w) PROVE QuietInv'
  BY <1>1 DEF StartNext, QuietInv
<1>2. ASSUME NEW w \in Workers, StopNext(w) PROVE QuietInv'
  <2>1. /\ mpc = "stopping" /\ mpc' = mpc /\ todo' = todo \ {w} /\ AtHome
        /\ IF isActive(w) /\ ~stopped[w] THEN StopEnter(w) ELSE UNCHANGED vars
    BY <1>2 DEF StopNext
  <2>2. status' = status
    BY <2>1 DEF StopEnter, vars
  <2>3. \A v \in Workers : v # w => cpc'[v] = cpc[v]
    BY <2>1 DEF StopEnter, vars, CallerGoesTo, TypeOK
  <2>4. isActive(w) => cpc'[w] \in StopPc
    <3>1. isActive(w) => cpc[w] = "idle"
      BY <2>1 DEF AtHome, ProtocolInv, WorkerInv, isActive
    <3>2. isActive(w) => StopEnter(w)
      BY <2>1, <3>1, InactiveIsOver
    <3>3. QED
      BY <3>2 DEF StopEnter, CallerGoesTo, isActive, TypeOK, StopPc
  <2>5. QED
    BY <2>1, <2>2, <2>3, <2>4 DEF QuietInv, isActive
<1>3. ASSUME NEW w \in Workers, DestroyNext(w) PROVE QuietInv'
  BY <1>3 DEF DestroyNext, Destroy, QuietInv, isActive
<1>4. CASE StartDone \/ Shutdown \/ DestroyBegin \/ DestroyDone
  BY <1>4 DEF StartDone, Shutdown, DestroyBegin, DestroyDone, QuietInv, vars,
              isActive, ManagerInv
<1>5. CASE StopBegin
  BY <1>5 DEF StopBegin, QuietInv, vars, isActive
<1>6. CASE StopDone
  BY <1>6 DEF StopDone, AtHome, QuietInv, vars, isActive, StopPc
<1>7. ASSUME NEW w \in Workers, CallProceeds(w) PROVE QuietInv'
  <2>1. CallerStep(w) /\ UNCHANGED <<mpc, todo, mgrStopped>>
    BY <1>7 DEF CallProceeds
  <2>2. \A v \in Workers : v # w => status'[v] = status[v] /\ cpc'[v] = cpc[v]
    BY <2>1, StepOfOther DEF Step
  <2>3. mpc # "starting" => cpc[w] \in StopPc
    BY <2>1, CallerOnly DEF ManagerInv
  <2>4. mpc # "starting" => /\ ~isActive(w) => ~isActive(w)'
                            /\ cpc'[w] \in StopPc \/ ~isActive(w)'
    BY <2>1, <2>3, CallerOnly, StoppingQuiets
  <2>5. QED
    BY <2>1, <2>2, <2>4 DEF QuietInv, isActive
<1>8. ASSUME NEW w \in Workers, WorkerThread(w) PROVE QuietInv'
  <2>1. ThreadStep(w) /\ UNCHANGED <<mpc, todo, mgrStopped>> /\ cpc' = cpc
    BY <1>8, ThreadOnly DEF WorkerThread, managerVars
  <2>2. ThreadRuns(w)
    BY <2>1 DEF ThreadStep, CreateSource, OpenSource, InitMuxer, SetRunning,
           LoopCheck, ReadPacket, WritePacket, ThreadRuns
  <2>3. \A v \in Workers : v # w => status'[v] = status[v]
    BY <2>1, StepOfOther DEF Step
  <2>4. CASE mpc = "stopping"
    <3>1. cpc[w] \in StopPc \/ isActive(w)
      BY <2>2, <2>4, InactiveIsOver DEF ManagerInv, StopPc, TypeOK, CallerPc
    <3>2. QED
      BY <2>1, <2>3, <2>4, <3>1 DEF QuietInv, isActive
  <2>5. CASE mpc # "stopping"
    BY <2>1, <2>2, <2>5 DEF QuietInv, ManagerInv
  <2>6. QED
    BY <2>4, <2>5
<1>9. CASE UNCHANGED allVars
  BY <1>9 DEF allVars, vars, managerVars, QuietInv, isActive
<1>10. QED
  BY <1>1, <1>2, <1>3, <1>4, <1>5, <1>6, <1>7, <1>8, <1>9
  DEF ManagerStep, ManagerNext, MainStep

LEMMA QuietHolds == ManagerSpec => []QuietInv
<1>1. ManagerInit => QuietInv
  BY DEF ManagerInit, QuietInv
<1>2. ProtocolInv /\ ManagerInv /\ QuietInv /\ [ManagerNext]_allVars => QuietInv'
  BY QuietStep DEF ManagerStep
<1>3. QED
  BY <1>1, <1>2, ManagerHolds, PTL DEF ManagerSpec

(* StreamManager::stop() stops only the workers that are active and yet    *)
(* leaves no processing thread running.                                    *)
THEOREM StopIsComplete == ManagerSpec => []StopLeavesNoThread
<1>1. ManagerInv => StopLeavesNoThread
  BY DEF ManagerInv, StopLeavesNoThread
<1>2. QED
  BY <1>1, ManagerHolds, PTL

(* The destructor leaves no thread unjoined, no connection and no muxer.   *)
THEOREM DestructorReleases == ManagerSpec => []GoneMeansReleased
<1>1. ProtocolInv /\ ManagerInv => GoneMeansReleased
  BY DEF ProtocolInv, WorkerInv, ManagerInv, GoneMeansReleased, Joinable
<1>2. QED
  BY <1>1, ManagerHolds, PTL
-----------------------------------------------------------------------------
(* StreamHealth.                                                           *)

(* A report is in progress only while main serves or after it has stopped  *)
(* everything, a scan only while it serves; what a scan has passed is over.*)
HealthInv ==
    /\ http = "up" => mpc = "running"
    /\ rpc # "idle" => mpc \in {"running", "stopped"}
    /\ rpc # "idle" /\ mpc = "running" => http = "up"
    /\ rpc # "idle" /\ mpc = "stopped" => http = "closed" /\ mgrStopped /\ final
    /\ scanning => http = "up"
    /\ scanning => \A w \in Workers \ unseen : ~isActive(w)

HealthStep == [HealthNext]_processVars

(* Up to the destructor no worker is destroyed, nor about to be.           *)
Alive ==
    mpc \notin {"destroying", "gone"} =>
        \A w \in Workers : cpc[w] # "destroyed" /\ ~dying[w]

LEMMA AliveStep ==
    ASSUME ProtocolInv, ManagerInv, Alive, [ManagerNext]_allVars
    PROVE  Alive'
<1> USE DEF Alive
<1> TypeOK
  BY DEF ProtocolInv
<1>1. ASSUME NEW w \in Workers, StartNext(w) \/ StopNext(w)
      PROVE  Alive'
  <2>1. /\ mpc' = mpc /\ mpc \in {"starting", "stopping"} /\ dying' = dying
        /\ \A v \in Workers : cpc'[v] \in {cpc[v], "spawn", "stop_status"}
    BY <1>1 DEF StartNext, StopNext, StartReset, StopEnter, vars, TypeOK,
                CallerGoesTo
  <2>2. QED
    BY <2>1
<1>2. ASSUME NEW w \in Workers, DestroyNext(w)
      PROVE  Alive'
  BY <1>2 DEF DestroyNext
<1>3. CASE StartDone \/ Shutdown \/ StopBegin \/ StopDone \/ DestroyBegin
             \/ DestroyDone
  BY <1>3 DEF StartDone, Shutdown, StopBegin, StopDone, DestroyBegin,
              DestroyDone, vars
<1>4. ASSUME NEW w \in Workers, CallProceeds(w)
      PROVE  Alive'
  <2>1. mpc' = mpc /\ CallerStep(w)
    BY <1>4 DEF CallProceeds
  <2>2. /\ dying' = dying
        /\ \A v \in Workers : v # w => cpc'[v] = cpc[v]
    BY <2>1, CallerOnly
  <2>3. ~dying[w] => cpc'[w] # "destroyed"
    BY <2>1 DEF CallerStep, Spawn, StartReturn, StopStatus, StopFlag, StopSource,
                Join, cleanup, StopReturn, CallerGoesTo, TypeOK
  <2>4. QED
    BY <2>1, <2>2, <2>3
<1>5. ASSUME NEW w \in Workers, WorkerThread(w)
      PROVE  Alive'
  <2>1. ThreadStep(w) /\ mpc' = mpc
    BY <1>5 DEF WorkerThread, managerVars
  <2>2. cpc' = cpc /\ dying' = dying
    BY <2>1, ThreadOnly
  <2>3. QED
    BY <2>1, <2>2
<1>6. CASE UNCHANGED allVars
  BY <1>6 DEF allVars, vars, managerVars
<1>7. QED
  BY <1>1, <1>2, <1>3, <1>4, <1>5, <1>6 DEF ManagerNext, MainStep

LEMMA AliveHolds == ManagerSpec => []Alive
<1>1. ManagerInit => Alive
  BY DEF ManagerInit, Init, Alive
<1>2. QED
  BY <1>1, AliveStep, ManagerHolds, PTL DEF ManagerSpec

(* A step of the whole process is one of the manager's, or none of its.    *)
LEMMA HealthMapsToManager == HealthStep => [ManagerNext]_allVars
<1> SUFFICES ASSUME HealthStep PROVE [ManagerNext]_allVars
  OBVIOUS
<1>1. CASE MainRuns
  BY <1>1 DEF MainRuns, HttpStart, ScanStep, ScanBegin, ScanNext, ScanEnd,
              StopStreams, ManagerRuns, ManagerNext
<1>2. CASE HttpStop
  BY <1>2 DEF HttpStop
<1>3. CASE getAggregateHealth
  BY <1>3 DEF getAggregateHealth, ReportBegin, ReportTotals, ReportActive,
              ReportStatus, ReportStats, ReportEnd
<1>4. ASSUME NEW w \in Workers, CallRuns(w) \/ ThreadRunsOn(w)
      PROVE  [ManagerNext]_allVars
  BY <1>4 DEF CallRuns, ThreadRunsOn, ManagerNext
<1>5. CASE UNCHANGED processVars
  BY <1>5 DEF processVars
<1>6. QED
  BY <1>1, <1>2, <1>3, <1>4, <1>5 DEF HealthStep, HealthNext

(* Whoever reads the streams' state does not disturb them: the process     *)
(* with its reports and its monitoring behaves as StreamManager says.      *)
THEOREM HealthImplements == HealthSpec => ManagerSpec
<1>1. HealthInit => ManagerInit
  BY DEF HealthInit
<1>2. QED
  BY <1>1, HealthMapsToManager, PTL DEF HealthSpec, ManagerSpec, HealthStep

(* While main serves, no call on a worker is in progress, and a worker     *)
(* that is not active stays so.                                            *)
LEMMA InactiveStaysSo ==
    ASSUME ProtocolInv, ManagerInv, mpc = "running",
           NEW w \in Workers, CallRuns(w) \/ ThreadRunsOn(w),
           NEW v \in Workers, ~isActive(v)
    PROVE  ~isActive(v)'
<1>1. cpc[w] \in {"idle", "destroyed"} /\ cpc[v] \in {"idle", "destroyed"}
  BY DEF ManagerInv, AtHome
<1>2. ~CallerStep(w)
  BY <1>1, CallerOnly DEF ProtocolInv, StopPc
<1>3. ThreadStep(w)
  BY <1>2 DEF CallRuns, CallProceeds, ThreadRunsOn, WorkerThread
<1>4. ThreadRuns(w)
  BY <1>3 DEF ThreadStep, CreateSource, OpenSource, InitMuxer, SetRunning,
         LoopCheck, ReadPacket, WritePacket, ThreadRuns
<1>5. ~ThreadRuns(v)
  BY <1>1, InactiveIsOver
<1>6. v # w
  BY <1>4, <1>5
<1>7. status'[v] = status[v]
  BY <1>3, <1>6, StepOfOther DEF Step, ProtocolInv
<1>8. QED
  BY <1>7 DEF isActive

(* The main thread's steps: only the scan's own touch what it has passed.  *)
LEMMA MainRunsInv ==
    ASSUME ProtocolInv, ManagerInv, HealthInv, MainRuns \/ HttpStop
    PROVE  HealthInv'
<1> USE DEF HealthInv, reportVars, scanVars
<1>1. CASE HttpStart
  <2>1. CASE http' = "up" /\ UNCHANGED allVars
    BY <1>1, <2>1 DEF HttpStart, allVars, vars, managerVars, isActive
  <2>2. CASE Shutdown /\ UNCHANGED http
    BY <1>1, <2>2 DEF HttpStart, Shutdown
  <2>3. QED
    BY <1>1, <2>1, <2>2 DEF HttpStart
<1>2. CASE ScanStep
  <2>1. ASSUME ScanBegin \/ ScanEnd \/ \E w \in Workers : ScanNext(w)
        PROVE  /\ UNCHANGED <<allVars, http, final, reportVars>>
               /\ scanning' => http = "up"
    BY <2>1 DEF ScanBegin, ScanEnd, ScanNext
  <2>2. \A w \in Workers : isActive(w)' = isActive(w)
    BY <1>2, <2>1 DEF ScanStep, allVars, vars, isActive
  <2>3. scanning' => \A w \in Workers \ unseen' : ~isActive(w)
    BY <1>2 DEF ScanStep, ScanBegin, ScanEnd, ScanNext
  <2>4. QED
    BY <1>2, <2>1, <2>2, <2>3 DEF ScanStep, allVars, managerVars
<1>3. CASE StopStreams
  BY <1>3 DEF StopStreams, Shutdown, healthVars
<1>4. CASE ManagerRuns
  <2>1. /\ UNCHANGED healthVars /\ MainStep
        /\ mpc = "stopped" /\ mgrStopped /\ http = "closed" => rpc = "idle"
    BY <1>4 DEF ManagerRuns
  <2>2. mpc # "running" /\ (rpc # "idle" => FALSE)
    BY <2>1 DEF MainStep, StartNext, StopNext, DestroyNext, StartDone,
                StopBegin, StopDone, DestroyBegin, DestroyDone
  <2>3. QED
    BY <2>1, <2>2 DEF healthVars
<1>5. CASE HttpStop
  BY <1>5 DEF HttpStop, allVars, vars, managerVars
<1>6. QED
  BY <1>1, <1>2, <1>3, <1>4, <1>5 DEF MainRuns

LEMMA ReportInv ==
    ASSUME HealthInv, getAggregateHealth
    PROVE  HealthInv'
<1>1. /\ UNCHANGED <<allVars, http, scanVars>>
      /\ rpc' # "idle" => \/ rpc # "idle" /\ final' = final
                          \/ MayReport /\ final' = (http = "closed")
  BY DEF getAggregateHealth, ReportBegin, ReportTotals, ReportActive,
         ReportStatus, ReportStats, ReportEnd
<1>2. QED
  BY <1>1 DEF HealthInv, MayReport, allVars, vars, managerVars, scanVars, isActive

LEMMA StepHealth ==
    ASSUME ProtocolInv, ManagerInv, HealthInv, HealthStep
    PROVE  HealthInv'
<1>1. CASE MainRuns \/ HttpStop
  BY <1>1, MainRunsInv
<1>2. CASE getAggregateHealth
  BY <1>2, ReportInv
<1>3. ASSUME NEW w \in Workers, CallRuns(w) \/ ThreadRunsOn(w)
      PROVE  HealthInv'
  <2>1. UNCHANGED <<mpc, mgrStopped, http, final, reportVars, scanVars>>
    BY <1>3 DEF CallRuns, CallProceeds, ThreadRunsOn, WorkerThread, managerVars,
                healthVars
  <2>2. mpc = "running" => \A v \in Workers : ~isActive(v) => ~isActive(v)'
    BY <1>3, InactiveStaysSo
  <2>3. QED
    BY <2>1, <2>2 DEF HealthInv, reportVars, scanVars
<1>4. CASE UNCHANGED processVars
  BY <1>4 DEF processVars, allVars, vars, managerVars, healthVars, reportVars,
              scanVars, HealthInv, isActive
<1>5. QED
  BY <1>1, <1>2, <1>3, <1>4 DEF HealthStep, HealthNext

(* Who reads the streams when, in every reachable state of the process.    *)
THEOREM HealthHolds == HealthSpec => [](ProtocolInv /\ ManagerInv /\ HealthInv)
<1>1. HealthInit => HealthInv
  BY DEF HealthInit, HealthInv
<1>2. ProtocolInv /\ ManagerInv /\ HealthInv /\ [HealthNext]_processVars => HealthInv'
  BY StepHealth DEF HealthStep
<1>3. HealthSpec => [](ProtocolInv /\ ManagerInv)
  BY HealthImplements, ManagerHolds, PTL
<1>4. QED
  BY <1>1, <1>2, <1>3, PTL DEF HealthSpec

(* A request never reads a worker that is being stopped or destroyed, for  *)
(* any number of streams.                                                  *)
THEOREM ReportsReadTheLiving == HealthSpec => []NoReportOfTheDead
<1>1. Alive /\ HealthInv => NoReportOfTheDead
  BY DEF Alive, HealthInv, NoReportOfTheDead
<1>2. QED
  BY <1>1, AliveHolds, HealthImplements, HealthHolds, PTL

(* The warning that all streams have failed is true when it is given.      *)
THEOREM WarningIsTrue == HealthSpec => AllFailedIsTrue
<1>1. /\ ProtocolInv /\ ManagerInv /\ HealthInv /\ [HealthNext]_processVars
      => [reported' /\ ~reported => \A w \in Workers : ~isActive(w)]_processVars
  <2> SUFFICES ASSUME HealthInv, HealthNext, reported', ~reported
               PROVE  \A w \in Workers : ~isActive(w)
    BY DEF processVars
  <2>1. ScanEnd
    BY DEF HealthNext, MainRuns, HttpStart, ScanStep, ScanBegin, ScanNext,
           StopStreams, ManagerRuns, HttpStop, getAggregateHealth, ReportBegin,
           ReportTotals, ReportActive, ReportStatus, ReportStats, ReportEnd,
           CallRuns, ThreadRunsOn, healthVars, scanVars
  <2>2. QED
    BY <2>1 DEF ScanEnd, HealthInv
<1>2. QED
  BY <1>1, HealthHolds, PTL DEF HealthSpec, AllFailedIsTrue
-----------------------------------------------------------------------------
(* What a report adds up, while the counters and the streams go on.        *)
Count(S) == Cardinality(Packets(S))

CountersOK == written \in [Workers -> 0..MaxWritten]

LEMMA CountFinite ==
    ASSUME CountersOK, NEW S, S \subseteq Workers
    PROVE  IsFiniteSet(Packets(S)) /\ Count(S) \in Nat
<1>1. IsFiniteSet(S)
  BY HealthAssumption, FS_Subset
<1>2. IsFiniteSet(1..MaxWritten)
  BY HealthAssumption, FS_Interval
<1>3. IsFiniteSet(S \X (1..MaxWritten))
  BY <1>1, <1>2, FS_Product
<1>4. Packets(S) \in SUBSET (S \X (1..MaxWritten))
  BY DEF Packets
<1>5. IsFiniteSet(Packets(S))
  BY <1>3, <1>4, FS_Subset
<1>6. QED
  BY <1>5, FS_CardinalityType DEF Count

(* The sum over one more worker has its counter added.                     *)
LEMMA CountOneMore ==
    ASSUME CountersOK, NEW S, S \subseteq Workers, NEW w \in Workers, w \notin S
    PROVE  Count(S \union {w}) = Count(S) + written[w]
<1>1. written[w] \in Nat /\ written[w] <= MaxWritten /\ MaxWritten \in Nat
  BY HealthAssumption DEF CountersOK
<1>2. Packets({w}) = {w} \X (1..written[w])
  BY <1>1 DEF Packets
<1>3. Cardinality(Packets({w})) = written[w]
  <2>1. \A n \in Nat : IsFiniteSet(1..n) /\ Cardinality(1..n) = n
    <3> SUFFICES ASSUME NEW n \in Nat
                 PROVE  IsFiniteSet(1..n) /\ Cardinality(1..n) = n
      OBVIOUS
    <3>1. IsFiniteSet(1..n) /\ Cardinality(1..n) = IF 1 > n THEN 0 ELSE n - 1 + 1
      BY FS_Interval
    <3>2. QED
      BY <3>1
  <2>2. IsFiniteSet({w}) /\ Cardinality({w}) = 1
    BY FS_Singleton
  <2>3. \A n \in Nat : Cardinality({w} \X (1..n)) = n
    <3> SUFFICES ASSUME NEW n \in Nat
                 PROVE  Cardinality({w} \X (1..n)) = n
      OBVIOUS
    <3>1. IsFiniteSet(1..n) /\ Cardinality(1..n) = n
      BY <2>1
    <3>2. Cardinality({w} \X (1..n)) = Cardinality({w}) * Cardinality(1..n)
      BY <2>2, <3>1, FS_Product
    <3>3. QED
      BY <2>2, <3>1, <3>2
  <2>4. QED
    BY <1>1, <1>2, <2>3
<1>4. /\ Packets(S \union {w}) = Packets(S) \union Packets({w})
      /\ Packets(S) \cap Packets({w}) = {}
  BY DEF Packets
<1>5. /\ IsFiniteSet(Packets(S)) /\ Count(S) \in Nat
      /\ IsFiniteSet(Packets({w}))
  BY CountFinite
<1>6. Cardinality(Packets(S) \union Packets({w})) =
         Cardinality(Packets(S)) + Cardinality(Packets({w}))
           - Cardinality(Packets(S) \cap Packets({w}))
  BY <1>5, FS_Union
<1>7. Cardinality(Packets(S) \cap Packets({w})) = 0
  BY <1>4, FS_EmptySet
<1>8. Cardinality(Packets(S \union {w})) = Cardinality(Packets(S)) + written[w] - 0
  BY <1>3, <1>4, <1>6, <1>7
<1>9. QED
  BY <1>1, <1>5, <1>8 DEF Count

LEMMA CountNothing == CountersOK => Count({}) = 0
<1>1. Packets({}) = {}
  BY DEF Packets
<1>2. QED
  BY <1>1, FS_EmptySet DEF Count

(* The counters only grow, and with them the sum over any workers.         *)
LEMMA CountGrows ==
    ASSUME CountersOK, CountersOK', NEW S, S \subseteq Workers,
           \A w \in Workers : written[w] <= written'[w]
    PROVE  Count(S) <= Count(S)' /\ Count(S)' \in Nat
<1>1. Packets(S) \in SUBSET Packets(S)'
  BY DEF Packets, CountersOK
<1>2. IsFiniteSet(Packets(S)')
  <2>1. IsFiniteSet(S)
    BY HealthAssumption, FS_Subset
  <2>2. IsFiniteSet(1..MaxWritten)
    BY HealthAssumption, FS_Interval
  <2>3. IsFiniteSet(S \X (1..MaxWritten))
    BY <2>1, <2>2, FS_Product
  <2>4. Packets(S)' \in SUBSET (S \X (1..MaxWritten))
    BY DEF Packets
  <2>5. QED
    BY <2>3, <2>4, FS_Subset
<1>3. QED
  BY <1>1, <1>2, FS_Subset, FS_CardinalityType DEF Count

(* The workers a report has read, but for the one it is at if that one's   *)
(* figure is yet to come: as long as rpc is in pcs.                        *)
Past(pcs) == IF rpc \in pcs THEN Workers \ (unread \union {visiting})
                            ELSE Workers \ unread

Failed(S) == {w \in S : status[w] = "ERROR"}
ActiveOf(S) == {w \in S : isActive(w)}

ReportTypeOK ==
    /\ CountersOK
    /\ rpc \in {"idle", "next", "active", "status", "stats"}
    /\ unread \subseteq Workers /\ visiting \in Workers
    /\ rpc \in {"active", "status", "stats"} => visiting \notin unread
    /\ report \in [{"written", "stats", "active", "error"} -> Nat]
    /\ began \in Nat

(* Each figure, against what has been read of it and what is yet to come.  *)
FiguresInv ==
    /\ began <= report.written + Count(unread)
    /\ report.written <= report.stats +
           (IF rpc \in {"active", "status", "stats"} THEN written[visiting] ELSE 0)
    /\ report.stats <= Count(Past({"active", "status", "stats"}))
    /\ report.error <= Cardinality(Failed(Past({"active", "status"})))
    /\ report.active >= Cardinality(ActiveOf(Past({"active"})))

(* main's own report is made of workers that are all over.                 *)
FinalInv ==
    final => /\ mpc \in {"stopped", "destroying", "gone"} /\ mgrStopped
             /\ http = "closed"
             /\ began = Written /\ report.active = 0
             /\ rpc = "idle" => report.written = Written

TallyInv == ReportTypeOK /\ (rpc # "idle" => FiguresInv) /\ FinalInv

LEMMA WorkersFinite ==
    ASSUME NEW S, S \subseteq Workers
    PROVE  /\ IsFiniteSet(Failed(S)) /\ Cardinality(Failed(S)) \in Nat
           /\ IsFiniteSet(ActiveOf(S)) /\ Cardinality(ActiveOf(S)) \in Nat
<1>1. Failed(S) \in SUBSET Workers /\ ActiveOf(S) \in SUBSET Workers
  BY DEF Failed, ActiveOf
<1>2. IsFiniteSet(Failed(S)) /\ IsFiniteSet(ActiveOf(S))
  BY <1>1, HealthAssumption, FS_Subset
<1>3. QED
  BY <1>2, FS_CardinalityType

LEMMA BeginTally ==
    ASSUME ManagerInv, QuietInv, HealthInv, TallyInv, ReportBegin
    PROVE  TallyInv'
<1>1. /\ rpc' = "next" /\ unread' = Workers /\ report' = EmptyReport
      /\ began' = Written /\ final' = (http = "closed")
      /\ UNCHANGED <<allVars, written, http, visiting>> /\ MayReport
  BY DEF ReportBegin
<1>2. Packets(Workers)' = Packets(Workers) /\ Written' = Written
  BY <1>1 DEF Packets, Written
<1>3. Written = Count(Workers) /\ Count(Workers) \in Nat
  BY CountFinite DEF Written, Count, TallyInv, ReportTypeOK
<1>4. ReportTypeOK'
  BY <1>1, <1>3 DEF TallyInv, ReportTypeOK, EmptyReport, CountersOK
<1>5. Past({"active", "status", "stats"})' = {} /\ Past({"active", "status"})' = {}
      /\ Past({"active"})' = {}
  BY <1>1 DEF Past
<1>6. /\ Failed(Past({"active", "status"}))' = {} /\ ActiveOf(Past({"active"}))' = {}
      /\ Packets(Past({"active", "status", "stats"}))' = {}
  BY <1>5 DEF Failed, ActiveOf, Packets
<1>7. Cardinality({}) = 0
  BY FS_EmptySet
<1>8. FiguresInv'
  BY <1>1, <1>2, <1>3, <1>6, <1>7 DEF FiguresInv, EmptyReport, Count, Written
<1>9. FinalInv'
  BY <1>1, <1>2 DEF FinalInv, MayReport, HealthInv, EmptyReport, allVars, managerVars
<1>10. QED
  BY <1>4, <1>8, <1>9 DEF TallyInv

LEMMA TotalsTally ==
    ASSUME TallyInv, NEW w \in Workers, ReportTotals(w)
    PROVE  TallyInv'
<1>1. /\ rpc = "next" /\ w \in unread /\ visiting' = w
      /\ unread' = unread \ {w} /\ rpc' = "active"
      /\ report' = [report EXCEPT !.written = @ + written[w]]
      /\ UNCHANGED <<allVars, written, http, final, began>>
  BY DEF ReportTotals
<1>2. ReportTypeOK /\ FiguresInv /\ written[w] \in Nat
  BY <1>1, HealthAssumption DEF TallyInv, ReportTypeOK, CountersOK
<1>3. /\ report'.written = report.written + written[w]
      /\ report'.stats = report.stats /\ report'.active = report.active
      /\ report'.error = report.error
      /\ report' \in [{"written", "stats", "active", "error"} -> Nat]
  BY <1>1, <1>2 DEF ReportTypeOK
<1>4. Written' = Written
  BY <1>1 DEF Written, Packets
<1>5. Count(unread) = Count(unread') + written[w] /\ Count(unread') \in Nat
  <2>1. unread = unread' \union {w} /\ w \notin unread' /\ unread' \subseteq Workers
    BY <1>1, <1>2 DEF ReportTypeOK
  <2>2. QED
    BY <1>2, <2>1, CountOneMore, CountFinite DEF ReportTypeOK
<1>6. /\ Past({"active", "status", "stats"})' = Past({"active", "status", "stats"})
      /\ Past({"active", "status"})' = Past({"active", "status"})
      /\ Past({"active"})' = Past({"active"})
  BY <1>1, <1>2 DEF Past, ReportTypeOK
<1>7. ReportTypeOK'
  BY <1>1, <1>2, <1>3 DEF ReportTypeOK, CountersOK
<1>8. FiguresInv'
  <2>1. /\ Count(unread)' = Count(unread')
        /\ Count(Past({"active", "status", "stats"}))' = Count(Past({"active", "status", "stats"}))
        /\ Failed(Past({"active", "status"}))' = Failed(Past({"active", "status"}))
        /\ ActiveOf(Past({"active"}))' = ActiveOf(Past({"active"}))
    BY <1>1, <1>6 DEF Count, Packets, Failed, ActiveOf, isActive, allVars, vars
  <2>2. report.written \in Nat /\ report.stats \in Nat /\ began \in Nat
    BY <1>2 DEF ReportTypeOK
  <2>3. QED
    BY <1>1, <1>2, <1>3, <1>5, <2>1, <2>2 DEF FiguresInv
<1>9. FinalInv'
  BY <1>1, <1>3, <1>4 DEF TallyInv, FinalInv, allVars, managerVars
<1>10. QED
  BY <1>7, <1>8, <1>9 DEF TallyInv

LEMMA ActiveTally ==
    ASSUME QuietInv, TallyInv, ReportActive
    PROVE  TallyInv'
<1> DEFINE one == IF isActive(visiting) THEN 1 ELSE 0
<1>1. /\ rpc = "active" /\ rpc' = "status"
      /\ report' = [report EXCEPT !.active = @ + one]
      /\ UNCHANGED <<allVars, written, http, final, unread, visiting, began>>
  BY DEF ReportActive
<1>2. ReportTypeOK /\ FiguresInv /\ one \in {0, 1}
  BY <1>1 DEF TallyInv
<1>3. /\ report'.active = report.active + one /\ report'.stats = report.stats
      /\ report'.written = report.written /\ report'.error = report.error
      /\ report' \in [{"written", "stats", "active", "error"} -> Nat]
  BY <1>1, <1>2 DEF ReportTypeOK
<1>4. ReportTypeOK'
  BY <1>1, <1>2, <1>3 DEF ReportTypeOK, CountersOK
<1>5. /\ Count(unread)' = Count(unread) /\ Written' = Written
      /\ Count(Past({"active", "status", "stats"}))' = Count(Past({"active", "status", "stats"}))
      /\ Failed(Past({"active", "status"}))' = Failed(Past({"active", "status"}))
  BY <1>1 DEF Count, Written, Packets, Failed, Past, allVars, vars
<1>6. /\ ActiveOf(Past({"active"}))' = IF isActive(visiting)
                                        THEN ActiveOf(Past({"active"})) \union {visiting}
                                        ELSE ActiveOf(Past({"active"}))
      /\ visiting \notin ActiveOf(Past({"active"}))
  BY <1>1, <1>2 DEF ActiveOf, Past, isActive, allVars, vars, ReportTypeOK
<1>7. Cardinality(ActiveOf(Past({"active"})))' = Cardinality(ActiveOf(Past({"active"}))) + one
  <2>1. /\ IsFiniteSet(ActiveOf(Past({"active"})))
        /\ Cardinality(ActiveOf(Past({"active"}))) \in Nat
    BY WorkersFinite DEF Past
  <2>2. QED
    BY <1>6, <2>1, FS_AddElement
<1>8. Cardinality(ActiveOf(Past({"active"}))) \in Nat
  BY WorkersFinite DEF Past
<1>9. FiguresInv'
  BY <1>1, <1>2, <1>3, <1>5, <1>7, <1>8 DEF FiguresInv, ReportTypeOK
<1>10. FinalInv'
  <2>1. final => one = 0
    BY <1>2 DEF TallyInv, FinalInv, QuietInv, ReportTypeOK
  <2>2. QED
    BY <1>1, <1>2, <1>3, <1>5, <2>1 DEF TallyInv, FinalInv, allVars, managerVars,
       ReportTypeOK
<1>11. QED
  BY <1>4, <1>9, <1>10 DEF TallyInv

LEMMA StatusTally ==
    ASSUME TallyInv, ReportStatus
    PROVE  TallyInv'
<1> DEFINE one == IF status[visiting] = "ERROR" THEN 1 ELSE 0
<1>1. /\ rpc = "status" /\ rpc' = "stats"
      /\ report' = [report EXCEPT !.error = @ + one]
      /\ UNCHANGED <<allVars, written, http, final, unread, visiting, began>>
  BY DEF ReportStatus
<1>2. ReportTypeOK /\ FiguresInv /\ one \in {0, 1}
  BY <1>1 DEF TallyInv
<1>3. /\ report'.error = report.error + one /\ report'.stats = report.stats
      /\ report'.written = report.written /\ report'.active = report.active
      /\ report' \in [{"written", "stats", "active", "error"} -> Nat]
  BY <1>1, <1>2 DEF ReportTypeOK
<1>4. ReportTypeOK'
  BY <1>1, <1>2, <1>3 DEF ReportTypeOK, CountersOK
<1>5. /\ Count(unread)' = Count(unread) /\ Written' = Written
      /\ Count(Past({"active", "status", "stats"}))' = Count(Past({"active", "status", "stats"}))
      /\ ActiveOf(Past({"active"}))' = ActiveOf(Past({"active"}))
  BY <1>1 DEF Count, Written, Packets, ActiveOf, Past, isActive, allVars, vars
<1>6. /\ Failed(Past({"active", "status"}))' = IF status[visiting] = "ERROR"
             THEN Failed(Past({"active", "status"})) \union {visiting}
             ELSE Failed(Past({"active", "status"}))
      /\ visiting \notin Failed(Past({"active", "status"}))
  BY <1>1, <1>2 DEF Failed, Past, allVars, vars, ReportTypeOK
<1>7. /\ IsFiniteSet(Failed(Past({"active", "status"})))
      /\ Cardinality(Failed(Past({"active", "status"}))) \in Nat
  BY WorkersFinite DEF Past
<1>8. Cardinality(Failed(Past({"active", "status"})))' =
          Cardinality(Failed(Past({"active", "status"}))) + one
  <2>1. CASE status[visiting] = "ERROR"
    BY <1>6, <1>7, <2>1, FS_AddElement
  <2>2. CASE status[visiting] # "ERROR"
    BY <1>6, <1>7, <2>2
  <2>3. QED
    BY <2>1, <2>2
<1>9. FiguresInv'
  BY <1>1, <1>2, <1>3, <1>5, <1>7, <1>8 DEF FiguresInv, ReportTypeOK
<1>10. FinalInv'
  BY <1>1, <1>3, <1>5 DEF TallyInv, FinalInv, allVars, managerVars
<1>11. QED
  BY <1>4, <1>9, <1>10 DEF TallyInv

LEMMA StatsTally ==
    ASSUME TallyInv, ReportStats
    PROVE  TallyInv'
<1>1. /\ rpc = "stats" /\ rpc' = "next"
      /\ report' = [report EXCEPT !.stats = @ + written[visiting]]
      /\ UNCHANGED <<allVars, written, http, final, unread, visiting, began>>
  BY DEF ReportStats
<1>2. ReportTypeOK /\ FiguresInv /\ written[visiting] \in Nat
  BY <1>1, HealthAssumption DEF TallyInv, ReportTypeOK, CountersOK
<1>3. /\ report'.stats = report.stats + written[visiting] /\ report'.error = report.error
      /\ report'.written = report.written /\ report'.active = report.active
      /\ report' \in [{"written", "stats", "active", "error"} -> Nat]
  BY <1>1, <1>2 DEF ReportTypeOK
<1>4. ReportTypeOK'
  BY <1>1, <1>2, <1>3 DEF ReportTypeOK, CountersOK
<1>5. /\ Count(unread)' = Count(unread) /\ Written' = Written
      /\ Failed(Past({"active", "status"}))' = Failed(Past({"active", "status"}))
      /\ ActiveOf(Past({"active"}))' = ActiveOf(Past({"active"}))
  BY <1>1 DEF Count, Written, Packets, Failed, ActiveOf, Past, isActive, allVars, vars
<1> DEFINE S == Workers \ (unread \union {visiting})
<1>6. /\ Past({"active", "status", "stats"}) = S
      /\ Past({"active", "status", "stats"})' = S \union {visiting}
  BY <1>1, <1>2 DEF Past, ReportTypeOK
<1>7. Count(S \union {visiting}) = Count(S) + written[visiting] /\ Count(S) \in Nat
  BY <1>2, CountOneMore, CountFinite DEF ReportTypeOK
<1>8. Count(Past({"active", "status", "stats"}))' = Count(S \union {visiting})
  BY <1>1, <1>6 DEF Count, Packets
<1>9. /\ began <= report.written + Count(unread)
      /\ report.written <= report.stats + written[visiting]
      /\ report.stats <= Count(S)
      /\ report.error <= Cardinality(Failed(Past({"active", "status"})))
      /\ report.active >= Cardinality(ActiveOf(Past({"active"})))
  BY <1>1, <1>2, <1>6 DEF FiguresInv
<1>10. /\ report.stats \in Nat /\ report.written \in Nat
       /\ rpc' \notin {"active", "status", "stats"}
  BY <1>1, <1>2 DEF ReportTypeOK
<1>11. report'.stats <= Count(Past({"active", "status", "stats"}))'
  BY <1>2, <1>3, <1>7, <1>8, <1>9, <1>10
<1>12. report'.written <= report'.stats
  BY <1>2, <1>3, <1>9, <1>10
<1>13. FiguresInv'
  BY <1>1, <1>3, <1>4, <1>5, <1>9, <1>10, <1>11, <1>12 DEF FiguresInv, ReportTypeOK
<1>14. FinalInv'
  BY <1>1, <1>3, <1>5 DEF TallyInv, FinalInv, allVars, managerVars
<1>15. QED
  BY <1>4, <1>13, <1>14 DEF TallyInv

(* When all workers have been read, the figures are as promised.           *)
LEMMA TallyIsDone ==
    ASSUME TallyInv, Reported
    PROVE  /\ began <= report.written /\ report.written <= report.stats
           /\ report.stats <= Written
           /\ report.error <= Cardinality(Failed(Workers))
           /\ report.active >= Cardinality(ActiveOf(Workers))
<1>1. ReportTypeOK /\ FiguresInv /\ Count(unread) = 0
  BY CountNothing DEF TallyInv, Reported, ReportTypeOK
<1>2. \A pcs \in {{"active", "status", "stats"}, {"active", "status"}, {"active"}} :
          Past(pcs) = Workers
  BY DEF Reported, Past
<1>3. QED
  BY <1>1, <1>2 DEF FiguresInv, Reported, ReportTypeOK, Count, Written

LEMMA EndTally ==
    ASSUME TallyInv, ReportEnd
    PROVE  TallyInv'
<1>1. /\ Reported /\ rpc' = "idle"
      /\ UNCHANGED <<allVars, written, http, final, unread, visiting, report, began>>
  BY DEF ReportEnd
<1>2. ReportTypeOK'
  BY <1>1 DEF TallyInv, ReportTypeOK, CountersOK
<1>3. Written' = Written
  BY <1>1 DEF Written, Packets
<1>4. final => report.written = Written
  <2>1. Written \in Nat
    BY CountFinite DEF Written, Count, TallyInv, ReportTypeOK
  <2>2. QED
    BY <1>1, <2>1, TallyIsDone DEF TallyInv, FinalInv, ReportTypeOK
<1>5. FinalInv'
  BY <1>1, <1>3, <1>4 DEF TallyInv, FinalInv, allVars, managerVars
<1>6. QED
  BY <1>1, <1>2, <1>5 DEF TallyInv

(* main does nothing to the streams while a report is in progress.         *)
LEMMA MainTally ==
    ASSUME ManagerInv, HealthInv, TallyInv, MainRuns \/ HttpStop
    PROVE  TallyInv'
<1>1. UNCHANGED <<written, final, reportVars>>
  BY DEF MainRuns, HttpStart, ScanStep, ScanBegin, ScanNext, ScanEnd, StopStreams,
         ManagerRuns, HttpStop, healthVars
<1>2. rpc # "idle" => UNCHANGED allVars
  <2>1. CASE HttpStart
    BY <2>1 DEF HttpStart, HealthInv
  <2>2. CASE ScanStep
    BY <2>2 DEF ScanStep, ScanBegin, ScanNext, ScanEnd
  <2>3. CASE StopStreams
    BY <2>3 DEF StopStreams, Shutdown, HealthInv
  <2>4. CASE ManagerRuns
    BY <2>4 DEF ManagerRuns, MainStep, StartNext, StopNext, DestroyNext, StartDone,
                StopBegin, StopDone, DestroyBegin, DestroyDone, HealthInv
  <2>5. CASE HttpStop
    BY <2>5 DEF HttpStop
  <2>6. QED
    BY <2>1, <2>2, <2>3, <2>4, <2>5 DEF MainRuns
<1>3. final => /\ mpc' \in {"stopped", "destroying", "gone"} /\ mgrStopped'
               /\ http' = "closed"
  BY DEF TallyInv, FinalInv, MainRuns, HttpStart, Shutdown, ScanStep, ScanBegin, ScanNext,
         ScanEnd, StopStreams, ManagerRuns, HttpStop, healthVars, allVars, managerVars,
         MainStep, StartNext, StopNext, DestroyNext, StartDone, StopBegin, StopDone,
         DestroyBegin, DestroyDone
<1>4. Written' = Written
  BY <1>1 DEF Written, Packets
<1>5. ReportTypeOK'
  BY <1>1 DEF TallyInv, ReportTypeOK, CountersOK, reportVars
<1>6. FinalInv'
  BY <1>1, <1>3, <1>4 DEF TallyInv, FinalInv, reportVars
<1>7. rpc' # "idle" => FiguresInv'
  BY <1>1, <1>2 DEF TallyInv, FiguresInv, Count, Packets, Past, Failed, ActiveOf, isActive,
                    reportVars, allVars, vars
<1>8. QED
  BY <1>5, <1>6, <1>7 DEF TallyInv

(* The threads of the streams: counters grow, a worker in ERROR stays so,  *)
(* and none that is not active becomes active.                             *)
LEMMA ThreadTally ==
    ASSUME ProtocolInv, ManagerInv, HealthInv, TallyInv,
           NEW w \in Workers, CallRuns(w) \/ ThreadRunsOn(w)
    PROVE  TallyInv'
<1>1. UNCHANGED <<mpc, mgrStopped, http, final, reportVars>>
  BY DEF CallRuns, CallProceeds, ThreadRunsOn, WorkerThread, managerVars, healthVars
<1>2. CountersOK' /\ \A v \in Workers : written[v] <= written'[v]
  BY HealthAssumption
  DEF CallRuns, ThreadRunsOn, recordPacketWritten, healthVars, TallyInv, ReportTypeOK,
      CountersOK
<1>3. ReportTypeOK'
  BY <1>1, <1>2 DEF TallyInv, ReportTypeOK, reportVars
<1>4. CASE final
  <2>1. ~ThreadRuns(w)
    BY <1>4 DEF TallyInv, FinalInv, ManagerInv
  <2>2. ~ThreadStep(w)
    BY <2>1 DEF ThreadStep, CreateSource, OpenSource, InitMuxer, SetRunning,
           LoopCheck, ReadPacket, WritePacket, ThreadRuns
  <2>3. CallRuns(w) /\ written' = written /\ CallerStep(w)
    BY <2>2 DEF CallRuns, CallProceeds, ThreadRunsOn, WorkerThread, healthVars
  <2>4. rpc = "idle"
    <3>1. mpc = "destroying"
      BY <1>4, <2>3, CallerOnly
      DEF ManagerInv, AtHome, ProtocolInv, TallyInv, FinalInv, StopPc
    <3>2. QED
      BY <3>1 DEF HealthInv
  <2>5. FinalInv'
    BY <1>1, <2>3 DEF TallyInv, FinalInv, Written, Packets, reportVars
  <2>6. QED
    BY <1>1, <1>3, <2>4, <2>5 DEF TallyInv, reportVars
<1>5. CASE ~final /\ rpc = "idle"
  BY <1>1, <1>3, <1>5 DEF TallyInv, FinalInv, reportVars
<1>6. CASE ~final /\ rpc # "idle"
  <2>1. mpc = "running"
    BY <1>6 DEF HealthInv
  <2>2. ~CallerStep(w)
    BY <2>1, CallerOnly DEF ManagerInv, AtHome, ProtocolInv, StopPc
  <2>3. ThreadStep(w)
    BY <2>2 DEF CallRuns, CallProceeds, ThreadRunsOn, WorkerThread
  <2>4. \A v \in Workers : status[v] = "ERROR" => status'[v] = "ERROR"
    <3>1. ThreadRuns(w)
      BY <2>3 DEF ThreadStep, CreateSource, OpenSource, InitMuxer, SetRunning,
             LoopCheck, ReadPacket, WritePacket, ThreadRuns
    <3>2. status[w] # "ERROR"
      BY <3>1 DEF ProtocolInv, WorkerInv, ThreadRuns
    <3>3. QED
      BY <2>3, <3>2, StepOfOther DEF Step, ProtocolInv
  <2>5. \A v \in Workers : ~isActive(v) => ~isActive(v)'
    BY <2>1, InactiveStaysSo
  <2>6. \A pcs : Past(pcs)' = Past(pcs) /\ Past(pcs) \subseteq Workers
    BY <1>1 DEF Past, reportVars
  <2>7. \A S \in SUBSET Workers :
          Count(S) <= Count(S)' /\ Count(S) \in Nat /\ Count(S)' \in Nat
    BY <1>2, CountFinite, CountGrows DEF TallyInv, ReportTypeOK
  <2>8. \A S \in SUBSET Workers :
          /\ Cardinality(Failed(S)) <= Cardinality(Failed(S))'
          /\ Cardinality(ActiveOf(S))' <= Cardinality(ActiveOf(S))
          /\ Cardinality(Failed(S)) \in Nat /\ Cardinality(Failed(S))' \in Nat
          /\ Cardinality(ActiveOf(S)) \in Nat /\ Cardinality(ActiveOf(S))' \in Nat
    <3> SUFFICES ASSUME NEW S \in SUBSET Workers
                 PROVE  /\ Cardinality(Failed(S)) <= Cardinality(Failed(S))'
                        /\ Cardinality(ActiveOf(S))' <= Cardinality(ActiveOf(S))
                        /\ Cardinality(Failed(S)) \in Nat /\ Cardinality(Failed(S))' \in Nat
                        /\ Cardinality(ActiveOf(S)) \in Nat /\ Cardinality(ActiveOf(S))' \in Nat
      OBVIOUS
    <3>1. IsFiniteSet(Failed(S)) /\ IsFiniteSet(ActiveOf(S))
      BY WorkersFinite
    <3>2. Failed(S)' \in SUBSET Workers /\ Failed(S) \in SUBSET Failed(S)'
      BY <2>4 DEF Failed
    <3>3. IsFiniteSet(Failed(S)')
      BY <3>2, HealthAssumption, FS_Subset
    <3>4. ActiveOf(S)' \in SUBSET ActiveOf(S)
      BY <2>5 DEF ActiveOf
    <3>5. Cardinality(Failed(S)) <= Cardinality(Failed(S)')
      BY <3>2, <3>3, FS_Subset
    <3>6. /\ Cardinality(ActiveOf(S)') <= Cardinality(ActiveOf(S))
          /\ IsFiniteSet(ActiveOf(S)')
      BY <3>1, <3>4, FS_Subset
    <3>7. QED
      BY <3>1, <3>3, <3>5, <3>6, FS_CardinalityType
  <2> DEFINE P == Past({"active", "status", "stats"})
             E == Past({"active", "status"})
             A == Past({"active"})
  <2>9. /\ P' = P /\ E' = E /\ A' = A /\ unread' = unread
        /\ P \in SUBSET Workers /\ E \in SUBSET Workers /\ A \in SUBSET Workers
        /\ unread \in SUBSET Workers
    BY <1>1, <2>6 DEF TallyInv, ReportTypeOK, reportVars
  <2> HIDE DEF P, E, A
  <2>10. /\ Count(unread) <= Count(unread)'
         /\ Count(unread) \in Nat /\ Count(unread)' \in Nat
    BY <2>7, <2>9 DEF Count, Packets
  <2>11. Count(P) <= Count(P)' /\ Count(P) \in Nat /\ Count(P)' \in Nat
    BY <2>7, <2>9 DEF Count, Packets
  <2>12. /\ Cardinality(Failed(E)) <= Cardinality(Failed(E))'
         /\ Cardinality(Failed(E)) \in Nat /\ Cardinality(Failed(E))' \in Nat
    BY <2>8, <2>9 DEF Failed
  <2>13. /\ Cardinality(ActiveOf(A))' <= Cardinality(ActiveOf(A))
         /\ Cardinality(ActiveOf(A)) \in Nat /\ Cardinality(ActiveOf(A))' \in Nat
    BY <2>8, <2>9 DEF ActiveOf, isActive
  <2>14. /\ began' = began /\ report' = report /\ rpc' = rpc /\ visiting' = visiting
         /\ written[visiting] <= written'[visiting]
         /\ written[visiting] \in Nat /\ written'[visiting] \in Nat
         /\ report.written \in Nat /\ report.stats \in Nat /\ report.error \in Nat
         /\ report.active \in Nat /\ began \in Nat
    BY <1>1, <1>2, HealthAssumption DEF reportVars, TallyInv, ReportTypeOK, CountersOK
  <2>15. FiguresInv'
    <3>1. /\ began <= report.written + Count(unread)
          /\ report.written <= report.stats +
                (IF rpc \in {"active", "status", "stats"} THEN written[visiting] ELSE 0)
          /\ report.stats <= Count(P)
          /\ report.error <= Cardinality(Failed(E))
          /\ report.active >= Cardinality(ActiveOf(A))
      BY <1>6 DEF TallyInv, FiguresInv, P, E, A
    <3>2. /\ began' <= report'.written + Count(unread)'
          /\ report'.stats <= Count(P)'
      BY <2>10, <2>11, <2>14, <3>1
    <3>3. report'.written <= report'.stats +
             (IF rpc' \in {"active", "status", "stats"} THEN written'[visiting'] ELSE 0)
      BY <2>14, <3>1
    <3>4. /\ report'.error <= Cardinality(Failed(E))'
          /\ report'.active >= Cardinality(ActiveOf(A))'
      BY <2>12, <2>13, <2>14, <3>1
    <3>5. QED
      BY <3>2, <3>3, <3>4 DEF FiguresInv, P, E, A
  <2>16. QED
    BY <1>1, <1>3, <1>6, <2>15 DEF TallyInv, FinalInv, reportVars
<1>7. QED
  BY <1>4, <1>5, <1>6

LEMMA StepTally ==
    ASSUME ProtocolInv, ManagerInv, QuietInv, HealthInv, TallyInv, HealthStep
    PROVE  TallyInv'
<1>1. CASE MainRuns \/ HttpStop
  BY <1>1, MainTally
<1>2. CASE getAggregateHealth
  BY <1>2, BeginTally, TotalsTally, ActiveTally, StatusTally, StatsTally, EndTally
  DEF getAggregateHealth
<1>3. ASSUME NEW w \in Workers, CallRuns(w) \/ ThreadRunsOn(w)
      PROVE  TallyInv'
  BY <1>3, ThreadTally
<1>4. CASE UNCHANGED processVars
  BY <1>4 DEF processVars, allVars, vars, managerVars, healthVars, reportVars, TallyInv,
     ReportTypeOK, CountersOK, FiguresInv, FinalInv, Written, Count, Packets, Past, Failed,
     ActiveOf, isActive
<1>5. QED
  BY <1>1, <1>2, <1>3, <1>4 DEF HealthStep, HealthNext

(* What a report has added up at each point, in every reachable state.     *)
THEOREM TallyHolds == HealthSpec => []TallyInv
<1>1. HealthInit => TallyInv
  <2> SUFFICES ASSUME HealthInit PROVE TallyInv
    OBVIOUS
  <2>1. ReportTypeOK
    BY HealthAssumption DEF HealthInit, ReportTypeOK, CountersOK, EmptyReport
  <2>2. QED
    BY <2>1 DEF HealthInit, TallyInv, FinalInv
<1>2. ProtocolInv /\ ManagerInv /\ QuietInv /\ HealthInv /\ TallyInv
      /\ [HealthNext]_processVars => TallyInv'
  BY StepTally DEF HealthStep
<1>3. HealthSpec => []QuietInv
  BY HealthImplements, QuietHolds, PTL
<1>4. QED
  BY <1>1, <1>2, <1>3, HealthHolds, PTL DEF HealthSpec

(* ReportIsCurrent: the total of a report is between what was counted when *)
(* it began and when it ended, and no failure or stream in it is made up,  *)
(* for any number of streams and of counted packets.                       *)
THEOREM ReportsAreCurrent == HealthSpec => []ReportIsCurrent
<1>1. TallyInv => ReportIsCurrent
  BY TallyIsDone DEF ReportIsCurrent, Failed, ActiveOf
<1>2. QED
  BY <1>1, TallyHolds, PTL

(* LastReportIsFinal: after main's last report no packet is written, and   *)
(* it shows no stream as active.                                           *)
THEOREM NothingAfterTheLast == HealthSpec => []LastReportIsFinal
<1>1. TallyInv => LastReportIsFinal
  BY DEF TallyInv, FinalInv, LastReportIsFinal
<1>2. QED
  BY <1>1, TallyHolds, PTL

(* What stop() and the destructor leave, in the process as a whole, whose  *)
(* listener and monitoring loop read the streams all the while.            *)
THEOREM ProcessStopsClean ==
    HealthSpec => [](StopLeavesNoThread /\ GoneMeansReleased)
<1>1. QED
  BY HealthImplements, StopIsComplete, DestructorReleases, PTL
=============================================================================
