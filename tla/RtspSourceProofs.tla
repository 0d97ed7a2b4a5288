-------------------------- MODULE RtspSourceProofs --------------------------
(***************************************************************************)
(* The safety of readPacket, for all delays, timeouts and sequences of     *)
(* outages.  ReadInv says what each place of the loop knows: a connection  *)
(* that was closed has been counted, and how many blocking calls can have  *)
(* been made since the shutdown was requested.  At the end, the back-off:  *)
(* the waits stay bounded although the delay wraps around.                 *)
(***************************************************************************)
EXTENDS WorkerSource, TLAPS

Types ==
    /\ enabled \in BOOLEAN /\ pc \in SourcePc
    /\ connected \in BOOLEAN /\ shutdown \in BOOLEAN
    /\ ahead \in BOOLEAN /\ delivered \in BOOLEAN /\ spliced \in BOOLEAN
    /\ late \in 0..3

ConnectionInv ==
    /\ pc \in {"idle", "read", "reading", "got"} => connected
    /\ pc \in {"connect", "check", "sleep", "reopening"} /\ ~connected => ahead
    /\ spliced => ahead
    /\ pc \in {"sleep", "reopening"} => ~connected /\ enabled

LateInv ==
    /\ ~shutdown => late = 0
    /\ pc \in {"new", "connect"} => late = 0
    /\ pc \in {"opening", "reopening", "read", "sleep"} => late <= 1
    /\ late <= 2

GiveUpInv ==
    /\ pc \in {"new", "opening"} => ~delivered
    /\ pc = "over" /\ delivered => shutdown \/ ~enabled

ReadInv == Types /\ ConnectionInv /\ LateInv /\ GiveUpInv

LEMMA ReadInit == Init => ReadInv
<1> SUFFICES ASSUME Init PROVE ReadInv
  OBVIOUS
<1>1. Types
  <2>1. /\ enabled \in BOOLEAN /\ connected \in BOOLEAN /\ shutdown \in BOOLEAN
        /\ ahead \in BOOLEAN /\ delivered \in BOOLEAN /\ spliced \in BOOLEAN
    BY Zenon DEF Init
  <2>2. pc \in SourcePc /\ late \in 0..3
    BY SMT DEF Init, SourcePc
  <2>3. QED
    BY <2>1, <2>2 DEF Types
<1>2. ConnectionInv /\ LateInv /\ GiveUpInv
  BY DEF Init, ConnectionInv, LateInv, GiveUpInv
<1>3. QED
  BY <1>1, <1>2 DEF ReadInv

(* The steps of the worker's thread.                                       *)
LEMMA ThreadKeepsReadInv == ReadInv /\ ThreadStep => ReadInv'
<1> SUFFICES ASSUME ReadInv, ThreadStep PROVE ReadInv'
  OBVIOUS
<1> USE DEF ReadInv, Types, ConnectionInv, LateInv, GiveUpInv, SourcePc,
            loopVars, countVars
<1>1. CASE open
  BY <1>1 DEF open, BlockingCall
<1>2. CASE Opened
  BY <1>2 DEF Opened
<1>3. CASE Call
  BY <1>3 DEF Call
<1>4. CASE Check
  BY <1>4 DEF Check, closeConnection, recordReconnect
<1>5. CASE Connect
  BY <1>5 DEF Connect, BlockingCall
<1>6. CASE Reopened
  <2>1. /\ pc = "reopening" /\ ~connected /\ enabled /\ ahead /\ late <= 1
    BY <1>6 DEF Reopened
  <2>2. UNCHANGED <<enabled, shutdown, ahead, delivered, late>>
    BY <1>6 DEF Reopened
  <2>3. CASE up /\ connected' = TRUE /\ spliced' = delivered /\ pc' = "read"
    BY <2>1, <2>2, <2>3
  <2>4. CASE pc' = "sleep" /\ UNCHANGED <<connected, spliced>>
    BY <2>1, <2>2, <2>4
  <2>5. QED
    BY <1>6, <2>3, <2>4 DEF Reopened
<1>7. CASE Read
  BY <1>7 DEF Read, BlockingCall
<1>8. CASE PacketRead
  BY <1>8 DEF PacketRead
<1>9. CASE ReadFails
  BY <1>9 DEF ReadFails, closeConnection, recordReconnect
<1>10. CASE Deliver
  BY <1>10 DEF Deliver
<1>11. QED
  BY <1>1, <1>2, <1>3, <1>4, <1>5, <1>6, <1>7, <1>8, <1>9, <1>10 DEF ThreadStep

(* The other thread, the camera and the clock.                             *)
LEMMA OthersKeepReadInv ==
    ReadInv /\ (requestShutdown \/ CameraFails \/ CameraReturns \/ Tick \/ UNCHANGED vars)
    => ReadInv'
<1> SUFFICES ASSUME ReadInv, requestShutdown \/ CameraFails \/ CameraReturns \/ Tick
                             \/ UNCHANGED vars
             PROVE  ReadInv'
  OBVIOUS
<1> USE DEF ReadInv, Types, ConnectionInv, LateInv, GiveUpInv, SourcePc,
            loopVars, countVars
<1>1. CASE requestShutdown
  BY <1>1 DEF requestShutdown
<1>2. CASE CameraFails \/ CameraReturns
  BY <1>2 DEF CameraFails, CameraReturns
<1>3. CASE Tick
  BY <1>3 DEF Tick
<1>4. CASE UNCHANGED vars
  BY <1>4 DEF vars
<1>5. QED
  BY <1>1, <1>2, <1>3, <1>4

(* ReadInv holds throughout.                                               *)
THEOREM ReadHolds == Spec => []ReadInv
<1>1. ReadInv /\ [Next]_vars => ReadInv'
  BY ThreadKeepsReadInv, OthersKeepReadInv DEF Next
<1>2. QED
  BY ReadInit, <1>1, PTL DEF Spec

(* NoSilentSplice: whatever ended a connection, the packet that follows    *)
(* from the next one finds the reconnect counter grown.                    *)
THEOREM NoSpliceIsSilent == Spec => []NoSilentSplice
<1>1. ReadInv => NoSilentSplice
  BY DEF ReadInv, ConnectionInv, NoSilentSplice
<1>2. QED
  BY <1>1, ReadHolds, PTL

(* GivesUpWhenTold: what StreamWorker assumes of readPacket.               *)
THEOREM ReadGivesUpWhenTold == Spec => []GivesUpWhenTold
<1>1. ReadInv => GivesUpWhenTold
  BY DEF ReadInv, GiveUpInv, GivesUpWhenTold
<1>2. QED
  BY <1>1, ReadHolds, PTL

(* ShutdownIsPrompt: at most two blocking calls begin after the shutdown   *)
(* was requested, whatever the outage and the back-off.                    *)
THEOREM AtMostTwoLateCalls == Spec => []ShutdownIsPrompt
<1>1. ReadInv => ShutdownIsPrompt
  BY DEF ReadInv, LateInv, ShutdownIsPrompt
<1>2. QED
  BY <1>1, ReadHolds, PTL
-----------------------------------------------------------------------------
(* The worker and its source.                                              *)

Phases == {"open_source", "init_muxer", "set_running", "check", "read", "write"}

WorkerTypes ==
    /\ me \in Workers
    /\ status \in [Workers -> Worker!Status]
    /\ stopped \in [Workers -> BOOLEAN]
    /\ source \in [Workers -> BOOLEAN]
    /\ srcShutdown \in [Workers -> BOOLEAN]
    /\ tpc \in [Workers -> Worker!ThreadPc]
    /\ cpc \in [Workers -> Worker!CallerPc]

(* Nothing is released under the thread, so that the source it works with  *)
(* is the one that stop() told.                                            *)
CallerInv ==
    /\ cpc[me] \in {"cleanup", "set_idle", "destroyed", "spawn"} => tpc[me] = "none"
    /\ cpc[me] = "idle" /\ (status[me] = "IDLE" \/ stopped[me]) => tpc[me] = "none"
    /\ cpc[me] \in {"spawn", "started"} => ~stopped[me] /\ status[me] # "IDLE"

SourceInv ==
    /\ tpc[me] \in Phases => source[me] /\ shutdown = srcShutdown[me]
    /\ enabled = (me \in Reconnecting)

ContractInv == WorkerTypes /\ CallerInv /\ SourceInv

WSInv == ContractInv /\ ReadInv

LEMMA WSInitInv == WSInit => WSInv
<1> SUFFICES ASSUME WSInit PROVE WSInv
  OBVIOUS
<1>1. ReadInv
  BY ReadInit DEF WSInit
<1>2. WorkerTypes
  BY DEF WSInit, Worker!Init, WorkerTypes, Worker!Status, Worker!ThreadPc, Worker!CallerPc
<1>3. CallerInv /\ SourceInv
  BY DEF WSInit, Worker!Init, CallerInv, SourceInv, Phases
<1>4. QED
  BY <1>1, <1>2, <1>3 DEF WSInv, ContractInv

(* A new source is as good as the first one.                               *)
LEMMA NewSourceIsGood == ReadInv /\ NewSource => ReadInv'
<1> SUFFICES ASSUME ReadInv, NewSource PROVE ReadInv'
  OBVIOUS
<1>1. Types'
  <2>1. /\ enabled' \in BOOLEAN /\ connected' \in BOOLEAN /\ shutdown' \in BOOLEAN
        /\ ahead' \in BOOLEAN /\ delivered' \in BOOLEAN /\ spliced' \in BOOLEAN
    BY Zenon DEF NewSource, ReadInv, Types
  <2>2. pc' \in SourcePc /\ late' \in 0..3
    BY SMT DEF NewSource, SourcePc
  <2>3. QED
    BY <2>1, <2>2 DEF Types
<1>2. ConnectionInv' /\ LateInv' /\ GiveUpInv'
  BY DEF NewSource, ConnectionInv, LateInv, GiveUpInv
<1>3. QED
  BY <1>1, <1>2 DEF ReadInv

(* Every step of the two together is one of the source's, makes a new      *)
(* source, or leaves the source alone.                                     *)
LEMMA SourceStep == [WSNext]_wsVars => [Next]_vars \/ NewSource
<1> SUFFICES ASSUME [WSNext]_wsVars PROVE [Next]_vars \/ NewSource
  OBVIOUS
<1>1. CASE CallerRuns \/ Initializes
  BY <1>1 DEF CallerRuns, Initializes
<1>2. CASE TellsSource
  BY <1>2 DEF TellsSource, Next
<1>3. CASE CreatesSource
  BY <1>3 DEF CreatesSource
<1>4. CASE OpenBegins \/ OpenEnds
  BY <1>4 DEF OpenBegins, OpenEnds, Next, ThreadStep
<1>5. CASE Loops
  BY <1>5 DEF Loops, Next, ThreadStep
<1>6. CASE readPacket
  BY <1>6 DEF readPacket, Next, ThreadStep
<1>7. CASE Writes
  BY <1>7 DEF Writes, Next, ThreadStep
<1>8. CASE WorldStep
  BY <1>8 DEF WorldStep, Next
<1>9. CASE UNCHANGED wsVars
  BY <1>9 DEF wsVars
<1>10. QED
  BY <1>1, <1>2, <1>3, <1>4, <1>5, <1>6, <1>7, <1>8, <1>9 DEF WSNext, processingLoop

LEMMA StepKeepsReadInv == ReadInv /\ [WSNext]_wsVars => ReadInv'
<1>1. ReadInv /\ [Next]_vars => ReadInv'
  BY ThreadKeepsReadInv, OthersKeepReadInv DEF Next
<1>2. QED
  BY <1>1, SourceStep, NewSourceIsGood

(* The steps of readPacket that end it, as the worker sees them.           *)
LEMMA ReadKeepsContract ==
    ContractInv /\ readPacket => Worker!ReadPacket(me) \/ UNCHANGED workerVars
<1> SUFFICES ASSUME ContractInv, readPacket
             PROVE  Worker!ReadPacket(me) \/ UNCHANGED workerVars
  OBVIOUS
<1>1. /\ tpc[me] = "read"
      /\ UNCHANGED <<status, shutdownRequested, stopped, source, srcShutdown,
                     muxer, initialized, cpc, dying, result>>
  BY DEF readPacket
<1>2. /\ shutdown = srcShutdown[me] /\ enabled = (me \in Reconnecting)
      /\ tpc = [tpc EXCEPT ![me] = tpc[me]]
  BY <1>1 DEF ContractInv, WorkerTypes, SourceInv, Phases
<1>3. pc' = "over" => shutdown \/ ~enabled
  BY DEF readPacket, Check, Connect, Reopened, Read, PacketRead, ReadFails
<1>4. CASE pc' = "got"
  <2>1. tpc' = [tpc EXCEPT ![me] = "write"]
    BY <1>4 DEF readPacket, ReadReturns
  <2>2. QED
    BY <1>1, <2>1 DEF Worker!ReadPacket, Worker!ThreadGoesTo
<1>5. CASE pc' = "over"
  <2>1. tpc' = [tpc EXCEPT ![me] = "done"]
    BY <1>5 DEF readPacket, ReadReturns
  <2>2. QED
    BY <1>1, <1>2, <1>3, <1>5, <2>1
    DEF Worker!ReadPacket, Worker!ThreadEnds, Worker!ThreadGoesTo
<1>6. CASE pc' \notin {"got", "over"}
  <2>1. tpc' = [tpc EXCEPT ![me] = tpc[me]]
    BY <1>6 DEF readPacket, ReadReturns
  <2>2. QED
    BY <1>1, <1>2, <2>1 DEF workerVars
<1>7. QED
  BY <1>4, <1>5, <1>6

(* Every step of the two together is one of the worker's or none.          *)
WorkerStep ==
    \/ Worker!Call(me) \/ Worker!CallerStep(me) \/ Worker!ThreadStep(me)
    \/ UNCHANGED workerVars

LEMMA WorkerSteps == ContractInv /\ [WSNext]_wsVars => WorkerStep
<1> SUFFICES ASSUME ContractInv, [WSNext]_wsVars PROVE WorkerStep
  OBVIOUS
<1>1. CASE CallerRuns
  BY <1>1 DEF CallerRuns, WorkerStep
<1>2. CASE TellsSource
  BY <1>2 DEF TellsSource, WorkerStep, Worker!CallerStep
<1>3. CASE CreatesSource \/ OpenEnds \/ Initializes \/ Loops \/ Writes
  BY <1>3 DEF CreatesSource, OpenEnds, Initializes, Loops, Writes, WorkerStep,
              Worker!ThreadStep
<1>4. CASE readPacket
  BY <1>4, ReadKeepsContract DEF WorkerStep, Worker!ThreadStep
<1>5. CASE OpenBegins \/ WorldStep
  BY <1>5 DEF OpenBegins, WorldStep, WorkerStep
<1>6. CASE UNCHANGED wsVars
  BY <1>6 DEF wsVars, WorkerStep
<1>7. QED
  BY <1>1, <1>2, <1>3, <1>4, <1>5, <1>6 DEF WSNext, processingLoop

LEMMA CallerKeepsTypes ==
    ASSUME WorkerTypes, CallerInv, UNCHANGED me,
           Worker!Call(me) \/ Worker!CallerStep(me)
    PROVE  WorkerTypes' /\ CallerInv'
<1> USE DEF WorkerTypes, CallerInv, Worker!Status, Worker!ThreadPc, Worker!CallerPc,
            Worker!SetStatus, Worker!CallerGoesTo, Worker!ThreadGoesTo
<1>0. CASE Worker!StartRefused(me)
  BY <1>0 DEF Worker!StartRefused
<1>1. CASE Worker!StartReset(me)
  <2>1. tpc[me] = "none"
    BY <1>1 DEF Worker!StartReset
  <2>2. WorkerTypes'
    BY <1>1 DEF Worker!StartReset
  <2>3. /\ UNCHANGED tpc /\ cpc'[me] = "spawn"
        /\ status'[me] = "RUNNING" /\ ~stopped'[me]
    BY <1>1 DEF Worker!StartReset
  <2>4. QED
    BY <2>1, <2>2, <2>3
<1>2. CASE Worker!StopEnter(me)
  BY <1>2 DEF Worker!StopEnter
<1>3. CASE Worker!Destroy(me)
  BY <1>3 DEF Worker!Destroy, Worker!ReleaseResources
<1>4. CASE Worker!Spawn(me)
  BY <1>4 DEF Worker!Spawn
<1>5. CASE Worker!StartReturn(me) \/ Worker!StopStatus(me) \/ Worker!StopFlag(me)
  BY <1>5 DEF Worker!StartReturn, Worker!StopStatus, Worker!StopFlag
<1>6. CASE Worker!StopSource(me)
  BY <1>6 DEF Worker!StopSource
<1>7. CASE Worker!Join(me)
  BY <1>7 DEF Worker!Join
<1>8. CASE Worker!cleanup(me)
  BY <1>8 DEF Worker!cleanup, Worker!ReleaseResources
<1>9. CASE Worker!StopReturn(me)
  BY <1>9 DEF Worker!StopReturn
<1>10. QED
  BY <1>0, <1>1, <1>2, <1>3, <1>4, <1>5, <1>6, <1>7, <1>8, <1>9
  DEF Worker!Call, Worker!CallerStep

LEMMA ThreadKeepsTypes ==
    ASSUME WorkerTypes, CallerInv, UNCHANGED me, Worker!ThreadStep(me)
    PROVE  WorkerTypes' /\ CallerInv'
<1> USE DEF WorkerTypes, CallerInv, Worker!Status, Worker!ThreadPc, Worker!CallerPc,
            Worker!SetStatus, Worker!ThreadGoesTo, Worker!ThreadFails,
            Worker!ThreadEnds
<1>1. CASE Worker!CreateSource(me)
  BY <1>1 DEF Worker!CreateSource
<1>2. CASE Worker!OpenSource(me) \/ Worker!InitMuxer(me)
  BY <1>2 DEF Worker!OpenSource, Worker!InitMuxer
<1>3. CASE Worker!SetRunning(me) \/ Worker!LoopCheck(me)
  BY <1>3 DEF Worker!SetRunning, Worker!LoopCheck
<1>4. CASE Worker!ReadPacket(me) \/ Worker!WritePacket(me)
  BY <1>4 DEF Worker!ReadPacket, Worker!WritePacket
<1>5. QED
  BY <1>1, <1>2, <1>3, <1>4 DEF Worker!ThreadStep

(* stop() and cleanup() agree with the source on what it was told.         *)
LEMMA StepKeepsSourceInv ==
    ASSUME ContractInv, [WSNext]_wsVars
    PROVE  SourceInv'
<1> USE DEF ContractInv, WorkerTypes, CallerInv, SourceInv, Phases,
            Worker!ThreadGoesTo, Worker!CallerGoesTo
<1>1. CASE CallerRuns
  <2>1. UNCHANGED <<me, shutdown, enabled>>
    BY <1>1 DEF CallerRuns, vars, loopVars
  <2>2. CASE Worker!StartRefused(me) \/ Worker!StartReset(me) \/ Worker!StopEnter(me)
    BY <2>1, <2>2 DEF Worker!StartRefused, Worker!StartReset, Worker!StopEnter
  <2>3. CASE Worker!Destroy(me)
    BY <2>1, <2>3 DEF Worker!Destroy, Worker!ReleaseResources
  <2>4. CASE Worker!Spawn(me) \/ Worker!StartReturn(me)
    BY <2>1, <2>4 DEF Worker!Spawn, Worker!StartReturn
  <2>5. CASE Worker!StopStatus(me) \/ Worker!StopFlag(me)
    BY <2>1, <2>5 DEF Worker!StopStatus, Worker!StopFlag
  <2>6. CASE Worker!Join(me) \/ Worker!StopReturn(me)
    BY <2>1, <2>6 DEF Worker!Join, Worker!StopReturn
  <2>7. CASE Worker!cleanup(me)
    BY <2>1, <2>7 DEF Worker!cleanup, Worker!ReleaseResources
  <2>8. ~Worker!StopSource(me) \/ cpc[me] = "stop_source"
    BY DEF Worker!StopSource
  <2>9. QED
    BY <1>1, <2>2, <2>3, <2>4, <2>5, <2>6, <2>7, <2>8
    DEF CallerRuns, Worker!Call, Worker!CallerStep
<1>2. CASE TellsSource
  <2>1. UNCHANGED <<me, tpc, source, enabled>>
    BY <1>2 DEF TellsSource, Worker!StopSource, requestShutdown, vars, loopVars
  <2>2. tpc[me] \in Phases => source[me] /\ shutdown = srcShutdown[me]
    OBVIOUS
  <2>3. tpc[me] \in Phases => shutdown' = srcShutdown'[me]
    BY <1>2, <2>2 DEF TellsSource, Worker!StopSource, requestShutdown, vars, loopVars
  <2>4. QED
    BY <2>1, <2>2, <2>3
<1>3. CASE CreatesSource
  BY <1>3 DEF CreatesSource, Worker!CreateSource, NewSource, Worker!ThreadFails,
              vars, loopVars
<1>4. CASE OpenBegins
  BY <1>4 DEF OpenBegins, open, workerVars
<1>5. CASE OpenEnds
  BY <1>5 DEF OpenEnds, Opened, Worker!OpenSource, Worker!ThreadFails
<1>6. CASE Initializes
  BY <1>6 DEF Initializes, Worker!InitMuxer, Worker!SetRunning, Worker!ThreadFails,
              vars, loopVars
<1>7. CASE Loops
  BY <1>7 DEF Loops, Worker!LoopCheck, Call, vars, loopVars
<1>8. CASE readPacket
  <2>1. UNCHANGED <<me, source, srcShutdown, shutdown, enabled>> /\ tpc[me] \in Phases
    BY <1>8 DEF readPacket, Check, Connect, Reopened, Read, PacketRead, ReadFails
  <2>2. QED
    BY <2>1
<1>9. CASE Writes
  BY <1>9 DEF Writes, Deliver, Worker!WritePacket, Worker!ThreadEnds,
              Worker!ThreadFails
<1>10. CASE WorldStep
  BY <1>10 DEF WorldStep, CameraFails, CameraReturns, Tick, workerVars, loopVars
<1>11. CASE UNCHANGED wsVars
  BY <1>11 DEF wsVars, workerVars, vars, loopVars
<1>12. QED
  BY <1>1, <1>2, <1>3, <1>4, <1>5, <1>6, <1>7, <1>8, <1>9, <1>10, <1>11
  DEF WSNext, processingLoop

LEMMA StepKeepsContract == ContractInv /\ [WSNext]_wsVars => ContractInv'
<1> SUFFICES ASSUME ContractInv, [WSNext]_wsVars PROVE ContractInv'
  OBVIOUS
<1>1. UNCHANGED me
  BY DEF WSNext, wsVars, CallerRuns, TellsSource, processingLoop, CreatesSource,
         OpenBegins, OpenEnds, Initializes, Loops, readPacket, Writes, WorldStep
<1>2. WorkerTypes' /\ CallerInv'
  <2>1. CASE UNCHANGED workerVars
    BY <1>1, <2>1 DEF ContractInv, WorkerTypes, CallerInv, workerVars
  <2>2. QED
    BY <1>1, <2>1, WorkerSteps, CallerKeepsTypes, ThreadKeepsTypes
    DEF ContractInv, WorkerStep
<1>3. SourceInv'
  BY StepKeepsSourceInv
<1>4. QED
  BY <1>2, <1>3 DEF ContractInv

LEMMA StepKeepsWSInv == WSInv /\ [WSNext]_wsVars => WSInv'
  BY StepKeepsContract, StepKeepsReadInv DEF WSInv

(* WSInv holds throughout, however often the worker is stopped and started *)
(* again.                                                                  *)
THEOREM WorkerSourceHolds == WSSpec => []WSInv
  BY WSInitInv, StepKeepsWSInv, PTL DEF WSSpec

(* The safety half of ImplementsWorker, for all delays and timeouts: the   *)
(* worker with the real readPacket takes no step that StreamWorker does    *)
(* not allow, so that what is shown there holds of the two together.       *)
THEOREM SourceKeepsContract == WSSpec => Worker!Spec
<1>1. WSInit => Worker!Init
  BY DEF WSInit
<1>2. WSInv /\ [WSNext]_wsVars => [Worker!Next]_(Worker!vars)
  <2> SUFFICES ASSUME WSInv, [WSNext]_wsVars PROVE [Worker!Next]_(Worker!vars)
    OBVIOUS
  <2>1. WorkerStep
    BY WorkerSteps DEF WSInv
  <2>2. me \in Workers
    BY DEF WSInv, ContractInv, WorkerTypes
  <2>3. QED
    BY <2>1, <2>2 DEF WorkerStep, Worker!Next, Worker!vars, workerVars
<1>3. QED
  BY <1>1, <1>2, WorkerSourceHolds, PTL DEF WSSpec, Worker!Spec

(* NoSilentSplice holds with every source that the worker makes.           *)
THEOREM NoWorkerSplicesSilently == WSSpec => []NoSilentSplice
<1>1. WSInv => NoSilentSplice
  BY DEF WSInv, ReadInv, ConnectionInv, NoSilentSplice
<1>2. QED
  BY <1>1, WorkerSourceHolds, PTL

(* ShutdownIsPrompt holds of every source that stop() tells.               *)
THEOREM WorkerStopsPromptly == WSSpec => []ShutdownIsPrompt
<1>1. WSInv => ShutdownIsPrompt
  BY DEF WSInv, ReadInv, LateInv, ShutdownIsPrompt
<1>2. QED
  BY <1>1, WorkerSourceHolds, PTL
-----------------------------------------------------------------------------
(* The back-off.                                                           *)

(* The doubled delay may wrap around, but the cap is applied to what is    *)
(* left of it.                                                             *)
LEMMA BackoffIsCapped ==
    ASSUME NEW n \in Nat
    PROVE  calculateBackoffMs(n) \in 0..MaxDelay
<1> DEFINE doubled == InitialDelay * 2^n
           modulus == 2^Width
<1>1. doubled \in Int
  <2>1. 2^n \in Int
    OBVIOUS
  <2>2. \A a \in Nat, b \in Int : a * b \in Int
    OBVIOUS
  <2> HIDE DEF doubled
  <2>3. QED
    BY <2>1, <2>2, PolicyAssumption DEF doubled
<1>2. modulus \in Nat \ {0}
  <2>1. 2^Width \in Int
    BY PolicyAssumption
  <2>2. QED
    BY <2>1, PolicyAssumption
<1> HIDE DEF doubled, modulus
<1>3. doubled % modulus \in Nat
  BY <1>1, <1>2
<1>4. MaxDelay \in Nat
  BY PolicyAssumption
<1>5. calculateBackoffMs(n) = MaxDelay
      \/ calculateBackoffMs(n)
          = IF doubled % modulus < MaxDelay THEN doubled % modulus ELSE MaxDelay
  BY DEF calculateBackoffMs, doubled, modulus
<1>6. QED
  BY <1>3, <1>4, <1>5

(* Jitter keeps a delay within what it makes of the maximum.               *)
LEMMA JitterIsBounded ==
    ASSUME NEW delay \in 0..MaxDelay, NEW t \in Jittered(delay)
    PROVE  t \in Nat /\ \E j \in Jitter : t <= (MaxDelay * (100 + j)) \div 100
<1>1. PICK j \in Jitter : t = (delay * (100 + j)) \div 100
  BY DEF Jittered
<1>2. MaxDelay \in Nat /\ 100 + j \in Nat
  BY PolicyAssumption
<1>3. \A a, b, c \in Nat : a <= b => a * c \in Nat /\ b * c \in Nat /\ a * c <= b * c
  OBVIOUS
<1>4. /\ delay * (100 + j) \in Nat /\ MaxDelay * (100 + j) \in Nat
      /\ delay * (100 + j) <= MaxDelay * (100 + j)
  BY <1>2, <1>3
<1>5. \A a, b \in Nat : a <= b => a \div 100 \in Nat /\ a \div 100 <= b \div 100
  OBVIOUS
<1>6. QED
  BY <1>1, <1>4, <1>5

WaitInv == attempts \in Nat /\ wait \in Nat /\ WaitIsBounded

LEMMA NoWaitIsBounded == \E j \in Jitter : 0 <= (MaxDelay * (100 + j)) \div 100
<1>1. PICK j \in Jitter : TRUE
  BY PolicyAssumption
<1>2. MaxDelay \in Nat /\ 100 + j \in Nat
  BY PolicyAssumption
<1>3. \A a, b \in Nat : 0 <= (a * b) \div 100
  <2>1. \A a, b \in Nat : a * b \in Nat
    OBVIOUS
  <2>2. \A a \in Nat : 0 <= a \div 100
    OBVIOUS
  <2>3. QED
    BY <2>1, <2>2
<1>4. QED
  BY <1>2, <1>3

LEMMA PolicyKeepsWait ==
    ASSUME WaitInv, recordAttempt \/ reset \/ Elapse \/ UNCHANGED policyVars
    PROVE  WaitInv'
<1>1. CASE recordAttempt
  <2>1. calculateBackoffMs(attempts) \in 0..MaxDelay
    BY BackoffIsCapped DEF WaitInv
  <2>2. wait' \in Nat /\ WaitIsBounded'
    BY <1>1, <2>1, JitterIsBounded DEF recordAttempt, WaitIsBounded
  <2>3. attempts' \in Nat
    BY <1>1 DEF recordAttempt, WaitInv
  <2>4. QED
    BY <2>2, <2>3 DEF WaitInv
<1>2. CASE reset
  BY <1>2, NoWaitIsBounded DEF reset, WaitInv, WaitIsBounded
<1>3. CASE Elapse
  <2>1. attempts' \in Nat /\ wait' \in Nat /\ wait' <= wait
    BY <1>3 DEF Elapse, WaitInv
  <2>2. PICK j \in Jitter : wait <= (MaxDelay * (100 + j)) \div 100
    BY DEF WaitInv, WaitIsBounded
  <2>3. (MaxDelay * (100 + j)) \div 100 \in Int
    BY PolicyAssumption
  <2>4. wait' <= (MaxDelay * (100 + j)) \div 100
    BY <2>1, <2>2, <2>3 DEF WaitInv
  <2>5. QED
    BY <2>1, <2>4 DEF WaitInv, WaitIsBounded
<1>4. CASE UNCHANGED policyVars
  BY <1>4 DEF policyVars, WaitInv, WaitIsBounded
<1>5. QED
  BY <1>1, <1>2, <1>3, <1>4

(* WaitIsBounded: no outage, however long, makes the source of a worker    *)
(* wait longer than the configured maximum and its jitter.                 *)
THEOREM BackoffStaysBounded == WSSpec => []WaitIsBounded
<1>1. WSInit => WaitInv
  BY NoWaitIsBounded DEF WSInit, Init, PolicyInit, WaitInv, WaitIsBounded
<1>2. WaitInv /\ [WSNext]_wsVars => WaitInv'
  <2> SUFFICES ASSUME WaitInv, [WSNext]_wsVars PROVE WaitInv'
    OBVIOUS
  <2>1. CASE NewSource
    BY <2>1, PolicyKeepsWait DEF NewSource
  <2>2. CASE ThreadStep
    BY <2>2, PolicyKeepsWait
    DEF ThreadStep, open, Opened, Call, Check, Connect, Reopened, Read,
        PacketRead, ReadFails, Deliver
  <2>3. CASE \/ requestShutdown \/ CameraFails \/ CameraReturns \/ Tick
             \/ UNCHANGED vars
    BY <2>3, PolicyKeepsWait
    DEF requestShutdown, CameraFails, CameraReturns, Tick, vars
  <2>4. QED
    BY <2>1, <2>2, <2>3, SourceStep DEF Next
<1>3. WaitInv => WaitIsBounded
  BY DEF WaitInv
<1>4. QED
  BY <1>1, <1>2, <1>3, PTL DEF WSSpec
=============================================================================
